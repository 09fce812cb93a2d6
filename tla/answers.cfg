SPECIFICATION AnswersSpec
CONSTANTS
  o1 = o1
  gs1 = gs1
  p1 = p1
  r1 = r1
  r2 = r2
  n1 = n1
  a1 = a1
  worker = worker
  ThirdOrderNos = {o1}
  GsOrderNos = {gs1}
  GsOrderNo <- OneSerial
  Requests = {p1}
  Worker = worker
  RefundNos = {n1}
  RefundRequests = {r1, r2}
  Askers = {a1}
SYMMETRY SymmetricRequests
INVARIANTS
  SuccessMeansReturned
  WaitingMeansAccepted
