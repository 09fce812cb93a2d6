SPECIFICATION EndpointsSpec
CONSTANTS
  o1 = o1
  o2 = o2
  gs1 = gs1
  p1 = p1
  p2 = p2
  worker = worker
  ThirdOrderNos = {o1, o2}
  GsOrderNos = {gs1}
  GsOrderNo <- OneSerial
  Requests = {p1, p2}
  Worker = worker
  RefundNos = {}
  RefundRequests = {}
SYMMETRY SymmetricCallers
INVARIANTS
  AckedApprovalIsNotPending
  OneQRAnswered
  RefusedIsNeverPaid
  UnpaidCancelStands
