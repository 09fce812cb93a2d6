SPECIFICATION Spec
CONSTANTS
  o1 = o1
  o2 = o2
  gs1 = gs1
  gs2 = gs2
  p1 = p1
  p2 = p2
  r1 = r1
  r2 = r2
  n1 = n1
  n2 = n2
  worker = worker
  ThirdOrderNos = {o1, o2}
  GsOrderNos = {gs1, gs2}
  GsOrderNo <- TwoSerials
  Requests = {p1}
  Worker = worker
  RefundNos = {}
  RefundRequests = {}
INVARIANT OneNoticeInFlight
