SPECIFICATION FairSpec
CONSTANTS
  o1 = o1
  o2 = o2
  o3 = o3
  Orders = {o1, o2, o3}
  BatchSize = 2
  Hopeless = {o1}
PROPERTIES
  StuckOrdersGetTheirTurn
  PaymentsGetTheirTurn
