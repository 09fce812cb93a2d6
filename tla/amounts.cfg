SPECIFICATION Spec
CONSTANTS
  MaxCents = 30000
  OtherAmounts = {1, 30000}
INVARIANTS
  AtMostACentIsLost
  ChargedAsTold
  WholeRefundIsReturned
CHECK_DEADLOCK FALSE
