CONSTANTS
  MaxLinks = 3
  Orders = {o1}
  NoOrder = nobody
  Workers = {w1, w2}
  MaxShipments = 2
  MaxCrashes = 1
  GatewayMayFail = TRUE
SPECIFICATION FairSpec
INVARIANTS
  TypeOK
  PaidMeansCaptured
  OneChargePerOrder
  ConfirmedOncePerShipment
  ReceiptKept
PROPERTIES
  PaidIsOnlyFulfilled
  CaptureIsRecorded
  ContractSpec
\* The system may stop: every order shipped as often as the bound allows,
\* every link used up, and no event of Razorpay left to come.
CHECK_DEADLOCK FALSE
