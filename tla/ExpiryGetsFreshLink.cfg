\* One process serving one request at a time, no crashes, a gateway that
\* always answers: what the code does on its best day.
CONSTANTS
  MaxLinks = 3
  Orders = {o1}
  NoOrder = nobody
  Workers = {w1}
  MaxShipments = 1
  MaxCrashes = 0
  GatewayMayFail = FALSE
SPECIFICATION Spec
PROPERTY ExpiryGetsFreshLink
