CONSTANTS
  Products = {p1, p2}
  Prices <- MCPrices
  Codes = {k1}
  NoCode = none
  Percentages = {1250, 10000}
  Flats = {8}
  MaxUnits = 1
  MaxDay = 2
  MaxEdits = 2
SPECIFICATION Spec
INVARIANTS
  TypeOK
  OrderAddsUp
PROPERTIES
  ChargedAsTold
  CouponCountsToItsLastDay
