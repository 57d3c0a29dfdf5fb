CONSTANTS
  p1 = p1
  p2 = p2
  c1 = c1
  c2 = c2
  c3 = c3
  Products = {p1, p2}
  Checkouts = {c1, c2, c3}
  Cart <- CrossedCart
  Quantity <- MCQuantity
  MaxStock = 2
  MaxEvents = 4
SPECIFICATION FairSpec
INVARIANTS
  TypeOK
  StockConserved
  OrdersAreWhole
PROPERTIES
  CheckoutEnds
  LedgerSpec
CHECK_DEADLOCK FALSE
