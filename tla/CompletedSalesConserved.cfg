CONSTANTS
  p1 = p1
  p2 = p2
  c1 = c1
  c2 = c2
  c3 = c3
  Products = {p1, p2}
  Checkouts = {c1, c2}
  Cart <- TwoCrossedCart
  Quantity <- MCQuantity
  MaxStock = 2
  MaxEvents = 2
SPECIFICATION Spec
INVARIANTS
  CompletedSalesConserved
CHECK_DEADLOCK FALSE
