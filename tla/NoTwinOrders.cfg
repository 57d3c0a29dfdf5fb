\* One send that takes longer than the lock's 15 seconds.
CONSTANTS
  Products = {p1}
  NoProduct = none
  Workers = {w1, w2}
  MaxAdds = 2
  MaxExpiries = 1
  MaxCrashes = 0
SPECIFICATION Spec
INVARIANT NoTwinOrders
