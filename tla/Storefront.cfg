CONSTANTS
  Products = {p1}
  NoProduct = none
  Workers = {w1, w2}
  MaxAdds = 2
  MaxExpiries = 2
  MaxCrashes = 1
SPECIFICATION FairSpec
INVARIANTS
  TypeOK
  ContextFits
  SoldOnce
  LateWriteLosesNothing
PROPERTIES
  LockIsFreed
