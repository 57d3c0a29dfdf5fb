CONSTANTS
  Tenants = {t1, t2}
  NoTenant = nobody
  MaxProducts = 3
  MaxEvents = 4
  Requests = {r1, r2}
  MaxItems = 2
  NewStock = 2
  Customers = {c1}
  Pages = {g1}
  MaxQuantity = 2
SPECIFICATION FairSpec
INVARIANTS
  TypeOK
  ConfirmedIsListable
  FaultsLeaveNoId
  StockBacked
PROPERTIES
  CartsStayValid
  FeedFollows
CHECK_DEADLOCK FALSE
