CONSTANTS
  Orders = {1, 2, 3}
  SKUs = {1, 2, 3}
  Catalog = {1, 2}
  Stock <- MCStock
  Carts <- MCCarts
  Outages = {"Available", "Reserve", "Release"}
SPECIFICATION FairSpec
INVARIANTS
  StockAccounted
  EnoughForAll
PROPERTIES
  ImplementsLedger
  OrdersAnswered
CHECK_DEADLOCK FALSE
