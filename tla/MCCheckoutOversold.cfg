CONSTANTS
  o1 = o1
  o2 = o2
  o3 = o3
  p1 = p1
  p2 = p2
  w1 = w1
  w2 = w2
  c1 = c1
  c2 = c2
  Orders = {o1, o2, o3}
  Products = {p1, p2}
  Carts <- ThreeCarts
  Messages <- EventsToOrders
  Ids <- EventIds
  Copies <- NothingSent
  Lines <- MCLines
  InitialStock <- MCStock
  SellerMoves = {"APPROVED", "REJECTED", "PROCESSING"}
  MaxSellerRequests = 2
  MaxPayments <- OneEach
  MaxRepeats = 1
  CatalogWorkers = {c1}
  Workers = {w1}
SPECIFICATION CheckoutSpec
INVARIANTS NeverOversold
CHECK_DEADLOCK FALSE
