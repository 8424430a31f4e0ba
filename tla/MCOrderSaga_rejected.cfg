SPECIFICATION SagaSpec
CONSTANTS
  o1 = o1 o2 = o2 box = box g1 = g1 g2 = g2 p1 = p1 p2 = p2
  Orders = {o1, o2}
  Items = {box}
  Stocked = {box}
  InitialStock <- MCInitialStock
  ItemOf <- MCItemOf
  QtyOf <- MCQtyOf
  Placements = {p1, p2}
  OrderOf <- UniqueKeys
  Gateways = {g1}
  GatewayOf <- OneGateway
  MaxAttempts = 2
  Slots = 1
  MaxStalls = 1
  MaxCrashes = 0
  MaxLost = 0
INVARIANTS RejectedHoldsNothing
CHECK_DEADLOCK FALSE
