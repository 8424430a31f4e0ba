SPECIFICATION MCSpec
CONSTANTS
  o1 = o1 o2 = o2 o3 = o3 box = box ghost = ghost r1 = r1 r2 = r2 r3 = r3
  Orders = {o1, o2, o3}
  Items = {box, ghost}
  Stocked = {box}
  InitialStock <- MCInitialStock
  ItemOf <- MCItemOf
  QtyOf <- MCQtyOf
  Requests = {r1, r2, r3}
  Quantities = {1, 2}
  Refreshers = {f1}
  PoolMax = 2
  NoEntry = NoEntry
INVARIANTS NoOversell Conservation AnswersTrue IInv
PROPERTIES NoSilentChange ImplementsInventory AllServed CacheConverges
CHECK_DEADLOCK FALSE
