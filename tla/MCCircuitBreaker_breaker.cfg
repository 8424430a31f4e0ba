SPECIFICATION BreakerFairSpec
CONSTANTS
  Calls = {c1, c2, c3}
  Capacity = 2
  Slots = 1
  MaxAttempts = 3
  Timeout = 2
  Behaviours = {"answers", "conflicts", "silent"}
  MaxFires = 3
  MaxChanges = 1
INVARIANTS BreakerTypeOK HalfOpenMovesOn OneTrial
PROPERTIES ImplementsBulkhead Recovers
CHECK_DEADLOCK FALSE
