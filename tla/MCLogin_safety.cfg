SPECIFICATION LoginSpec
CONSTANTS
  Students = {u1}
  Registered = {u1}
  Requests = {r1, r2}
  Limit = 2
  Window = 2
  Lifetime = 2
  MaxClock = 5
INVARIANTS LoginTypeOK BurstsBounded RefusalsEnd SessionCoversToken
CHECK_DEADLOCK FALSE
