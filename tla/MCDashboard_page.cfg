SPECIFICATION DashFairSpec
CONSTANTS
  MaxOrders = 2
  Polls = {1}
INVARIANTS ShownIsTrue DashInv
PROPERTIES StageNotBack FollowsHistory
CHECK_DEADLOCK FALSE
