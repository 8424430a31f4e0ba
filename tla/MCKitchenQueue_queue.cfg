SPECIFICATION KitchenFairSpec
CONSTANTS
  Jobs = {j1, j2}
  Replicas = {g1, g2}
  Concurrency = 2
  Keep = 1
  MaxStalls = 1
  MaxCrashes = 3
  MaxLapses = 2
INVARIANTS KitchenTypeOK QueueSound FinalizedOncePerReplica
PROPERTIES ImplementsJobQueue EveryJobEnds
CHECK_DEADLOCK FALSE
