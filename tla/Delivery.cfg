SPECIFICATION Spec
CONSTANTS
  Slots = {1, 2}
  Stores = {"A", "B"}
  Batches <- MCBatches
  Policies <- MCPolicies
  OverrideSets <- MCOverrides
  Rank <- HashRank
  Horizon = 4
INVARIANTS
  EveryCopyOnce
  EarlierIsPrefix
  FirstCopyCounts
PROPERTIES
  ImplementsNetwork
CHECK_DEADLOCK FALSE
