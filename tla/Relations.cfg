SPECIFICATION FairSpec
CONSTANTS
  Interactions = {a, b, c}
  Handoffs <- AllHandoffs
  NoParent = NoParent
  ClockSkew = 0
INVARIANTS
  ReportsTheUnfounded
PROPERTIES
  Ends
CHECK_DEADLOCK FALSE
