SPECIFICATION PreparedSpec
CONSTANTS
  Views <- Candidates
  Statuses <- OneStatus
  Genuine <- OneStatus
  Issues = {"ENDPOINT_MISSING"}
  Action <- MCAction
  NoParent = "none"
  Interactions = {"i1", "i2", "i3", "i4", "i5"}
  PermitTTL = 2
  ClockSkew = 0
  ValidationSkew = 0
  MaxTime = 3
  Inputs = {}
INVARIANTS
  GateFindsNoBrokenChain
  OneBadHandoffPauses
CHECK_DEADLOCK FALSE
