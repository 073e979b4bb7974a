SPECIFICATION FairSpec
CONSTANTS
  Views <- AllViews
  Statuses <- ManyStatuses
  Genuine <- GenuineStatuses
  Issues = {"EQUIVOCATION"}
  Inputs <- MCInputs
  Action <- MCAction
  NoParent = "none"
  PermitTTL = 2
  ClockSkew = 1
  MaxTime = 4
INVARIANTS
  NoEscalation
  RevocationHeeded
  AllowsExactlyTheAcceptable
  AuditorSeesTheChain
PROPERTIES
  Decides
CHECK_DEADLOCK FALSE
