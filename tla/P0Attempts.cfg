SPECIFICATION Spec
CONSTANTS
  Adapters = {a1, a2}
  PermitIds = {p1, p2}
  NoParent = "none"
  Keys <- MCKeys
  FirstKeys <- MCFirstKeys
  Receipts <- MCReceipts
  Statuses <- MCStatuses
  Actions <- MCActions
  Tools = {"payments"}
  PermitTTL = 2
  MaxTime = 4
SYMMETRY Symmetry
INVARIANTS
  ActingIsCovered
  BindingsAreThoseOfPermits
  PermitsStayJustified
  AllowsAsSprint3
PROPERTIES
  ImplementsLedger
CHECK_DEADLOCK FALSE
