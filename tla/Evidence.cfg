SPECIFICATION Spec
CONSTANTS
  i1 = i1
  i2 = i2
  i3 = i3
  Interactions = {i1, i2, i3}
  None = None
  Representations = {"SL", "CR", "PR"}
  Messages <- MCMessages
  Facts <- MCFacts
  Registry <- MCRegistry
  ClockSkew = 0
  MaxTime = 2
  MaxDelivered = 5
INVARIANTS
  ReportsTheEvidence
  OnlyConflictsUnmake
  RepresentationsAgree
