SPECIFICATION Spec
CONSTANTS
  Deciders = {d1, d2}
  Adapters = {a1, a2}
  Programs <- Separate
  PermitIds = {p1, p2}
  Requests <- MCRequests
  ObservationKeys <- MCKeys
  Handoffs <- MCHandoffs
  StoreIds = {"store A", "store B"}
  StoreIdOf <- TwoStores
  NoStore = NoStore
  PermitTTL = 2
  MaxTime = 3
  MaxSkew = 1
SYMMETRY SymmetryOfAdapters
INVARIANTS
  AtMostOneEffect
  ActingIsCovered
  RevisionCountsTransitions
PROPERTIES
  ImplementsLedger
