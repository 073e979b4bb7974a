SPECIFICATION Spec
CONSTANTS
  Deciders = {d1, d2}
  Adapters = {a1}
  Programs <- Separate
  PermitIds = {p1, p2}
  Requests <- MCRequests
  ObservationKeys <- MCKeys
  Handoffs <- MCHandoffs
  StoreIds = {"store A", "store B"}
  StoreIdOf <- OneStore
  NoStore = NoStore
  PermitTTL = 2
  MaxTime = 2
  MaxSkew = 1
SYMMETRY Symmetry
INVARIANTS
  RevisionNamesContent
  BindingsAreThoseOfPermits
  AnswersAreTrue
PROPERTIES
  ReservedInTimeOrder
