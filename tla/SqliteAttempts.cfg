SPECIFICATION FairSpec
CONSTANTS
  d1 = d1
  d2 = d2
  a1 = a1
  a2 = a2
  Deciders = {d1}
  Adapters = {a1, a2}
  Programs <- GateAndAdapters
  PermitIds = {p1}
  Requests <- OneRequest
  ObservationKeys <- MCKeys
  Handoffs <- MCHandoffs
  StoreIds = {"store A"}
  StoreIdOf <- SameStore
  NoStore = NoStore
  Nobody = Nobody
  PermitTTL = 1
  MaxTime = 1
INVARIANTS
  NothingLeftOpen
PROPERTIES
  LocksComeFree
  ImplementsAtomicStore
