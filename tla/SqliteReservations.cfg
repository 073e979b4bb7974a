SPECIFICATION Spec
CONSTANTS
  d1 = d1
  d2 = d2
  a1 = a1
  a2 = a2
  Deciders = {d1, d2}
  Adapters = {a2}
  Programs <- GatesAndStranger
  PermitIds = {p1, p2}
  Requests <- TwoRequests
  ObservationKeys <- MCKeys
  Handoffs <- MCHandoffs
  StoreIds = {"store A", "store B"}
  StoreIdOf <- OtherStore
  NoStore = NoStore
  Nobody = Nobody
  PermitTTL = 1
  MaxTime = 1
SYMMETRY PermitSymmetry
PROPERTIES
  ImplementsAtomicStore
