SPECIFICATION SystemSpec
CONSTANTS
  d1 = d1
  d2 = d2
  a1 = a1
  Deciders = {d1, d2}
  Adapters = {a1}
  Programs <- TwoPrograms
  PermitIds = {p1, p2}
  Requests <- MCRequests
  ObservationKeys <- MCKeys
  Handoffs <- MCViews
  StoreIds = {"store A"}
  StoreIdOf <- OneStore
  NoStore = NoStore
  PermitTTL = 1
  MaxTime = 2
  MaxSkew = 1
  Action <- MCAction
  NoParent = "none"
  ClockSkew = 0
  Views <- MCViews
  Statuses <- MCStatuses
  Deliveries <- MCDeliveries
SYMMETRY Symmetry
INVARIANTS
  RevocationTakesEffect
  OneStory
  OncePerGrant
