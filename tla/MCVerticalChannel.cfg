\* Build every k x n x s mesh with k, n, s in 1..3, registering each router
\* on its column's two buses, and check the wiring and the bus lookups.
CONSTANTS
  KRange = {1, 2, 3}
  NRange = {1, 2, 3}
  SRange = {1, 2, 3}
SPECIFICATION Spec
INVARIANTS
  TypeOK
  TopoTypeOK
  TopoCoordinateBijection
  TopoPlanarChannelsWellFormed
  TopoVerticalBusWiring
  VerticalLookupsResolve
  BusPortsAgree
\* _BuildNet ends once every router is built.
CHECK_DEADLOCK FALSE
