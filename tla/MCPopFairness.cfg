\* Fairness of Pop: five single-flit requests to the memory partition
\* spread over two subnets and two VCs, boundary buffers of two flits.
CONSTANTS
  NShader = 1
  NMem = 1
  Subnets = 2
  Vcs = 2
  InputBufferSize = 2
  BoundaryBufferCapacity = 2
  EjectionBufferSize = 0
  VcBufSize = 1
  FlitSize = 32
  AsymFlitSize = 64
  NetSelec = "round_robin"
  Sizes <- MCOneFlitSizes
  MaxPackets = 5
SPECIFICATION Spec
INVARIANT PopRoundRobinFair
CONSTRAINT MCRequestsOnly
\* The bounded host stops; a drained interconnect has nothing left to do.
CHECK_DEADLOCK FALSE
