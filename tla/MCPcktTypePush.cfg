\* By-packet-type subnet selection: the first memory partition (device
\* id = NShader) pushes replies; HasBuffer and Push's selection must agree.
CONSTANTS
  NShader = 1
  NMem = 1
  Subnets = 2
  Vcs = 2
  InputBufferSize = 2
  BoundaryBufferCapacity = 2
  EjectionBufferSize = 0
  VcBufSize = 1
  FlitSize = 32
  AsymFlitSize = 64
  NetSelec = "pckt_type"
  Sizes <- MCSizes
  MaxPackets = 3
SPECIFICATION Spec
INVARIANT HasBufferAdmitsPush
\* The bounded host stops; a drained interconnect has nothing left to do.
CHECK_DEADLOCK FALSE
