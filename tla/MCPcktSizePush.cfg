\* By-packet-size subnet selection: HasBuffer checks the subnet a packet's
\* size picks, Push's NetworkSelection the subnet its type picks; both must
\* agree for Push not to trip assert(subnet >= 0).
CONSTANTS
  NShader = 1
  NMem = 1
  Subnets = 2
  Vcs = 2
  InputBufferSize = 2
  BoundaryBufferCapacity = 2
  EjectionBufferSize = 0
  VcBufSize = 1
  FlitSize = 32
  AsymFlitSize = 64
  NetSelec = "pckt_size"
  Sizes <- MCSizes
  MaxPackets = 3
SPECIFICATION Spec
INVARIANT HasBufferAdmitsPush
\* The bounded host stops; a drained interconnect has nothing left to do.
CHECK_DEADLOCK FALSE
