\* Safety of the interface under round-robin subnet selection: one shader
\* core and one memory partition, two subnets of two VCs, 1- and 2-flit
\* packets, injection queues of 2 flits, boundary buffers of 2 flits.
CONSTANTS
  NShader = 1
  NMem = 1
  Subnets = 2
  Vcs = 2
  InputBufferSize = 2
  BoundaryBufferCapacity = 2
  EjectionBufferSize = 0
  VcBufSize = 1
  FlitSize = 32
  AsymFlitSize = 64
  NetSelec = "round_robin"
  Sizes <- MCSizes
  MaxPackets = 3
SPECIFICATION Spec
INVARIANT TypeOK
INVARIANT CreditConservation
INVARIANT NoBufferOverflow
INVARIANT HasBufferAdmitsPush
INVARIANT DeliveryIntegrity
INVARIANT BusyUntilDrained
\* A bounded host stops pushing; once Pop has drained the interconnect
\* there is nothing left to do.
CHECK_DEADLOCK FALSE
