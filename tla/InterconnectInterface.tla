------------------------ MODULE InterconnectInterface ------------------------
(***************************************************************************)
(* The host-facing interconnect interface of intersim2                     *)
(* (src/src/intersim2/interconnect_interface.cpp) and the part of the      *)
(* network it talks to.                                                    *)
(*                                                                         *)
(*  - Push: HasBuffer precondition, flit count, the subnet-selection loop  *)
(*    over NetworkSelection/NetworkHasBuffer, and the flits of the packet  *)
(*    appended to the chosen subnet's injection queue;                     *)
(*  - RouterEject: the network carrying the head flit of an injection      *)
(*    queue to the ejection port of its destination, holding an ejection   *)
(*    VC from head to tail and spending one ejection credit per flit,      *)
(*    ending in WriteOutBuffer (the router and traffic manager are not in  *)
(*    src/: this step is modelled from the spec);                          *)
(*  - Transfer2BoundaryBuffer, GetEjectedFlit (with the credit it returns) *)
(*    and Pop with its round-robin cursors over subnets and VCs.           *)
(*                                                                         *)
(* The node map is the identity (use_map = 0), so device and icnt ids      *)
(* coincide.  A flit is a record naming its packet; a packet's payload is  *)
(* its id.                                                                 *)
(***************************************************************************)
EXTENDS Integers, Sequences, FiniteSets

CONSTANTS
  NShader, NMem,             \* _n_shader, _n_mem
  Subnets,                   \* config "subnets"
  Vcs,                       \* config "num_vcs"
  InputBufferSize,           \* config "input_buffer_size" (0 = unset)
  BoundaryBufferCapacity,    \* config "boundary_buffer_size" (flits)
  EjectionBufferSize,        \* config "ejection_buffer_size" (0 = unset)
  VcBufSize,                 \* config "vc_buf_size": ejection credits per VC
  FlitSize, AsymFlitSize,    \* config "flit_size", "asym_flit_size" (bits)
  NetSelec,                  \* gNetSelec
  Sizes,                     \* packet sizes (bytes) the host pushes
  MaxPackets                 \* bound on the number of packets pushed

PcktType == "pckt_type"
RoundRobin == "round_robin"
Random == "random"
PcktSize == "pckt_size"

ASSUME NetSelec \in {PcktType, RoundRobin, Random, PcktSize}
ASSUME /\ NShader \in Nat \ {0} /\ NMem \in Nat \ {0}
       /\ Subnets \in Nat \ {0} /\ Vcs \in Nat \ {0}
       /\ NetSelec \in {PcktType, PcktSize} => Subnets >= 2
ASSUME /\ BoundaryBufferCapacity \in Nat \ {0}   \* assert(_boundary_buffer_capacity)
       /\ {InputBufferSize, EjectionBufferSize, VcBufSize, MaxPackets} \subseteq Nat
       /\ FlitSize \in Nat \ {0} /\ AsymFlitSize \in Nat \ {0}
       /\ Sizes \subseteq Nat \ {0}

VARIABLES
  inputQueue,      \* _traffic_manager->_input_queue[subnet][node][0]
  vcOwner,         \* [subnet][node][vc]: packet holding the ejection VC, or 0
  credits,         \* [subnet][node][vc]: ejection credits of the router
  ejection,        \* _ejection_buffer[subnet][node][vc]
  ejected,         \* _ejected_flit_queue[subnet][node]
  boundary,        \* _boundary_buffer[subnet][node][vc]: <<data, tail>> flits
  rrTurn,          \* _round_robin_turn[subnet][node]
  rrSubnetTurn,    \* _round_robin_subnet_turn[node]
  gSubnet,         \* global cursor of the round_robin selection policy
  pushFailed,      \* assert(subnet >= 0) in Push has fired
  sentTo,          \* history: packet id -> destination node (-1: not pushed)
  popped,          \* history: packet id -> number of times Pop returned it
  overtaken        \* history: [node][<<subnet, vc>>] Pops of other pairs while
                   \* this pair held a packet, since it was last served

vars == <<inputQueue, vcOwner, credits, ejection, ejected, boundary, rrTurn,
          rrSubnetTurn, gSubnet, pushFailed, sentTo, popped, overtaken>>

Nodes == 0 .. NShader + NMem - 1
SubnetIds == 0 .. Subnets - 1
VcIds == 0 .. Vcs - 1
Pairs == SubnetIds \X VcIds
PacketIds == 1 .. MaxPackets

\* mem_fetch types; Push translates them one-to-one into Flit types.
READ_REQUEST == "READ_REQUEST"
WRITE_REQUEST == "WRITE_REQUEST"
READ_REPLY == "READ_REPLY"
WRITE_ACK == "WRITE_ACK"

Flit == [pkt : PacketIds, head : BOOLEAN, tail : BOOLEAN, dest : Nodes]

CeilDiv(a, b) == (a \div b) + (IF a % b # 0 THEN 1 ELSE 0)

(* CreateInterconnect: ejection buffer capacity falls back to vc_buf_size. *)
EjectionCapacity == IF EjectionBufferSize # 0 THEN EjectionBufferSize ELSE VcBufSize

(* CreateInterconnect: _input_buffer_capacity, 16 flits when unset. *)
InputBufferCapacity == IF InputBufferSize # 0 THEN InputBufferSize ELSE 16

Pushed == {p \in PacketIds : sentTo[p] # -1}
NextPacket == Cardinality(Pushed) + 1

-----------------------------------------------------------------------------
(* Admission control *)

(* InterconnectInterface::NetworkHasBuffer *)
NetworkHasBuffer(subnet, icntID, n_flits) ==
  Len(inputQueue[subnet][icntID]) + n_flits <= InputBufferCapacity

(* InterconnectInterface::HasBuffer: the injection queue the policy would *)
(* use has room for the packet's flits.                                   *)
HasBuffer(deviceID, size) ==
  LET size_n_bits == size * 8
      n_flits == CeilDiv(size_n_bits, FlitSize)
      Fits(net, nf) == Len(inputQueue[net][deviceID]) + nf <= InputBufferCapacity
  IN CASE NetSelec = PcktType ->
            Fits(IF deviceID > NShader THEN 1 ELSE 0, n_flits)
       [] NetSelec \in {RoundRobin, Random} ->
            \E net \in SubnetIds : Fits(net, n_flits)
       [] NetSelec = PcktSize ->
            IF size_n_bits <= FlitSize THEN Fits(0, n_flits)
            ELSE Fits(1, CeilDiv(size_n_bits, AsymFlitSize))

(* InterconnectInterface::NetworkSelection, for the policies that do not  *)
(* depend on a cursor or on chance.                                      *)
FixedSelection(pckt_type, icntID) ==
  CASE NetSelec = PcktType -> IF icntID < NShader THEN 0 ELSE 1
    [] NetSelec = PcktSize -> IF pckt_type \in {READ_REQUEST, WRITE_ACK} THEN 0 ELSE 1

(* Fault model: a selection loop that reuses its first NetworkSelection  *)
(* result instead of asking again on every iteration.                     *)
CandidatesNoRetry(pckt_type, icntID, draws) ==
  [i \in 1 .. Subnets |-> IF NetSelec = RoundRobin THEN gSubnet
                          ELSE IF NetSelec = Random THEN draws[1]
                          ELSE FixedSelection(pckt_type, icntID)]

(* The subnets successive NetworkSelection calls of Push's loop return:  *)
(* round_robin advances gSubnet on every call, random draws             *)
(* RandomInt(_subnets-1) each time (one draw per element of `draws`).   *)
Candidates(pckt_type, icntID, draws) ==
  CASE NetSelec = RoundRobin -> [i \in 1 .. Subnets |-> (gSubnet + i - 1) % Subnets]
    [] NetSelec = Random     -> draws
    [] OTHER                 -> [i \in 1 .. Subnets |-> FixedSelection(pckt_type, icntID)]

(* Flits of a packet as _GeneratePacket queues them: head first, tail last. *)
PacketFlits(id, n_flits, dst) ==
  [i \in 1 .. n_flits |-> [pkt |-> id, head |-> (i = 1), tail |-> (i = n_flits),
                           dest |-> dst]]

(* InterconnectInterface::Push.  The caller has checked HasBuffer; the     *)
(* loop tries _subnets selections and takes the first with room; none     *)
(* found trips assert(subnet >= 0).                                       *)
Push(input_deviceID, output_deviceID, size, pckt_type, draws) ==
  LET size_n_bits == size * 8
      n_flits == IF NetSelec = PcktSize THEN CeilDiv(size_n_bits, AsymFlitSize)
                 ELSE CeilDiv(size_n_bits, FlitSize)
      cand == Candidates(pckt_type, input_deviceID, draws)
      fits == {i \in 1 .. Subnets :
                 NetworkHasBuffer(cand[i], input_deviceID, n_flits)}
      tries == IF fits = {} THEN Subnets
               ELSE CHOOSE i \in fits : \A j \in fits : i <= j
      id == NextPacket
  IN /\ ~pushFailed
     /\ id \in PacketIds
     /\ HasBuffer(input_deviceID, size)
     /\ gSubnet' = IF NetSelec = RoundRobin THEN (gSubnet + tries) % Subnets
                   ELSE gSubnet
     /\ IF fits = {}
          THEN /\ pushFailed' = TRUE
               /\ UNCHANGED <<inputQueue, sentTo>>
          ELSE LET subnet == cand[tries] IN
               /\ inputQueue' = [inputQueue EXCEPT ![subnet][input_deviceID] =
                                   @ \o PacketFlits(id, n_flits, output_deviceID)]
               /\ sentTo' = [sentTo EXCEPT ![id] = output_deviceID]
               /\ UNCHANGED pushFailed
     /\ UNCHANGED <<vcOwner, credits, ejection, ejected, boundary, rrTurn,
                    rrSubnetTurn, popped, overtaken>>

(* The requests a shader core sends to a memory partition and the replies *)
(* a memory partition sends back.                                         *)
HostPush ==
  \E src \in Nodes, dst \in Nodes, size \in Sizes,
     draws \in [1 .. Subnets -> IF NetSelec = Random THEN SubnetIds ELSE {0}] :
    \/ /\ src < NShader /\ dst >= NShader
       /\ \E t \in {READ_REQUEST, WRITE_REQUEST} : Push(src, dst, size, t, draws)
    \/ /\ src >= NShader /\ dst < NShader
       /\ \E t \in {READ_REPLY, WRITE_ACK} : Push(src, dst, size, t, draws)

-----------------------------------------------------------------------------
(* Ejection path *)

(* InterconnectInterface::WriteOutBuffer: append the flit to the ejection *)
(* queue of its VC (the capacity assert is the invariant NoBufferOverflow). *)
WriteOutBuffer(subnet, output_icntID, flit) ==
  [ejection EXCEPT ![subnet][output_icntID][flit.vc] = Append(@, flit)]

(* The network delivers the head flit of an injection queue to the       *)
(* ejection port of its destination.  A head flit takes a free ejection  *)
(* VC with a credit, later flits follow on the VC their packet holds,    *)
(* and the tail frees it; each flit spends one credit.                   *)
RouterEject(subnet, src) ==
  /\ inputQueue[subnet][src] # <<>>
  /\ LET f == Head(inputQueue[subnet][src])
         d == f.dest
         held == {v \in VcIds : vcOwner[subnet][d][v] = f.pkt}
         usable == IF f.head THEN {v \in VcIds : vcOwner[subnet][d][v] = 0}
                   ELSE held
     IN \E v \in usable :
          /\ credits[subnet][d][v] > 0
          /\ credits' = [credits EXCEPT ![subnet][d][v] = @ - 1]
          /\ vcOwner' = [vcOwner EXCEPT ![subnet][d][v] = IF f.tail THEN 0 ELSE f.pkt]
          /\ ejection' = WriteOutBuffer(subnet, d, [pkt |-> f.pkt, head |-> f.head, tail |-> f.tail,
                                                  dest |-> d, vc |-> v])
          /\ inputQueue' = [inputQueue EXCEPT ![subnet][src] = Tail(@)]
  /\ UNCHANGED <<ejected, boundary, rrTurn, rrSubnetTurn, gSubnet, pushFailed,
                 sentTo, popped, overtaken>>

(* _BoundaryBufferItem::PushFlitData: queue the flit's data and tail flag. *)
PushFlitData(buf, data, is_tail) == Append(buf, [data |-> data, tail |-> is_tail])

(* Fault model: the boundary-buffer room test written with <=.           *)
Transfer2BoundaryBufferInclusive(subnet, output) ==
  LET Moves(vc) == /\ ejection[subnet][output][vc] # <<>>
                   /\ Len(boundary[subnet][output][vc]) <= BoundaryBufferCapacity
      moved == SelectSeq([i \in 1 .. Vcs |-> i - 1], Moves)
  IN /\ moved # <<>>
     /\ ejection' = [ejection EXCEPT ![subnet][output] =
                       [vc \in VcIds |-> IF Moves(vc) THEN Tail(@[vc]) ELSE @[vc]]]
     /\ boundary' = [boundary EXCEPT ![subnet][output] =
                       [vc \in VcIds |->
                          IF Moves(vc)
                          THEN LET flit == Head(ejection[subnet][output][vc])
                               IN PushFlitData(@[vc], flit.pkt, flit.tail)
                          ELSE @[vc]]]
     /\ ejected' = [ejected EXCEPT ![subnet][output] =
                      @ \o [j \in 1 .. Len(moved) |-> Head(ejection[subnet][output][moved[j]])]]
     /\ UNCHANGED <<inputQueue, vcOwner, credits, rrTurn, rrSubnetTurn, gSubnet,
                    pushFailed, sentTo, popped, overtaken>>

(* InterconnectInterface::Transfer2BoundaryBuffer: for every VC in order, *)
(* move the front ejected flit into the boundary buffer if that has room, *)
(* and queue it in _ejected_flit_queue for its credit.                    *)
Transfer2BoundaryBuffer(subnet, output) ==
  LET Moves(vc) == /\ ejection[subnet][output][vc] # <<>>
                   /\ Len(boundary[subnet][output][vc]) < BoundaryBufferCapacity
      moved == SelectSeq([i \in 1 .. Vcs |-> i - 1], Moves)
  IN /\ moved # <<>>
     /\ ejection' = [ejection EXCEPT ![subnet][output] =
                       [vc \in VcIds |-> IF Moves(vc) THEN Tail(@[vc]) ELSE @[vc]]]
     /\ boundary' = [boundary EXCEPT ![subnet][output] =
                       [vc \in VcIds |->
                          IF Moves(vc)
                          THEN LET flit == Head(ejection[subnet][output][vc])
                               IN PushFlitData(@[vc], flit.pkt, flit.tail)
                          ELSE @[vc]]]
     /\ ejected' = [ejected EXCEPT ![subnet][output] =
                      @ \o [j \in 1 .. Len(moved) |-> Head(ejection[subnet][output][moved[j]])]]
     /\ UNCHANGED <<inputQueue, vcOwner, credits, rrTurn, rrSubnetTurn, gSubnet,
                    pushFailed, sentTo, popped, overtaken>>

(* Fault model: the flit is dropped without its credit being returned. *)
GetEjectedFlitNoCredit(subnet, node) ==
  /\ ejected[subnet][node] # <<>>
  /\ ejected' = [ejected EXCEPT ![subnet][node] = Tail(@)]
  /\ UNCHANGED <<inputQueue, vcOwner, credits, ejection, boundary, rrTurn,
                 rrSubnetTurn, gSubnet, pushFailed, sentTo, popped, overtaken>>

(* InterconnectInterface::GetEjectedFlit, and the credit the traffic      *)
(* manager sends back to the ejection port for the flit it returns.       *)
GetEjectedFlit(subnet, node) ==
  /\ ejected[subnet][node] # <<>>
  /\ LET flit == Head(ejected[subnet][node])
     IN credits' = [credits EXCEPT ![subnet][node][flit.vc] = @ + 1]
  /\ ejected' = [ejected EXCEPT ![subnet][node] = Tail(@)]
  /\ UNCHANGED <<inputQueue, vcOwner, ejection, boundary, rrTurn, rrSubnetTurn,
                 gSubnet, pushFailed, sentTo, popped, overtaken>>

-----------------------------------------------------------------------------
(* Pop *)

(* _BoundaryBufferItem::HasPacket: a tail flit has arrived. *)
HasPacket(subnet, node, vc) ==
  \E i \in 1 .. Len(boundary[subnet][node][vc]) : boundary[subnet][node][vc][i].tail

(* The traffic manager's _total_in_flight_flits[0]: flits are counted    *)
(* from the injection queue until the traffic manager retires them, when  *)
(* GetEjectedFlit hands them back for their credit.                       *)
InFlight ==
  \E s \in SubnetIds, nd \in Nodes :
    \/ inputQueue[s][nd] # <<>>
    \/ ejected[s][nd] # <<>>
    \/ \E v \in VcIds : ejection[s][nd][v] # <<>>

(* Fault model: Busy without its scan of the boundary buffers. *)
BusyNoBoundary == InFlight

(* InterconnectInterface::Busy: flits in flight, or a whole packet        *)
(* waiting in some boundary buffer.                                       *)
Busy ==
  \/ InFlight
  \/ \E s \in SubnetIds, nd \in Nodes, v \in VcIds : HasPacket(s, nd, v)

(* _BoundaryBufferItem::PopPacket: drop flits up to and including the     *)
(* first tail; the data returned is the tail's.                           *)
FirstTail(b) == CHOOSE i \in 1 .. Len(b) : b[i].tail /\ \A j \in 1 .. i - 1 : ~b[j].tail
\* Fault model: only the front flit is dropped.
PopPacketHeadOnly(b) == Tail(b)
PopPacket(b) == SubSeq(b, FirstTail(b) + 1, Len(b))
PacketData(b) == b[FirstTail(b)].data

(* Pop's cursor steps: turn++ / subnet++ with wrap-around to 0. *)
NextTurn(turn) == IF turn + 1 = Vcs THEN 0 ELSE turn + 1

\* Fault model: the wrap-around of the subnet cursor is forgotten.
NextSubnetNoWrap(subnet) == subnet + 1
NextSubnet(subnet) == IF subnet + 1 = Subnets THEN 0 ELSE subnet + 1

(* InterconnectInterface::Pop.  Subnets are scanned from the node's       *)
(* subnet cursor, and in each subnet the VCs from that subnet's turn; the *)
(* first boundary buffer holding a packet is served.  After the scan the  *)
(* code has already stepped `subnet` past the served one, so the turn it  *)
(* saves lands in _round_robin_turn of the NEXT subnet.                   *)
Pop(deviceID) ==
  LET icntID == deviceID
      start == rrSubnetTurn[icntID]
      SubnetAt(sn) == (start + sn) % Subnets
      VcAt(sn, j) == (rrTurn[SubnetAt(sn)][icntID] + j) % Vcs
      hits == {<<sn, j>> \in (0 .. Subnets - 1) \X (0 .. Vcs - 1) :
                 HasPacket(SubnetAt(sn), icntID, VcAt(sn, j))}
      first == CHOOSE h \in hits : \A g \in hits :
                 h[1] < g[1] \/ (h[1] = g[1] /\ h[2] <= g[2])
      sub == SubnetAt(first[1])
      vc == VcAt(first[1], first[2])
      turn == NextTurn(vc)
      subnet == NextSubnet(sub)
      b == boundary[sub][icntID][vc]
  IN /\ hits # {}
     /\ boundary' = [boundary EXCEPT ![sub][icntID][vc] = PopPacket(b)]
     /\ rrTurn' = [rrTurn EXCEPT ![subnet][icntID] = turn]
     /\ rrSubnetTurn' = [rrSubnetTurn EXCEPT ![icntID] = subnet]
     /\ popped' = [popped EXCEPT ![PacketData(b)] = @ + 1]
     /\ overtaken' = [overtaken EXCEPT ![icntID] =
                        [p \in Pairs |->
                           IF p = <<sub, vc>> \/ ~HasPacket(p[1], icntID, p[2]) THEN 0
                           ELSE @[p] + 1]]
     /\ UNCHANGED <<inputQueue, vcOwner, credits, ejection, ejected, gSubnet,
                    pushFailed, sentTo>>

-----------------------------------------------------------------------------

(* _CreateBuffer, with every ejection credit of the routers available. *)
Init ==
  /\ inputQueue = [s \in SubnetIds |-> [nd \in Nodes |-> <<>>]]
  /\ vcOwner = [s \in SubnetIds |-> [nd \in Nodes |-> [v \in VcIds |-> 0]]]
  /\ credits = [s \in SubnetIds |-> [nd \in Nodes |-> [v \in VcIds |-> VcBufSize]]]
  /\ ejection = [s \in SubnetIds |-> [nd \in Nodes |-> [v \in VcIds |-> <<>>]]]
  /\ ejected = [s \in SubnetIds |-> [nd \in Nodes |-> <<>>]]
  /\ boundary = [s \in SubnetIds |-> [nd \in Nodes |-> [v \in VcIds |-> <<>>]]]
  /\ rrTurn = [s \in SubnetIds |-> [nd \in Nodes |-> 0]]
  /\ rrSubnetTurn = [nd \in Nodes |-> 0]
  /\ gSubnet = 0
  /\ pushFailed = FALSE
  /\ sentTo = [p \in PacketIds |-> -1]
  /\ popped = [p \in PacketIds |-> 0]
  /\ overtaken = [nd \in Nodes |-> [p \in Pairs |-> 0]]

(* One cycle of Advance() runs, for every subnet and node, the network,   *)
(* Transfer2BoundaryBuffer and GetEjectedFlit; the host pushes and pops.  *)
Network ==
  \E s \in SubnetIds, nd \in Nodes :
    \/ RouterEject(s, nd)
    \/ Transfer2BoundaryBuffer(s, nd)
    \/ GetEjectedFlit(s, nd)

HostPop == \E nd \in Nodes : Pop(nd)

Next == HostPush \/ Network \/ HostPop

Spec == Init /\ [][Next]_vars

-----------------------------------------------------------------------------
(* Properties *)

EjectedFlit == [pkt : PacketIds, head : BOOLEAN, tail : BOOLEAN, dest : Nodes, vc : VcIds]

TypeOK ==
  /\ inputQueue \in [SubnetIds -> [Nodes -> Seq(Flit)]]
  /\ vcOwner \in [SubnetIds -> [Nodes -> [VcIds -> 0 .. MaxPackets]]]
  /\ credits \in [SubnetIds -> [Nodes -> [VcIds -> 0 .. VcBufSize]]]
  /\ ejection \in [SubnetIds -> [Nodes -> [VcIds -> Seq(EjectedFlit)]]]
  /\ ejected \in [SubnetIds -> [Nodes -> Seq(EjectedFlit)]]
  /\ boundary \in [SubnetIds -> [Nodes -> [VcIds -> Seq([data : PacketIds, tail : BOOLEAN])]]]
  /\ rrTurn \in [SubnetIds -> [Nodes -> VcIds]]
  /\ rrSubnetTurn \in [Nodes -> SubnetIds]
  /\ gSubnet \in SubnetIds
  /\ pushFailed \in BOOLEAN
  /\ sentTo \in [PacketIds -> Nodes \cup {-1}]
  /\ popped \in [PacketIds -> Nat]

(* Credit conservation on the ejection port: for every subnet, node and   *)
(* VC, the router's credits plus the flits sitting in the ejection buffer *)
(* plus the flits moved on by Transfer2BoundaryBuffer whose credit        *)
(* GetEjectedFlit has not yet returned always add up to vc_buf_size: no   *)
(* credit is lost, returned twice, or returned before its slot is free.   *)
CreditConservation ==
  \A s \in SubnetIds, nd \in Nodes, v \in VcIds :
    LET pending == Len(SelectSeq(ejected[s][nd], LAMBDA f : f.vc = v))
    IN credits[s][nd][v] + Len(ejection[s][nd][v]) + pending = VcBufSize

(* No interface buffer exceeds its capacity: the injection queues stay    *)
(* within _input_buffer_capacity (HasBuffer admits only what Push can     *)
(* place), the ejection buffers within the capacity WriteOutBuffer        *)
(* asserts, and the boundary buffers within boundary_buffer_size.         *)
NoBufferOverflow ==
  \A s \in SubnetIds, nd \in Nodes :
    /\ Len(inputQueue[s][nd]) <= InputBufferCapacity
    /\ \A v \in VcIds :
         /\ Len(ejection[s][nd][v]) <= EjectionCapacity
         /\ Len(boundary[s][nd][v]) <= BoundaryBufferCapacity

(* Push never trips assert(subnet >= 0) when the host has checked         *)
(* HasBuffer first: HasBuffer and Push's selection loop agree.            *)
HasBufferAdmitsPush == ~pushFailed

(* Every boundary buffer holds whole packets one after another, so the    *)
(* assertion in PopPacket that all flits up to the tail carry the same    *)
(* data never fires; and Pop returns a packet only at its destination and *)
(* at most once.                                                          *)
DeliveryIntegrity ==
  /\ \A s \in SubnetIds, nd \in Nodes, v \in VcIds :
       LET b == boundary[s][nd][v]
       IN \A i \in 1 .. Len(b) - 1 : ~b[i].tail => b[i + 1].data = b[i].data
  /\ \A s \in SubnetIds, nd \in Nodes, v \in VcIds :
       \A i \in 1 .. Len(boundary[s][nd][v]) : sentTo[boundary[s][nd][v][i].data] = nd
  /\ \A p \in PacketIds : popped[p] <= 1

(* Fair popping: while a (subnet, VC) boundary buffer of a node holds a   *)
(* packet, Pop at that node serves the other pairs at most               *)
(* subnets*vcs - 1 times before serving it.                              *)
PopRoundRobinFair ==
  \A nd \in Nodes, p \in Pairs : overtaken[nd][p] <= Subnets * Vcs - 1

(* The host stops simulating once Busy() is false (spec: "used by the    *)
(* host to know when draining is complete"): by then every packet it      *)
(* pushed has been returned by Pop, and no flit is left in a boundary     *)
(* buffer.                                                                *)
BusyUntilDrained ==
  ~Busy => /\ \A p \in Pushed : popped[p] = 1
           /\ \A s \in SubnetIds, nd \in Nodes, v \in VcIds : boundary[s][nd][v] = <<>>

=============================================================================
