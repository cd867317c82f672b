--------------------------- MODULE Mesh3DTopology ---------------------------
(***************************************************************************)
(* Construction of the k x n x s mesh with vertical bus channels           *)
(* (src/src/intersim2/networks/mesh3D.cpp).                                *)
(*                                                                         *)
(* The dimensions are chosen in Init among the configurations the bounds   *)
(* allow; each BuildRouter step is one iteration of the node loop of       *)
(* Mesh3D::_BuildNet: it creates the router of `node`, wires its planar    *)
(* input and output channels through _adjacentNode/_adjacentChannel, its   *)
(* two vertical buses and their arbiters.  The wiring is recorded as sets  *)
(* of (channel, router) pairs so that the properties can ask whether the   *)
(* closed-form channel indexing gives every link its own channel.          *)
(***************************************************************************)
EXTENDS Integers, FiniteSets
LOCAL INSTANCE FiniteSetsExt

CONSTANTS
  KRange,   \* values of config "k" (x extent) to explore
  NRange,   \* values of config "n" (y extent)
  SRange    \* values of config "s" (stack depth)

ASSUME KRange \subseteq Nat \ {0} /\ NRange \subseteq Nat \ {0}
ASSUME SRange \subseteq Nat \ {0}

VARIABLES
  k, n, s,      \* Mesh3D::_k, _n, _s
  node,         \* loop index of _BuildNet
  outs,         \* {[ch, router, dir]}: AddOutputChannel(_chan[ch]) calls
  ins,          \* {[ch, router, dir]}: AddInputChannel(_chan[ch]) calls
  vouts,        \* {[ch, cred, router]}: AddOutputChannel(_chan_ver[ch], _chan_cred[cred], true)
  vins,         \* {[ch, cred, router]}: AddInputChannel(_chan_ver[ch], _chan_cred[cred], true)
  arbiters,     \* router -> <<up arbiter index, down arbiter index>>
  declared,     \* router -> port count passed to Router::NewRouter
  wired         \* router -> number of input channels actually added

vars == <<k, n, s, node, outs, ins, vouts, vins, arbiters, declared, wired>>

\* Coordinate names of mesh3D.hpp and the planar port numbers of the router.
X == 0
Y == 1
Z == 2
Left == 0
Right == 1
Front == 2
Back == 3
NETWORK_EDGE == -1

MaxNodes == Max(KRange) * Max(NRange) * Max(SRange)

(* Mesh3D::_ComputeSize *)
Size == k * n * s
StackSize == k * n
VChannels == k * n * 2
Channels == (((k * (n - 1)) + (n * (k - 1))) * s) * 2

\* Fault model: the in-layer offset divided by n instead of k.
FindCoordinateDivN(cord, nd) ==
  CASE cord = X -> nd % k
    [] cord = Y -> (nd - ((nd \div StackSize) * StackSize)) \div n
    [] cord = Z -> nd \div StackSize

(* Mesh3D::findCoordinate *)
FindCoordinate(cord, nd) ==
  CASE cord = X -> nd % k
    [] cord = Y -> (nd - ((nd \div StackSize) * StackSize)) \div k
    [] cord = Z -> nd \div StackSize

\* Fault model: the back edge tested on the node index instead of y.
AdjacentNodeBackByIndex(nd, dir) ==
  CASE dir = Left  -> IF FindCoordinate(X, nd) # 0     THEN nd - 1 ELSE NETWORK_EDGE
    [] dir = Right -> IF FindCoordinate(X, nd) # k - 1 THEN nd + 1 ELSE NETWORK_EDGE
    [] dir = Front -> IF FindCoordinate(Y, nd) # n - 1 THEN nd + k ELSE NETWORK_EDGE
    [] dir = Back  -> IF nd - k >= 0                   THEN nd - k ELSE NETWORK_EDGE

(* Mesh3D::_adjacentNode: the neighbour through a planar port, or EDGE. *)
AdjacentNode(nd, dir) ==
  CASE dir = Left  -> IF FindCoordinate(X, nd) # 0     THEN nd - 1 ELSE NETWORK_EDGE
    [] dir = Right -> IF FindCoordinate(X, nd) # k - 1 THEN nd + 1 ELSE NETWORK_EDGE
    [] dir = Front -> IF FindCoordinate(Y, nd) # n - 1 THEN nd + k ELSE NETWORK_EDGE
    [] dir = Back  -> IF FindCoordinate(Y, nd) # 0     THEN nd - k ELSE NETWORK_EDGE

\* Fault model: the last column's back channel written as 4x like its front one.
AdjacentChannelBackTypo(nd, dir) ==
  LET x == FindCoordinate(X, nd)
      y == FindCoordinate(Y, nd)
      z == FindCoordinate(Z, nd)
      ch_per_k == 4 * k - 2
      ch_per_n == (((k - 1) * n) + ((n - 1) * k)) * 2 * z
      offset == (ch_per_k * y) + ch_per_n
  IN CASE dir = Left  -> IF y < n - 1 THEN (4 * (x - 1) + 1) + offset
                                      ELSE (2 * (x - 1) + 1) + offset
       [] dir = Right -> IF y < n - 1 THEN (4 * x) + offset
                                      ELSE (2 * x) + offset
       [] dir = Front -> IF x < k - 1 THEN (4 * x + 2) + offset
                                      ELSE (4 * x) + offset
       [] dir = Back  -> IF x < k - 1 THEN (4 * x + 3) + (ch_per_k * (y - 1)) + ch_per_n
                                      ELSE (4 * x) + (ch_per_k * (y - 1)) + ch_per_n

(* Mesh3D::_adjacentChannel: closed-form index of the channel leaving    *)
(* nd through port dir.  Rows y < n-1 own 4 channels per x (2 for the    *)
(* last x); the last row owns 2 per x.                                   *)
AdjacentChannel(nd, dir) ==
  LET x == FindCoordinate(X, nd)
      y == FindCoordinate(Y, nd)
      z == FindCoordinate(Z, nd)
      ch_per_k == 4 * k - 2
      ch_per_n == (((k - 1) * n) + ((n - 1) * k)) * 2 * z
      offset == (ch_per_k * y) + ch_per_n
  IN CASE dir = Left  -> IF y < n - 1 THEN (4 * (x - 1) + 1) + offset
                                      ELSE (2 * (x - 1) + 1) + offset
       [] dir = Right -> IF y < n - 1 THEN (4 * x) + offset
                                      ELSE (2 * x) + offset
       [] dir = Front -> IF x < k - 1 THEN (4 * x + 2) + offset
                                      ELSE (4 * x) + offset
       [] dir = Back  -> IF x < k - 1 THEN (4 * x + 3) + (ch_per_k * (y - 1)) + ch_per_n
                                      ELSE (4 * x + 1) + (ch_per_k * (y - 1)) + ch_per_n

(* The port on the neighbour that faces back: (p%2 ? p-1 : p+1). *)
Opposite(p) == IF p % 2 = 1 THEN p - 1 ELSE p + 1

(* Port count chosen in _BuildNet from the router's (x, y) position. *)
PortCount(nd) ==
  LET x == FindCoordinate(X, nd)
      y == FindCoordinate(Y, nd)
  IN IF (x = k - 1 \/ x = 0) /\ (y = n - 1 \/ y = 0) THEN 5
     ELSE IF (x > 0 /\ x < k - 1) /\ (y > 0 /\ y < n - 1) THEN 7
     ELSE 6

(* The vertical buses of a router's (x, y) stack, which are also the     *)
(* indices of their arbiters: node%stack_size receives from lower layers, *)
(* (node%stack_size)+stack_size from higher ones.                        *)
\* Fault model: the stack index taken modulo k instead of k*n.
UpChannelModK(nd) == nd % k
UpChannel(nd) == nd % StackSize

\* Fault model: the modulo of the down-bus index is forgotten.
DownChannelNoMod(nd) == nd + StackSize
DownChannel(nd) == (nd % StackSize) + StackSize

(* Mesh3D::_AllocVerChan: _chan_ver gets _vchannels buses, _chan_cred is *)
(* resized to _channels + _vchannels and a credit channel is created at  *)
(* _channels + cv for each bus cv, and one arbiter per bus is pushed.    *)
AllocVerChan ==
  [chanVer |-> 0 .. VChannels - 1,
   chanCred |-> {cv + Channels : cv \in 0 .. VChannels - 1},
   arbiter |-> 0 .. VChannels - 1]

(* Fault model: the bus's credit channel offset by _vchannels. *)
VerticalCreditSwapped(ch) == VChannels + ch

(* _BuildNet: credit_channel = _channels + adj_input (or adj_output). *)
VerticalCredit(ch) == Channels + ch

Init ==
  /\ k \in KRange /\ n \in NRange /\ s \in SRange
  /\ node = 0
  /\ outs = {} /\ ins = {} /\ vouts = {} /\ vins = {}
  /\ arbiters = [r \in 0 .. MaxNodes - 1 |-> <<-1, -1>>]
  /\ declared = [r \in 0 .. MaxNodes - 1 |-> 0]
  /\ wired = [r \in 0 .. MaxNodes - 1 |-> 0]

(* One iteration of the node loop of Mesh3D::_BuildNet, with the arbiter *)
(* choice of _AllocVerChan's arbiter array.                              *)
BuildRouter ==
  LET planar == {p \in 0 .. 3 : AdjacentNode(node, p) # NETWORK_EDGE}
      up     == UpChannel(node)
      down   == DownChannel(node)
  IN /\ node < Size
     /\ declared' = [declared EXCEPT ![node] = PortCount(node)]
     /\ arbiters' = [arbiters EXCEPT ![node] = <<up, down>>]
     /\ ins' = ins \cup
          {[ch |-> AdjacentChannel(AdjacentNode(node, p), Opposite(p)),
            router |-> node, dir |-> p] : p \in planar}
     /\ outs' = outs \cup
          {[ch |-> AdjacentChannel(node, p), router |-> node, dir |-> p] : p \in planar}
     /\ vins' = vins \cup {[ch |-> up, cred |-> VerticalCredit(up), router |-> node],
                           [ch |-> down, cred |-> VerticalCredit(down), router |-> node]}
     /\ vouts' = vouts \cup {[ch |-> up, cred |-> VerticalCredit(up), router |-> node],
                             [ch |-> down, cred |-> VerticalCredit(down), router |-> node]}
     \* planar inputs, the two vertical inputs and the injection channel
     /\ wired' = [wired EXCEPT ![node] = Cardinality(planar) + 2 + 1]
     /\ node' = node + 1
     /\ UNCHANGED <<k, n, s>>

Next == BuildRouter

Spec == Init /\ [][Next]_vars

Built == node = Size

-----------------------------------------------------------------------------
(* Properties *)

TypeOK ==
  /\ k \in KRange /\ n \in NRange /\ s \in SRange
  /\ node \in 0 .. MaxNodes
  /\ \A e \in outs \cup ins : e.ch \in Int /\ e.router \in 0 .. Size - 1 /\ e.dir \in 0 .. 3
  /\ \A e \in vouts \cup vins : e.ch \in 0 .. VChannels - 1 /\ e.cred \in Int /\ e.router \in 0 .. Size - 1
  /\ declared \in [0 .. MaxNodes - 1 -> 0 .. 7]
  /\ wired \in [0 .. MaxNodes - 1 -> 0 .. 7]

(* Node index and coordinates are a bijection: decoding a node with      *)
(* findCoordinate and re-encoding it as z*(k*n) + y*k + x yields the node, *)
(* and every coordinate triple in the box is hit.                        *)
CoordinateBijection ==
  /\ \A i \in 0 .. Size - 1 :
       LET x == FindCoordinate(X, i)
           y == FindCoordinate(Y, i)
           z == FindCoordinate(Z, i)
       IN /\ x \in 0 .. k - 1 /\ y \in 0 .. n - 1 /\ z \in 0 .. s - 1
          /\ z * (k * n) + y * k + x = i
  /\ \A i \in 0 .. Size - 1 : \A d \in 0 .. 3 :
       LET a == AdjacentNode(i, d)
       IN a # NETWORK_EDGE =>
            /\ a \in 0 .. Size - 1
            /\ FindCoordinate(Z, a) = FindCoordinate(Z, i)
            /\ AdjacentNode(a, Opposite(d)) = i

(* The closed-form channel indexing of _adjacentChannel gives each       *)
(* directed planar link of the mesh its own channel: no channel of       *)
(* _chan is driven by two routers or read by two routers, every index    *)
(* used lies in 0.._channels-1, the reader of a channel is the neighbour *)
(* its writer sends to, and once _BuildNet is done every channel of the  *)
(* array is wired at both ends (no channel is left dangling).            *)
PlanarChannelsWellFormed ==
  /\ \A e \in outs \cup ins : e.ch \in 0 .. Channels - 1
  /\ \A e1, e2 \in outs : e1.ch = e2.ch => e1 = e2
  /\ \A e1, e2 \in ins : e1.ch = e2.ch => e1 = e2
  /\ \A o \in outs : \A i \in ins :
       o.ch = i.ch => /\ i.router = AdjacentNode(o.router, o.dir)
                      /\ i.dir = Opposite(o.dir)
  /\ Built => \A c \in 0 .. Channels - 1 :
                /\ \E o \in outs : o.ch = c
                /\ \E i \in ins : i.ch = c

(* Every vertical bus is shared by exactly the s routers of one (x, y)  *)
(* stack, one per layer, as a source and as a sink (so GetVerticalSink's *)
(* search by layer finds a unique router); the up bus is the first half  *)
(* of _chan_ver, the down bus the second, and each bus of a router is     *)
(* arbitrated by the arbiters handed to the router.  Every bus, credit    *)
(* channel and arbiter a router uses is one _AllocVerChan created, and    *)
(* each bus has a credit channel of its own, apart from the planar ones.  *)
VerticalBusWiring ==
  /\ \A e \in vins \cup vouts : /\ e.ch \in AllocVerChan.chanVer
                              /\ e.cred \in AllocVerChan.chanCred
  /\ \A e1, e2 \in vins \cup vouts : (e1.cred = e2.cred) <=> (e1.ch = e2.ch)
  /\ \A r \in 0 .. node - 1 : {arbiters[r][1], arbiters[r][2]} \subseteq AllocVerChan.arbiter
  /\ \A e \in vins \cup vouts : (e.ch % StackSize) = (e.router % StackSize)
  /\ \A e \in vins : e.ch \in {arbiters[e.router][1], arbiters[e.router][2]}
  /\ \A r \in 0 .. node - 1 : arbiters[r][1] # arbiters[r][2]
  /\ Built => \A c \in 0 .. VChannels - 1 : \A z \in 0 .. s - 1 :
                /\ Cardinality({e \in vins : e.ch = c /\ e.router \div StackSize = z}) = 1
                /\ Cardinality({e \in vouts : e.ch = c /\ e.router \div StackSize = z}) = 1

(* The port count _BuildNet passes to Router::NewRouter equals the      *)
(* number of input channels it then adds to the router.                  *)
PortCountMatchesWiring ==
  \A r \in 0 .. node - 1 : declared[r] = wired[r]

=============================================================================
