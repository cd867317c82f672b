-------------------------- MODULE VerticalChannel --------------------------
(***************************************************************************)
(* The vertical bus channels of the 3D mesh                                *)
(* (src/src/intersim2/vertical_channel.cpp), composed with the mesh        *)
(* construction of Mesh3DTopology.                                         *)
(*                                                                         *)
(* Each iteration of Mesh3D::_BuildNet adds the router's up and down buses *)
(* as an input and an output channel. The router then registers itself on  *)
(* each bus as a sink (input) and as a source (output), with the port      *)
(* number the channel got at the router. A bus keeps the routers in        *)
(* registration order and the first port it was given. After              *)
(* construction the routers look up a bus's sources by exact router id    *)
(* and its sinks by layer (id / (gK*gN)).                                  *)
(***************************************************************************)
EXTENDS Integers, Sequences, FiniteSets
LOCAL INSTANCE FiniteSetsExt

CONSTANTS KRange, NRange, SRange

VARIABLES
  k, n, s, node, outs, ins, vouts, vins, arbiters, declared, wired,
  routerSources,     \* bus -> _routerSources, in registration order
  routerSinks,       \* bus -> _routerSinks
  routerSourcePort,  \* bus -> _routerSourcePort (-1 until set)
  routerSinkPort,    \* bus -> _routerSinkPort
  portsSeen,         \* bus -> ports passed to SetVerticalSource/Sink
  utilization,       \* bus -> [x, y, dir]: _x, _y, _dir
  tagged             \* buses setX/setY/setDir have been called on

Topo == INSTANCE Mesh3DTopology

topoVars == <<k, n, s, node, outs, ins, vouts, vins, arbiters, declared, wired>>
vars == <<topoVars, routerSources, routerSinks, routerSourcePort, routerSinkPort,
          portsSeen, utilization, tagged>>

Buses == 0 .. 2 * Max(KRange) * Max(NRange) - 1

NotFound == -1

(* Fault model: the injection channel added before the buses. *)
VerticalPortAfterInjection(planarCount, isDown) ==
  planarCount + 1 + (IF isDown THEN 1 ELSE 0)

(* The input and output port a router gives a vertical bus: its planar   *)
(* channels come first, then the up bus, then the down bus.              *)
VerticalPort(planarCount, isDown) == planarCount + (IF isDown THEN 1 ELSE 0)

(* VerticalChannel::SetVerticalSource and SetVerticalSink: keep the first *)
(* port, append the router.                                               *)
SetVerticalPort(portOf, ch, port) ==
  [portOf EXCEPT ![ch] = IF @ < 0 THEN port ELSE @]
Register(members, ch, router) == [members EXCEPT ![ch] = Append(@, router)]

(* VerticalChannel::GetVerticalSource: the first source with this id. *)
GetVerticalSource(ch, id) ==
  LET hits == {i \in 1 .. Len(routerSources[ch]) : routerSources[ch][i] = id}
  IN IF hits = {} THEN NotFound ELSE routerSources[ch][Min(hits)]

(* Fault model: the sink looked up by exact id, like the source. *)
GetVerticalSinkById(ch, id) ==
  LET hits == {i \in 1 .. Len(routerSinks[ch]) : routerSinks[ch][i] = id}
  IN IF hits = {} THEN NotFound ELSE routerSinks[ch][Min(hits)]

(* VerticalChannel::GetVerticalSink: the first sink in the layer of id, *)
(* with layer_size = gK * gN as _ComputeSize set them.                  *)
GetVerticalSink(ch, id) ==
  LET layer_size == k * n
      hits == {i \in 1 .. Len(routerSinks[ch]) :
                 routerSinks[ch][i] \div layer_size = id \div layer_size}
  IN IF hits = {} THEN NotFound ELSE routerSinks[ch][Min(hits)]

(* VerticalChannel::setX, setY and setDir: the channel-utilization tags   *)
(* the statistics read back with getX, getY and getDir.                   *)
SetUtilization(util, ch, x, y, dir) ==
  [util EXCEPT ![ch] = [x |-> x, y |-> y, dir |-> dir]]

Init ==
  /\ Topo!Init
  /\ routerSources = [ch \in Buses |-> <<>>]
  /\ routerSinks = [ch \in Buses |-> <<>>]
  /\ routerSourcePort = [ch \in Buses |-> -1]
  /\ routerSinkPort = [ch \in Buses |-> -1]
  /\ portsSeen = [ch \in Buses |-> {}]
  \* the constructor leaves _x, _y and _dir unset; nothing reads them
  \* before _BuildNet sets them, so any value will do
  /\ utilization = [ch \in Buses |-> [x |-> 0, y |-> 0, dir |-> FALSE]]
  /\ tagged = {}

(* One iteration of _BuildNet with the bus registrations it causes:      *)
(* AddInputChannel/AddOutputChannel(_chan_ver[up], ..., true) and then   *)
(* the same for the down bus, and the utilization tags of both buses:    *)
(* the router's x and y, "going up" for the up bus.                      *)
BuildRouter ==
  LET x == Topo!FindCoordinate(Topo!X, node)
      y == Topo!FindCoordinate(Topo!Y, node)
      planar == Cardinality({p \in 0 .. 3 : Topo!AdjacentNode(node, p) # Topo!NETWORK_EDGE})
      up == Topo!UpChannel(node)
      down == Topo!DownChannel(node)
      upPort == VerticalPort(planar, FALSE)
      downPort == VerticalPort(planar, TRUE)
  IN /\ Topo!BuildRouter
     /\ routerSinks' = Register(Register(routerSinks, up, node), down, node)
     /\ routerSources' = Register(Register(routerSources, up, node), down, node)
     /\ routerSinkPort' = SetVerticalPort(SetVerticalPort(routerSinkPort, up, upPort),
                                          down, downPort)
     /\ routerSourcePort' = SetVerticalPort(SetVerticalPort(routerSourcePort, up, upPort),
                                            down, downPort)
     /\ portsSeen' = [portsSeen EXCEPT ![up] = @ \cup {upPort},
                                       ![down] = @ \cup {downPort}]
     /\ utilization' = SetUtilization(SetUtilization(utilization, up, x, y, TRUE),
                                      down, x, y, FALSE)
     /\ tagged' = tagged \cup {up, down}

Next == BuildRouter

Spec == Init /\ [][Next]_vars

-----------------------------------------------------------------------------
(* Properties *)

TypeOK ==
  /\ routerSources \in [Buses -> Seq(0 .. Topo!MaxNodes - 1)]
  /\ routerSinks \in [Buses -> Seq(0 .. Topo!MaxNodes - 1)]
  /\ routerSourcePort \in [Buses -> -1 .. 5]
  /\ routerSinkPort \in [Buses -> -1 .. 5]
  /\ utilization \in [Buses -> [x : 0 .. Max(KRange) - 1, y : 0 .. Max(NRange) - 1,
                                dir : BOOLEAN]]
  /\ tagged \subseteq Buses

(* The topology's own properties hold over the construction these       *)
(* registrations are part of (see Mesh3DTopology): the variables have    *)
(* their types, router ids and coordinates are in bijection, planar      *)
(* channels have one writer and one reader facing each other, and the    *)
(* vertical buses, credit channels and arbiters are wired per column.    *)
TopoTypeOK == Topo!TypeOK
TopoCoordinateBijection == Topo!CoordinateBijection
TopoPlanarChannelsWellFormed == Topo!PlanarChannelsWellFormed
TopoVerticalBusWiring == Topo!VerticalBusWiring

(* The routers of the (x, y) column a bus serves. *)
Column(ch) == {r \in 0 .. Topo!Size - 1 : r % Topo!StackSize = ch % Topo!StackSize}

(* After _BuildNet, every router of a bus's column is found by           *)
(* GetVerticalSource, and for every router id GetVerticalSink returns    *)
(* the bus's router on that id's layer; neither lookup reaches Error.    *)
VerticalLookupsResolve ==
  Topo!Built =>
    \A ch \in 0 .. Topo!VChannels - 1 :
      /\ \A r \in Column(ch) : GetVerticalSource(ch, r) = r
      /\ \A q \in 0 .. Topo!Size - 1 :
           LET sink == GetVerticalSink(ch, q)
           IN /\ sink \in Column(ch)
              /\ Topo!FindCoordinate(Topo!Z, sink) = Topo!FindCoordinate(Topo!Z, q)

(* A bus keeps one port for all its routers (vertical_channel.hpp: "all *)
(* inputs and outputs have the same port"): every router registers the  *)
(* bus with the same port as the first one did.                         *)
BusPortsAgree ==
  \A ch \in Buses :
    /\ portsSeen[ch] \subseteq {routerSourcePort[ch]}
    /\ routerSourcePort[ch] = routerSinkPort[ch]

=============================================================================
