# TLA+ models of the intersim2 3D-mesh interconnect

This directory holds TLA+ models of the GPGPU-Sim interconnect in
`src/src/intersim2`. That interconnect is a BookSim-based network-on-chip,
extended with a stacked (3D) mesh, several subnets and a DSENT power model.
The models are checked with TLC.

## The system

| Part | Source | What it does |
|------|--------|--------------|
| Interconnect interface | `interconnect_interface.cpp` | The host side of the network. Shader cores and memory partitions (devices) call `HasBuffer` and then `Push` to inject a packet. `Push` picks a subnet (`NetworkSelection`: pckt_type, round_robin, random, pckt_size) and splits the packet into flits. Every cycle `Advance` steps the traffic manager. Routers eject flits into per-(subnet, node, VC) ejection buffers (`WriteOutBuffer`). `Transfer2BoundaryBuffer` moves them into boundary buffers and queues them for credit return (`GetEjectedFlit`). `Pop` hands a whole packet to the device, visiting subnets and VCs round robin. `Busy` says whether anything is still in flight. |
| Node map | `interconnect_interface.cpp` `_CreateNodeMap` | Maps device ids to network node ids: the identity, or a preset placement of the memory partitions, and builds the reverse map. |
| Mesh3D topology | `networks/mesh3D.cpp/.hpp` | Builds a k x n x s mesh. Planar channels are indexed in closed form (`_adjacentChannel`). `_AllocVerChan` creates two vertical bus channels per (x, y) column (up and down), a credit channel for each after the planar credit channels, and one round-robin arbiter per bus. `Evaluate` runs every timed module, then `Evaluate_AfterSA` of every router, then clears the vertical arbiters. |
| Vertical channel | `vertical_channel.cpp/.hpp` | A bus channel with one source port and one sink port per layer. The ports are looked up by router id or by layer. |
| Credit pool | `credit.hpp` | Declaration only. The implementation is not in this repository. |
| DSENT result tree | `dsent/util/Result.cc`, `dsent/model/BSElectricalMesh.cc` | Energies and areas are trees of `Result`s: atomic values, and composites of sub-results with a producer name and a multiplier. `calculateSum`, `print` and `getResults` read them. `BSElectricalMesh::constructModel` builds the mesh's `Flit` event from its router and link events. |
| DSENT power model | `dsent/model/ModelGen.cc`, `dsent/tech/TechModel.cc`, `dsent/electrical/TSV.cc` | Floating-point electrical estimates. `TechModel::calculateLeakageCurrentFactor` solves the node voltages of a transistor stack and drops transistors in triode; the Nmos and Pmos leakage functions scale its result. |
| cuobjdump parser | `src/libcuda/cuobjdump_parser.h` | A generated Bison header. |

The routers, arbiters, channels and traffic manager come from BookSim and are
not in this repository. Where the interface depends on them, the model
follows the spec: `RouterEject`, `PacketFlits` and `InFlight`. PROJECT.json
marks those definitions `spec_modelled`.

## Modules

### `Mesh3DTopology` (mesh3D.cpp)

- State:
  - the dimensions `k, n, s`;
  - the loop index `node` of `_BuildNet`;
  - the planar `AddInput/OutputChannel` calls, as sets of `[ch, router, dir]`;
  - the vertical ones, as `[ch, cred, router]` (bus and credit channel);
  - each router's two arbiters, its declared port count and its wired input
    count.
- `Init` is the constructor with `_ComputeSize`. It picks `k, n, s` from the
  constant ranges.
- `BuildRouter` is one iteration of the node loop.
- `AllocVerChan` gives the buses, credit channels and arbiters that
  `_AllocVerChan` creates.
- `VerticalCredit` is `credit_channel = _channels + bus`.
- `FindCoordinate`, `AdjacentNode` and `AdjacentChannel` translate
  `findCoordinate`, `_adjacentNode` and `_adjacentChannel`.

### `VerticalChannel` (vertical_channel.cpp)

- Composes `Mesh3DTopology` (`INSTANCE`) with each bus's `_routerSources`,
  `_routerSinks` and the ports it keeps.
- `BuildRouter` is `Topo!BuildRouter` plus the `SetVerticalSource/Sink`
  registrations that the router's `AddInput/OutputChannel(..., true)` makes.
- `GetVerticalSource` and `GetVerticalSink` translate the lookups. The sink
  lookup goes by layer, with `layer_size = k*n`.
- `utilization` holds each bus's `_x`, `_y` and `_dir`. `SetUtilization` is
  `setX`/`setY`/`setDir` (vertical_channel.hpp). `BuildRouter` calls it as
  `_BuildNet` lines 199-206 do: the router's x and y, with "going up" for
  the up bus. `tagged` records which buses have been set; the constructor
  leaves the fields uninitialised, and nothing reads them before that.
  The tags are statistics only, and every router of a column writes the
  same values, so no property is spent on them.

### `VerticalArbitration` and `VerticalBus` (mesh3D.cpp `Evaluate`)

- `VerticalArbitration` models `Mesh3D::Evaluate` for the routers of one
  (x, y) column, one per layer. They share the column's up and down
  round-robin arbiters, created by `_AllocVerChan` with `_s` clients.
- State:
  - `phase` and `idx`: which of `Evaluate`'s three loops runs, and the
    router it visits next;
  - `wants`: the buses each router holds a flit for;
  - `requests` and `pointer`: each arbiter's requests and round-robin
    pointer;
  - `drivers`: the layers that drove each bus in this cycle.
- Actions:
  - `RouterEvaluate` is the timed-modules loop. A router's switch
    allocation requests the bus of each flit it holds.
  - `EvaluateAfterSA` is the second loop. The layer the arbiter grants
    drives the bus.
  - `ClearVerticalArbiters` is the third loop. The first call of a cycle
    moves each pointer past its winner and wipes the requests; the cycle
    ends after the last router.
  - `FlitArrives` is the router pipeline delivering a flit for a bus.
- The IQ3DRouter and RoundRobinArbiter code is not in this repository.
  `Arbitrate`, `NextPointer` and `FlitArrives` follow the spec (section
  4.4: the pointer goes to one past the winner, and `Clear` wipes the
  requests).
- `VerticalBus` is the abstract promise: a layer drives a bus only with a
  flit it holds, and at most one layer drives it per cycle.
  `VerticalArbitration` instantiates it with `wants` and `drivers` as the
  refinement mapping.

### `NodeMap` (`_CreateNodeMap`)

- One action per loop iteration, with `pc` naming the loop.
- The actions are `ChoosePreset`, `SkipMemoryNode` and `PlaceShader` (the
  while loop), `MapMemoryNodes`, `IdentityMap`, and `BuildReverse`.
- `BuildReverse` includes the `std::map::operator[]` insertions of the scan.
- Two undefined behaviours are recorded in history variables (`overflowed`,
  `oobRead`):
  - the write past the VLA `memory_node[n_mem]`;
  - the read past the end of the `memory_node` vector.
- An out-of-bounds read returns any value of `OOBValues`.

### `InterconnectInterface` (interconnect_interface.cpp)

- State:
  - the injection queues of the traffic manager (`inputQueue`);
  - for each ejection VC, the packet holding it (`vcOwner`) and the router's
    credits (`credits`);
  - `_ejection_buffer` (`ejection`);
  - `_ejected_flit_queue` (`ejected`);
  - `_boundary_buffer` (`boundary`: flit data plus tail flag);
  - `_round_robin_turn` (`rrTurn`), `_round_robin_subnet_turn`
    (`rrSubnetTurn`) and `gSubnet`.
- History variables, which only the properties read:
  - `pushFailed`: a `Push` reached its failing `assert(subnet >= 0)`;
  - `sentTo`: each pushed packet's destination;
  - `popped`: how many times each packet was popped;
  - `overtaken`: for each node and each (subnet, VC) pair with a packet
    waiting, how many Pops served other pairs.
- `EjectionCapacity` and `InputBufferCapacity` are the defaults of
  `CreateInterconnect`.
- Actions:
  - `HostPush` is `HasBuffer` followed by `Push`, for requests from shader
    cores to memory partitions and for replies. Under random selection the
    draws are an input chosen with `\E`.
  - `RouterEject` is the network. A head flit takes a free ejection VC that
    has a credit. The following flits use the VC their packet holds. The tail
    releases it.
  - `Transfer2BoundaryBuffer` and `GetEjectedFlit` are the interface's two
    steps of a cycle.
  - `Pop` keeps the code's statement order, including where the VC cursor is
    stored.
- `Busy` is `Busy()`: the traffic manager's flits in flight, plus any
  boundary buffer holding a packet.
- Data is abstracted:
  - a packet is an id, with 1 or 2 flits from `Sizes` (bytes converted by
    `CeilDiv` as in `Push`);
  - payloads are not modelled.

### `DSENTResult` (Result.cc, BSElectricalMesh.cc)

- Results are model values: `Atomics`, `Composites`, and `Fresh` ids for
  clones.
- State:
  - `atomic` and `value` (the `AtomicResult`'s `m_value_`);
  - `subs`: each result's `m_sub_results_`, as a sequence of
    `[result, producer, num]`;
  - `live`: the allocated results;
  - `cloneOf`: a history variable;
  - `meshFlit`: marks the `Flit` events that `constructModel` built.
- Actions:
  - `SetValue`, `AddValue`, `AddSubResult`, `RemoveAllSubResults`, `Clone`;
  - `ConstructModel`, which fills a mesh's `Flit` event with its sub-model
    events, the asymmetric ones included when `isAsymmetric()`.
- The readers are operators: `CalculateSum` and `Printed` are RECURSIVE;
  `GetResults` groups the sub-results by producer `Categories`.
- The reference `PathSum` is the flat sum over all root-to-leaf paths of the
  product of the multipliers times the leaf value.
- Sub-results are shared pointers, so the tree is a DAG.

## Runs

| Run | Config | Expect | What it shows |
|-----|--------|--------|---------------|
| mesh_ports | `MCMesh3DPorts.cfg` | violation | With k=1 or n=1 a router is declared with more ports than channels are wired to it. |
| vertical_channel | `MCVerticalChannel.cfg` | pass | For every mesh with k, n, s in 1..3, the wiring stays consistent throughout construction (the `Topo*` invariants of `Mesh3DTopology`): ids decode and encode back; every planar channel has at most one writer and one reader, on opposite ports; every bus has one source and one sink per layer, distinct up and down arbiters, and a credit channel of its own among those `_AllocVerChan` created; at the end every link is wired. On top of that, every router finds itself as a source of its buses, every layer has its sink on every bus, and every router registers a bus with the same port. |
| vertical_arbitration | `MCVerticalArbitration.cfg` | pass | For a 3-layer column with both buses: `Evaluate`'s three loops implement `VerticalBus` (`BusRefinement`), so at most one layer drives a bus per cycle. A flit waiting for a bus is eventually sent (`NoStarvation`). The mutants show what breaks each: running `Evaluate_AfterSA` right after each router's own `Evaluate` lets two layers drive one bus, and a pointer left at the winner starves a layer. |
| nodemap | `MCNodeMap.cfg` | pass | With the identity, the default preset, or any sorted `memory_node_map`, `_node_map` is a bijection onto nodes and `_reverse_node_map` inverts it. This includes spare nodes whose key `operator[]` inserts as 0. |
| nodemap_oob | `MCNodeMapOOB.cfg` | violation | Shader placement reads `memory_node` past its end. |
| nodemap_vla | `MCNodeMapVLA.cfg` | violation | With a spare node, the default preset loop writes past the VLA `memory_node[n_mem]`. |
| ii_safety | `MCInterconnectInterface.cfg` | pass | Under round-robin selection: credits plus ejection-buffer contents plus flits awaiting credit return equal `vc_buf_size` for every VC; no buffer exceeds its capacity; Push never fails after HasBuffer; packets reach their destination whole and are popped once; `Busy()` stays true until everything pushed has been popped. |
| ii_pckt_type_push | `MCPcktTypePush.cfg` | violation | Under pckt_type selection, HasBuffer and Push disagree on the subnet of the first memory partition, and Push asserts. |
| ii_pckt_size_push | `MCPcktSizePush.cfg` | violation | Under pckt_size selection, HasBuffer checks the subnet a packet's size picks and Push the one its type picks. Two small replies fill subnet 1; HasBuffer admits a third by looking at subnet 0, and Push asserts. |
| ii_pop_fairness | `MCPopFairness.cfg` | violation | Because of where Pop writes its cursor, a (subnet, VC) pair is overtaken 4 times. Round robin over 4 pairs allows at most 3. |
| dsent_result | `MCDSENTResult.cfg` | pass | Over every shared-result DAG the operations can build: `calculateSum` equals the path-sum reference; `print`'s numbers add up to it at every detail level; the `getResults` report of a mesh `Flit` event, symmetric or asymmetric, adds up to its energy. Removing sub-results never leaves a dangling entry. |
| dsent_clone | `MCDSENTClone.cfg` | violation | A clone of a composite result has sum 0. |

Every property of a passing run has a mutant in PROJECT.json: a plausible
bug in the code the property is about, which TLC finds to violate it.

## Findings

- **Pop cursor (interconnect_interface.cpp:232).** The subnet is advanced
  before the VC cursor is saved, so the cursor goes to the next subnet.
  With 2 subnets and 2 VCs, Pop alternates between (0,0) and (1,1) while
  (0,1) waits.
- **HasBuffer under pckt_type (line 334).** HasBuffer uses
  `deviceID > _n_shader`, while NetworkSelection uses `< _n_shader`. For
  device `_n_shader`, HasBuffer checks subnet 0 while Push uses subnet 1.
- **HasBuffer under pckt_size (line 346).** HasBuffer sends every packet of
  at most `flit_size` bits to subnet 0. NetworkSelection (lines 294-308)
  sends READ_REPLY and WRITE_REQUEST to subnet 1 whatever their size. Once
  subnet 1's injection queue is full, HasBuffer admits a small reply that
  Push cannot place.
- **Node map, read past the end (line 576).** The while test reads
  `memory_node[n_mem]` after the last memory node has been skipped.
- **Node map, VLA overflow (line 549).** The default preset loop writes
  `n_node - n_shader` entries into an array of `n_mem`.
- **Port count (mesh3D.cpp:124).** The port count is wrong for 1-wide
  meshes.
- **Result copy constructor (Result.cc:144).** It copies the new object's
  own, still empty, sub-results. Nothing in the repository calls `clone`, so
  the bug is latent.

## Bounds

- **Vertical arbitration.** One column of 3 layers with both buses:
  59,162 states. Three clients are the fewest for which round-robin order
  differs from alternation, and the fewest for which the pointer update
  runs on a cleared arbiter more than once per cycle. Columns do not share
  arbiters, so one column is enough.
- **Mesh.** k, n and s each range over 1..3: 27 meshes, 243 states. This
  covers:
  - 1-wide meshes;
  - corner, edge and interior routers (an interior router needs k, n = 3);
  - stacks of 1 to 3 layers.
- **Node map.**
  - 1 to 3 shader cores and 1 or 2 memory partitions;
  - 0 or 1 spare node;
  - every sorted `memory_node_map`.
- **Interface.** One shader core, one memory partition, two subnets and two
  VCs. This is the smallest configuration with several subnets and several
  VCs per subnet, which the Pop fairness and the credit hazards need. The
  other bounds:
  - packets of 1 or 2 flits (`Sizes` = {4, 8} bytes, 32-bit flits);
  - injection queues of 2 flits (`input_buffer_size` 2), so one 2-flit
    packet fills a subnet;
  - boundary buffers of 2 flits;
  - `vc_buf_size` 1 with `ejection_buffer_size` 0, so the ejection capacity
    takes the fallback;
  - 3 packets in total.
- **Pop fairness.** This run uses 5 single-flit requests. A constraint keeps
  only requests to the memory partition, so that all four pairs of one node
  can hold packets at once.
- **DSENT.**
  - results: one atomic, two composites and one fresh id for a clone;
  - at most 2 sub-results per result;
  - multipliers 2 (and 1 from `constructModel`);
  - values up to 2.

  That is enough for a result shared by two parents, a multiplier applied
  twice on one path, removal of a shared child, and both mesh variants.

## Fairness

`Network::Advance` calls `Mesh3D::Evaluate` every cycle, so `Evaluate`
(the disjunction of its three loops) is weakly fair in
`VerticalArbitration`. New flits are not fair, since traffic may stop.

No interface run assumes fairness, and eventual delivery is not checked.
With a host that stops after a few packets, every behaviour is finite.
"Every pushed packet is eventually popped" would then say no more than
that nothing deadlocks, which `BusyUntilDrained` and the credit invariants
already cover. The interesting case is sustained traffic, where the spec
says "packets, once injected, always eventually drain". There Pop's cursor
bug (line 232) lets a (subnet, VC) pair starve: pops alternating between
(0,0) and (1,1) never write `_round_robin_turn` of subnet 0, so (0,1) waits
as long as both keep being refilled. The `ii_pop_fairness` run shows the
overtaking this starts from. Modelling sustained traffic (a popped
packet's id pushed again) gives 639,433 states with single-flit packets
and one-flit buffers. A liveness check on that many states did not finish
in 15 minutes.

Push is not fair: the host may stop injecting, so deadlock checking is off
for the interface runs. The construction runs (mesh, vertical channel, node
map) also turn it off, because construction ends. So do the DSENT runs,
because the bounds stop the operations.

## Not modelled, and the plan

The reasons are also listed in PROJECT.json `components`.

1. **The random policy.** It is modelled in `Push`/`HasBuffer`, with the
   draws as an input, but no run checks it: the project keeps at most 12
   runs. Random selection can make Push miss the subnet that HasBuffer
   found (line 172).
2. **`TopPacket`** (line 646). Its loop never pops, so it spins on a
   packet of more than one flit. Nothing in the repository calls it.
3. **Unsorted `memory_node_map`.** Such a map can break the bijection (line
   558). No run checks it.
4. **`getResults` multipliers.** They are dropped (Result.cc:213). Every
   caller uses multiplier 1, so the report is right today.
5. **`Mesh3D::~Mesh3D`.** It does not delete the vertical credit channels.
   This is a leak, outside what TLC checks.
6. **The credit pool** (credit.hpp). Only the class declaration is in the
   repository. `Credit::New`, `Free` and `FreeAll` and the routers that
   call them are not, so a model of the pool would come from the spec
   alone. `InterconnectInterface` keeps credits as per-VC counters.
7. **The DSENT mesh's port wiring** (BSElectricalMesh.cc 128-167). With a
   vertical bus, the last two router ports are charged to the vertical
   link. Mesh3D numbers the injection port last, after the two bus ports.
   `Router->NumberPorts` is set by the power module, which is not in the
   repository, so whether these ports match cannot be checked.

8. **TechModel's leakage solver** (TechModel.cc 136-247). This is a
   tri-diagonal (Thomas) solve of the internal node voltages of a
   transistor stack, inside a loop that erases a transistor in triode and
   solves again. In exact rationals, with widths that are powers of ten so
   that `log10` stays exact, it fits TLC. Two things were found by hand:
   - The Nmos and Pmos leakage functions (lines 90 and 125) multiply the
     factor by `stacked_mos_widths_[0]`. When the solver has erased
     transistor 0, the factor belongs to another transistor, and with
     unequal widths the leakage is scaled by the wrong width. Example: two
     transistors, s1 = s2 = vdd = 1, bottom gate at vdd, top gate at 0 and
     the top ten times narrower. The bottom row gives
     `3 v[1] = -1 - 1 + 1`, so `v[1] = -1/3 < v[0]`, and transistor 0 is
     erased.
   - The comment at lines 160-161 writes the row of `v[i]` with
     `vs[i+1] - vs[i]` and `ws[i+1]/ws[i]`. The code uses `vs[i] - vs[i-1]`
     and `ws[i]/ws[i-1]` for that row, one index lower. The code, not the
     comment, matches the current balance at node i.

   Nothing in this repository calls the leakage functions, and the solver
   has no state to explore: its check is a constant formula over the
   inputs, not a behaviour. It is left out in favour of the stateful
   components, whose runs all carry findings.
9. **Pmos temperature swing** (TechModel.cc:116). `calculatePmosLeakageCurrent`
   reads `Nmos->SubthresholdTempSwing`. It looks like a copy of the Nmos
   function. It is a difference of one real parameter, which TLC cannot
   weigh.

The rest of DSENT is floating-point electrical formulas:
`BSElectricalMesh::updateModel`, the `pow(10, x)` and temperature factor of
`TechModel`'s Nmos and Pmos leakage functions, `TSV` and `ModelGen`'s
factory. The spec names the power model's numbers a non-goal.
The Bison header,
statistics and display code are out of TLC's reach or are pure I/O.
