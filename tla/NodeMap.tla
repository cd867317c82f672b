------------------------------ MODULE NodeMap ------------------------------
(***************************************************************************)
(* InterconnectInterface::_CreateNodeMap                                   *)
(* (src/src/intersim2/interconnect_interface.cpp): the map from device ids *)
(* (shader cores 0..n_shader-1, then memory partitions) to network node    *)
(* ids, and its reverse.                                                   *)
(*                                                                         *)
(* With use_map the memory partitions are placed at the preset node list   *)
(* memory_node (by default the node ids from n_shader on, or the config    *)
(* list memory_node_map), and the shader cores take, in order, the node    *)
(* ids the loop at lines 573-582 skips memory nodes to reach.  Without it  *)
(* the map is the identity.  The reverse map is then built by scanning     *)
(* _node_map with std::map::operator[], which inserts a 0 entry for every  *)
(* key it reads that was never mapped.                                     *)
(*                                                                         *)
(* Each step is one iteration of one of the function's loops.  Two reads   *)
(* and writes of the code are out of bounds for some inputs; they are      *)
(* recorded in history variables, and an out-of-bounds read returns a      *)
(* value of OOBValues.                                                     *)
(***************************************************************************)
EXTENDS Integers, Sequences, FiniteSets
LOCAL INSTANCE FiniteSetsExt
LOCAL INSTANCE Functions

CONSTANTS
  ShaderCounts,  \* values of n_shader
  MemCounts,     \* values of n_mem
  ExtraCounts,   \* values of n_node - (n_shader + n_mem)
  ConfigMaps,    \* values of the config list memory_node_map (<<>>: unset)
  OOBValues      \* what a read past the end of memory_node may return

ASSUME MemCounts \subseteq Nat \ {0} /\ ShaderCounts \subseteq Nat
ASSUME ExtraCounts \subseteq Nat

VARIABLES
  n_shader, n_mem, n_node, use_map,
  config,             \* memory_node_map as read from the configuration
  pc,                 \* which loop of _CreateNodeMap runs next
  memory_node,        \* the preset memory node list chosen at line 567
  next_node,          \* shader placement cursor
  memory_node_index,  \* index into memory_node of the next memory node
  i,                  \* loop index of the current loop
  node_map,           \* _node_map: device id -> node id, or NoEntry
  reverse_node_map,   \* _reverse_node_map: node id -> device id, or NoEntry
  overflowed,         \* the VLA memory_node[n_mem] was written past its end
  oobRead             \* memory_node was read past its end

vars == <<n_shader, n_mem, n_node, use_map, config, pc, memory_node, next_node,
          memory_node_index, i, node_map, reverse_node_map, overflowed, oobRead>>

NoEntry == -1

(* Keys that any configuration of the bounds may use. *)
MaxNode == Max(ShaderCounts) + Max(MemCounts) + Max(ExtraCounts)
Keys == 0 .. MaxNode - 1

Devices == 0 .. n_shader + n_mem - 1

(* Config lists considered: those naming nodes of this network. *)
Configs(nn) == {c \in ConfigMaps : \A j \in DOMAIN c : c[j] < nn}

(* memory_node[idx]: a read past the end is undefined, any of OOBValues. *)
MemoryNodeRead(idx) ==
  IF idx < Len(memory_node) THEN {memory_node[idx + 1]} ELSE OOBValues

(* std::map::operator[]: the value of key j, 0 once a missing key is read. *)
Lookup(m, j) == IF m[j] = NoEntry THEN 0 ELSE m[j]

(* CreateInterconnect calls _CreateNodeMap once, before any Push or Pop. *)
Init ==
  /\ n_shader \in ShaderCounts
  /\ n_mem \in MemCounts
  /\ n_node \in {n_shader + n_mem + e : e \in ExtraCounts}
  /\ use_map \in {0, 1}
  /\ config \in Configs(n_node)
  /\ pc = IF use_map # 0 THEN "preset" ELSE "identity"
  /\ memory_node = <<>>
  /\ next_node = 0
  /\ memory_node_index = 0
  /\ i = 0
  /\ node_map = [d \in Keys |-> NoEntry]
  /\ reverse_node_map = [d \in Keys |-> NoEntry]
  /\ overflowed = FALSE
  /\ oobRead = FALSE

(* Lines 544-570: fill the VLA memory_node[n_mem] with n_shader..n_node-1 *)
(* (writing past it when n_node > n_shader + n_mem), replace it by the    *)
(* config list when one is given (asserting its length), and select it.   *)
ChoosePreset ==
  LET default == [j \in 1 .. n_mem |-> n_shader + j - 1]
  IN /\ pc = "preset"
     /\ overflowed' = (n_node - n_shader > n_mem)
     /\ IF config # <<>> /\ Len(config) # n_mem
          THEN /\ pc' = "aborted"
               /\ UNCHANGED memory_node
          ELSE /\ memory_node' = IF config # <<>> THEN config ELSE default
               /\ pc' = "shaders"
     /\ UNCHANGED <<n_shader, n_mem, n_node, use_map, config, next_node,
                    memory_node_index, i, node_map, reverse_node_map, oobRead>>

(* Lines 576-579: one turn of the while loop, skipping a memory node. *)
SkipMemoryNode ==
  /\ pc = "shaders"
  /\ i < n_shader
  /\ next_node \in MemoryNodeRead(memory_node_index)
  /\ next_node' = next_node + 1
  /\ memory_node_index' = memory_node_index + 1
  /\ oobRead' = (oobRead \/ memory_node_index >= Len(memory_node))
  /\ UNCHANGED <<n_shader, n_mem, n_node, use_map, config, pc, memory_node, i,
                 node_map, reverse_node_map, overflowed>>

(* Lines 575-581: the while test fails; shader core i takes next_node. *)
PlaceShader ==
  /\ pc = "shaders"
  /\ i < n_shader
  /\ \E v \in MemoryNodeRead(memory_node_index) : v # next_node
  /\ node_map' = [node_map EXCEPT ![i] = next_node]
  /\ next_node' = next_node + 1
  /\ i' = i + 1
  /\ oobRead' = (oobRead \/ memory_node_index >= Len(memory_node))
  /\ UNCHANGED <<n_shader, n_mem, n_node, use_map, config, pc, memory_node,
                 memory_node_index, reverse_node_map, overflowed>>

(* Lines 583-585: memory partition j is mapped to memory_node[j]. *)
MapMemoryNodes ==
  /\ pc = "shaders"
  /\ i = n_shader
  /\ node_map' = [d \in Keys |-> IF d \in n_shader .. n_shader + n_mem - 1
                                 THEN memory_node[d - n_shader + 1]
                                 ELSE node_map[d]]
  /\ pc' = "reverse"
  /\ i' = 0
  /\ UNCHANGED <<n_shader, n_mem, n_node, use_map, config, memory_node, next_node,
                 memory_node_index, reverse_node_map, overflowed, oobRead>>

(* Fault model: the identity loop runs to i <= n_node. *)
IdentityMapOffByOne ==
  /\ pc = "identity"
  /\ node_map' = [d \in Keys |-> IF d <= n_node THEN d ELSE node_map[d]]
  /\ pc' = "reverse"
  /\ UNCHANGED <<n_shader, n_mem, n_node, use_map, config, memory_node, next_node,
                 memory_node_index, i, reverse_node_map, overflowed, oobRead>>

(* Lines 586-590: without use_map the map is the identity on 0..n_node-1. *)
IdentityMap ==
  /\ pc = "identity"
  /\ node_map' = [d \in Keys |-> IF d < n_node THEN d ELSE node_map[d]]
  /\ pc' = "reverse"
  /\ UNCHANGED <<n_shader, n_mem, n_node, use_map, config, memory_node, next_node,
                 memory_node_index, i, reverse_node_map, overflowed, oobRead>>

(* The keys j < n_node whose value equals node id nd. *)
Matches(m, nd) == {j \in 0 .. n_node - 1 : Lookup(m, j) = nd}

(* Fault model: the inner loop without its break keeps the last match. *)
ReverseLookupNoBreak(nd) ==
  /\ node_map' = [j \in Keys |-> IF j < n_node THEN Lookup(node_map, j) ELSE node_map[j]]
  /\ reverse_node_map' =
       IF Matches(node_map, nd) = {} THEN reverse_node_map
       ELSE [reverse_node_map EXCEPT ![nd] = Max(Matches(node_map, nd))]

(* Lines 594-599 for one node id nd: scan _node_map[0..] with operator[] *)
(* up to the first device mapped to nd (every key when there is none),   *)
(* inserting 0 for the keys scanned that were never mapped.              *)
ReverseLookup(nd) ==
  LET scanned == IF Matches(node_map, nd) = {} THEN 0 .. n_node - 1
                 ELSE 0 .. Min(Matches(node_map, nd))
  IN /\ node_map' = [j \in Keys |-> IF j \in scanned THEN Lookup(node_map, j)
                                    ELSE node_map[j]]
     /\ reverse_node_map' =
          IF Matches(node_map, nd) = {} THEN reverse_node_map
          ELSE [reverse_node_map EXCEPT ![nd] = Min(Matches(node_map, nd))]

(* Lines 593-600: one turn of the outer loop, for node id i. *)
BuildReverse ==
  /\ pc = "reverse"
  /\ i < n_node
  /\ ReverseLookup(i)
  /\ i' = i + 1
  /\ pc' = IF i + 1 = n_node THEN "done" ELSE "reverse"
  /\ UNCHANGED <<n_shader, n_mem, n_node, use_map, config, memory_node, next_node,
                 memory_node_index, overflowed, oobRead>>

Next ==
  \/ ChoosePreset
  \/ SkipMemoryNode
  \/ PlaceShader
  \/ MapMemoryNodes
  \/ IdentityMap
  \/ BuildReverse

Spec == Init /\ [][Next]_vars

-----------------------------------------------------------------------------
(* Properties *)

TypeOK ==
  /\ pc \in {"preset", "shaders", "identity", "reverse", "done", "aborted"}
  /\ node_map \in [Keys -> Nat \cup {NoEntry}]
  /\ reverse_node_map \in [Keys -> Keys \cup {NoEntry}]
  /\ i \in 0 .. MaxNode
  /\ \A d \in Keys : d >= n_node => node_map[d] = NoEntry

(* Once _CreateNodeMap returns, _node_map is a bijection from the devices *)
(* onto network node ids and _reverse_node_map inverts it, which Push and *)
(* Pop rely on when they translate device ids (spec: node map).           *)
NodeMapBijection ==
  pc = "done" =>
    /\ \A d \in Devices : node_map[d] \in 0 .. n_node - 1
    /\ IsInjective(Restrict(node_map, Devices))
    /\ \A d \in Devices : reverse_node_map[node_map[d]] = d

(* The shader placement loop never reads memory_node past its n_mem    *)
(* entries (line 576).                                                  *)
MemoryNodeReadInBounds == ~oobRead

(* Filling the default preset never writes past the n_mem entries of    *)
(* the array memory_node (lines 545-550).                               *)
PresetWithinArray == ~overflowed

=============================================================================
