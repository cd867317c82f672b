------------------------- MODULE VerticalArbitration -------------------------
(***************************************************************************)
(* Mesh3D::Evaluate (src/src/intersim2/networks/mesh3D.cpp) for the       *)
(* routers of one (x, y) column, one per layer, and the two round-robin   *)
(* arbiters _AllocVerChan creates for the column's up and down buses      *)
(* (NewArbiter(..., _s): one client per layer).  Every router of the      *)
(* column holds the same two arbiters.                                    *)
(*                                                                         *)
(* One cycle is three loops over the routers, in _routers order, which    *)
(* for one column is layer order:                                         *)
(*   1. Evaluate of every timed module: a router's switch allocation      *)
(*      requests the bus of each vertical flit it holds;                  *)
(*   2. Evaluate_AfterSA of every router: the bus arbiter is consulted,   *)
(*      and the winning layer drives the bus;                              *)
(*   3. ClearVerticalArbiters of every router.                            *)
(* The IQ3DRouter and RoundRobinArbiter code is not in this repository.   *)
(* Their part follows the spec: a round-robin arbiter grants the first    *)
(* requester at or after its pointer, its pointer then moves to one past  *)
(* the winner, and Clear wipes the requests.                              *)
(***************************************************************************)
EXTENDS Integers

CONSTANTS
  S,       \* _s: the layers, hence the arbiter's clients
  Buses    \* the column's up and down bus

ASSUME S \in Nat \ {0}

Layers == 0 .. S - 1

VARIABLES
  phase,     \* which loop of Evaluate runs
  idx,       \* the router that loop visits next
  wants,     \* layer -> the buses its router holds a flit for
  requests,  \* bus -> the layers requesting its arbiter this cycle
  pointer,   \* bus -> the arbiter's round-robin pointer
  drivers    \* bus -> the layers that drove it this cycle

vars == <<phase, idx, wants, requests, pointer, drivers>>

NoWinner == -1

(* RoundRobinArbiter::Arbitrate: the requester first reached going round *)
(* from the pointer.                                                     *)
Arbitrate(b) ==
  IF requests[b] = {} THEN NoWinner
  ELSE CHOOSE z \in requests[b] :
         \A y \in requests[b] : (z - pointer[b]) % S <= (y - pointer[b]) % S

(* Fault model: the pointer kept at the winner. *)
NextPointerStay(b) == Arbitrate(b)

(* Fault model: the pointer moved past the winner without wrapping. *)
NextPointerNoWrap(b) == Arbitrate(b) + 1

(* The pointer after a cycle with a winner: one past the winner. *)
NextPointer(b) == (Arbitrate(b) + 1) % S

(* The next router of a loop, or the first router of the next loop. *)
Advance(next) ==
  IF idx + 1 < S THEN /\ idx' = idx + 1 /\ UNCHANGED phase
  ELSE /\ idx' = 0 /\ phase' = next

Init ==
  /\ phase = "evaluate"
  /\ idx = 0
  /\ wants = [z \in Layers |-> {}]
  /\ requests = [b \in Buses |-> {}]
  /\ pointer = [b \in Buses |-> 0]
  /\ drivers = [b \in Buses |-> {}]

(* The router of layer z gets a flit routed to bus b (its input buffer   *)
(* and route computation); it keeps it until it wins the bus.            *)
FlitArrives(z, b) ==
  /\ b \notin wants[z]
  /\ wants' = [wants EXCEPT ![z] = @ \cup {b}]
  /\ UNCHANGED <<phase, idx, requests, pointer, drivers>>

(* Fault model: Evaluate_AfterSA run by each router right after its own  *)
(* Evaluate, before the later routers have requested.                     *)
RouterEvaluateThenAfterSA ==
  LET req == [b \in Buses |-> IF b \in wants[idx] THEN requests[b] \cup {idx}
                              ELSE requests[b]]
      won == {b \in wants[idx] : req[b] # {} /\
                 \A y \in req[b] : (idx - pointer[b]) % S <= (y - pointer[b]) % S}
  IN /\ phase = "evaluate"
     /\ requests' = req
     /\ drivers' = [b \in Buses |-> IF b \in won THEN drivers[b] \cup {idx}
                                    ELSE drivers[b]]
     /\ wants' = [wants EXCEPT ![idx] = @ \ won]
     /\ Advance("clear")
     /\ UNCHANGED pointer

(* Lines 74-78, for one router: its Evaluate requests the arbiter of    *)
(* every bus it holds a flit for.                                        *)
RouterEvaluate ==
  /\ phase = "evaluate"
  /\ requests' = [b \in Buses |-> IF b \in wants[idx] THEN requests[b] \cup {idx}
                                 ELSE requests[b]]
  /\ Advance("afterSA")
  /\ UNCHANGED <<wants, pointer, drivers>>

(* Lines 87-91: Evaluate_AfterSA of router idx; it drives every bus      *)
(* whose arbiter grants its layer.                                        *)
EvaluateAfterSA ==
  LET won == {b \in wants[idx] : Arbitrate(b) = idx}
  IN /\ phase = "afterSA"
     /\ drivers' = [b \in Buses |-> IF b \in won THEN drivers[b] \cup {idx}
                                    ELSE drivers[b]]
     /\ wants' = [wants EXCEPT ![idx] = @ \ won]
     /\ Advance("clear")
     /\ UNCHANGED <<requests, pointer>>

(* Lines 93-97: ClearVerticalArbiters of router idx clears the column's *)
(* two arbiters; the first call of the cycle moves a pointer past its   *)
(* winner, the later ones find no requests.  After the last router the  *)
(* cycle ends and the bus slots are free.                               *)
ClearVerticalArbiters ==
  /\ phase = "clear"
  /\ pointer' = [b \in Buses |-> IF requests[b] # {} THEN NextPointer(b)
                                ELSE pointer[b]]
  /\ requests' = [b \in Buses |-> {}]
  /\ Advance("evaluate")
  /\ drivers' = IF idx + 1 < S THEN drivers ELSE [b \in Buses |-> {}]
  /\ UNCHANGED wants

(* Mesh3D::Evaluate, lines 72-98: the three loops in their order. *)
Evaluate == RouterEvaluate \/ EvaluateAfterSA \/ ClearVerticalArbiters

Next ==
  \/ \E z \in Layers, b \in Buses : FlitArrives(z, b)
  \/ Evaluate

(* Network::Advance calls Evaluate every cycle; new flits need not come. *)
Spec == Init /\ [][Next]_vars /\ WF_vars(Evaluate)

-----------------------------------------------------------------------------
(* Properties *)

TypeOK ==
  /\ phase \in {"evaluate", "afterSA", "clear"}
  /\ idx \in Layers
  /\ wants \in [Layers -> SUBSET Buses]
  /\ requests \in [Buses -> SUBSET Layers]
  /\ pointer \in [Buses -> Layers]
  /\ drivers \in [Buses -> SUBSET Layers]

(* The column implements the bus promise: at most one layer drives a bus *)
(* in a cycle, with a flit it holds.  This rests on Evaluate finishing   *)
(* every router's switch allocation before any Evaluate_AfterSA, and on  *)
(* all routers consulting the same arbiter state.                        *)
Bus == INSTANCE VerticalBus
         WITH Layers <- Layers, Buses <- Buses, wants <- wants, drivers <- drivers
BusRefinement == Bus!Spec

(* Round-robin starvation freedom: a flit waiting for a bus is           *)
(* eventually sent, however often the other layers compete for the bus. *)
NoStarvation == \A z \in Layers, b \in Buses : (b \in wants[z]) ~> (b \notin wants[z])

=============================================================================
