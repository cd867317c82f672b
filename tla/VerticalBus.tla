----------------------------- MODULE VerticalBus -----------------------------
(***************************************************************************)
(* What the vertical buses of one (x, y) column of the 3D mesh promise:   *)
(* a router of any layer may hold flits for the up or the down bus, and   *)
(* in each cycle at most one layer drives a bus, with a flit it holds for  *)
(* it.  Bus slots are freed when the cycle ends.                          *)
(***************************************************************************)
EXTENDS Naturals

CONSTANTS Layers, Buses

VARIABLES
  wants,    \* layer -> the buses it holds a flit for
  drivers   \* bus -> the layers that drove it in this cycle

vars == <<wants, drivers>>

Init ==
  /\ wants = [z \in Layers |-> {}]
  /\ drivers = [b \in Buses |-> {}]

(* A layer's router gets a flit that must leave on bus b. *)
Arrive(z, b) ==
  /\ b \notin wants[z]
  /\ wants' = [wants EXCEPT ![z] = @ \cup {b}]
  /\ UNCHANGED drivers

(* Layer z sends its flits on the buses B, which no one drove this cycle. *)
Drive(z, B) ==
  /\ B # {} /\ B \subseteq wants[z]
  /\ \A b \in B : drivers[b] = {}
  /\ drivers' = [b \in Buses |-> IF b \in B THEN {z} ELSE drivers[b]]
  /\ wants' = [wants EXCEPT ![z] = @ \ B]

(* The cycle ends; every bus slot is free again. *)
EndCycle ==
  /\ drivers' = [b \in Buses |-> {}]
  /\ UNCHANGED wants

Next ==
  \/ \E z \in Layers, b \in Buses : Arrive(z, b)
  \/ \E z \in Layers, B \in SUBSET Buses : Drive(z, B)
  \/ EndCycle

Spec == Init /\ [][Next]_vars

=============================================================================
