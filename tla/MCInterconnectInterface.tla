---------------------- MODULE MCInterconnectInterface ----------------------
(* Model-checking instance of InterconnectInterface: one shader core and  *)
(* one memory partition on two subnets of two VCs each.                   *)
EXTENDS InterconnectInterface

(* 4 and 8 byte packets: one and two 32-bit flits. *)
MCSizes == {4, 8}

(* Only single-flit packets. *)
MCOneFlitSizes == {4}
(* Scenario constraint: the host only sends requests to the memory      *)
(* partitions, so replies never compete for the shader's ejection port.  *)
MCRequestsOnly == \A p \in PacketIds : sentTo[p] \in {-1} \cup (NShader .. NShader + NMem - 1)
=============================================================================
