--------------------------- MODULE MCDSENTResult ---------------------------
(* Bounds for DSENTResult: one atomic result, two composite results that *)
(* may share it and each other, one id for a clone, values in 0..2 and    *)
(* multiplier 2 (1 would hide a lost multiplier).                      *)
EXTENDS DSENTResult

CONSTANTS a1, c1, c2, k1

MCAtomics == {a1}
MCComposites == {c1, c2}
MCFresh == {k1}
MCProducers == {"Link"}
MCValues == {1}
MCNums == {2}

(* One composite result to clone. *)
MCOneComposite == {c1}

=============================================================================
