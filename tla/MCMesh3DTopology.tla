-------------------------- MODULE MCMesh3DTopology --------------------------
(* Model-checking instance of Mesh3DTopology: every mesh up to 3x3x3. *)
EXTENDS Mesh3DTopology

MCKRange == 1 .. 3
MCNRange == 1 .. 3
MCSRange == 1 .. 3

(* Meshes that are at least 2 wide in x and y, and the thin ones. *)
MCWideRange == 2 .. 3
MCThinRange == 1 .. 2
=============================================================================
