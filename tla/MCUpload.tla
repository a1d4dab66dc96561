------------------------------ MODULE MCUpload ------------------------------
(* Finite instances of Upload for TLC. *)
EXTENDS Upload, TLC

Symmetry == Permutations(Clients)
=============================================================================
