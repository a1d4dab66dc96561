------------------------------- MODULE MCWidth -------------------------------
(* A finite instance of Width for TLC: an int of five bits. *)
EXTENDS Width, TLC

MCHalf == 16
\* Any int, as strconv.Atoi accepts any.
MCQuantities == MachineInt

Symmetry == Permutations(TxIds)
=============================================================================
