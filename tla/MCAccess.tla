------------------------------ MODULE MCAccess ------------------------------
(* Finite instances of Access for TLC. *)
EXTENDS Access, TLC

CONSTANTS admin,      \* the administrator's password, 5 bytes
          fit         \* a password of 8 bytes

MCLength == (admin :> 5) @@ (fit :> 8)

Symmetry == Permutations(Requests) \cup Permutations(Tokens)
=============================================================================
