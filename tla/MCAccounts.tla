----------------------------- MODULE MCAccounts -----------------------------
(* Finite instances of Accounts for TLC. *)
EXTENDS Accounts, TLC

CONSTANTS admin,           \* the administrator's password, 5 bytes
          short, fit, long \* passwords of 3, 8 and 9 bytes

MCLength == (admin :> 5) @@ (short :> 3) @@ (fit :> 8) @@ (long :> 9)
=============================================================================
