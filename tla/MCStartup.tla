------------------------------ MODULE MCStartup ------------------------------
(* Finite instances of Startup for TLC. *)
EXTENDS Startup, TLC

CONSTANTS ann, bob

MCOrder == <<"items", "users", "departments", "transactions", "returns">>
=============================================================================
