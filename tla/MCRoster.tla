------------------------------ MODULE MCRoster ------------------------------
(* Finite instances of Roster for TLC. *)
EXTENDS Roster, TLC

CONSTANTS u1,              \* a user in the file at the start
          ann, bob, guest, \* names: a new worker, a driver in the file, nobody
          annAccount, annOther, bobAccount,
          d1

MCSeedUsers ==
  << [id |-> u1, emp |-> "form", name |-> bob, dept |-> d1, role |-> "driver"] >>

\* Two accounts of one name: addresses are unique, names are not.
MCNameOf == (annAccount :> ann) @@ (annOther :> ann) @@ (bobAccount :> bob)

Symmetry == Permutations(Requests) \cup Permutations(UserIds \ {u1})
=============================================================================
