----------------------------- MODULE MCInventory -----------------------------
(* Finite instances of Inventory for TLC. *)
EXTENDS Inventory, TLC, Functions

CONSTANTS w, e,   \* a warehouse user, an ordinary employee
          i1, i2  \* an item on the shelf, one that may be added

MCWarehouse == {w}
MCUsers == {w, e}
MCQuantities == 0 .. 2
MCSeedStock == [i \in {i1} |-> 1]
MCSeedTxs == {}

\* Total is the sum the loops compute: a fold of + over the table.
ASSUME TotalIsSum ==
  \A n \in 0 .. 3 : \A f \in [1 .. n -> 0 .. 3] :
    Total(f) = FoldFunction(LAMBDA a, b : a + b, 0, f)
=============================================================================
