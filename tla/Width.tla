-------------------------------- MODULE Width --------------------------------
(***************************************************************************)
(* The arithmetic of IssueItem and ReturnItem in Go's int: sums wrap       *)
(* around in two's complement, and strconv.Atoi accepts every int a form   *)
(* may contain.  One item and its issues, one call at a time: nothing here *)
(* is due to concurrency (Inventory has that, with exact integers), all of *)
(* it to quantities no line of the code bounds.                            *)
(***************************************************************************)
EXTENDS Integers, Totals

CONSTANTS
  Half,        \* 2^63 on the machines it is built for: one more than the largest int
  Supply,      \* units on the shelf at the start
  TxIds,       \* transaction ids
  Quantities,  \* quantities a caller may pass, positive or not
  MaxCalls     \* bound on the calls: with sums that wrap, returns never end

MachineInt == -Half .. Half - 1

\* What the theorems assume of the constants.
WidthAssumption ==
  /\ Half \in Nat \ {0}
  /\ Supply \in 0 .. Half - 1
  /\ IsFiniteSet(TxIds)
  /\ Quantities \subseteq MachineInt
  /\ MaxCalls \in Nat

VARIABLES
  stock,     \* items.csv: the quantity of the item
  issued,    \* transactions.csv: the quantity of each issue, 0 before it
  returned,  \* returns.csv: per issue, the exact sum of its quantities
  calls      \* how many calls have changed something, for MaxCalls

vars == <<stock, issued, returned, calls>>

\* The machine int that a sum or a difference of machine ints yields.
Wrap(x) == ((x + Half) % (2 * Half)) - Half

\* The loop over the returns of issue t; adding row by row and wrapping each
\* time gives the same as wrapping the exact sum.
TotalReturned(t) == Wrap(returned[t])

Init ==
  /\ stock = Supply
  /\ issued = [t \in TxIds |-> 0]
  /\ returned = [t \in TxIds |-> 0]
  /\ calls = 0

\* IssueItem: its own check, the one of DecreaseQuantityIfEnough, the row.
IssueItem(t, q) ==
  /\ issued[t] = 0
  /\ q > 0
  /\ q <= stock
  /\ Wrap(stock - q) >= 0
  /\ stock' = Wrap(stock - q)
  /\ issued' = [issued EXCEPT ![t] = q]
  /\ UNCHANGED returned

\* ReturnItem: the check, IncreaseQuantity, the row.
ReturnItem(t, q) ==
  /\ issued[t] > 0
  /\ q > 0
  /\ Wrap(TotalReturned(t) + q) <= issued[t]
  /\ stock' = Wrap(stock + q)
  /\ returned' = [returned EXCEPT ![t] = @ + q]
  /\ UNCHANGED issued

Next ==
  /\ calls < MaxCalls
  /\ calls' = calls + 1
  /\ \E t \in TxIds, q \in Quantities : IssueItem(t, q) \/ ReturnItem(t, q)

Spec == Init /\ [][Next]_vars

-----------------------------------------------------------------------------
TypeOK ==
  /\ stock \in MachineInt
  /\ issued \in [TxIds -> 0 .. Half - 1]
  /\ returned \in [TxIds -> Nat]
  /\ calls \in 0 .. MaxCalls

\* "total returned (summed across returns) cannot exceed original issued
\* quantity", the rule above ReturnItem, with the exact sum.  It is broken by
\* a return that makes the sum wrap (run wide_return).
ReturnsWithinIssue == \A t \in TxIds : returned[t] <= issued[t]

\* Units of each issue that are still out.
Out == [t \in TxIds |-> issued[t] - returned[t]]

\* The ledger with exact arithmetic: the stock is not negative, no issue is
\* returned beyond its quantity, and what is not on the shelf is out.
Exact ==
  /\ stock >= 0
  /\ ReturnsWithinIssue
  /\ stock + Total(Out) = Supply

\* Some issue has had more returned than an int can count.
SumWrapped == \E t \in TxIds : returned[t] >= Half

\* Whatever quantities the forms pass on, the ledger is exact until a return
\* brings the sum of its issue beyond the largest int, and that sum alone is
\* to blame: no difference ever wraps, the stock's sum never wraps before it,
\* and no return that stays below the largest int gets past the check.
ExactUntilSumWraps == Exact \/ SumWrapped
=============================================================================
