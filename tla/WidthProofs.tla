----------------------------- MODULE WidthProofs -----------------------------
(***************************************************************************)
(* The ledger in machine arithmetic is exact until the sum of the returns  *)
(* of one issue exceeds the largest int, for every width, supply, number   *)
(* of issues and whatever quantities are passed; the run wide_return shows *)
(* that a sum can get there.                                               *)
(***************************************************************************)
EXTENDS Width, TotalsProofs

\* A machine int survives wrapping.
LEMMA WrapExact ==
  ASSUME WidthAssumption, NEW x \in MachineInt
  PROVE  Wrap(x) = x
<1>1. Half \in Nat \ {0} /\ x + Half \in 0 .. (2 * Half) - 1
  BY DEF WidthAssumption, MachineInt
<1>2. (x + Half) % (2 * Half) = x + Half
  BY <1>1
<1> QED
  BY <1>1, <1>2 DEF Wrap, MachineInt

\* No issue is larger than what there ever was, so that the sum compared in
\* ReturnItem stays small; Exact alone does not say it.
IssuedWithinSupply == \A t \in TxIds : issued[t] <= Supply

Good == TypeOK /\ Exact /\ IssuedWithinSupply

\* The inductive invariant.
IInv == TypeOK /\ (Good \/ SumWrapped)

\* What is out is a table of naturals, and no more than was supplied.
LEMMA OutType ==
  ASSUME WidthAssumption, Good
  PROVE  /\ Out \in [TxIds -> Nat]
         /\ Total(Out) \in Nat
         /\ stock \in 0 .. Supply
         /\ \A t \in TxIds : Out[t] <= Supply - stock
<1>1. Out \in [TxIds -> Nat]
  BY DEF Good, TypeOK, Exact, ReturnsWithinIssue, Out
<1>2. Total(Out) \in Nat
  BY <1>1, TotalType DEF WidthAssumption
<1>3. stock \in 0 .. Supply
  BY <1>2 DEF WidthAssumption, Good, TypeOK, Exact, MachineInt
<1>4. ASSUME NEW t \in TxIds PROVE Out[t] <= Supply - stock
  <2> DEFINE rest == [Out EXCEPT ![t] = 0]
  <2>1. rest \in [TxIds -> Nat] /\ rest[t] = 0 /\ \A u \in TxIds \ {t} : rest[u] = Out[u]
    BY <1>1
  <2>2. Total(rest) \in Nat
    BY <2>1, TotalType DEF WidthAssumption
  <2>3. Total(rest) = Total(Out) - Out[t] + rest[t]
    <3> HIDE DEF rest
    <3> QED
      BY <1>1, <2>1, TotalUpdate DEF WidthAssumption
  <2>4. Out[t] \in Nat /\ stock + Total(Out) = Supply
    BY <1>1 DEF Good, Exact
  <2> QED
    BY <1>2, <1>3, <2>1, <2>2, <2>3, <2>4 DEF WidthAssumption
<1> QED
  BY <1>1, <1>2, <1>3, <1>4

\* Nothing is out at the start.
LEMMA InitGood == WidthAssumption /\ Init => Good
<1> SUFFICES ASSUME WidthAssumption, Init PROVE Good
  OBVIOUS
<1>1. TypeOK
  BY DEF WidthAssumption, Init, TypeOK, MachineInt
<1>2. Out \in [TxIds -> Nat] /\ \A t \in TxIds : Out[t] = 0
  BY DEF Init, Out
<1>3. Total(Out) = 0
  BY <1>2, TotalZero
<1>4. ReturnsWithinIssue /\ IssuedWithinSupply /\ stock >= 0 /\ stock + 0 = Supply
  BY DEF WidthAssumption, Init, ReturnsWithinIssue, IssuedWithinSupply
<1> QED
  BY <1>1, <1>3, <1>4 DEF Good, Exact

\* A step that moves d units (an integer) from the shelf to what is out of
\* issue t keeps the balance.
LEMMA Moved ==
  ASSUME WidthAssumption, Good, NEW t \in TxIds, NEW d \in Int,
         stock' = stock - d,
         Out' \in [TxIds -> Nat], Out'[t] = Out[t] + d,
         \A u \in TxIds \ {t} : Out'[u] = Out[u]
  PROVE  stock' + Total(Out') = Supply
<1>1. Total(Out') = Total(Out) - Out[t] + Out'[t]
  BY OutType, TotalUpdate DEF WidthAssumption
<1> QED
  BY <1>1, OutType DEF WidthAssumption, Good, Exact

\* Whatever a step does, its results are machine ints, and sums only grow.
LEMMA NextType ==
  WidthAssumption /\ TypeOK /\ [Next]_vars => TypeOK' /\ (SumWrapped => SumWrapped')
<1> SUFFICES ASSUME WidthAssumption, TypeOK, [Next]_vars PROVE TypeOK' /\ (SumWrapped => SumWrapped')
  OBVIOUS
<1> USE DEF MachineInt
<1>0. /\ Half \in Nat \ {0} /\ stock \in -Half .. Half - 1
      /\ issued \in [TxIds -> 0 .. Half - 1] /\ returned \in [TxIds -> Nat]
      /\ calls \in 0 .. MaxCalls /\ MaxCalls \in Nat
  BY DEF WidthAssumption, TypeOK
<1>1. ASSUME NEW x \in Int PROVE Wrap(x) \in -Half .. Half - 1
  <2>1. PICK m \in Nat \ {0} : m = 2 * Half
    BY <1>0
  <2>2. (x + Half) % m \in 0 .. m - 1
    BY <1>0, <2>1
  <2> QED
    BY <1>0, <2>1, <2>2 DEF Wrap
<1>2. ASSUME Next PROVE calls' \in 0 .. MaxCalls
  BY <1>0, <1>2 DEF Next
<1>3. ASSUME NEW t \in TxIds, NEW q \in Quantities, Next, IssueItem(t, q)
      PROVE  TypeOK' /\ (SumWrapped => SumWrapped')
  <2>1. /\ q \in -Half .. Half - 1 /\ q > 0 /\ q <= stock
        /\ issued' = [issued EXCEPT ![t] = q] /\ returned' = returned
        /\ stock' = Wrap(stock - q)
    BY <1>3 DEF WidthAssumption, IssueItem
  <2>2. stock - q \in Int
    BY <1>0, <2>1
  <2>3. stock' \in -Half .. Half - 1
    BY <2>1, <2>2, <1>1
  <2> QED
    BY <1>0, <1>2, <1>3, <2>1, <2>3 DEF TypeOK, SumWrapped
<1>4. ASSUME NEW t \in TxIds, NEW q \in Quantities, Next, ReturnItem(t, q)
      PROVE  TypeOK' /\ (SumWrapped => SumWrapped')
  <2>1. /\ q \in -Half .. Half - 1 /\ q > 0
        /\ returned' = [returned EXCEPT ![t] = @ + q] /\ issued' = issued
        /\ stock' = Wrap(stock + q)
    BY <1>4 DEF WidthAssumption, ReturnItem
  <2>2. stock + q \in Int
    BY <1>0, <2>1
  <2>3. stock' \in -Half .. Half - 1
    BY <2>1, <2>2, <1>1
  <2>4. returned' \in [TxIds -> Nat] /\ \A u \in TxIds : returned'[u] >= returned[u]
    BY <1>0, <2>1
  <2>5. TypeOK'
    BY <1>0, <1>2, <1>4, <2>1, <2>3, <2>4 DEF TypeOK
  <2>6. ASSUME SumWrapped PROVE SumWrapped'
    <3>1. PICK u \in TxIds : returned[u] >= Half
      BY <2>6 DEF SumWrapped
    <3>2. returned'[u] >= Half
      BY <1>0, <2>4, <3>1
    <3> QED
      BY <3>2 DEF SumWrapped
  <2> QED
    BY <2>5, <2>6
<1>5. ASSUME UNCHANGED vars PROVE TypeOK' /\ (SumWrapped => SumWrapped')
  BY <1>5 DEF vars, TypeOK, SumWrapped
<1> QED
  BY <1>3, <1>4, <1>5 DEF Next

\* While no sum has wrapped a step computes the exact results, or wraps one.
LEMMA NextGood == WidthAssumption /\ Good /\ [Next]_vars => Good' \/ SumWrapped'
<1> SUFFICES ASSUME WidthAssumption, Good, [Next]_vars PROVE Good' \/ SumWrapped'
  OBVIOUS
<1> USE DEF MachineInt
<1>0. /\ Half \in Nat \ {0} /\ Supply \in 0 .. Half - 1
      /\ stock \in 0 .. Supply
      /\ issued \in [TxIds -> 0 .. Half - 1]
      /\ returned \in [TxIds -> Nat]
      /\ ReturnsWithinIssue /\ IssuedWithinSupply
  BY OutType DEF WidthAssumption, Good, TypeOK, Exact
<1>1. TypeOK'
  BY NextType DEF Good
<1>2. ASSUME NEW t \in TxIds, NEW q \in Quantities, IssueItem(t, q) PROVE Good'
  <2>1. /\ q \in Int /\ q > 0 /\ q <= stock /\ issued[t] = 0
        /\ issued' = [issued EXCEPT ![t] = q] /\ returned' = returned
    BY <1>2 DEF WidthAssumption, IssueItem
  <2>2. stock - q \in MachineInt /\ Wrap(stock - q) = stock - q
    BY <1>0, <2>1, WrapExact
  <2>3. stock' = stock - q
    BY <1>2, <2>2 DEF IssueItem
  <2>4. returned[t] = 0
    BY <1>0, <2>1 DEF ReturnsWithinIssue
  <2>5. ReturnsWithinIssue' /\ IssuedWithinSupply' /\ stock' >= 0
    BY <1>0, <2>1, <2>3, <2>4 DEF ReturnsWithinIssue, IssuedWithinSupply
  <2>6. /\ Out' \in [TxIds -> Nat] /\ Out'[t] = Out[t] + q
        /\ \A u \in TxIds \ {t} : Out'[u] = Out[u]
    BY <1>0, <2>1, <2>4, <2>5 DEF Out, ReturnsWithinIssue
  <2>7. stock' + Total(Out') = Supply
    BY <2>1, <2>3, <2>6, Moved
  <2> QED
    BY <1>1, <2>5, <2>7 DEF Good, Exact
<1>3. ASSUME NEW t \in TxIds, NEW q \in Quantities, ReturnItem(t, q)
      PROVE  Good' \/ SumWrapped'
  <2>1. /\ q \in -Half .. Half - 1 /\ q > 0 /\ issued[t] > 0
        /\ returned' = [returned EXCEPT ![t] = @ + q] /\ issued' = issued
        /\ returned'[t] = returned[t] + q
    BY <1>0, <1>3 DEF WidthAssumption, ReturnItem
  <2>2. returned[t] \in 0 .. Supply /\ issued[t] \in 0 .. Supply
    BY <1>0 DEF ReturnsWithinIssue, IssuedWithinSupply
  <2>3. CASE returned[t] + q >= Half
    BY <2>1, <2>3 DEF SumWrapped
  <2>4. CASE returned[t] + q < Half
    <3>1. TotalReturned(t) = returned[t]
      BY <1>0, <2>2, WrapExact DEF TotalReturned
    <3>2. returned[t] + q \in MachineInt /\ Wrap(returned[t] + q) = returned[t] + q
      BY <1>0, <2>1, <2>2, <2>4, WrapExact
    <3>3. returned[t] + q <= issued[t]
      BY <1>3, <3>1, <3>2 DEF ReturnItem
    <3>4. Out[t] = issued[t] - returned[t] /\ Out[t] <= Supply - stock
      BY OutType DEF Out
    <3>5. stock + q \in MachineInt /\ Wrap(stock + q) = stock + q
      BY <1>0, <2>1, <2>2, <3>3, <3>4, WrapExact
    <3>6. stock' = stock + q
      BY <1>3, <3>5 DEF ReturnItem
    <3>7. ReturnsWithinIssue' /\ IssuedWithinSupply' /\ stock' >= 0
      BY <1>0, <2>1, <3>3, <3>6 DEF ReturnsWithinIssue, IssuedWithinSupply
    <3>8. /\ Out' \in [TxIds -> Nat] /\ Out'[t] = Out[t] + (-q)
          /\ \A u \in TxIds \ {t} : Out'[u] = Out[u]
      BY <1>0, <2>1, <3>3, <3>7 DEF Out, ReturnsWithinIssue
    <3>9. stock' = stock - (-q) /\ -q \in Int
      BY <1>0, <2>1, <3>6
    <3>10. stock' + Total(Out') = Supply
      BY <3>8, <3>9, Moved
    <3> QED
      BY <1>1, <3>7, <3>10 DEF Good, Exact
  <2> QED
    BY <1>0, <2>1, <2>2, <2>3, <2>4
<1>4. ASSUME UNCHANGED vars PROVE Good'
  BY <1>4 DEF vars, Good, TypeOK, Exact, ReturnsWithinIssue, IssuedWithinSupply, Out
<1> QED
  BY <1>2, <1>3, <1>4 DEF Next

\* For every width of int, supply, finite set of issues and set of machine ints
\* that IssueItem and ReturnItem may be called with, without any bound: the
\* ledger is exact (no negative stock, no issue returned beyond its quantity,
\* shelf and issues adding up) until the returns of some issue sum up to more
\* than the largest int.
THEOREM MachineLedger == WidthAssumption => (Spec => []ExactUntilSumWraps)
<1> SUFFICES ASSUME WidthAssumption PROVE Spec => []ExactUntilSumWraps
  OBVIOUS
<1>1. Init => IInv
  BY InitGood DEF IInv, Good
<1>2. IInv /\ [Next]_vars => IInv'
  BY NextType, NextGood DEF IInv
<1>3. IInv => ExactUntilSumWraps
  BY DEF IInv, Good, ExactUntilSumWraps
<1> QED
  BY <1>1, <1>2, <1>3, PTL DEF Spec
=============================================================================
