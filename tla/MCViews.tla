------------------------------- MODULE MCViews -------------------------------
(* Finite instance of Views and Dashboard for TLC. *)
EXTENDS Views, Dashboard, TLC

CONSTANTS w,      \* a warehouse user
          i1, i2, \* an item on the shelf, one that was taken out of the file
          t0, t1  \* the recorded issue of i2, an id that is still free

CONSTANTS u1, u2, u3, u4,     \* employees of three departments, one in no list
          d1, d2, d3,         \* one in no list, two of one name
          glove, Glove, apron \* two spellings of one item, and another

MCWarehouse == {w}
MCQuantities == {1}
MCSeedStock == [i \in {i1} |-> 1]
MCSeedTxs == {[id |-> t0, item |-> i2, qty |-> 2, by |-> w]}

Symmetry == Permutations(Requests) \cup Permutations(RetIds)

MCDeptOf == u1 :> d1 @@ u2 :> d2 @@ u3 :> d3
MCDeptName == d2 :> "stores" @@ d3 :> "stores"
MCLowered == glove :> glove @@ Glove :> glove @@ apron :> apron

\* Two issues, perhaps a return, over two items and one that is not listed: the
\* quantities 4, 2 and 1 make every sum tell which rows it counts.
TwoItems == << [name |-> glove, qty |-> 3], [name |-> apron, qty |-> 3] >>
IssueOf(i, q, u, d) ==
  [item |-> i, name |-> IF i = 1 THEN glove ELSE apron, qty |-> q, user |-> u, date |-> d]
Issues2 ==
  {<<IssueOf(1, 4, u, 1), IssueOf(i, 2, v, d)>> :
     i \in 1 .. 3, u \in {u1, u2}, v \in People, d \in Days}
\* Of an issue that was read, or of one of item 2 or 3 that was not.
Returns1 ==
  {<<>>} \cup {<<[tx |-> k, item |-> i, qty |-> 1, user |-> u, date |-> d]>> :
                 k \in 1 .. 3, i \in 2 .. 3, u \in {u1, u4}, d \in Days}
EventReadings ==
  {t \in [items : {TwoItems}, txs : Issues2, rets : Returns1] :
     \A k \in DOMAIN t.rets :
       t.rets[k].tx \in DOMAIN t.txs =>
         /\ t.txs[t.rets[k].tx].date <= t.rets[k].date
         /\ t.txs[t.rets[k].tx].item \in {t.rets[k].item, 1}}

\* Three items, each below the threshold or not, the first and the last of
\* which were used.
ShelfReadings ==
  [items : {rows \in [1 .. 3 -> [name : ItemNames, qty : {1, 2}]] : rows[1].name = glove},
   txs : {<<[item |-> 1, name |-> glove, qty |-> 1, user |-> u1, date |-> 1],
            [item |-> 3, name |-> apron, qty |-> 1, user |-> u2, date |-> 2]>>},
   rets : {<<>>}]

MCReadings == EventReadings \cup ShelfReadings

\* The dashboard adds up; TLC evaluates this once, before the first state.
ASSUME DashboardAddsUp ==
  \A t \in MCReadings :
    IsReading(t) /\ FiltersPartition(t) /\ ChartsMatchTotals(t) /\ LowStockNamesAll(t)
=============================================================================
