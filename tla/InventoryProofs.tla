--------------------------- MODULE InventoryProofs ---------------------------
(***************************************************************************)
(* Proofs that the stock ledger, and the pages that read it, keep their    *)
(* invariants for every number of requests, items, rows and faults.  The   *)
(* invariants are proved in layers: Core (types, and what a request may    *)
(* rely on between two calls) is inductive by itself; each of the others   *)
(* is inductive relative to it; what a page shows rests on how the ledger  *)
(* grows while the page reads.  The last part proves the dashboard's sums  *)
(* right for every reading of the files.                                   *)
(***************************************************************************)
EXTENDS Views, Dashboard, TotalsProofs, WellFoundedInduction

\* What a request has read stays good until it is used: the issue it refers to
\* is still there, because nothing removes a row but a write that is cut.
HeldReadsValid ==
  \A r \in Requests : req[r].pc # "idle" =>
    /\ req[r].item \in ItemIds
    /\ req[r].qty \in Nat \ {0}
    /\ req[r].by \in UserIds
    /\ req[r].pc \in {"increase", "addReturn"} =>
         /\ req[r].tx \in TxIds
         /\ cut["transactions"] = 0 =>
              \E tx \in txs : tx.id = req[r].tx /\ tx.item = req[r].item

\* An item without a row in items.csv has nothing on the shelf.
NoRowNoStock == \A i \in ItemIds \ items : stock[i] = 0

\* A file loses rows, and becomes unreadable, in a fault only.
NoFaultNoLoss == faults = 0 => torn = {} /\ cut["transactions"] = 0

Core == TypeOK /\ HeldReadsValid /\ NoRowNoStock /\ NoFaultNoLoss

\* The record of a request that holds nothing, before its first repository
\* call and after its last one, is well formed.
LEMMA IdleType == Idle \in Request
BY DEF Idle, Request, Calls

\* The total of a file is a number, so the ghost table of supplies is one of
\* natural numbers when the server starts.
LEMMA IssuedType ==
  ASSUME txs \subseteq TxRow, IsFiniteSet(txs), NEW i
  PROVE  Issued(i) \in Nat
<1> DEFINE rows == OfItem(txs, i)
<1>1. IsFiniteSet(rows)
  BY FS_Subset DEF OfItem
<1>2. QtyOf(rows) \in [rows -> Nat]
  BY DEF QtyOf, OfItem, TxRow
<1>3. Total(QtyOf(rows)) \in Nat
  <2> HIDE DEF rows
  <2> QED
    BY <1>1, <1>2, TotalType
<1> QED
  BY <1>3 DEF Issued

\* When the server starts, the files are well formed and nobody holds anything.
LEMMA InitCore == Init => Core
<1> SUFFICES ASSUME Init PROVE Core
  OBVIOUS
<1> USE InventoryAssumption DEF Init
<1>1. TypeOK
  <2>1. supplied \in [ItemIds -> Nat]
    BY IssuedType
  <2>2. rets \subseteq RetRow /\ IsFiniteSet(rets)
    BY FS_EmptySet
  <2>3. torn \subseteq Files /\ cut \in [Files -> Nat]
    OBVIOUS
  <2> QED
    BY <2>1, <2>2, <2>3, IdleType DEF TypeOK
<1>2. HeldReadsValid
  BY DEF HeldReadsValid, Idle
<1>3. NoRowNoStock /\ NoFaultNoLoss
  BY DEF NoRowNoStock, NoFaultNoLoss, Files
<1> QED
  BY <1>1, <1>2, <1>3 DEF Core

\* A cut write is a fault, counted for the file it hits.
LEMMA CutType ==
  ASSUME TypeOK, NEW file \in Files, Cut(file)
  PROVE  /\ torn' \subseteq Files /\ cut' \in [Files -> Nat]
         /\ faults' \in Nat /\ faults' # 0
         /\ cut'[file] = cut[file] + 1
         /\ \A f \in Files \ {file} : cut'[f] = cut[f]
BY DEF Cut, TypeOK

\* items.csv after a cut: some rows, with the quantities that were written.
LEMMA CutItemsType ==
  ASSUME TypeOK, NEW rows \in SUBSET ItemIds, NEW new \in [ItemIds -> Int],
         CutItems(rows, new)
  PROVE  /\ Cut("items")
         /\ items' \subseteq ItemIds /\ stock' \in [ItemIds -> Int] /\ NoRowNoStock'
         /\ \A i \in ItemIds : stock'[i] \in {0, new[i]}
BY DEF CutItems, NoRowNoStock

\* Every step keeps the types and what the requests in flight rely on.
LEMMA NextCore == Core /\ [Next]_vars => Core'
<1> SUFFICES ASSUME Core, [Next]_vars PROVE Core'
  OBVIOUS
<1> USE InventoryAssumption DEF Core
<1>d. ASSUME UNCHANGED <<torn, cut, faults>> PROVE NoFaultNoLoss'
  BY <1>d DEF NoFaultNoLoss
<1>1. ASSUME NEW i \in ItemIds, NEW q \in Quantities, AddItem(i, q) PROVE Core'
  <2>1. TypeOK'
    BY <1>1 DEF AddItem, TypeOK, disk
  <2>2. HeldReadsValid'
    BY <1>1 DEF AddItem, HeldReadsValid, disk
  <2>3. NoRowNoStock'
    BY <1>1 DEF AddItem, NoRowNoStock, TypeOK, disk
  <2>4. NoFaultNoLoss'
    BY <1>1, <1>d DEF AddItem, disk
  <2> QED
    BY <2>1, <2>2, <2>3, <2>4
<1>2. ASSUME NEW r \in Requests, NEW i \in ItemIds, NEW q \in Quantities,
             NEW to \in UserIds, NEW by \in UserIds, IssueItem(r, i, q, to, by)
      PROVE  Core'
  <2> DEFINE new == [pc |-> "decrease", item |-> i, qty |-> q, tx |-> NoId, by |-> by]
  <2>0. q > 0 /\ i \in items /\ req' = [req EXCEPT ![r] = new]
    BY <1>2, Zenon DEF IssueItem
  <2>a. q \in Nat \ {0} /\ i \in items /\ req' = [req EXCEPT ![r] = new]
    BY <2>0
  <2>b. new \in Request
    BY <2>a DEF Request, Calls
  <2>1. TypeOK'
    BY <1>2, <2>a, <2>b DEF IssueItem, TypeOK, disk
  <2>2. HeldReadsValid'
    BY <1>2, <2>a DEF IssueItem, TypeOK, HeldReadsValid, disk
  <2>3. NoRowNoStock'
    BY <1>2 DEF IssueItem, NoRowNoStock
  <2>4. NoFaultNoLoss'
    BY <1>2, <1>d DEF IssueItem, disk
  <2> QED
    BY <2>1, <2>2, <2>3, <2>4
<1>3. ASSUME NEW r \in Requests, NEW tx \in txs, NEW q \in Quantities,
             NEW by \in UserIds, ReturnItem(r, tx, q, by)
      PROVE  Core'
  <2> DEFINE new == [pc |-> "increase", item |-> tx.item, qty |-> q, tx |-> tx.id, by |-> by]
  <2>a. q \in Nat \ {0} /\ req' = [req EXCEPT ![r] = new]
    BY <1>3 DEF ReturnItem, AcceptReturn
  <2>b. tx.item \in ItemIds /\ tx.id \in TxIds
    BY DEF TypeOK, TxRow, disk
  <2>c. new \in Request
    BY <2>a, <2>b DEF Request, Calls
  <2>1. TypeOK'
    BY <1>3, <2>a, <2>b, <2>c DEF ReturnItem, AcceptReturn, TypeOK, disk
  <2>2. HeldReadsValid'
    BY <1>3, <2>a, <2>b DEF ReturnItem, AcceptReturn, TypeOK, HeldReadsValid, disk
  <2>3. NoRowNoStock'
    BY <1>3 DEF ReturnItem, AcceptReturn, NoRowNoStock
  <2>4. NoFaultNoLoss'
    BY <1>3, <1>d DEF ReturnItem, AcceptReturn, disk
  <2> QED
    BY <2>1, <2>2, <2>3, <2>4
<1>4. ASSUME NEW r \in Requests, DecreaseQuantityIfEnough(r) PROVE Core'
  <2>1. TypeOK'
    BY <1>4 DEF DecreaseQuantityIfEnough, TypeOK, HeldReadsValid, Request, Calls, disk
  <2>2. HeldReadsValid'
    BY <1>4 DEF DecreaseQuantityIfEnough, TypeOK, HeldReadsValid, disk
  <2>3. NoRowNoStock'
    BY <1>4 DEF DecreaseQuantityIfEnough, NoRowNoStock, HeldReadsValid, TypeOK, disk
  <2>4. NoFaultNoLoss'
    BY <1>4, <1>d DEF DecreaseQuantityIfEnough, disk
  <2> QED
    BY <2>1, <2>2, <2>3, <2>4
<1>5. ASSUME NEW r \in Requests, InsufficientStock(r) \/ ItemNotFound(r) PROVE Core'
  <2>1. TypeOK'
    BY <1>5, IdleType DEF InsufficientStock, ItemNotFound, TypeOK, disk
  <2>2. HeldReadsValid'
    BY <1>5 DEF InsufficientStock, ItemNotFound, TypeOK, HeldReadsValid, Idle, disk
  <2>3. NoRowNoStock'
    BY <1>5 DEF InsufficientStock, ItemNotFound, NoRowNoStock
  <2>4. NoFaultNoLoss'
    BY <1>5, <1>d DEF InsufficientStock, ItemNotFound, disk
  <2> QED
    BY <2>1, <2>2, <2>3, <2>4
<1>6. ASSUME NEW r \in Requests, AddTransaction(r) PROVE Core'
  <2>1. TypeOK'
    <3>1. PICK id \in TxIds : txs' = txs \cup {[id |-> id, item |-> req[r].item,
                                               qty |-> req[r].qty, by |-> req[r].by]}
      BY <1>6 DEF AddTransaction
    <3>2. txs' \subseteq TxRow
      BY <1>6, <3>1 DEF AddTransaction, TypeOK, HeldReadsValid, TxRow, disk
    <3>3. IsFiniteSet(txs')
      BY <3>1, FS_AddElement DEF TypeOK, disk
    <3> QED
      BY <1>6, <3>2, <3>3, IdleType DEF AddTransaction, TypeOK, disk
  <2>2. HeldReadsValid'
    BY <1>6 DEF AddTransaction, TypeOK, HeldReadsValid, Idle, disk
  <2>3. NoRowNoStock'
    BY <1>6 DEF AddTransaction, NoRowNoStock
  <2>4. NoFaultNoLoss'
    BY <1>6, <1>d DEF AddTransaction, disk
  <2> QED
    BY <2>1, <2>2, <2>3, <2>4
<1>7. ASSUME NEW r \in Requests, IncreaseQuantity(r) PROVE Core'
  <2>1. TypeOK'
    BY <1>7 DEF IncreaseQuantity, TypeOK, HeldReadsValid, Request, Calls, disk
  <2>2. HeldReadsValid'
    BY <1>7 DEF IncreaseQuantity, TypeOK, HeldReadsValid, disk
  <2>3. NoRowNoStock'
    BY <1>7 DEF IncreaseQuantity, NoRowNoStock, TypeOK, disk
  <2>4. NoFaultNoLoss'
    BY <1>7, <1>d DEF IncreaseQuantity, disk
  <2> QED
    BY <2>1, <2>2, <2>3, <2>4
<1>8. ASSUME NEW r \in Requests, AddReturn(r) PROVE Core'
  <2>1. TypeOK'
    <3>1. PICK id \in RetIds : rets' = rets \cup {[id |-> id, tx |-> req[r].tx,
            item |-> req[r].item, qty |-> req[r].qty, by |-> req[r].by]}
      BY <1>8 DEF AddReturn
    <3>2. req[r].tx \in TxIds
      BY <1>8 DEF AddReturn, TypeOK, HeldReadsValid, TxRow, disk
    <3>3. rets' \subseteq RetRow
      BY <1>8, <3>1, <3>2 DEF AddReturn, TypeOK, HeldReadsValid, RetRow, disk
    <3>4. IsFiniteSet(rets')
      BY <3>1, FS_AddElement DEF TypeOK, disk
    <3> QED
      BY <1>8, <3>3, <3>4, IdleType DEF AddReturn, TypeOK, disk
  <2>2. HeldReadsValid'
    BY <1>8 DEF AddReturn, TypeOK, HeldReadsValid, Idle, disk
  <2>3. NoRowNoStock'
    BY <1>8 DEF AddReturn, NoRowNoStock
  <2>4. NoFaultNoLoss'
    BY <1>8, <1>d DEF AddReturn, disk
  <2> QED
    BY <2>1, <2>2, <2>3, <2>4
<1>9. ASSUME NEW r \in Requests, GiveUp(r), req[r].pc # "idle",
             faults' \in Nat, faults' = 0 => faults = 0
      PROVE  Core'
  <2>1. drift' \in [ItemIds -> Int]
    BY <1>9 DEF GiveUp, TypeOK, HeldReadsValid
  <2>2. TypeOK'
    BY <1>9, <2>1, IdleType DEF GiveUp, TypeOK, disk
  <2>3. HeldReadsValid'
    BY <1>9 DEF GiveUp, TypeOK, HeldReadsValid, Idle, disk
  <2>4. NoRowNoStock' /\ NoFaultNoLoss'
    BY <1>9 DEF GiveUp, NoRowNoStock, NoFaultNoLoss, disk
  <2> QED
    BY <2>2, <2>3, <2>4
<1>10. ASSUME Crash PROVE Core'
  <2>1. \A c, i : Total(Held(c, i)) \in Nat
    <3>1. ASSUME NEW c, NEW i PROVE Held(c, i) \in [Requests -> Nat]
      BY DEF Held, TypeOK, Request
    <3> QED
      BY <3>1, TotalType
  <2>2. drift' \in [ItemIds -> Int]
    BY <1>10, <2>1 DEF Crash, TypeOK, PendingIssues, PendingReturns
  <2>3. TypeOK'
    BY <1>10, <2>2, IdleType DEF Crash, TypeOK, disk
  <2>4. HeldReadsValid'
    BY <1>10 DEF Crash, HeldReadsValid, Idle
  <2>5. NoRowNoStock' /\ NoFaultNoLoss'
    BY <1>10 DEF Crash, NoRowNoStock, NoFaultNoLoss, TypeOK, disk
  <2> QED
    BY <2>3, <2>4, <2>5
<1>12. ASSUME NEW r \in Requests, CallFails(r) \/ FileIsTorn(r) PROVE Core'
  <2>1. GiveUp(r) /\ req[r].pc # "idle" /\ faults' \in Nat /\ (faults' = 0 => faults = 0)
    BY <1>12 DEF CallFails, FileIsTorn, TypeOK
  <2> QED
    BY <1>9, <2>1
<1>13. ASSUME NEW i \in ItemIds, NEW q \in Quantities, AddItemCut(i, q) PROVE Core'
  <2>1. PICK new : new = [stock EXCEPT ![i] = q]
    OBVIOUS
  <2>2. new \in [ItemIds -> Int] /\ items \cup {i} \in SUBSET ItemIds
        /\ CutItems(items \cup {i}, new)
    BY <1>13, <2>1 DEF AddItemCut, TypeOK
  <2>3. /\ Cut("items") /\ items' \subseteq ItemIds /\ stock' \in [ItemIds -> Int]
        /\ NoRowNoStock'
    BY ONLY TypeOK, <2>2, CutItemsType
  <2>4. "items" \in Files /\ "transactions" \in Files
    BY DEF Files
  <2>5. /\ torn' \subseteq Files /\ cut' \in [Files -> Nat] /\ faults' \in Nat /\ faults' # 0
        /\ cut'["transactions"] = cut["transactions"]
    BY <2>3, <2>4, CutType
  <2>6. drift' \in [ItemIds -> Int] /\ supplied' \in [ItemIds -> Nat]
    <3>a. q > 0
      BY <1>13, Zenon DEF AddItemCut
    <3>1. q \in Nat
      BY <3>a
    <3>2. ASSUME NEW j \in ItemIds
          PROVE  drift[j] + (IF j = i THEN q ELSE stock[j]) - stock'[j] \in Int
      BY <2>3, <3>1 DEF TypeOK
    <3>3. drift' = [j \in ItemIds |-> drift[j] + (IF j = i THEN q ELSE stock[j]) - stock'[j]]
      BY <1>13 DEF AddItemCut
    <3>4. drift' \in [ItemIds -> Int]
      BY <3>2, <3>3
    <3> QED
      BY <1>13, <3>1, <3>4 DEF AddItemCut, TypeOK
  <2>7. TypeOK'
    BY <1>13, <2>3, <2>5, <2>6 DEF AddItemCut, TypeOK
  <2>8. HeldReadsValid'
    BY <1>13, <2>5 DEF AddItemCut, HeldReadsValid
  <2> QED
    BY <2>3, <2>5, <2>7, <2>8 DEF NoFaultNoLoss
<1>14. ASSUME NEW r \in Requests, ShelfCut(r) PROVE Core'
  <2>1. PICK j, n, new : /\ j = req[r].item
                         /\ n = IF req[r].pc = "decrease" THEN stock[j] - req[r].qty
                                                          ELSE stock[j] + req[r].qty
                         /\ new = [stock EXCEPT ![j] = n]
    OBVIOUS
  <2>2. /\ req[r].pc \in {"decrease", "increase"} /\ j \in ItemIds /\ req[r].qty \in Nat
    BY <1>14, <2>1 DEF ShelfCut, HeldReadsValid
  <2>3. n \in Int
    BY <2>1, <2>2 DEF TypeOK
  <2>4. new \in [ItemIds -> Int] /\ items \in SUBSET ItemIds /\ CutItems(items, new)
    BY <1>14, <2>1, <2>3 DEF ShelfCut, TypeOK
  <2>5. /\ Cut("items") /\ items' \subseteq ItemIds /\ stock' \in [ItemIds -> Int]
        /\ NoRowNoStock'
    BY ONLY TypeOK, <2>4, CutItemsType
  <2>6. "items" \in Files /\ "transactions" \in Files
    BY DEF Files
  <2>7. /\ torn' \subseteq Files /\ cut' \in [Files -> Nat] /\ faults' \in Nat /\ faults' # 0
        /\ cut'["transactions"] = cut["transactions"]
    BY <2>5, <2>6, CutType
  <2>8. /\ UNCHANGED <<txs, rets, supplied, overlapped>>
        /\ \/ /\ req' = [req EXCEPT ![r].pc =
                           IF @ = "decrease" THEN "addTransaction" ELSE "addReturn"]
              /\ drift' = [k \in ItemIds |->
                             drift[k] + (IF k = j THEN n ELSE stock[k]) - stock'[k]]
           \/ /\ req' = [req EXCEPT ![r] = Idle]
              /\ drift' = [k \in ItemIds |-> drift[k] + stock[k] - stock'[k]]
    BY <1>14, <2>1 DEF ShelfCut
  <2>9. drift' \in [ItemIds -> Int]
    BY <2>3, <2>5, <2>8 DEF TypeOK
  <2>10. req' \in [Requests -> Request]
    BY <2>8, IdleType DEF TypeOK, Request, Calls
  <2>11. TypeOK'
    BY <2>5, <2>7, <2>8, <2>9, <2>10 DEF TypeOK
  <2>12. HeldReadsValid'
    <3>1. ASSUME NEW s \in Requests, req'[s].pc # "idle"
          PROVE  /\ req[s].pc # "idle" /\ req'[s].item = req[s].item /\ req'[s].qty = req[s].qty
                 /\ req'[s].by = req[s].by /\ req'[s].tx = req[s].tx
                 /\ req'[s].pc \in {"increase", "addReturn"}
                      => req[s].pc \in {"increase", "addReturn"}
      BY <2>2, <2>8, <3>1 DEF TypeOK, Request, Idle
    <3> QED
      BY <2>7, <2>8, <3>1 DEF HeldReadsValid
  <2> QED
    BY <2>5, <2>7, <2>11, <2>12 DEF NoFaultNoLoss
<1>15. ASSUME NEW r \in Requests, IssueCut(r) PROVE Core'
  <2>0. PICK id \in TxIds :
          /\ txs' \in SUBSET (txs \cup {[id |-> id, item |-> req[r].item, qty |-> req[r].qty, by |-> req[r].by]})
          /\ drift' = [i \in ItemIds |-> drift[i] + Total(QtyOf(OfItem(
                (txs \cup {[id |-> id, item |-> req[r].item, qty |-> req[r].qty, by |-> req[r].by]}) \ txs', i)))]
    BY <1>15, Zenon DEF IssueCut
  <2>a. PICK row : row = [id |-> id, item |-> req[r].item, qty |-> req[r].qty, by |-> req[r].by]
    OBVIOUS
  <2>b. PICK new : new = txs \cup {row}
    OBVIOUS
  <2>1. /\ txs' \in SUBSET new
        /\ drift' = [i \in ItemIds |-> drift[i] + Total(QtyOf(OfItem(new \ txs', i)))]
    BY <2>0, <2>a, <2>b
  <2>2. new \in SUBSET TxRow
    BY <1>15, <2>a, <2>b DEF IssueCut, TypeOK, HeldReadsValid, TxRow
  <2>3. IsFiniteSet(new)
    <3>1. IsFiniteSet(txs)
      BY DEF TypeOK
    <3> QED
      BY ONLY <2>b, <3>1, FS_AddElement
  <2>4. txs' \subseteq TxRow /\ IsFiniteSet(txs')
    BY <2>1, <2>2, <2>3, FS_Subset
  <2>5. ASSUME NEW i \in ItemIds PROVE Total(QtyOf(OfItem(new \ txs', i))) \in Nat
    <3>1. PICK R : R = OfItem(new \ txs', i)
      OBVIOUS
    <3>2. R \in SUBSET new /\ QtyOf(R) \in [R -> Nat]
      BY <2>2, <3>1 DEF OfItem, QtyOf, TxRow
    <3>3. IsFiniteSet(R)
      BY ONLY <2>3, <3>2, FS_Subset
    <3>4. Total(QtyOf(R)) \in Nat
      BY ONLY <3>2, <3>3, TotalType
    <3> QED
      BY <3>1, <3>4
  <2>6. drift' \in [ItemIds -> Int]
    <3>1. ASSUME NEW i \in ItemIds
          PROVE  drift[i] + Total(QtyOf(OfItem(new \ txs', i))) \in Int
      <4>1. PICK x : x = Total(QtyOf(OfItem(new \ txs', i)))
        OBVIOUS
      <4>2. x \in Nat /\ drift[i] \in Int
        BY <2>5, <4>1 DEF TypeOK
      <4>3. drift[i] + x \in Int
        BY ONLY <4>2
      <4> QED
        BY <4>1, <4>3
    <3> QED
      BY <2>1, <3>1, Zenon
  <2>7. /\ torn' \subseteq Files /\ cut' \in [Files -> Nat] /\ faults' \in Nat /\ faults' # 0
        /\ cut'["transactions"] # 0
    <3>1. "transactions" \in Files
      BY DEF Files
    <3> QED
      BY <1>15, <3>1, CutType DEF IssueCut, TypeOK
  <2>8. TypeOK'
    BY <1>15, <2>4, <2>6, <2>7, IdleType DEF IssueCut, TypeOK
  <2>9. HeldReadsValid'
    BY <1>15, <2>7 DEF IssueCut, TypeOK, HeldReadsValid, Idle
  <2> QED
    BY <1>15, <2>7, <2>8, <2>9 DEF IssueCut, NoRowNoStock, NoFaultNoLoss
<1>16. ASSUME NEW r \in Requests, ReturnCut(r) PROVE Core'
  <2>0. PICK id \in RetIds :
          /\ rets' \in SUBSET (rets \cup {[id |-> id, tx |-> req[r].tx, item |-> req[r].item,
                    qty |-> req[r].qty, by |-> req[r].by]})
          /\ drift' = [i \in ItemIds |-> drift[i] - Total(QtyOf(OfItem(
                (rets \cup {[id |-> id, tx |-> req[r].tx, item |-> req[r].item,
                    qty |-> req[r].qty, by |-> req[r].by]}) \ rets', i)))]
    BY <1>16, Zenon DEF ReturnCut
  <2>a. PICK row : row = [id |-> id, tx |-> req[r].tx, item |-> req[r].item,
                    qty |-> req[r].qty, by |-> req[r].by]
    OBVIOUS
  <2>b. PICK new : new = rets \cup {row}
    OBVIOUS
  <2>1. /\ rets' \in SUBSET new
        /\ drift' = [i \in ItemIds |-> drift[i] - Total(QtyOf(OfItem(new \ rets', i)))]
    BY <2>0, <2>a, <2>b
  <2>2. new \in SUBSET RetRow
    BY <1>16, <2>a, <2>b DEF ReturnCut, TypeOK, HeldReadsValid, RetRow
  <2>3. IsFiniteSet(new)
    <3>1. IsFiniteSet(rets)
      BY DEF TypeOK
    <3> QED
      BY ONLY <2>b, <3>1, FS_AddElement
  <2>4. rets' \subseteq RetRow /\ IsFiniteSet(rets')
    BY <2>1, <2>2, <2>3, FS_Subset
  <2>5. ASSUME NEW i \in ItemIds PROVE Total(QtyOf(OfItem(new \ rets', i))) \in Nat
    <3>1. PICK R : R = OfItem(new \ rets', i)
      OBVIOUS
    <3>2. R \in SUBSET new /\ QtyOf(R) \in [R -> Nat]
      BY <2>2, <3>1 DEF OfItem, QtyOf, RetRow
    <3>3. IsFiniteSet(R)
      BY ONLY <2>3, <3>2, FS_Subset
    <3>4. Total(QtyOf(R)) \in Nat
      BY ONLY <3>2, <3>3, TotalType
    <3> QED
      BY <3>1, <3>4
  <2>6. drift' \in [ItemIds -> Int]
    <3>1. ASSUME NEW i \in ItemIds
          PROVE  drift[i] - Total(QtyOf(OfItem(new \ rets', i))) \in Int
      <4>1. PICK x : x = Total(QtyOf(OfItem(new \ rets', i)))
        OBVIOUS
      <4>2. x \in Nat /\ drift[i] \in Int
        BY <2>5, <4>1 DEF TypeOK
      <4>3. drift[i] - x \in Int
        BY ONLY <4>2
      <4> QED
        BY <4>1, <4>3
    <3> QED
      BY <2>1, <3>1, Zenon
  <2>7. /\ torn' \subseteq Files /\ cut' \in [Files -> Nat] /\ faults' \in Nat /\ faults' # 0
        /\ cut'["transactions"] = cut["transactions"]
    <3>1. "transactions" \in Files /\ "returns" \in Files
      BY DEF Files
    <3> QED
      BY <1>16, <3>1, CutType DEF ReturnCut
  <2>8. TypeOK'
    BY <1>16, <2>4, <2>6, <2>7, IdleType DEF ReturnCut, TypeOK
  <2>9. HeldReadsValid'
    BY <1>16, <2>7 DEF ReturnCut, TypeOK, HeldReadsValid, Idle
  <2> QED
    BY <1>16, <2>7, <2>8, <2>9 DEF ReturnCut, NoRowNoStock, NoFaultNoLoss
<1>11. CASE UNCHANGED vars
  BY <1>11 DEF vars, disk, TypeOK, HeldReadsValid, NoRowNoStock, NoFaultNoLoss
<1> QED
  BY <1>1, <1>2, <1>3, <1>4, <1>5, <1>6, <1>7, <1>8, <1>10, <1>11, <1>12, <1>13, <1>14,
     <1>15, <1>16 DEF Next, Proceed

\* Core holds in every reachable state.
THEOREM CoreInvariant == Spec => []Core
BY InitCore, NextCore, PTL DEF Spec

\* No step forgets that a file lost rows, and while none are lost the two
\* ledgers only grow.
LEMMA LedgersGrow ==
  ASSUME Core, [Next]_vars
  PROVE  /\ \A f \in Files : cut[f] <= cut'[f]
         /\ cut'["transactions"] = cut["transactions"] => txs \subseteq txs'
         /\ cut'["returns"] = cut["returns"] => rets \subseteq rets'
<1> DEFINE Goal == /\ \A f \in Files : cut[f] <= cut'[f]
                   /\ cut'["transactions"] = cut["transactions"] => txs \subseteq txs'
                   /\ cut'["returns"] = cut["returns"] => rets \subseteq rets'
<1>t. TypeOK /\ cut \in [Files -> Nat]
  BY DEF Core, TypeOK
<1>f. "items" \in Files /\ "transactions" \in Files /\ "returns" \in Files
  BY DEF Files
<1>1. ASSUME UNCHANGED cut, txs \subseteq txs', rets \subseteq rets' PROVE Goal
  BY <1>1, <1>t
<1>2. ASSUME Cut("items"), UNCHANGED <<txs, rets>> PROVE Goal
  BY <1>2, <1>t, <1>f, CutType
<1>3. ASSUME Cut("transactions"), UNCHANGED rets PROVE Goal
  BY <1>3, <1>t, <1>f, CutType
<1>4. ASSUME Cut("returns"), UNCHANGED txs PROVE Goal
  BY <1>4, <1>t, <1>f, CutType
<1> HIDE DEF Goal
<1>5. ASSUME NEW r \in Requests,
             \/ DecreaseQuantityIfEnough(r) \/ InsufficientStock(r) \/ IncreaseQuantity(r)
             \/ ItemNotFound(r) \/ FileIsTorn(r) \/ CallFails(r)
      PROVE  Goal
  BY <1>1, <1>5 DEF DecreaseQuantityIfEnough, InsufficientStock, IncreaseQuantity,
     ItemNotFound, GiveUp, CallFails, FileIsTorn, disk
<1>6. ASSUME NEW r \in Requests, AddTransaction(r) \/ AddReturn(r) PROVE Goal
  BY <1>1, <1>6 DEF AddTransaction, AddReturn, disk
<1>7. ASSUME NEW r \in Requests, NEW i, NEW q, NEW to, NEW by, IssueItem(r, i, q, to, by)
      PROVE  Goal
  <2>1. UNCHANGED <<txs, rets, disk>>
    BY <1>7, Zenon DEF IssueItem
  <2> QED
    BY <1>1, <2>1 DEF disk
<1>8. ASSUME NEW r \in Requests, NEW tx, NEW q, NEW by, ReturnItem(r, tx, q, by) PROVE Goal
  <2>1. UNCHANGED <<txs, rets, disk>>
    BY <1>8, Zenon DEF ReturnItem, AcceptReturn
  <2> QED
    BY <1>1, <2>1 DEF disk
<1>9. ASSUME (\E i \in ItemIds, q \in Quantities : AddItem(i, q)) \/ Crash \/ UNCHANGED vars
      PROVE  Goal
  BY <1>1, <1>9 DEF AddItem, Crash, vars, disk
<1>10. ASSUME NEW i \in ItemIds, NEW q \in Quantities, AddItemCut(i, q) PROVE Goal
  BY <1>2, <1>10 DEF AddItemCut, CutItems
<1>11. ASSUME NEW r \in Requests, ShelfCut(r) PROVE Goal
  BY <1>2, <1>11 DEF ShelfCut, CutItems
<1>12. ASSUME NEW r \in Requests, IssueCut(r) PROVE Goal
  BY <1>3, <1>12, Zenon DEF IssueCut
<1>13. ASSUME NEW r \in Requests, ReturnCut(r) PROVE Goal
  BY <1>4, <1>13, Zenon DEF ReturnCut
<1>14. Goal
  BY <1>5, <1>6, <1>7, <1>8, <1>9, <1>10, <1>11, <1>12, <1>13 DEF Next, Proceed
<1> QED
  BY <1>14 DEF Goal

\* The variables keep their types: in particular the files only ever hold
\* well-formed rows with positive quantities, whatever the callers pass.
THEOREM TypeCorrect == Spec => []TypeOK
<1>1. Core => TypeOK
  BY DEF Core
<1> QED
  BY <1>1, CoreInvariant, PTL

-----------------------------------------------------------------------------
\* The repository's own check keeps the shelf at 0 or above: the only step
\* that takes units off it is the one that has just compared.
THEOREM StockInvariant == Spec => []StockNeverNegative
<1>1. Init => StockNeverNegative
  BY InventoryAssumption DEF Init, StockNeverNegative
<1>2. Core /\ StockNeverNegative /\ [Next]_vars => StockNeverNegative'
  <2> SUFFICES ASSUME Core, StockNeverNegative, [Next]_vars PROVE StockNeverNegative'
    OBVIOUS
  <2> USE DEF StockNeverNegative
  <2>1. ASSUME NEW i \in ItemIds, NEW q \in Quantities, AddItem(i, q)
        PROVE  StockNeverNegative'
    BY <2>1, InventoryAssumption DEF AddItem, Core, TypeOK
  <2>2. ASSUME NEW r \in Requests, DecreaseQuantityIfEnough(r)
        PROVE  StockNeverNegative'
    BY <2>2 DEF DecreaseQuantityIfEnough, Core, TypeOK
  <2>3. ASSUME NEW r \in Requests, IncreaseQuantity(r)
        PROVE  StockNeverNegative'
    BY <2>3 DEF IncreaseQuantity, Core, TypeOK, HeldReadsValid
  <2>4. CASE UNCHANGED stock
    BY <2>4
  <2>5. ASSUME NEW rows \in SUBSET ItemIds, NEW new, CutItems(rows, new),
               \A i \in ItemIds : new[i] >= 0
        PROVE  StockNeverNegative'
    BY <2>5 DEF CutItems
  <2>6. ASSUME NEW i \in ItemIds, NEW q \in Quantities, AddItemCut(i, q)
        PROVE  StockNeverNegative'
    <3>1. q > 0 /\ CutItems(items \cup {i}, [stock EXCEPT ![i] = q])
      BY <2>6, Zenon DEF AddItemCut
    <3>2. PICK new : new = [stock EXCEPT ![i] = q]
      OBVIOUS
    <3>3. \A j \in ItemIds : new[j] >= 0
      BY <3>1, <3>2, InventoryAssumption DEF Core, TypeOK
    <3>4. items \cup {i} \in SUBSET ItemIds
      BY DEF Core, TypeOK
    <3> QED
      BY <2>5, <3>1, <3>2, <3>3, <3>4
  <2>7. ASSUME NEW r \in Requests, ShelfCut(r) PROVE StockNeverNegative'
    <3>1. PICK j, n, new : /\ j = req[r].item
                           /\ n = IF req[r].pc = "decrease" THEN stock[j] - req[r].qty
                                                            ELSE stock[j] + req[r].qty
                           /\ new = [stock EXCEPT ![j] = n]
      OBVIOUS
    <3>2. n >= 0 /\ CutItems(items, new)
      BY <2>7, <3>1, Zenon DEF ShelfCut
    <3>3. \A i \in ItemIds : new[i] >= 0
      BY <3>1, <3>2 DEF Core, TypeOK
    <3>4. items \in SUBSET ItemIds
      BY DEF Core, TypeOK
    <3> QED
      BY <2>5, <3>2, <3>3, <3>4
  <2> QED
    BY <2>1, <2>2, <2>3, <2>4, <2>6, <2>7 DEF Next, Proceed, IssueItem, ReturnItem,
       AcceptReturn, InsufficientStock, ItemNotFound, AddTransaction, AddReturn, GiveUp,
       CallFails, FileIsTorn, IssueCut, ReturnCut, Crash, vars
<1> QED
  BY <1>1, <1>2, CoreInvariant, PTL DEF Spec

-----------------------------------------------------------------------------
\* What LedgerLinked says of any two ledgers.
Unique(rows) == \A t, u \in rows : t.id = u.id => t = u
Linked(issues, returns) ==
  \A ret \in returns : \E tx \in issues : tx.id = ret.tx /\ tx.item = ret.item

\* Ids stay unique in both ledgers and every return names an issue of the
\* same item: the two Add calls test the id under the lock they append under,
\* and the issue a return was checked against cannot disappear, unless a write
\* of transactions.csv is cut.
THEOREM LedgerInvariant == Spec => []LedgerLinked
<1>0. LedgerLinked <=> /\ Unique(txs) /\ Unique(rets)
                       /\ cut["transactions"] = 0 => Linked(txs, rets)
  BY DEF LedgerLinked, Unique, Linked
<1>1. Init => LedgerLinked
  BY InventoryAssumption DEF Init, LedgerLinked
<1>2. Core /\ LedgerLinked /\ [Next]_vars => LedgerLinked'
  <2> SUFFICES ASSUME Core, Core', Unique(txs), Unique(rets),
                      cut["transactions"] = 0 => Linked(txs, rets), [Next]_vars
               PROVE  /\ Unique(txs') /\ Unique(rets')
                      /\ cut'["transactions"] = 0 => Linked(txs', rets')
    BY <1>0, NextCore DEF LedgerLinked, Unique, Linked
  <2> DEFINE Goal == /\ Unique(txs') /\ Unique(rets')
                     /\ cut'["transactions"] = 0 => Linked(txs', rets')
  <2>t. ASSUME NEW r \in Requests, NEW id \in TxIds, \A tx \in txs : tx.id # id,
               NEW row, row.id = id
        PROVE  Unique(txs \cup {row})
    BY <2>t DEF Unique
  <2>r. ASSUME NEW r \in Requests, req[r].pc = "addReturn",
               NEW id \in RetIds, \A ret \in rets : ret.id # id,
               NEW row, row.id = id, row.tx = req[r].tx, row.item = req[r].item
        PROVE  /\ Unique(rets \cup {row})
               /\ cut["transactions"] = 0 => Linked(txs, rets \cup {row})
    <3>1. Unique(rets \cup {row})
      BY <2>r DEF Unique
    <3>2. cut["transactions"] = 0 => \E tx \in txs : tx.id = req[r].tx /\ tx.item = req[r].item
      BY <2>r DEF Core, HeldReadsValid
    <3> QED
      BY <2>r, <3>1, <3>2 DEF Linked
  <2>1. ASSUME NEW r \in Requests, AddTransaction(r) PROVE Goal
    <3>1. PICK id \in TxIds :
            /\ \A tx \in txs : tx.id # id
            /\ txs' = txs \cup {[id |-> id, item |-> req[r].item,
                                 qty |-> req[r].qty, by |-> req[r].by]}
      BY <2>1 DEF AddTransaction
    <3>2. rets' = rets /\ cut' = cut
      BY <2>1 DEF AddTransaction, disk
    <3>3. Unique(txs')
      BY <2>t, <3>1
    <3> QED
      BY <3>1, <3>2, <3>3 DEF Linked
  <2>2. ASSUME NEW r \in Requests, AddReturn(r) PROVE Goal
    <3>1. PICK id \in RetIds :
            /\ \A ret \in rets : ret.id # id
            /\ rets' = rets \cup {[id |-> id, tx |-> req[r].tx, item |-> req[r].item,
                                   qty |-> req[r].qty, by |-> req[r].by]}
      BY <2>2 DEF AddReturn
    <3>2. txs' = txs /\ cut' = cut /\ req[r].pc = "addReturn"
      BY <2>2 DEF AddReturn, disk
    <3>3. Unique(rets') /\ (cut["transactions"] = 0 => Linked(txs, rets'))
      BY <2>r, <3>1, <3>2
    <3> QED
      BY <3>2, <3>3
  <2>3. ASSUME NEW r \in Requests, IssueCut(r) PROVE Goal
    <3>1. PICK id \in TxIds :
            /\ \A tx \in txs : tx.id # id
            /\ txs' \in SUBSET (txs \cup {[id |-> id, item |-> req[r].item,
                                           qty |-> req[r].qty, by |-> req[r].by]})
      BY <2>3, Zenon DEF IssueCut
    <3>2. PICK row : row = [id |-> id, item |-> req[r].item, qty |-> req[r].qty, by |-> req[r].by]
      OBVIOUS
    <3>3. Unique(txs \cup {row}) /\ txs' \subseteq txs \cup {row}
      BY <2>t, <3>1, <3>2
    <3>4. cut'["transactions"] # 0 /\ rets' = rets
      <4>1. "transactions" \in Files
        BY DEF Files
      <4>2. Cut("transactions") /\ rets' = rets
        BY <2>3, Zenon DEF IssueCut
      <4> QED
        BY <4>1, <4>2, CutType DEF Core, TypeOK
    <3> QED
      BY <3>3, <3>4 DEF Unique
  <2>4. ASSUME NEW r \in Requests, ReturnCut(r) PROVE Goal
    <3>1. PICK id \in RetIds :
            /\ \A ret \in rets : ret.id # id
            /\ rets' \in SUBSET (rets \cup {[id |-> id, tx |-> req[r].tx, item |-> req[r].item,
                                             qty |-> req[r].qty, by |-> req[r].by]})
      BY <2>4, Zenon DEF ReturnCut
    <3>2. PICK row : row = [id |-> id, tx |-> req[r].tx, item |-> req[r].item,
                            qty |-> req[r].qty, by |-> req[r].by]
      OBVIOUS
    <3>3. req[r].pc = "addReturn" /\ txs' = txs /\ Cut("returns")
      BY <2>4, Zenon DEF ReturnCut
    <3>4. cut'["transactions"] = cut["transactions"]
      <4>1. "transactions" \in Files /\ "returns" \in Files
        BY DEF Files
      <4> QED
        BY <3>3, <4>1, CutType DEF Core
    <3>5. /\ Unique(rets \cup {row}) /\ rets' \subseteq rets \cup {row}
          /\ cut["transactions"] = 0 => Linked(txs, rets \cup {row})
      BY <2>r, <3>1, <3>2, <3>3
    <3> QED
      BY <3>3, <3>4, <3>5 DEF Unique, Linked
  <2>5. ASSUME UNCHANGED <<txs, rets>>, cut'["transactions"] = cut["transactions"] PROVE Goal
    BY <2>5
  <2>6. ASSUME Cut("items") PROVE cut'["transactions"] = cut["transactions"]
    <3>1. "transactions" \in Files /\ "items" \in Files
      BY DEF Files
    <3> QED
      BY <2>6, <3>1, CutType DEF Core
  <2>7. ASSUME NEW i \in ItemIds, NEW q \in Quantities, AddItemCut(i, q) PROVE Goal
    BY <2>5, <2>6, <2>7 DEF AddItemCut, CutItems
  <2>8. ASSUME NEW r \in Requests, ShelfCut(r) PROVE Goal
    BY <2>5, <2>6, <2>8 DEF ShelfCut, CutItems
  <2>9. ASSUME UNCHANGED <<txs, rets, cut>> PROVE Goal
    BY <2>5, <2>9
  <2> HIDE DEF Goal
  <2>a. ASSUME NEW r \in Requests,
               \/ DecreaseQuantityIfEnough(r) \/ InsufficientStock(r) \/ IncreaseQuantity(r)
               \/ ItemNotFound(r) \/ FileIsTorn(r) \/ CallFails(r)
        PROVE  Goal
    BY <2>9, <2>a DEF DecreaseQuantityIfEnough, InsufficientStock, IncreaseQuantity,
       ItemNotFound, GiveUp, CallFails, FileIsTorn, disk
  <2>b. ASSUME NEW r \in Requests, NEW i, NEW q, NEW to, NEW by, IssueItem(r, i, q, to, by)
        PROVE  Goal
    BY <2>9, <2>b, Zenon DEF IssueItem, disk
  <2>c. ASSUME NEW r \in Requests, NEW tx, NEW q, NEW by, ReturnItem(r, tx, q, by) PROVE Goal
    BY <2>9, <2>c, Zenon DEF ReturnItem, AcceptReturn, disk
  <2>d. ASSUME (\E i \in ItemIds, q \in Quantities : AddItem(i, q)) \/ Crash
               \/ UNCHANGED vars
        PROVE  Goal
    BY <2>9, <2>d DEF AddItem, Crash, vars, disk
  <2>10. Goal
    BY <2>1, <2>2, <2>3, <2>4, <2>7, <2>8, <2>a, <2>b, <2>c, <2>d DEF Next, Proceed
  <2> QED
    BY <2>10 DEF Goal
<1> QED
  BY <1>1, <1>2, CoreInvariant, PTL DEF Spec

-----------------------------------------------------------------------------
\* What a request contributes to the table Held(c, i).
HeldBy(rec, c, i) == IF rec.pc = c /\ rec.item = i THEN rec.qty ELSE 0

\* A step of request r moves the units in flight by what r itself holds.
LEMMA HeldUpdate ==
  ASSUME Core, Core', NEW r \in Requests,
         \A s \in Requests \ {r} : req'[s] = req[s], NEW c, NEW i
  PROVE  Total(Held(c, i)') = Total(Held(c, i)) - HeldBy(req[r], c, i) + HeldBy(req'[r], c, i)
<1> DEFINE f == Held(c, i)
           g == Held(c, i)'
<1>1. f \in [Requests -> Nat] /\ g \in [Requests -> Nat]
  BY DEF Held, Core, TypeOK, Request
<1>2. /\ \A s \in Requests \ {r} : g[s] = f[s]
      /\ f[r] = HeldBy(req[r], c, i)
      /\ g[r] = HeldBy(req'[r], c, i)
  BY DEF Held, HeldBy
<1>3. IsFiniteSet(Requests) /\ r \in Requests
  BY InventoryAssumption
<1>4. Total(g) = Total(f) - f[r] + g[r]
  <2> HIDE DEF f, g
  <2> QED
    BY ONLY <1>1, <1>2, <1>3, TotalUpdate
<1> QED
  BY <1>2, <1>4

\* Appending a row to a ledger moves the total of its own item only.
LEMMA ItemQtyInsert ==
  ASSUME NEW rows, IsFiniteSet(rows), \A a \in rows : a.qty \in Nat,
         NEW row, row \notin rows, row.qty \in Nat, NEW i
  PROVE  Total(QtyOf(OfItem(rows \cup {row}, i)))
           = Total(QtyOf(OfItem(rows, i))) + (IF row.item = i THEN row.qty ELSE 0)
<1> DEFINE R == OfItem(rows, i)
           T == OfItem(rows \cup {row}, i)
<1>1. IsFiniteSet(R) /\ row \notin R /\ (\A a \in R : a.qty \in Nat)
  BY FS_Subset DEF OfItem
<1>2. Total(QtyOf(R)) \in Nat
  <2>1. QtyOf(R) \in [R -> Nat]
    BY <1>1 DEF QtyOf
  <2> HIDE DEF R
  <2> QED
    BY <1>1, <2>1, TotalType
<1>3. T = IF row.item = i THEN R \cup {row} ELSE R
  BY DEF OfItem
<1>4. Total(QtyOf(R \cup {row})) = Total(QtyOf(R)) + row.qty
  <2>1. row.qty \in Nat
    OBVIOUS
  <2> HIDE DEF R
  <2> QED
    BY ONLY <1>1, <2>1, QtyInsert
<1> HIDE DEF R, T
<1>5. CASE row.item = i
  BY <1>3, <1>4, <1>5 DEF R, T
<1>6. CASE row.item # i
  BY <1>2, <1>3, <1>6 DEF R, T
<1> QED
  BY <1>5, <1>6

\* Of two tables, the total of the larger is that of the smaller and of the
\* rows between them.
LEMMA QtySplit ==
  ASSUME NEW rows, IsFiniteSet(rows), \A row \in rows : row.qty \in Nat,
         NEW some \in SUBSET rows
  PROVE  /\ Total(QtyOf(some)) \in Nat /\ Total(QtyOf(rows \ some)) \in Nat
         /\ Total(QtyOf(rows)) = Total(QtyOf(some)) + Total(QtyOf(rows \ some))
<1>1. PICK f, g, h : f = QtyOf(rows) /\ g = QtyOf(some) /\ h = QtyOf(rows \ some)
  OBVIOUS
<1>2. /\ f \in [rows -> Nat] /\ g \in [some -> Nat] /\ h \in [rows \ some -> Nat]
      /\ (\A x \in some : g[x] = f[x]) /\ (\A x \in rows \ some : h[x] = f[x])
  BY <1>1 DEF QtyOf
<1>3. /\ some \subseteq rows
      /\ IsFiniteSet(rows) /\ IsFiniteSet(some) /\ IsFiniteSet(rows \ some)
  <2>1. rows \ some \in SUBSET rows
    OBVIOUS
  <2> QED
    BY <2>1, FS_Subset
<1>4. Total(f) = Total(g) + Total(h)
  BY ONLY <1>2, <1>3, TotalSplit
<1>5. Total(g) \in Nat /\ Total(h) \in Nat
  BY <1>2, <1>3, TotalType
<1> QED
  BY <1>1, <1>4, <1>5

\* A file that was to get one more row and lost some of its rows instead: the
\* total of an item in it is short by the lost rows.
LEMMA RowsLost ==
  ASSUME NEW rows, IsFiniteSet(rows), \A a \in rows : a.qty \in Nat,
         NEW row, row \notin rows, row.qty \in Nat,
         NEW new, new = rows \cup {row}, NEW kept \in SUBSET new, NEW i
  PROVE  /\ Total(QtyOf(OfItem(kept, i))) \in Nat
         /\ Total(QtyOf(OfItem(new \ kept, i))) \in Nat
         /\ Total(QtyOf(OfItem(kept, i))) + Total(QtyOf(OfItem(new \ kept, i)))
              = Total(QtyOf(OfItem(rows, i))) + (IF row.item = i THEN row.qty ELSE 0)
<1>1. PICK R, K, L : R = OfItem(new, i) /\ K = OfItem(kept, i) /\ L = OfItem(new \ kept, i)
  OBVIOUS
<1>2. IsFiniteSet(new) /\ \A a \in new : a.qty \in Nat
  BY FS_AddElement
<1>3. R \in SUBSET new /\ K \in SUBSET R /\ L = R \ K
  BY <1>1 DEF OfItem
<1>4. IsFiniteSet(R) /\ \A a \in R : a.qty \in Nat
  BY <1>2, <1>3, FS_Subset
<1>5. /\ Total(QtyOf(K)) \in Nat /\ Total(QtyOf(R \ K)) \in Nat
      /\ Total(QtyOf(R)) = Total(QtyOf(K)) + Total(QtyOf(R \ K))
  BY ONLY <1>3, <1>4, QtySplit
<1>6. Total(QtyOf(OfItem(rows \cup {row}, i)))
        = Total(QtyOf(OfItem(rows, i))) + (IF row.item = i THEN row.qty ELSE 0)
  BY ItemQtyInsert
<1>7. Total(QtyOf(R)) = Total(QtyOf(OfItem(rows \cup {row}, i)))
  BY <1>1
<1> QED
  BY <1>1, <1>3, <1>5, <1>6, <1>7

\* The balance of one item, the first conjunct of BooksBalance.
Balanced(i) ==
  stock[i] + Issued(i) + PendingIssues(i) + drift[i]
    = supplied[i] + Returned(i) + PendingReturns(i)

\* Every quantity in the balance is a number.
LEMMA BalanceTypes ==
  ASSUME Core, NEW i \in ItemIds
  PROVE  /\ Issued(i) \in Nat /\ Returned(i) \in Nat
         /\ PendingIssues(i) \in Nat /\ PendingReturns(i) \in Nat
         /\ stock[i] \in Int /\ supplied[i] \in Nat /\ drift[i] \in Int
<1>1. Issued(i) \in Nat
  BY IssuedType DEF Core, TypeOK
<1>2. Returned(i) \in Nat
  <2> DEFINE rows == OfItem(rets, i)
  <2>1. IsFiniteSet(rows) /\ QtyOf(rows) \in [rows -> Nat]
    BY FS_Subset DEF QtyOf, OfItem, Core, TypeOK, RetRow
  <2>2. Total(QtyOf(rows)) \in Nat
    <3> HIDE DEF rows
    <3> QED
      BY <2>1, TotalType
  <2> QED
    BY <2>2 DEF Returned
<1>3. ASSUME NEW c PROVE Total(Held(c, i)) \in Nat
  <2>1. Held(c, i) \in [Requests -> Nat]
    BY DEF Held, Core, TypeOK, Request
  <2> QED
    BY <2>1, InventoryAssumption, TotalType
<1> QED
  BY <1>1, <1>2, <1>3 DEF PendingIssues, PendingReturns, Core, TypeOK

\* Ledgers and requests that a step leaves alone keep their totals.
LEMMA SameTotals ==
  ASSUME NEW i
  PROVE  /\ UNCHANGED txs => Issued(i)' = Issued(i)
         /\ UNCHANGED rets => Returned(i)' = Returned(i)
         /\ UNCHANGED req => PendingIssues(i)' = PendingIssues(i)
         /\ UNCHANGED req => PendingReturns(i)' = PendingReturns(i)
BY DEF Issued, Returned, PendingIssues, PendingReturns, Held

\* A step of request r moves only what r holds between its two writes.
LEMMA PendingUpdate ==
  ASSUME Core, Core', NEW r \in Requests,
         \A s \in Requests \ {r} : req'[s] = req[s], NEW i
  PROVE  /\ PendingIssues(i)' = PendingIssues(i) - HeldBy(req[r], "addTransaction", i)
                                                 + HeldBy(req'[r], "addTransaction", i)
         /\ PendingReturns(i)' = PendingReturns(i) - HeldBy(req[r], "addReturn", i)
                                                   + HeldBy(req'[r], "addReturn", i)
<1>1. PendingIssues(i)' = Total(Held("addTransaction", i)')
      /\ PendingReturns(i)' = Total(Held("addReturn", i)')
  BY DEF PendingIssues, PendingReturns
<1> QED
  BY <1>1, HeldUpdate DEF PendingIssues, PendingReturns

\* When the server starts, what was supplied is what the two files show.
LEMMA InitBalance == Init => BooksBalance
<1> SUFFICES ASSUME Init, NEW i \in ItemIds
             PROVE  Balanced(i) /\ drift[i] = 0
  BY DEF BooksBalance, Balanced
<1>1. Core
  BY InitCore
<1>2. PendingIssues(i) = 0 /\ PendingReturns(i) = 0
  <2>1. ASSUME NEW c, c # "idle" PROVE Total(Held(c, i)) = 0
    <3>1. Held(c, i) \in [Requests -> Nat] /\ \A r \in Requests : Held(c, i)[r] = 0
      BY <2>1 DEF Held, Init, Idle
    <3> QED
      BY <3>1, TotalZero
  <2> QED
    BY <2>1 DEF PendingIssues, PendingReturns
<1>3. Returned(i) = 0
  <2>1. QtyOf(OfItem(rets, i)) \in [{} -> Nat]
    BY DEF QtyOf, OfItem, Init
  <2> QED
    BY <2>1, TotalZero DEF Returned
<1> QED
  BY <1>1, <1>2, <1>3, BalanceTypes DEF Init, Balanced

\* A request changes the shelf and what it holds by the same amount, and
\* what it holds and a ledger by the same amount.
LEMMA NextBalance == Core /\ BooksBalance /\ [Next]_vars => BooksBalance'
<1> SUFFICES ASSUME Core, Core', BooksBalance, [Next]_vars, NEW i \in ItemIds
             PROVE  Balanced(i)' /\ (faults' = 0 => drift'[i] = 0)
  BY NextCore DEF BooksBalance, Balanced
<1> DEFINE Goal == Balanced(i)' /\ (faults' = 0 => drift'[i] = 0)
           issue(r) == HeldBy(req[r], "addTransaction", i)
           return(r) == HeldBy(req[r], "addReturn", i)
<1>b. Balanced(i) /\ (faults = 0 => drift[i] = 0)
  BY DEF BooksBalance, Balanced
<1>t. /\ Issued(i) \in Nat /\ Returned(i) \in Nat
      /\ PendingIssues(i) \in Nat /\ PendingReturns(i) \in Nat
      /\ stock[i] \in Int /\ supplied[i] \in Nat /\ drift[i] \in Int
  BY BalanceTypes
<1>y. /\ stock \in [ItemIds -> Int] /\ supplied \in [ItemIds -> Nat]
      /\ drift \in [ItemIds -> Int] /\ req \in [Requests -> Request] /\ faults \in Nat
  BY DEF Core, TypeOK
<1>q. ASSUME NEW r \in Requests
      PROVE  /\ req[r].qty \in Nat /\ issue(r) \in Nat /\ return(r) \in Nat
             /\ req[r].pc # "idle" => req[r].item \in ItemIds
  BY <1>y DEF HeldBy, Request, Core, HeldReadsValid
<1>p. ASSUME NEW r \in Requests, \A s \in Requests \ {r} : req'[s] = req[s]
      PROVE  /\ PendingIssues(i)' = PendingIssues(i) - issue(r) + issue(r)'
             /\ PendingReturns(i)' = PendingReturns(i) - return(r) + return(r)'
  BY <1>p, PendingUpdate
<1>1. ASSUME NEW j \in ItemIds, NEW q \in Quantities, AddItem(j, q) PROVE Goal
  <2>1. /\ stock'[i] - stock[i] = supplied'[i] - supplied[i]
        /\ stock'[i] \in Int /\ supplied'[i] \in Int
    BY <1>1, <1>t, <1>y, InventoryAssumption DEF AddItem, Core, NoRowNoStock
  <2>2. UNCHANGED <<txs, rets, req, drift, faults>>
    BY <1>1, Zenon DEF AddItem
  <2> QED
    BY <1>b, <1>t, <2>1, <2>2, SameTotals DEF Balanced
<1>2. ASSUME NEW r \in Requests, \A s \in Requests \ {r} : req'[s] = req[s],
             req[r].pc \notin {"addTransaction", "addReturn"},
             req'[r].pc \notin {"addTransaction", "addReturn"},
             UNCHANGED <<stock, txs, rets, supplied, drift>>, faults' = 0 => faults = 0
      PROVE  Goal
  <2>1. issue(r) = 0 /\ issue(r)' = 0 /\ return(r) = 0 /\ return(r)' = 0
    BY <1>2 DEF HeldBy
  <2>2. PendingIssues(i)' = PendingIssues(i) /\ PendingReturns(i)' = PendingReturns(i)
    BY <1>2, <1>t, <1>p, <2>1
  <2> QED
    BY <1>2, <1>b, <1>t, <2>2, SameTotals DEF Balanced
<1>3. ASSUME NEW r \in Requests, DecreaseQuantityIfEnough(r) PROVE Goal
  <2>1. /\ issue(r) = 0 /\ return(r) = 0 /\ return(r)' = 0
        /\ issue(r)' = IF req[r].item = i THEN req[r].qty ELSE 0
    BY <1>3, <1>y DEF DecreaseQuantityIfEnough, HeldBy, Request
  <2>2. stock'[i] = stock[i] - issue(r)' /\ issue(r)' \in Nat
    BY <1>3, <1>y, <1>q, <2>1 DEF DecreaseQuantityIfEnough
  <2>3. \A s \in Requests \ {r} : req'[s] = req[s]
    BY <1>3, <1>y DEF DecreaseQuantityIfEnough
  <2>4. PendingIssues(i)' = PendingIssues(i) + issue(r)' /\ PendingReturns(i)' = PendingReturns(i)
    BY <1>p, <1>t, <2>1, <2>2, <2>3
  <2> QED
    BY <1>3, <1>b, <1>t, <2>2, <2>4, SameTotals DEF DecreaseQuantityIfEnough, Balanced
<1>4. ASSUME NEW r \in Requests, IncreaseQuantity(r) PROVE Goal
  <2>1. /\ issue(r) = 0 /\ return(r) = 0 /\ issue(r)' = 0
        /\ return(r)' = IF req[r].item = i THEN req[r].qty ELSE 0
    BY <1>4, <1>y DEF IncreaseQuantity, HeldBy, Request
  <2>2. stock'[i] = stock[i] + return(r)' /\ return(r)' \in Nat
    BY <1>4, <1>y, <1>q, <2>1 DEF IncreaseQuantity
  <2>3. \A s \in Requests \ {r} : req'[s] = req[s]
    BY <1>4, <1>y DEF IncreaseQuantity
  <2>4. PendingIssues(i)' = PendingIssues(i) /\ PendingReturns(i)' = PendingReturns(i) + return(r)'
    BY <1>p, <1>t, <2>1, <2>2, <2>3
  <2>5. UNCHANGED <<txs, rets, supplied, drift, faults>>
    BY <1>4 DEF IncreaseQuantity
  <2> HIDE DEF return
  <2> QED
    BY <1>b, <1>t, <2>2, <2>4, <2>5, SameTotals DEF Balanced
<1>i. ASSUME NEW r \in Requests, req' = [req EXCEPT ![r] = Idle]
      PROVE  /\ PendingIssues(i)' = PendingIssues(i) - issue(r)
             /\ PendingReturns(i)' = PendingReturns(i) - return(r)
  <2>1. issue(r)' = 0 /\ return(r)' = 0 /\ \A s \in Requests \ {r} : req'[s] = req[s]
    BY <1>i, <1>y DEF HeldBy, Idle
  <2> QED
    BY <1>p, <1>q, <1>t, <2>1
<1>5. ASSUME NEW r \in Requests, AddTransaction(r) PROVE Goal
  <2>1. PICK id \in TxIds :
          /\ \A tx \in txs : tx.id # id
          /\ txs' = txs \cup {[id |-> id, item |-> req[r].item,
                               qty |-> req[r].qty, by |-> req[r].by]}
    BY <1>5 DEF AddTransaction
  <2> DEFINE row == [id |-> id, item |-> req[r].item, qty |-> req[r].qty, by |-> req[r].by]
  <2>2. Issued(i)' = Issued(i) + issue(r)
    <3>1. row \notin txs /\ row.qty \in Nat /\ issue(r) = IF row.item = i THEN row.qty ELSE 0
      BY <1>5, <1>q, <2>1 DEF AddTransaction, HeldBy
    <3>2. IsFiniteSet(txs) /\ \A tx \in txs : tx.qty \in Nat
      BY DEF Core, TypeOK, TxRow
    <3>3. txs' = txs \cup {row}
      BY <2>1
    <3> HIDE DEF row
    <3>4. Total(QtyOf(OfItem(txs \cup {row}, i)))
            = Total(QtyOf(OfItem(txs, i))) + (IF row.item = i THEN row.qty ELSE 0)
      BY ONLY <3>1, <3>2, ItemQtyInsert
    <3> QED
      BY <3>1, <3>3, <3>4 DEF Issued
  <2>3. return(r) = 0
    BY <1>5 DEF AddTransaction, HeldBy
  <2>4. PendingIssues(i)' = PendingIssues(i) - issue(r) /\ PendingReturns(i)' = PendingReturns(i)
    <3>1. req' = [req EXCEPT ![r] = Idle]
      BY <1>5 DEF AddTransaction
    <3>2. /\ PendingIssues(i)' = PendingIssues(i) - issue(r)
          /\ PendingReturns(i)' = PendingReturns(i) - return(r)
      BY <3>1, <1>i
    <3> QED
      BY <1>t, <2>3, <3>2
  <2> QED
    BY <1>5, <1>b, <1>t, <1>q, <2>2, <2>4, SameTotals DEF AddTransaction, Balanced
<1>6. ASSUME NEW r \in Requests, AddReturn(r) PROVE Goal
  <2>1. PICK id \in RetIds :
          /\ \A ret \in rets : ret.id # id
          /\ rets' = rets \cup {[id |-> id, tx |-> req[r].tx, item |-> req[r].item,
                                 qty |-> req[r].qty, by |-> req[r].by]}
    BY <1>6 DEF AddReturn
  <2> DEFINE row == [id |-> id, tx |-> req[r].tx, item |-> req[r].item,
                     qty |-> req[r].qty, by |-> req[r].by]
  <2>2. Returned(i)' = Returned(i) + return(r)
    <3>1. row \notin rets /\ row.qty \in Nat /\ return(r) = IF row.item = i THEN row.qty ELSE 0
      BY <1>6, <1>q, <2>1 DEF AddReturn, HeldBy
    <3>2. IsFiniteSet(rets) /\ \A ret \in rets : ret.qty \in Nat
      BY DEF Core, TypeOK, RetRow
    <3>3. rets' = rets \cup {row}
      BY <2>1
    <3> HIDE DEF row
    <3>4. Total(QtyOf(OfItem(rets \cup {row}, i)))
            = Total(QtyOf(OfItem(rets, i))) + (IF row.item = i THEN row.qty ELSE 0)
      BY ONLY <3>1, <3>2, ItemQtyInsert
    <3> QED
      BY <3>1, <3>3, <3>4 DEF Returned
  <2>3. issue(r) = 0
    BY <1>6 DEF AddReturn, HeldBy
  <2>4. PendingIssues(i)' = PendingIssues(i) /\ PendingReturns(i)' = PendingReturns(i) - return(r)
    <3>1. req' = [req EXCEPT ![r] = Idle]
      BY <1>6 DEF AddReturn
    <3>2. /\ PendingIssues(i)' = PendingIssues(i) - issue(r)
          /\ PendingReturns(i)' = PendingReturns(i) - return(r)
      BY <3>1, <1>i
    <3> QED
      BY <1>t, <2>3, <3>2
  <2> QED
    BY <1>6, <1>b, <1>t, <1>q, <2>2, <2>4, SameTotals DEF AddReturn, Balanced
<1>7. ASSUME NEW r \in Requests, GiveUp(r), faults' # 0 PROVE Goal
  <2>1. drift'[i] = drift[i] + issue(r) - return(r)
    BY <1>7, <1>y, <1>q DEF GiveUp, HeldBy
  <2>2. /\ PendingIssues(i)' = PendingIssues(i) - issue(r)
        /\ PendingReturns(i)' = PendingReturns(i) - return(r)
    BY <1>7, <1>i DEF GiveUp
  <2>4. UNCHANGED <<stock, txs, rets, supplied>>
    BY <1>7 DEF GiveUp
  <2> HIDE DEF issue, return
  <2> QED
    BY <1>7, <1>b, <1>t, <1>q, <2>1, <2>2, <2>4, SameTotals DEF Balanced
<1>8. ASSUME Crash PROVE Goal
  <2>1. ASSUME NEW c, c # "idle" PROVE Total(Held(c, i)') = 0
    <3> DEFINE h == Held(c, i)'
    <3>1. h \in [Requests -> Nat] /\ \A r \in Requests : h[r] = 0
      BY <1>8, <2>1 DEF Held, Crash, Idle
    <3> HIDE DEF h
    <3>2. Total(h) = 0
      BY <3>1, TotalZero
    <3> QED
      BY <3>2 DEF h
  <2>2. PendingIssues(i)' = 0 /\ PendingReturns(i)' = 0
    BY <2>1 DEF PendingIssues, PendingReturns
  <2>3. drift'[i] = drift[i] + PendingIssues(i) - PendingReturns(i)
    BY <1>8 DEF Crash
  <2>4. faults' # 0
    BY <1>8, <1>y DEF Crash
  <2> QED
    BY <1>8, <1>b, <1>t, <2>2, <2>3, <2>4, SameTotals DEF Crash, Balanced
<1>9. CASE UNCHANGED vars
  BY <1>9, <1>b, SameTotals DEF vars, Balanced
<1>10. ASSUME NEW r \in Requests, NEW j \in ItemIds, NEW q \in Quantities,
              NEW to \in UserIds, NEW by \in UserIds, IssueItem(r, j, q, to, by)
       PROVE  Goal
  <2>1. /\ req[r].pc = "idle"
        /\ req' = [req EXCEPT ![r] =
             [pc |-> "decrease", item |-> j, qty |-> q, tx |-> NoId, by |-> by]]
        /\ UNCHANGED <<stock, txs, rets, supplied, drift, faults>>
    BY <1>10, Zenon DEF IssueItem
  <2>2. req'[r].pc = "decrease" /\ \A s \in Requests \ {r} : req'[s] = req[s]
    BY <1>y, <2>1
  <2> QED
    BY <1>2, <2>1, <2>2
<1>11. ASSUME NEW r \in Requests, NEW tx \in txs, NEW q \in Quantities,
              NEW by \in UserIds, ReturnItem(r, tx, q, by)
       PROVE  Goal
  <2>1. /\ req[r].pc = "idle"
        /\ req' = [req EXCEPT ![r] =
             [pc |-> "increase", item |-> tx.item, qty |-> q, tx |-> tx.id, by |-> by]]
        /\ UNCHANGED <<stock, txs, rets, supplied, drift, faults>>
    BY <1>11, Zenon DEF ReturnItem, AcceptReturn
  <2>2. req'[r].pc = "increase" /\ \A s \in Requests \ {r} : req'[s] = req[s]
    BY <1>y, <2>1
  <2> QED
    BY <1>2, <2>1, <2>2
<1>12. ASSUME NEW r \in Requests, InsufficientStock(r) \/ ItemNotFound(r) PROVE Goal
  <2>1. /\ req[r].pc \in {"decrease", "increase"} /\ req' = [req EXCEPT ![r] = Idle]
        /\ UNCHANGED <<stock, txs, rets, supplied, drift, faults>>
    BY <1>12 DEF InsufficientStock, ItemNotFound
  <2>2. req'[r].pc = "idle" /\ \A s \in Requests \ {r} : req'[s] = req[s]
    BY <1>y, <2>1 DEF Idle
  <2> QED
    BY <1>2, <2>1, <2>2
<1>13. ASSUME NEW r \in Requests, CallFails(r) \/ FileIsTorn(r) PROVE Goal
  <2>1. GiveUp(r) /\ faults' # 0
    BY <1>13, <1>y DEF CallFails, FileIsTorn, Core, NoFaultNoLoss
  <2> QED
    BY <1>7, <2>1
<1>c. ASSUME NEW file \in Files, Cut(file) PROVE faults' # 0
  BY <1>c, CutType DEF Core
<1>f. "items" \in Files /\ "transactions" \in Files /\ "returns" \in Files
  BY DEF Files
<1>14. ASSUME NEW j \in ItemIds, NEW q \in Quantities, AddItemCut(j, q) PROVE Goal
  <2>1. /\ q > 0 /\ j \notin items /\ Cut("items")
        /\ supplied' = [supplied EXCEPT ![j] = @ + q]
        /\ drift' = [k \in ItemIds |-> drift[k] + (IF k = j THEN q ELSE stock[k]) - stock'[k]]
        /\ UNCHANGED <<txs, rets, req>>
    BY <1>14, Zenon DEF AddItemCut, CutItems
  <2>2. stock'[i] \in Int /\ q \in Int /\ faults' # 0
    BY <1>c, <1>f, <2>1, InventoryAssumption DEF Core, TypeOK
  <2>3. /\ supplied'[i] = supplied[i] + (IF i = j THEN q ELSE 0)
        /\ drift'[i] = drift[i] + (IF i = j THEN q ELSE stock[i]) - stock'[i]
        /\ i = j => stock[i] = 0
    BY <1>y, <2>1 DEF Core, NoRowNoStock
  <2> QED
    BY <1>b, <1>t, <2>1, <2>2, <2>3, SameTotals DEF Balanced
<1>15. ASSUME NEW r \in Requests, ShelfCut(r) PROVE Goal
  <2>1. PICK j, n : /\ j = req[r].item
                    /\ n = IF req[r].pc = "decrease" THEN stock[j] - req[r].qty
                                                     ELSE stock[j] + req[r].qty
    OBVIOUS
  <2>2. /\ req[r].pc \in {"decrease", "increase"} /\ Cut("items")
        /\ \/ /\ req' = [req EXCEPT ![r].pc =
                           IF @ = "decrease" THEN "addTransaction" ELSE "addReturn"]
              /\ drift' = [k \in ItemIds |->
                             drift[k] + (IF k = j THEN n ELSE stock[k]) - stock'[k]]
           \/ /\ req' = [req EXCEPT ![r] = Idle]
              /\ drift' = [k \in ItemIds |-> drift[k] + stock[k] - stock'[k]]
        /\ UNCHANGED <<txs, rets, supplied>>
    BY <1>15, <2>1 DEF ShelfCut, CutItems
  <2>3. stock'[i] \in Int /\ j \in ItemIds /\ faults' # 0
    BY <1>c, <1>f, <1>q, <2>1, <2>2 DEF Core, TypeOK
  <2>4. issue(r) = 0 /\ return(r) = 0
    BY <2>2 DEF HeldBy
  <2>5. CASE req' = [req EXCEPT ![r] = Idle]
             /\ drift' = [k \in ItemIds |-> drift[k] + stock[k] - stock'[k]]
    <3>1. /\ PendingIssues(i)' = PendingIssues(i) /\ PendingReturns(i)' = PendingReturns(i)
          /\ drift'[i] = drift[i] + stock[i] - stock'[i]
      <4>1. /\ PendingIssues(i)' = PendingIssues(i) - issue(r)
            /\ PendingReturns(i)' = PendingReturns(i) - return(r)
        BY <1>i, <2>5
      <4> QED
        BY <1>t, <2>4, <2>5, <4>1
    <3> QED
      BY <1>b, <1>t, <2>2, <2>3, <3>1, SameTotals DEF Balanced
  <2>6. CASE /\ req' = [req EXCEPT ![r].pc =
                     IF @ = "decrease" THEN "addTransaction" ELSE "addReturn"]
             /\ drift' = [k \in ItemIds |->
                            drift[k] + (IF k = j THEN n ELSE stock[k]) - stock'[k]]
    <3>1. /\ \A s \in Requests \ {r} : req'[s] = req[s]
          /\ req'[r].item = j /\ req'[r].qty = req[r].qty
          /\ req'[r].pc = IF req[r].pc = "decrease" THEN "addTransaction" ELSE "addReturn"
      BY <1>y, <2>1, <2>6 DEF Request
    <3>2. /\ PendingIssues(i)' = PendingIssues(i) + issue(r)'
          /\ PendingReturns(i)' = PendingReturns(i) + return(r)'
          /\ issue(r)' \in Nat /\ return(r)' \in Nat
      <4>1. issue(r)' \in Nat /\ return(r)' \in Nat
        BY <1>q, <3>1 DEF HeldBy
      <4> QED
        BY <1>p, <1>t, <2>4, <3>1, <4>1
    <3>3. (IF i = j THEN n ELSE stock[i]) = stock[i] - issue(r)' + return(r)'
      BY <1>t, <1>q, <2>1, <2>2, <3>1 DEF HeldBy
    <3>4. drift'[i] = drift[i] + (IF i = j THEN n ELSE stock[i]) - stock'[i]
      BY <2>6
    <3> HIDE DEF issue, return
    <3> QED
      BY <1>b, <1>t, <2>2, <2>3, <3>2, <3>3, <3>4, SameTotals DEF Balanced
  <2> QED
    BY <2>2, <2>5, <2>6
<1>16. ASSUME NEW r \in Requests, IssueCut(r) PROVE Goal
  <2>0. PICK id \in TxIds :
          /\ \A tx \in txs : tx.id # id
          /\ txs' \in SUBSET (txs \cup {[id |-> id, item |-> req[r].item, qty |-> req[r].qty, by |-> req[r].by]})
          /\ drift' = [k \in ItemIds |-> drift[k] + Total(QtyOf(OfItem(
                (txs \cup {[id |-> id, item |-> req[r].item, qty |-> req[r].qty, by |-> req[r].by]}) \ txs', k)))]
    BY <1>16, Zenon DEF IssueCut
  <2>1. PICK row : row = [id |-> id, item |-> req[r].item, qty |-> req[r].qty, by |-> req[r].by]
    OBVIOUS
  <2>2. PICK new, kept : new = txs \cup {row} /\ kept = txs'
    OBVIOUS
  <2>3. req[r].pc = "addTransaction" /\ Cut("transactions") /\ req' = [req EXCEPT ![r] = Idle]
        /\ UNCHANGED <<stock, rets, supplied>>
    BY <1>16, Zenon DEF IssueCut
  <2>4. row \notin txs /\ row.qty \in Nat /\ kept \in SUBSET new
        /\ issue(r) = (IF row.item = i THEN row.qty ELSE 0) /\ return(r) = 0
    BY <1>q, <2>0, <2>1, <2>2, <2>3 DEF HeldBy
  <2>5. IsFiniteSet(txs) /\ \A tx \in txs : tx.qty \in Nat
    BY DEF Core, TypeOK, TxRow
  <2>6. PICK lost : lost = Total(QtyOf(OfItem(new \ kept, i)))
    OBVIOUS
  <2>7. Issued(i)' \in Nat /\ lost \in Nat /\ Issued(i)' + lost = Issued(i) + issue(r)
    <3>1. /\ Total(QtyOf(OfItem(kept, i))) \in Nat
          /\ Total(QtyOf(OfItem(new \ kept, i))) \in Nat
          /\ Total(QtyOf(OfItem(kept, i))) + Total(QtyOf(OfItem(new \ kept, i)))
               = Total(QtyOf(OfItem(txs, i))) + (IF row.item = i THEN row.qty ELSE 0)
      <4>1. PICK rows : rows = txs
        OBVIOUS
      <4>2. IsFiniteSet(rows) /\ \A a \in rows : a.qty \in Nat
        BY <2>5, <4>1
      <4>3. row \notin rows /\ row.qty \in Nat /\ new = rows \cup {row} /\ kept \in SUBSET new
        BY <2>2, <2>4, <4>1
      <4>4. /\ Total(QtyOf(OfItem(kept, i))) \in Nat
            /\ Total(QtyOf(OfItem(new \ kept, i))) \in Nat
            /\ Total(QtyOf(OfItem(kept, i))) + Total(QtyOf(OfItem(new \ kept, i)))
                 = Total(QtyOf(OfItem(rows, i))) + (IF row.item = i THEN row.qty ELSE 0)
        BY ONLY <4>2, <4>3, RowsLost
      <4> QED
        BY <4>1, <4>4
    <3>2. Issued(i)' = Total(QtyOf(OfItem(kept, i))) /\ Issued(i) = Total(QtyOf(OfItem(txs, i)))
      BY <2>2 DEF Issued
    <3> QED
      BY <2>4, <2>6, <3>1, <3>2
  <2>8. drift'[i] = drift[i] + lost
    BY <2>0, <2>1, <2>2, <2>6
  <2>9. PendingIssues(i)' = PendingIssues(i) - issue(r) /\ PendingReturns(i)' = PendingReturns(i)
    <3>1. /\ PendingIssues(i)' = PendingIssues(i) - issue(r)
          /\ PendingReturns(i)' = PendingReturns(i) - return(r)
      BY <1>i, <2>3
    <3> QED
      BY <1>t, <2>4, <3>1
  <2> HIDE DEF issue, return
  <2> QED
    BY <1>b, <1>c, <1>f, <1>q, <1>t, <2>3, <2>7, <2>8, <2>9, SameTotals DEF Balanced
<1>17. ASSUME NEW r \in Requests, ReturnCut(r) PROVE Goal
  <2>0. PICK id \in RetIds :
          /\ \A ret \in rets : ret.id # id
          /\ rets' \in SUBSET (rets \cup {[id |-> id, tx |-> req[r].tx, item |-> req[r].item,
                    qty |-> req[r].qty, by |-> req[r].by]})
          /\ drift' = [k \in ItemIds |-> drift[k] - Total(QtyOf(OfItem(
                (rets \cup {[id |-> id, tx |-> req[r].tx, item |-> req[r].item,
                    qty |-> req[r].qty, by |-> req[r].by]}) \ rets', k)))]
    BY <1>17, Zenon DEF ReturnCut
  <2>1. PICK row : row = [id |-> id, tx |-> req[r].tx, item |-> req[r].item,
                    qty |-> req[r].qty, by |-> req[r].by]
    OBVIOUS
  <2>2. PICK new, kept : new = rets \cup {row} /\ kept = rets'
    OBVIOUS
  <2>3. req[r].pc = "addReturn" /\ Cut("returns") /\ req' = [req EXCEPT ![r] = Idle]
        /\ UNCHANGED <<stock, txs, supplied>>
    BY <1>17, Zenon DEF ReturnCut
  <2>4. row \notin rets /\ row.qty \in Nat /\ kept \in SUBSET new
        /\ return(r) = (IF row.item = i THEN row.qty ELSE 0) /\ issue(r) = 0
    BY <1>q, <2>0, <2>1, <2>2, <2>3 DEF HeldBy
  <2>5. IsFiniteSet(rets) /\ \A ret \in rets : ret.qty \in Nat
    BY DEF Core, TypeOK, RetRow
  <2>6. PICK lost : lost = Total(QtyOf(OfItem(new \ kept, i)))
    OBVIOUS
  <2>7. Returned(i)' \in Nat /\ lost \in Nat /\ Returned(i)' + lost = Returned(i) + return(r)
    <3>1. /\ Total(QtyOf(OfItem(kept, i))) \in Nat
          /\ Total(QtyOf(OfItem(new \ kept, i))) \in Nat
          /\ Total(QtyOf(OfItem(kept, i))) + Total(QtyOf(OfItem(new \ kept, i)))
               = Total(QtyOf(OfItem(rets, i))) + (IF row.item = i THEN row.qty ELSE 0)
      <4>1. PICK rows : rows = rets
        OBVIOUS
      <4>2. IsFiniteSet(rows) /\ \A a \in rows : a.qty \in Nat
        BY <2>5, <4>1
      <4>3. row \notin rows /\ row.qty \in Nat /\ new = rows \cup {row} /\ kept \in SUBSET new
        BY <2>2, <2>4, <4>1
      <4>4. /\ Total(QtyOf(OfItem(kept, i))) \in Nat
            /\ Total(QtyOf(OfItem(new \ kept, i))) \in Nat
            /\ Total(QtyOf(OfItem(kept, i))) + Total(QtyOf(OfItem(new \ kept, i)))
                 = Total(QtyOf(OfItem(rows, i))) + (IF row.item = i THEN row.qty ELSE 0)
        BY ONLY <4>2, <4>3, RowsLost
      <4> QED
        BY <4>1, <4>4
    <3>2. Returned(i)' = Total(QtyOf(OfItem(kept, i))) /\ Returned(i) = Total(QtyOf(OfItem(rets, i)))
      BY <2>2 DEF Returned
    <3> QED
      BY <2>4, <2>6, <3>1, <3>2
  <2>8. drift'[i] = drift[i] - lost
    BY <2>0, <2>1, <2>2, <2>6
  <2>9. PendingReturns(i)' = PendingReturns(i) - return(r) /\ PendingIssues(i)' = PendingIssues(i)
    <3>1. /\ PendingIssues(i)' = PendingIssues(i) - issue(r)
          /\ PendingReturns(i)' = PendingReturns(i) - return(r)
      BY <1>i, <2>3
    <3> QED
      BY <1>t, <2>4, <3>1
  <2> HIDE DEF issue, return
  <2> QED
    BY <1>b, <1>c, <1>f, <1>q, <1>t, <2>3, <2>7, <2>8, <2>9, SameTotals DEF Balanced
<1> HIDE DEF Goal
<1> QED
  BY <1>1, <1>3, <1>4, <1>5, <1>6, <1>8, <1>9, <1>10, <1>11, <1>12, <1>13, <1>14, <1>15,
     <1>16, <1>17 DEF Next, Proceed, Goal

\* The shelf, the two ledgers and the requests in flight account for every
\* unit ever supplied, whatever the interleaving; only a second write that
\* failed or was cut off, and rows lost in a write that was cut, leave a
\* difference, of exactly their quantities.
THEOREM BalanceInvariant == Spec => []BooksBalance
BY InitBalance, NextBalance, CoreInvariant, PTL DEF Spec

-----------------------------------------------------------------------------
\* The rule for one transaction, as ReturnsWithinIssueIfSerial states it.
WithinIssue(tx) ==
  /\ TotalReturned(tx.id) <= tx.qty
  /\ \A r \in ReturningNow(tx.id) : TotalReturned(tx.id) + req[r].qty <= tx.qty
  /\ \A r, s \in ReturningNow(tx.id) : r = s

\* The sum the service compares with is a number.
LEMMA TotalReturnedType ==
  ASSUME Core, NEW t
  PROVE  TotalReturned(t) \in Nat
<1> DEFINE R == OfTransaction(rets, t)
<1>1. IsFiniteSet(R) /\ QtyOf(R) \in [R -> Nat]
  BY FS_Subset DEF QtyOf, OfTransaction, Core, TypeOK, RetRow
<1>2. Total(QtyOf(R)) \in Nat
  <2> HIDE DEF R
  <2> QED
    BY <1>1, TotalType
<1> QED
  BY <1>2 DEF TotalReturned

\* A recorded return counts for its own transaction, and a row that was lost
\* does not count any more.
LEMMA TotalReturnedAdd ==
  ASSUME Core, NEW row, row \notin rets, row.qty \in Nat,
         rets' \in SUBSET (rets \cup {row}), NEW t
  PROVE  /\ TotalReturned(t)' \in Nat
         /\ TotalReturned(t)' <= TotalReturned(t) + (IF row.tx = t THEN row.qty ELSE 0)
<1>1. PICK R, S, K : /\ R = OfTransaction(rets, t)
                     /\ S = OfTransaction(rets \cup {row}, t)
                     /\ K = OfTransaction(rets', t)
  OBVIOUS
<1>2. IsFiniteSet(R) /\ row \notin R /\ (\A a \in R : a.qty \in Nat) /\ row.qty \in Nat
  BY <1>1, FS_Subset DEF OfTransaction, Core, TypeOK, RetRow
<1>3. S = (IF row.tx = t THEN R \cup {row} ELSE R) /\ K \in SUBSET S
  BY <1>1 DEF OfTransaction
<1>4. TotalReturned(t) = Total(QtyOf(R)) /\ TotalReturned(t)' = Total(QtyOf(K))
  BY <1>1 DEF TotalReturned
<1>5. TotalReturned(t) \in Nat
  BY TotalReturnedType
<1>6. Total(QtyOf(R \cup {row})) = Total(QtyOf(R)) + row.qty
  BY ONLY <1>2, QtyInsert
<1>7. Total(QtyOf(S)) = TotalReturned(t) + (IF row.tx = t THEN row.qty ELSE 0)
  BY <1>3, <1>4, <1>5, <1>6
<1>8. IsFiniteSet(S) /\ \A a \in S : a.qty \in Nat
  BY <1>2, <1>3, FS_AddElement
<1>9. /\ Total(QtyOf(K)) \in Nat /\ Total(QtyOf(S \ K)) \in Nat
      /\ Total(QtyOf(S)) = Total(QtyOf(K)) + Total(QtyOf(S \ K))
  BY ONLY <1>3, <1>8, QtySplit
<1>10. PICK a, b, c, d : /\ a = Total(QtyOf(S)) /\ b = Total(QtyOf(K))
                         /\ c = Total(QtyOf(S \ K)) /\ d = TotalReturned(t)
  OBVIOUS
<1> QED
  BY <1>4, <1>7, <1>9, <1>10

\* An issue nobody could refer to yet has no returns, unless it got the id of
\* one that was lost.
LEMMA FreshIssue ==
  ASSUME Core, LedgerLinked, cut["transactions"] = 0, NEW t, \A tx \in txs : tx.id # t
  PROVE  TotalReturned(t) = 0 /\ ReturningNow(t) = {}
<1>1. OfTransaction(rets, t) = {}
  BY DEF OfTransaction, LedgerLinked
<1>2. QtyOf({}) \in [{} -> Nat]
  BY DEF QtyOf
<1>3. TotalReturned(t) = 0
  BY <1>1, <1>2, TotalZero DEF TotalReturned
<1>4. ReturningNow(t) = {}
  BY DEF ReturningNow, ReturnsInFlight, InFlight, Core, HeldReadsValid
<1> QED
  BY <1>3, <1>4

\* While the returns of an issue are validated one at a time, the one in
\* flight fits into what is left, and recording it uses up exactly that.
LEMMA NextSerial ==
  Core /\ LedgerLinked /\ ReturnsWithinIssueIfSerial /\ [Next]_vars
    => ReturnsWithinIssueIfSerial'
<1> SUFFICES ASSUME Core, Core', LedgerLinked, ReturnsWithinIssueIfSerial, [Next]_vars,
                    cut'["transactions"] = 0, NEW tx \in txs', tx.id \notin overlapped'
             PROVE  WithinIssue(tx)'
  BY NextCore DEF ReturnsWithinIssueIfSerial, WithinIssue
<1> DEFINE t == tx.id
<1>n. tx.qty \in Nat /\ TotalReturned(t) \in Nat
  BY TotalReturnedType DEF Core, TypeOK, TxRow
<1>y. req \in [Requests -> Request]
  BY DEF Core, TypeOK
<1>z. cut["transactions"] = 0
  <2>1. "transactions" \in Files /\ cut \in [Files -> Nat]
    BY DEF Files, Core, TypeOK
  <2>2. cut["transactions"] <= cut'["transactions"]
    BY <2>1, LedgersGrow
  <2> QED
    BY <2>1, <2>2
<1>o. ASSUME tx \in txs, overlapped \subseteq overlapped' PROVE WithinIssue(tx)
  BY <1>o, <1>z DEF ReturnsWithinIssueIfSerial, WithinIssue
<1>k. ASSUME UNCHANGED <<txs, rets, overlapped>>,
             ReturningNow(t)' \subseteq ReturningNow(t),
             \A r \in ReturningNow(t)' : req'[r].qty = req[r].qty
      PROVE  WithinIssue(tx)'
  BY <1>k, <1>o DEF WithinIssue, TotalReturned, OfTransaction
<1>i. ASSUME NEW r \in Requests, req' = [req EXCEPT ![r] = Idle]
      PROVE  /\ ReturningNow(t)' = ReturningNow(t) \ {r}
             /\ \A s \in ReturningNow(t)' : req'[s] = req[s]
  BY <1>i, <1>y DEF ReturningNow, ReturnsInFlight, InFlight, Idle
<1>1. ASSUME NEW i \in ItemIds, NEW q \in Quantities, AddItem(i, q) PROVE WithinIssue(tx)'
  BY <1>1, <1>k DEF AddItem, ReturningNow, ReturnsInFlight, InFlight
<1>2. ASSUME NEW r \in Requests, NEW i \in ItemIds, NEW q \in Quantities,
             NEW to \in UserIds, NEW by \in UserIds, IssueItem(r, i, q, to, by)
      PROVE  WithinIssue(tx)'
  <2>1. /\ req' = [req EXCEPT ![r] =
             [pc |-> "decrease", item |-> i, qty |-> q, tx |-> NoId, by |-> by]]
        /\ UNCHANGED <<txs, rets, overlapped>>
    BY <1>2, Zenon DEF IssueItem
  <2>2. /\ ReturningNow(t)' \subseteq ReturningNow(t)
        /\ \A s \in ReturningNow(t)' : req'[s] = req[s]
    BY <1>y, <2>1 DEF ReturningNow, ReturnsInFlight, InFlight
  <2> QED
    BY <1>k, <2>1, <2>2
<1>3. ASSUME NEW r \in Requests, NEW u \in txs, NEW q \in Quantities,
             NEW by \in UserIds, ReturnItem(r, u, q, by)
      PROVE  WithinIssue(tx)'
  <2>1. /\ req[r].pc = "idle"
        /\ q <= u.qty - TotalReturned(u.id)
        /\ req' = [req EXCEPT ![r] =
             [pc |-> "increase", item |-> u.item, qty |-> q, tx |-> u.id, by |-> by]]
        /\ overlapped' = IF ReturningNow(u.id) = {} THEN overlapped
                                                   ELSE overlapped \cup {u.id}
        /\ UNCHANGED <<txs, rets>>
    BY <1>3, Zenon DEF ReturnItem, AcceptReturn
  <2>2. WithinIssue(tx) /\ TotalReturned(t)' = TotalReturned(t)
    BY <1>o, <2>1 DEF TotalReturned
  <2>3. CASE u.id # t
    <3>1. /\ ReturningNow(t)' = ReturningNow(t)
          /\ \A s \in ReturningNow(t)' : req'[s] = req[s]
      BY <1>y, <2>1, <2>3 DEF ReturningNow, ReturnsInFlight, InFlight
    <3> QED
      BY <2>2, <3>1 DEF WithinIssue
  <2>4. CASE u.id = t
    <3>1. u = tx
      BY <2>1, <2>4 DEF LedgerLinked
    <3>2. ReturningNow(t) = {}
      BY <2>1, <2>4
    <3>3. ReturningNow(t)' = {r} /\ req'[r].qty = q
      BY <1>y, <2>1, <2>4, <3>2 DEF ReturningNow, ReturnsInFlight, InFlight
    <3>4. TotalReturned(t)' + q <= tx.qty
      BY <1>n, <2>1, <2>2, <3>1, InventoryAssumption
    <3>5. TotalReturned(t)' <= tx.qty
      BY <2>2 DEF WithinIssue
    <3> QED
      BY <3>3, <3>4, <3>5 DEF WithinIssue
  <2> QED
    BY <2>3, <2>4
<1>4. ASSUME NEW r \in Requests, DecreaseQuantityIfEnough(r) \/ IncreaseQuantity(r)
      PROVE  WithinIssue(tx)'
  <2>1. /\ ReturningNow(t)' = ReturningNow(t)
        /\ \A s \in ReturningNow(t)' : req'[s].qty = req[s].qty
    BY <1>4, <1>y DEF DecreaseQuantityIfEnough, IncreaseQuantity, ReturningNow,
       ReturnsInFlight, InFlight, Request
  <2> QED
    BY <1>4, <1>k, <2>1 DEF DecreaseQuantityIfEnough, IncreaseQuantity
<1>5. ASSUME NEW r \in Requests,
             InsufficientStock(r) \/ ItemNotFound(r) \/ CallFails(r) \/ FileIsTorn(r)
      PROVE  WithinIssue(tx)'
  <2>1. req' = [req EXCEPT ![r] = Idle] /\ UNCHANGED <<txs, rets, overlapped>>
    BY <1>5 DEF InsufficientStock, ItemNotFound, CallFails, FileIsTorn, GiveUp
  <2> QED
    BY <1>i, <1>k, <2>1
<1>6. ASSUME NEW r \in Requests, AddTransaction(r) PROVE WithinIssue(tx)'
  <2>1. req' = [req EXCEPT ![r] = Idle] /\ UNCHANGED <<rets, overlapped>>
    BY <1>6 DEF AddTransaction
  <2>2. TotalReturned(t)' = TotalReturned(t)
    BY <2>1 DEF TotalReturned
  <2>3. CASE tx \in txs
    BY <1>i, <1>o, <2>1, <2>2, <2>3 DEF WithinIssue
  <2>4. CASE tx \notin txs
    <3>1. \A u \in txs : u.id # t
      BY <1>6, <2>4 DEF AddTransaction
    <3>2. TotalReturned(t) = 0 /\ ReturningNow(t) = {}
      BY <1>z, <3>1, FreshIssue
    <3>3. ReturningNow(t)' = {}
      BY <1>i, <2>1, <3>2
    <3>4. TotalReturned(t)' <= tx.qty
      BY <1>n, <2>2, <3>2
    <3> QED
      BY <3>3, <3>4 DEF WithinIssue
  <2> QED
    BY <2>3, <2>4
<1>7. ASSUME NEW r \in Requests, req[r].pc = "addReturn", req' = [req EXCEPT ![r] = Idle],
             UNCHANGED <<txs, overlapped>>, NEW row, row \notin rets, row.tx = req[r].tx,
             row.qty = req[r].qty, rets' \in SUBSET (rets \cup {row})
      PROVE  WithinIssue(tx)'
  <2>1. row.qty \in Nat
    BY <1>7, <1>y DEF Request
  <2>2. /\ TotalReturned(t)' \in Nat
        /\ TotalReturned(t)' <= TotalReturned(t) + (IF row.tx = t THEN row.qty ELSE 0)
    BY <1>7, <2>1, TotalReturnedAdd
  <2>3. WithinIssue(tx)
    BY <1>7, <1>o
  <2>4. PICK a, b : a = TotalReturned(t) /\ b = TotalReturned(t)'
    OBVIOUS
  <2>5. CASE req[r].tx # t
    <3>1. TotalReturned(t)' <= TotalReturned(t)
      BY <1>7, <1>n, <2>2, <2>5
    <3>2. TotalReturned(t) <= tx.qty
      BY <2>3 DEF WithinIssue
    <3>3. TotalReturned(t)' <= tx.qty
      BY <1>n, <2>2, <2>4, <3>1, <3>2
    <3>4. ASSUME NEW s \in ReturningNow(t)'
          PROVE  s \in ReturningNow(t) /\ req'[s] = req[s] /\ req[s].qty \in Nat
      BY <1>7, <1>i, <1>y DEF ReturningNow, ReturnsInFlight, InFlight, Request
    <3>5. ASSUME NEW s \in ReturningNow(t)' PROVE TotalReturned(t)' + req'[s].qty <= tx.qty
      <4>1. TotalReturned(t) + req[s].qty <= tx.qty
        BY <2>3, <3>4, <3>5 DEF WithinIssue
      <4>2. PICK c : c = req[s].qty
        OBVIOUS
      <4>3. b <= a /\ a + c <= tx.qty /\ a \in Nat /\ b \in Nat /\ c \in Nat /\ tx.qty \in Nat
        BY <1>n, <2>2, <2>4, <3>1, <3>4, <3>5, <4>1, <4>2
      <4>4. b + c <= tx.qty
        BY ONLY <4>3
      <4> QED
        BY <2>4, <3>4, <3>5, <4>2, <4>4
    <3>6. ASSUME NEW s \in ReturningNow(t)', NEW u \in ReturningNow(t)' PROVE s = u
      BY <2>3, <3>4 DEF WithinIssue
    <3> QED
      BY <3>3, <3>5, <3>6 DEF WithinIssue
  <2>6. CASE req[r].tx = t
    <3>1. r \in ReturningNow(t)
      BY <1>7, <2>6 DEF ReturningNow, ReturnsInFlight, InFlight
    <3>2. ReturningNow(t)' = {}
      BY <1>7, <1>i, <2>3, <3>1 DEF WithinIssue
    <3>3. TotalReturned(t)' <= tx.qty
      BY <1>7, <1>n, <2>1, <2>2, <2>3, <2>6, <3>1 DEF WithinIssue
    <3> QED
      BY <3>2, <3>3 DEF WithinIssue
  <2> QED
    BY <2>5, <2>6
<1>10. ASSUME NEW r \in Requests, AddReturn(r) \/ ReturnCut(r) PROVE WithinIssue(tx)'
  <2>1. /\ req[r].pc = "addReturn" /\ req' = [req EXCEPT ![r] = Idle]
        /\ UNCHANGED <<txs, overlapped>>
    BY <1>10, Zenon DEF AddReturn, ReturnCut
  <2>2. PICK id \in RetIds :
          /\ \A ret \in rets : ret.id # id
          /\ rets' \in SUBSET (rets \cup {[id |-> id, tx |-> req[r].tx, item |-> req[r].item,
                                           qty |-> req[r].qty, by |-> req[r].by]})
    <3>1. CASE AddReturn(r)
      BY <3>1 DEF AddReturn
    <3>2. CASE ReturnCut(r)
      BY <3>2, Zenon DEF ReturnCut
    <3> QED
      BY <1>10, <3>1, <3>2
  <2>3. PICK row : row = [id |-> id, tx |-> req[r].tx, item |-> req[r].item,
                          qty |-> req[r].qty, by |-> req[r].by]
    OBVIOUS
  <2>4. row \notin rets /\ row.tx = req[r].tx /\ row.qty = req[r].qty
        /\ rets' \in SUBSET (rets \cup {row})
    BY <2>2, <2>3
  <2> QED
    BY <1>7, <2>1, <2>4
<1>11. ASSUME NEW i \in ItemIds, NEW q \in Quantities, AddItemCut(i, q) PROVE WithinIssue(tx)'
  BY <1>11, <1>k DEF AddItemCut, ReturningNow, ReturnsInFlight, InFlight
<1>12. ASSUME NEW r \in Requests, ShelfCut(r) PROVE WithinIssue(tx)'
  <2>1. /\ req[r].pc \in {"decrease", "increase"}
        /\ UNCHANGED <<txs, rets, overlapped>>
        /\ \/ req' = [req EXCEPT ![r].pc = IF @ = "decrease" THEN "addTransaction" ELSE "addReturn"]
           \/ req' = [req EXCEPT ![r] = Idle]
    BY <1>12, Zenon DEF ShelfCut
  <2>2. CASE req' = [req EXCEPT ![r] = Idle]
    BY <1>i, <1>k, <2>1, <2>2
  <2>3. CASE req' = [req EXCEPT ![r].pc = IF @ = "decrease" THEN "addTransaction" ELSE "addReturn"]
    <3>1. /\ ReturningNow(t)' = ReturningNow(t)
          /\ \A s \in ReturningNow(t)' : req'[s].qty = req[s].qty
      BY <2>1, <2>3, <1>y DEF ReturningNow, ReturnsInFlight, InFlight, Request
    <3> QED
      BY <1>k, <2>1, <3>1
  <2> QED
    BY <2>1, <2>2, <2>3
<1>13. ASSUME NEW r \in Requests, IssueCut(r) PROVE WithinIssue(tx)'
  <2>1. "transactions" \in Files /\ Cut("transactions")
    BY <1>13, Zenon DEF IssueCut, Files
  <2>2. cut'["transactions"] = cut["transactions"] + 1 /\ cut["transactions"] \in Nat
    BY <2>1, CutType DEF Core, TypeOK
  <2> QED
    BY <2>2
<1>8. ASSUME Crash PROVE WithinIssue(tx)'
  <2>1. ReturningNow(t)' = {}
    BY <1>8 DEF Crash, ReturningNow, ReturnsInFlight, InFlight, Idle
  <2> QED
    BY <1>8, <1>k, <2>1 DEF Crash
<1>9. CASE UNCHANGED vars
  BY <1>9, <1>k DEF vars, ReturningNow, ReturnsInFlight, InFlight
<1> QED
  BY <1>1, <1>2, <1>3, <1>4, <1>5, <1>6, <1>8, <1>9, <1>10, <1>11, <1>12, <1>13
     DEF Next, Proceed

\* Nothing has been returned, and nobody is returning, when the server starts.
LEMMA InitSerial == Init => ReturnsWithinIssueIfSerial
<1> SUFFICES ASSUME Init, NEW tx \in txs PROVE WithinIssue(tx)
  BY DEF ReturnsWithinIssueIfSerial, WithinIssue
<1>1. ReturningNow(tx.id) = {}
  BY DEF Init, ReturningNow, ReturnsInFlight, InFlight, Idle
<1>2. OfTransaction(rets, tx.id) = {} /\ QtyOf({}) \in [{} -> Nat]
  BY DEF Init, OfTransaction, QtyOf
<1>3. TotalReturned(tx.id) = 0
  BY <1>2, TotalZero DEF TotalReturned
<1>4. tx.qty \in Nat
  BY InventoryAssumption DEF Init, TxRow
<1> QED
  BY <1>1, <1>3, <1>4 DEF WithinIssue

\* The rule above ReturnItem holds for every issue whose returns were never
\* validated concurrently, whoever else is in flight and whatever fails, as long
\* as transactions.csv has not lost rows.
THEOREM SerialReturns == Spec => []ReturnsWithinIssueIfSerial
BY InitSerial, NextSerial, CoreInvariant, LedgerInvariant, PTL DEF Spec

-----------------------------------------------------------------------------
\* The issue a row or a request refers to by its id.
IssueWith(t) == CHOOSE tx \in txs : tx.id = t

\* Ids being unique, that is the one issue with this id.
LEMMA IssueWithId ==
  ASSUME LedgerLinked, NEW tx \in txs
  PROVE  IssueWith(tx.id) = tx
BY DEF LedgerLinked, IssueWith

\* The recorded returns of an item, taken issue by issue.
LEMMA ReturnedByIssue ==
  ASSUME Core, LedgerLinked, cut["transactions"] = 0, NEW i \in ItemIds
  PROVE  LET T == OfItem(txs, i)
             a == [tx \in T |-> TotalReturned(tx.id)]
         IN  a \in [T -> Nat] /\ Returned(i) <= Total(a)
<1> DEFINE T == OfItem(txs, i)
           R == OfItem(rets, i)
           a == [tx \in T |-> TotalReturned(tx.id)]
           f == QtyOf(R)
           owner == [ret \in R |-> IssueWith(ret.tx)]
<1>1. IsFiniteSet(T) /\ IsFiniteSet(R)
  BY FS_Subset DEF OfItem, Core, TypeOK
<1>2. a \in [T -> Nat]
  BY TotalReturnedType
<1>3. f \in [R -> Nat]
  BY DEF QtyOf, OfItem, Core, TypeOK, RetRow
<1>4. owner \in [R -> T]
  BY IssueWithId DEF OfItem, LedgerLinked
<1>5. ASSUME NEW tx \in T
      PROVE  Total([x \in {y \in R : owner[y] = tx} |-> f[x]]) <= a[tx]
  <2>1. {y \in R : owner[y] = tx} = OfTransaction(rets, tx.id)
    <3>1. ASSUME NEW y \in rets, y.tx = tx.id PROVE y \in R /\ owner[y] = tx
      BY <3>1, IssueWithId DEF OfItem, LedgerLinked
    <3>2. ASSUME NEW y \in R, owner[y] = tx PROVE y \in rets /\ y.tx = tx.id
      BY <3>2, IssueWithId DEF OfItem, LedgerLinked
    <3> QED
      BY <3>1, <3>2 DEF OfTransaction, OfItem
  <2>2. [x \in {y \in R : owner[y] = tx} |-> f[x]] = QtyOf(OfTransaction(rets, tx.id))
    BY <2>1 DEF QtyOf
  <2>3. TotalReturned(tx.id) \in Nat
    BY TotalReturnedType
  <2> QED
    BY <2>2, <2>3 DEF TotalReturned
<1>6. Returned(i) = Total(f)
  BY DEF Returned
<1> HIDE DEF T, R, a, f, owner
<1>7. Total(f) <= Total(a)
  BY ONLY <1>1, <1>2, <1>3, <1>4, <1>5, TotalGrouped
<1> QED
  BY <1>2, <1>6, <1>7 DEF T, a

\* Requests that have put units of item i back and not recorded it yet.
Recording(i) == {r \in Requests : req[r].pc = "addReturn" /\ req[r].item = i}

\* ... those of them that return issue tx.
RecordingOf(tx, i) == {r \in Recording(i) : IssueWith(req[r].tx) = tx}

\* What the requests of a set hold.
QtyOfRequests(calls) == [r \in calls |-> req[r].qty]

\* Units on their way back to the shelf's record, taken issue by issue.
LEMMA PendingByIssue ==
  ASSUME Core, LedgerLinked, cut["transactions"] = 0, NEW i \in ItemIds
  PROVE  LET T == OfItem(txs, i)
             c == [tx \in T |-> Total(QtyOfRequests(RecordingOf(tx, i)))]
         IN  c \in [T -> Nat] /\ PendingReturns(i) <= Total(c)
<1> DEFINE T == OfItem(txs, i)
           P == Recording(i)
           f == QtyOfRequests(P)
           owner == [r \in P |-> IssueWith(req[r].tx)]
           c == [tx \in T |-> Total(QtyOfRequests(RecordingOf(tx, i)))]
<1>1. IsFiniteSet(T) /\ IsFiniteSet(P)
  BY FS_Subset, InventoryAssumption DEF OfItem, Core, TypeOK, Recording
<1>2. f \in [P -> Nat]
  BY DEF QtyOfRequests, Recording, Core, HeldReadsValid
<1>3. owner \in [P -> T]
  <2>1. ASSUME NEW r \in P PROVE IssueWith(req[r].tx) \in T
    <3>1. PICK tx \in txs : tx.id = req[r].tx /\ tx.item = req[r].item
      BY DEF Recording, Core, HeldReadsValid
    <3> QED
      BY <3>1, IssueWithId DEF OfItem, Recording
  <2> QED
    BY <2>1
<1>4. c \in [T -> Nat]
  <2>1. ASSUME NEW tx \in T PROVE Total(QtyOfRequests(RecordingOf(tx, i))) \in Nat
    <3> DEFINE G == RecordingOf(tx, i)
    <3>1. IsFiniteSet(G)
      BY <1>1, FS_Subset DEF RecordingOf
    <3>2. QtyOfRequests(G) \in [G -> Nat]
      BY DEF QtyOfRequests, RecordingOf, Recording, Core, HeldReadsValid
    <3> HIDE DEF G
    <3>3. Total(QtyOfRequests(G)) \in Nat
      BY ONLY <3>1, <3>2, TotalType
    <3> QED
      BY <3>3 DEF G
  <2> QED
    BY <2>1
<1>5. ASSUME NEW tx \in T
      PROVE  Total([x \in {y \in P : owner[y] = tx} |-> f[x]]) <= c[tx]
  <2>1. {y \in P : owner[y] = tx} = RecordingOf(tx, i)
    BY DEF RecordingOf
  <2>2. [x \in {y \in P : owner[y] = tx} |-> f[x]] = QtyOfRequests(RecordingOf(tx, i))
    BY <2>1 DEF QtyOfRequests, RecordingOf
  <2>3. c[tx] = Total(QtyOfRequests(RecordingOf(tx, i)))
    OBVIOUS
  <2> HIDE DEF c, T
  <2>4. c[tx] \in Nat
    BY <1>4
  <2>5. Total([x \in {y \in P : owner[y] = tx} |-> f[x]]) = c[tx]
    BY <2>2, <2>3
  <2> HIDE DEF P, owner, f
  <2> QED
    BY ONLY <2>4, <2>5
<1>6. PendingReturns(i) = Total(f)
  <2> DEFINE held == Held("addReturn", i)
  <2>1. held \in [Requests -> Nat] /\ P \subseteq Requests
    BY DEF Held, Recording, Core, TypeOK, Request
  <2>2. (\A r \in P : held[r] = f[r]) /\ (\A r \in Requests \ P : held[r] = 0)
    BY DEF Held, QtyOfRequests, Recording
  <2>3. PendingReturns(i) = Total(held)
    BY DEF PendingReturns
  <2> HIDE DEF held, P, f
  <2>4. Total(held) = Total(f)
    BY ONLY <1>2, <2>1, <2>2, TotalRestrict
  <2> QED
    BY ONLY <2>3, <2>4
<1> HIDE DEF T, P, c, f, owner
<1>7. Total(f) <= Total(c)
  BY ONLY <1>1, <1>2, <1>3, <1>4, <1>5, TotalGrouped
<1> QED
  BY <1>4, <1>6, <1>7 DEF T, c

\* Without concurrent returns of one issue, what came back of an item, recorded
\* or not, was issued before.
LEMMA ReturnsFit ==
  ASSUME Core, LedgerLinked, cut["transactions"] = 0, ReturnsWithinIssueIfSerial,
         overlapped = {}, NEW i \in ItemIds
  PROVE  Returned(i) + PendingReturns(i) <= Issued(i)
<1> DEFINE T == OfItem(txs, i)
           a == [tx \in T |-> TotalReturned(tx.id)]
           c == [tx \in T |-> Total(QtyOfRequests(RecordingOf(tx, i)))]
           h == QtyOf(T)
<1>1. IsFiniteSet(T) /\ h \in [T -> Nat]
  BY FS_Subset DEF QtyOf, OfItem, Core, TypeOK, TxRow
<1>2. a \in [T -> Nat] /\ Returned(i) <= Total(a)
  BY ReturnedByIssue
<1>3. c \in [T -> Nat] /\ PendingReturns(i) <= Total(c)
  BY PendingByIssue
<1>4. ASSUME NEW tx \in T
      PROVE  a[tx] + c[tx] <= h[tx]
  <2> DEFINE G == RecordingOf(tx, i)
  <2>1. /\ TotalReturned(tx.id) <= tx.qty
        /\ \A r \in ReturningNow(tx.id) : TotalReturned(tx.id) + req[r].qty <= tx.qty
        /\ \A r, s \in ReturningNow(tx.id) : r = s
    BY DEF OfItem, ReturnsWithinIssueIfSerial
  <2>2. G \subseteq ReturningNow(tx.id)
    <3>1. ASSUME NEW r \in G PROVE req[r].tx = tx.id
      <4>1. PICK t \in txs : t.id = req[r].tx
        BY DEF RecordingOf, Recording, Core, HeldReadsValid
      <4> QED
        BY <4>1, IssueWithId DEF RecordingOf
    <3> QED
      BY <3>1 DEF ReturningNow, ReturnsInFlight, InFlight, RecordingOf, Recording
  <2>3. QtyOfRequests(G) \in [G -> Nat]
    BY DEF QtyOfRequests, RecordingOf, Recording, Core, HeldReadsValid
  <2>4. TotalReturned(tx.id) \in Nat /\ tx.qty \in Nat
    BY TotalReturnedType DEF OfItem, Core, TypeOK, TxRow
  <2>5. TotalReturned(tx.id) + Total(QtyOfRequests(G)) <= tx.qty
    <3> HIDE DEF G
    <3>1. CASE G = {}
      <4>1. Total(QtyOfRequests(G)) = 0
        BY <2>3, <3>1, TotalZero
      <4> QED
        BY <2>1, <2>4, <4>1
    <3>2. CASE G # {}
      <4>1. PICK r : G = {r}
        BY <2>1, <2>2, <3>2
      <4>2. Total(QtyOfRequests(G)) = QtyOfRequests(G)[r]
        BY <2>3, <4>1, TotalSingle
      <4>3. QtyOfRequests(G)[r] = req[r].qty /\ r \in ReturningNow(tx.id)
        BY <2>2, <4>1 DEF QtyOfRequests
      <4> QED
        BY <2>1, <4>2, <4>3
    <3> QED
      BY <3>1, <3>2
  <2> QED
    BY <2>5 DEF QtyOf
<1>5. Issued(i) = Total(h)
  BY DEF Issued
<1>6. Returned(i) \in Nat /\ PendingReturns(i) \in Nat
  BY BalanceTypes
<1> HIDE DEF T, a, c, h
<1>7. Total(a) + Total(c) <= Total(h)
  BY ONLY <1>1, <1>2, <1>3, <1>4, TotalFits
<1>8. Total(a) \in Nat /\ Total(c) \in Nat /\ Total(h) \in Nat
  BY <1>1, <1>2, <1>3, TotalType
<1> QED
  BY <1>2, <1>3, <1>5, <1>6, <1>7, <1>8

\* Nothing but a fault, or two returns of one issue at once, puts more units of
\* an item on the shelf than were supplied.
THEOREM ShelfInvariant == Spec => []ShelfWithinSupply
<1>1. Core /\ LedgerLinked /\ BooksBalance /\ ReturnsWithinIssueIfSerial => ShelfWithinSupply
  <2> SUFFICES ASSUME Core, LedgerLinked, BooksBalance, ReturnsWithinIssueIfSerial,
                      faults = 0, overlapped = {}, NEW i \in ItemIds
               PROVE  stock[i] <= supplied[i]
    BY DEF ShelfWithinSupply
  <2>1. Returned(i) + PendingReturns(i) <= Issued(i)
    BY ReturnsFit DEF Core, NoFaultNoLoss
  <2>2. stock[i] + Issued(i) + PendingIssues(i) + drift[i]
          = supplied[i] + Returned(i) + PendingReturns(i)
    BY DEF BooksBalance
  <2>3. drift[i] = 0
    BY DEF BooksBalance
  <2>4. /\ Issued(i) \in Nat /\ Returned(i) \in Nat
        /\ PendingIssues(i) \in Nat /\ PendingReturns(i) \in Nat
    BY BalanceTypes
  <2>5. stock[i] \in Int /\ supplied[i] \in Nat
    BY DEF Core, TypeOK
  <2> QED
    BY ONLY <2>1, <2>2, <2>3, <2>4, <2>5
<1> QED
  BY <1>1, CoreInvariant, LedgerInvariant, BalanceInvariant, SerialReturns, PTL


-----------------------------------------------------------------------------
(* The pages that put several files together (Views).                      *)

Stocks == UNION {[S -> Nat] : S \in SUBSET ItemIds}

Page  == [at : Reads, kind : {"dashboard", "form"}, item : ItemIds \cup {NoId},
          stock : Stocks, txs : SUBSET TxRow, rets : SUBSET RetRow,
          issues : SUBSET TxRow, offers : SUBSET Offer, failed : BOOLEAN]
Start == [txs : SUBSET TxRow, rets : SUBSET RetRow, due : [ItemIds -> Int],
          cut : [Files -> Nat]]

PageTypes == page \in Page /\ start \in Start /\ readFaults \in 0 .. MaxReadFaults

\* As long as no file has lost rows since the page was requested, what it has
\* read was there when it was read, and all that was there when it was requested
\* is in it.
PageKept ==
  /\ \A f \in Files : start.cut[f] <= cut[f]
  /\ page.at # "shown" => page.offers = {}
  /\ Whole =>
       /\ start.txs \subseteq txs /\ start.rets \subseteq rets
       /\ page.at \notin {"closed", "txs"} =>
            start.txs \subseteq page.txs /\ page.txs \subseteq txs
       /\ page.at \notin {"closed", "txs", "rets"} =>
            start.rets \subseteq page.rets /\ page.rets \subseteq rets
       /\ page.at = "options" => start.txs \subseteq page.issues /\ page.issues \subseteq txs

\* The shelf as the page read it fits the ledgers of that moment, up to the
\* balance of that moment.
StartBalanced ==
  page.at # "closed" => \A i \in ItemIds :
    (IF i \in DOMAIN page.stock THEN page.stock[i] ELSE 0) + Total(QtyOf(OfItem(start.txs, i)))
      = start.due[i] + Total(QtyOf(OfItem(start.rets, i)))

PageSound == PageTypes /\ PageKept /\ StartBalanced

\* What the theorems above say of the ledger.
Ledger == Core /\ StockNeverNegative /\ LedgerLinked /\ BooksBalance

\* A page only reads: beside it the ledger does what it does without it.
THEOREM PagesOnlyRead == ViewsSpec => Spec
<1>1. ViewsInit => Init
  BY DEF ViewsInit
<1>2. [ViewsNext]_<<vars, viewVars>> => [Next]_vars
  BY DEF ViewsNext
<1> QED
  BY <1>1, <1>2, PTL DEF ViewsSpec, Spec

\* ... and so keeps its invariants.
LEMMA LedgerOfPages == ViewsSpec => []Ledger
<1>1. Core /\ StockNeverNegative /\ LedgerLinked /\ BooksBalance => Ledger
  BY DEF Ledger
<1> QED
  BY <1>1, PagesOnlyRead, CoreInvariant, StockInvariant, LedgerInvariant, BalanceInvariant, PTL

\* Before it is requested a page knows nothing.
LEMMA ClosedPage ==
  /\ NoPage \in Page /\ NoStart \in Start
  /\ NoPage.at = "closed" /\ NoPage.offers = {} /\ NoStart.txs = {} /\ NoStart.rets = {}
  /\ \A f \in Files : NoStart.cut[f] = 0
<1>1. <<>> \in Stocks
  <2>1. <<>> \in [{} -> Nat] /\ {} \in SUBSET ItemIds
    OBVIOUS
  <2> QED
    BY <2>1 DEF Stocks
<1> QED
  BY <1>1 DEF NoPage, NoStart, Page, Start, Reads

\* Nobody has a page at the start.
LEMMA InitPage == ViewsInit => PageSound
<1> SUFFICES ASSUME ViewsInit PROVE PageSound
  OBVIOUS
<1>1. \A f \in Files : cut[f] = 0
  BY DEF ViewsInit, Init
<1> QED
  BY <1>1, ClosedPage, ViewsAssumption
     DEF ViewsInit, PageSound, PageTypes, PageKept, StartBalanced

\* What the page offers are issues, with a number of units.
LEMMA OffersType ==
  ASSUME Core, NEW issues \in SUBSET TxRow
  PROVE  /\ Remaining(issues, rets) \subseteq Offer
         /\ \A o : o \in Remaining(issues, rets) <=>
              \E tx \in issues : /\ o = [tx |-> tx.id, remaining |-> tx.qty - TotalReturned(tx.id)]
                                 /\ o.remaining > 0
<1>1. \A o : o \in Remaining(issues, rets) <=>
              \E tx \in issues : /\ o = [tx |-> tx.id, remaining |-> tx.qty - TotalReturned(tx.id)]
                                 /\ o.remaining > 0
  BY DEF Remaining, TotalReturned
<1>2. ASSUME NEW tx \in issues, tx.qty - TotalReturned(tx.id) > 0
      PROVE  [tx |-> tx.id, remaining |-> tx.qty - TotalReturned(tx.id)] \in Offer
  <2>1. tx.id \in TxIds /\ tx.qty \in Nat /\ TotalReturned(tx.id) \in Nat
    BY TotalReturnedType DEF TxRow
  <2> QED
    BY <1>2, <2>1 DEF Offer
<1> QED
  BY <1>1, <1>2

\* The balance a page starts from is that of the books.
LEMMA DueOfBooks ==
  ASSUME Core, BooksBalance, NEW i \in ItemIds
  PROVE  /\ Due(i) \in Int
         /\ (IF i \in items THEN stock[i] ELSE 0) + Total(QtyOf(OfItem(txs, i)))
              = Due(i) + Total(QtyOf(OfItem(rets, i)))
<1>1. /\ Issued(i) \in Nat /\ Returned(i) \in Nat
      /\ PendingIssues(i) \in Nat /\ PendingReturns(i) \in Nat
      /\ stock[i] \in Int /\ supplied[i] \in Nat /\ drift[i] \in Int
  BY BalanceTypes
<1>2. stock[i] + Issued(i) + PendingIssues(i) + drift[i]
        = supplied[i] + Returned(i) + PendingReturns(i)
  BY DEF BooksBalance
<1>3. (IF i \in items THEN stock[i] ELSE 0) = stock[i]
  BY DEF Core, NoRowNoStock
<1>4. Due(i) = supplied[i] + PendingReturns(i) - PendingIssues(i) - drift[i]
  BY DEF Due
<1>5. Due(i) \in Int /\ stock[i] + Issued(i) = Due(i) + Returned(i)
  BY ONLY <1>1, <1>2, <1>4
<1> QED
  BY <1>3, <1>5 DEF Issued, Returned

\* Every read keeps what the page knows in step with the files, and so does
\* whatever the requests do in between.
LEMMA NextPage == PageSound /\ Ledger /\ [ViewsNext]_<<vars, viewVars>> => PageSound'
<1> SUFFICES ASSUME PageSound, Ledger, [ViewsNext]_<<vars, viewVars>> PROVE PageSound'
  OBVIOUS
<1>t. /\ page \in Page /\ start \in Start /\ readFaults \in 0 .. MaxReadFaults
      /\ PageKept /\ StartBalanced /\ Core /\ BooksBalance /\ StockNeverNegative
      /\ txs \in SUBSET TxRow /\ rets \in SUBSET RetRow /\ items \in SUBSET ItemIds
      /\ MaxReadFaults \in Nat /\ cut \in [Files -> Nat]
  BY ViewsAssumption DEF PageSound, PageTypes, Ledger, Core, TypeOK
<1>1. ASSUME NEW kind \in {"dashboard", "form"}, NEW item \in ItemIds \cup {NoId},
             ReadItems(kind, item), UNCHANGED vars
      PROVE  PageSound'
  <2>1. PICK shelf : shelf = [i \in items |-> stock[i]]
    OBVIOUS
  <2>2. shelf \in Stocks
    <3>1. \A i \in items : stock[i] \in Nat
      BY <1>t DEF Core, TypeOK, StockNeverNegative
    <3> QED
      BY <1>t, <2>1, <3>1 DEF Stocks
  <2>3. /\ page' = [NoPage EXCEPT !.at = "txs", !.kind = kind, !.item = item, !.stock = shelf]
        /\ start' = [txs |-> txs, rets |-> rets, due |-> [i \in ItemIds |-> Due(i)],
                     cut |-> cut]
        /\ readFaults' = readFaults /\ txs' = txs /\ rets' = rets /\ cut' = cut
    BY <1>1, <2>1 DEF ReadItems, vars, disk
  <2>4. \A i \in ItemIds : Due(i) \in Int
    BY <1>t, DueOfBooks
  <2>5. page' \in Page /\ page'.at = "txs" /\ page'.stock = shelf /\ page'.offers = {}
    BY <2>2, <2>3, ClosedPage DEF Page, Reads, NoPage
  <2>6. start' \in Start
    BY <1>t, <2>3, <2>4 DEF Start
  <2>7. PageKept'
    <3>1. start'.txs = txs' /\ start'.rets = rets' /\ start'.cut = cut'
      BY <2>3
    <3>2. \A f \in Files : start'.cut[f] <= cut'[f]
      BY <1>t, <2>3, <3>1
    <3> QED
      BY <2>5, <3>1, <3>2 DEF PageKept
  <2>8. \A i \in ItemIds :
          (IF i \in DOMAIN shelf THEN shelf[i] ELSE 0) + Total(QtyOf(OfItem(txs, i)))
            = Due(i) + Total(QtyOf(OfItem(rets, i)))
    BY <1>t, <2>1, DueOfBooks
  <2>9. StartBalanced'
    BY <2>3, <2>5, <2>8 DEF StartBalanced
  <2> QED
    BY <1>t, <2>3, <2>5, <2>6, <2>7, <2>9 DEF PageSound, PageTypes
<1>2. ASSUME ReadTxs, UNCHANGED vars PROVE PageSound'
  <2>1. /\ page.at = "txs" /\ page' = [page EXCEPT !.at = "rets", !.txs = txs]
        /\ start' = start /\ readFaults' = readFaults
        /\ txs' = txs /\ rets' = rets /\ cut' = cut
    BY <1>2 DEF ReadTxs, vars, disk
  <2>2. /\ page' \in Page /\ page'.at = "rets" /\ page'.txs = txs /\ page'.stock = page.stock
        /\ page'.offers = page.offers
    BY <1>t, <2>1 DEF Page, Reads
  <2>3. PageKept'
    BY <1>t, <2>1, <2>2 DEF PageKept, Whole
  <2>4. StartBalanced'
    BY <1>t, <2>1, <2>2 DEF StartBalanced
  <2> QED
    BY <1>t, <2>1, <2>2, <2>3, <2>4 DEF PageSound, PageTypes
<1>3. ASSUME ReadRets, UNCHANGED vars PROVE PageSound'
  <2>1. /\ page.at = "rets"
        /\ page' = [page EXCEPT !.at = IF page.kind = "form" THEN "issues" ELSE "shown",
                                !.rets = rets]
        /\ start' = start /\ readFaults' = readFaults
        /\ txs' = txs /\ rets' = rets /\ cut' = cut
    BY <1>3 DEF ReadRets, vars, disk
  <2>2. /\ page' \in Page /\ page'.at \in {"issues", "shown"} /\ page'.rets = rets
        /\ page'.txs = page.txs /\ page'.stock = page.stock /\ page'.offers = page.offers
    BY <1>t, <2>1 DEF Page, Reads
  <2>3. PageKept'
    BY <1>t, <2>1, <2>2 DEF PageKept, Whole
  <2>4. StartBalanced'
    BY <1>t, <2>1, <2>2 DEF StartBalanced
  <2> QED
    BY <1>t, <2>1, <2>2, <2>3, <2>4 DEF PageSound, PageTypes
<1>4. ASSUME ReadIssues, UNCHANGED vars PROVE PageSound'
  <2>1. /\ page.at = "issues" /\ page' = [page EXCEPT !.at = "options", !.issues = txs]
        /\ start' = start /\ readFaults' = readFaults
        /\ txs' = txs /\ rets' = rets /\ cut' = cut
    BY <1>4 DEF ReadIssues, vars, disk
  <2>2. /\ page' \in Page /\ page'.at = "options" /\ page'.issues = txs
        /\ page'.rets = page.rets /\ page'.txs = page.txs /\ page'.stock = page.stock
        /\ page'.offers = page.offers
    BY <1>t, <2>1 DEF Page, Reads
  <2>3. PageKept'
    BY <1>t, <2>1, <2>2 DEF PageKept, Whole
  <2>4. StartBalanced'
    BY <1>t, <2>1, <2>2 DEF StartBalanced
  <2> QED
    BY <1>t, <2>1, <2>2, <2>3, <2>4 DEF PageSound, PageTypes
<1>5. ASSUME NEW offers \in SUBSET Offer, NEW failed \in BOOLEAN,
             page.at \in {"issues", "options"},
             page' = [page EXCEPT !.at = "shown", !.issues = {}, !.offers = offers, !.failed = failed],
             start' = start, readFaults' \in 0 .. MaxReadFaults, UNCHANGED vars
      PROVE  PageSound'
  <2>1. txs' = txs /\ rets' = rets /\ cut' = cut
    BY <1>5 DEF vars, disk
  <2>2. /\ page' \in Page /\ page'.at = "shown"
        /\ page'.rets = page.rets /\ page'.txs = page.txs /\ page'.stock = page.stock
    BY <1>t, <1>5 DEF Page, Reads
  <2>3. PageKept'
    BY <1>t, <1>5, <2>1, <2>2 DEF PageKept, Whole
  <2>4. StartBalanced'
    BY <1>t, <1>5, <2>1, <2>2 DEF StartBalanced
  <2> QED
    BY <1>t, <1>5, <2>2, <2>3, <2>4 DEF PageSound, PageTypes
<1>6. ASSUME ReadOptions, UNCHANGED vars PROVE PageSound'
  <2>1. PICK offers : offers = Remaining(page.issues, rets)
    OBVIOUS
  <2>2. page.issues \in SUBSET TxRow /\ page.failed \in BOOLEAN
    BY <1>t DEF Page
  <2>3. offers \in SUBSET Offer
    BY <1>t, <2>1, <2>2, OffersType
  <2>4. page' = [page EXCEPT !.at = "shown", !.issues = {}, !.offers = offers, !.failed = page.failed]
    BY <1>t, <1>6, <2>1 DEF ReadOptions, Page
  <2> QED
    BY <1>t, <1>5, <1>6, <2>2, <2>3, <2>4 DEF ReadOptions
<1>7. ASSUME page' = NoPage, start' = NoStart, readFaults' \in 0 .. MaxReadFaults,
             UNCHANGED vars
      PROVE  PageSound'
  <2>1. \A f \in Files : start'.cut[f] <= cut'[f]
    BY <1>t, <1>7, ClosedPage DEF vars, disk
  <2> QED
    BY <1>7, <2>1, ClosedPage DEF PageSound, PageTypes, PageKept, StartBalanced
<1>8. ASSUME ReadFails, UNCHANGED vars PROVE PageSound'
  <2>1. readFaults' \in 0 .. MaxReadFaults
    BY <1>t, <1>8 DEF ReadFails
  <2>2. CASE page' = NoPage /\ start' = NoStart
    BY <1>7, <1>8, <2>1, <2>2
  <2>3. CASE /\ page.at \in {"issues", "options"} /\ start' = start
             /\ page' = [page EXCEPT !.at = "shown", !.issues = {}, !.failed = TRUE]
    <3>1. page.offers \in SUBSET Offer
      BY <1>t DEF Page
    <3>2. page' = [page EXCEPT !.at = "shown", !.issues = {}, !.offers = page.offers, !.failed = TRUE]
      BY <1>t, <2>3 DEF Page
    <3> QED
      BY <1>5, <1>8, <2>1, <2>3, <3>1, <3>2
  <2> QED
    BY <1>8, <2>2, <2>3 DEF ReadFails
<1>9. ASSUME Close, UNCHANGED vars PROVE PageSound'
  BY <1>t, <1>7, <1>9 DEF Close
<1>10. ASSUME [Next]_vars, UNCHANGED viewVars PROVE PageSound'
  <2>1. page' = page /\ start' = start /\ readFaults' = readFaults
    BY <1>10 DEF viewVars
  <2>2. /\ \A f \in Files : cut[f] <= cut'[f]
        /\ cut' = cut => txs \subseteq txs' /\ rets \subseteq rets'
    BY <1>t, <1>10, LedgersGrow
  <2>5. cut' \in [Files -> Nat] /\ start.cut \in [Files -> Nat]
    <3>1. Core'
      BY <1>t, <1>10, NextCore
    <3> QED
      BY <1>t, <3>1 DEF Core, TypeOK, Start
  <2>6. \A f \in Files : start.cut[f] <= cut'[f]
    BY <1>t, <2>2, <2>5 DEF PageKept
  <2>7. Whole' => Whole /\ cut' = cut
    <3>1. ASSUME start.cut = cut', NEW f \in Files PROVE start.cut[f] = cut[f]
      BY <1>t, <2>2, <2>5, <3>1 DEF PageKept
    <3> QED
      BY <1>t, <2>1, <2>5, <3>1 DEF Whole
  <2>3. PageKept'
    BY <1>t, <2>1, <2>2, <2>6, <2>7 DEF PageKept
  <2>4. StartBalanced'
    BY <1>t, <2>1 DEF StartBalanced
  <2> QED
    BY <1>t, <2>1, <2>3, <2>4 DEF PageSound, PageTypes
<1> QED
  BY <1>1, <1>2, <1>3, <1>4, <1>6, <1>8, <1>9, <1>10 DEF ViewsNext, View

\* The page knows what it should, at every moment of its reading.
THEOREM PageInvariant == ViewsSpec => []PageSound
BY InitPage, NextPage, LedgerOfPages, PTL DEF ViewsSpec

\* Whatever a page has read so far, and wherever a read failed, it holds rows
\* of the files.
THEOREM PageTypesCorrect == ViewsSpec => []ViewsTypeOK
<1>1. PageSound => ViewsTypeOK
  <2> SUFFICES ASSUME PageSound PROVE ViewsTypeOK
    OBVIOUS
  <2>1. page \in Page /\ start \in Start /\ readFaults \in 0 .. MaxReadFaults
    BY DEF PageSound, PageTypes
  <2>2. DOMAIN page.stock \subseteq ItemIds
    BY <2>1 DEF Page, Stocks
  <2> QED
    BY <2>1, <2>2 DEF ViewsTypeOK, Page, Start
<1> QED
  BY <1>1, PageInvariant, PTL

\* Only a return that is recorded while the page is being read, with its issue,
\* can be shown without a name, unless a file loses rows meanwhile.
THEOREM NamesKnown == ViewsSpec => []NamelessOnlyIfNewer
<1>1. PageSound => NamelessOnlyIfNewer
  BY DEF PageSound, PageKept, NamelessOnlyIfNewer, Nameless, Whole
<1> QED
  BY <1>1, PageInvariant, PTL


\* What was returned of an issue only grows.
LEMMA ReturnedGrows ==
  ASSUME Core, Core', rets \subseteq rets', NEW t
  PROVE  /\ TotalReturned(t) \in Nat /\ TotalReturned(t)' \in Nat
         /\ TotalReturned(t) <= TotalReturned(t)'
<1>1. PICK R, S : R = OfTransaction(rets, t) /\ S = OfTransaction(rets', t)
  OBVIOUS
<1>2. R \in SUBSET S /\ IsFiniteSet(S) /\ \A row \in S : row.qty \in Nat
  <2>1. IsFiniteSet(rets') /\ rets' \subseteq RetRow
    BY DEF Core, TypeOK
  <2>2. S \in SUBSET rets'
    BY <1>1 DEF OfTransaction
  <2>3. R \in SUBSET S
    BY <1>1 DEF OfTransaction
  <2>4. IsFiniteSet(S)
    BY <2>1, <2>2, FS_Subset
  <2> QED
    BY <2>1, <2>2, <2>3, <2>4 DEF RetRow
<1>3. /\ Total(QtyOf(R)) \in Nat /\ Total(QtyOf(S \ R)) \in Nat
      /\ Total(QtyOf(S)) = Total(QtyOf(R)) + Total(QtyOf(S \ R))
  BY <1>2, QtySplit
<1>4. TotalReturned(t) = Total(QtyOf(R)) /\ TotalReturned(t)' = Total(QtyOf(S))
  BY <1>1 DEF TotalReturned
<1> QED
  BY <1>3, <1>4

\* A form that is opened offers what was left, and less is left later on.
LEMMA NextOffers ==
  PageSound /\ Ledger /\ Ledger' /\ OffersComplete /\ [ViewsNext]_<<vars, viewVars>>
    => OffersComplete'
<1> SUFFICES ASSUME PageSound, Ledger, Ledger', OffersComplete,
                    [ViewsNext]_<<vars, viewVars>>,
                    page'.at = "shown", page'.kind = "form", ~page'.failed, Whole',
                    NEW tx \in start'.txs,
                    NEW left, left = tx.qty - TotalReturned(tx.id)', left > 0
             PROVE  \E o \in page'.offers : o.tx = tx.id /\ o.remaining >= left
  BY DEF OffersComplete
<1>t. /\ page \in Page /\ start \in Start /\ PageKept /\ Core /\ Core'
      /\ txs \subseteq TxRow /\ cut \in [Files -> Nat] /\ cut' \in [Files -> Nat]
  BY DEF PageSound, PageTypes, Ledger, Core, TypeOK
<1>1. CASE ReadOptions /\ UNCHANGED vars
  <2>1. /\ page.at = "options" /\ page'.offers = Remaining(page.issues, rets)
        /\ start' = start /\ rets' = rets /\ cut' = cut
    BY <1>1, <1>t DEF ReadOptions, vars, Page, disk
  <2>2. tx \in page.issues /\ page.issues \in SUBSET TxRow
    BY <1>t, <2>1 DEF PageKept, Page, Whole
  <2>3. PICK o : o = [tx |-> tx.id, remaining |-> tx.qty - TotalReturned(tx.id)]
    OBVIOUS
  <2>4. o.tx = tx.id /\ o.remaining = left
    BY <2>1, <2>3 DEF TotalReturned
  <2>5. o \in Remaining(page.issues, rets)
    BY <1>t, <2>2, <2>3, <2>4, OffersType
  <2>6. left >= left
    <3>1. tx.qty \in Nat /\ TotalReturned(tx.id)' \in Nat
      BY <1>t, <2>1, <2>2, ReturnedGrows DEF TxRow
    <3> QED
      BY <3>1
  <2> QED
    BY <2>1, <2>4, <2>5, <2>6
<1>2. CASE [Next]_vars /\ UNCHANGED viewVars
  <2>0. /\ page' = page /\ start' = start /\ \A f \in Files : cut[f] <= cut'[f]
        /\ cut' = cut => rets \subseteq rets'
    BY <1>2, <1>t, LedgersGrow DEF viewVars
  <2>1. page' = page /\ start' = start /\ rets \subseteq rets' /\ Whole
    <3>1. ASSUME NEW f \in Files PROVE start.cut[f] = cut[f] /\ cut'[f] = cut[f]
      BY <1>t, <2>0 DEF PageKept, Whole, Start
    <3>2. start.cut = cut /\ cut' = cut
      BY <1>t, <3>1 DEF Start
    <3> QED
      BY <2>0, <3>2 DEF Whole
  <2>2. tx \in TxRow
    BY <1>t, <2>1 DEF Start
  <2>3. /\ tx.qty \in Nat /\ TotalReturned(tx.id) \in Nat /\ TotalReturned(tx.id)' \in Nat
        /\ TotalReturned(tx.id) <= TotalReturned(tx.id)'
    BY <1>t, <2>1, <2>2, ReturnedGrows DEF TxRow
  <2>4. PICK before : before = tx.qty - TotalReturned(tx.id)
    OBVIOUS
  <2>5. before >= left /\ before > 0 /\ before \in Int /\ left \in Int
    BY <2>3, <2>4
  <2>6. PICK o \in page.offers : o.tx = tx.id /\ o.remaining >= before
    BY <2>1, <2>4, <2>5 DEF OffersComplete
  <2>7. o.remaining \in Nat
    BY <1>t, <2>6 DEF Page, Offer
  <2> QED
    BY <2>1, <2>5, <2>6, <2>7
<1>3. ASSUME NEW kind, NEW item, ReadItems(kind, item) PROVE FALSE
  <2>1. page'.at = "txs"
    BY <1>3 DEF ReadItems, NoPage
  <2> QED
    BY <2>1
<1>4. CASE ReadTxs \/ ReadIssues
  <2>1. page'.at \in {"rets", "options"}
    BY <1>4, <1>t DEF ReadTxs, ReadIssues, Page
  <2> QED
    BY <2>1
<1>5. CASE ReadRets
  BY <1>5, <1>t DEF ReadRets, Page
<1>6. CASE ReadFails
  <2>1. CASE page' = NoPage
    BY <2>1 DEF NoPage
  <2>2. CASE page' = [page EXCEPT !.at = "shown", !.issues = {}, !.failed = TRUE]
    <3>1. page'.failed = TRUE
      BY <1>t, <2>2 DEF Page
    <3> QED
      BY <3>1
  <2> QED
    BY <1>6, <2>1, <2>2 DEF ReadFails
<1>7. CASE Close
  BY <1>7 DEF Close, NoPage
<1> QED
  BY <1>1, <1>2, <1>3, <1>4, <1>5, <1>6, <1>7 DEF ViewsNext, View

\* Whatever can be returned of an issue that was there when the form was
\* requested is on offer as long as the form is open and no file loses rows, for
\* any number of issues, returns and requests beside it.
THEOREM NothingLeftOut == ViewsSpec => []OffersComplete
<1>1. ViewsInit => OffersComplete
  BY DEF ViewsInit, NoPage, OffersComplete
<1> QED
  BY <1>1, NextOffers, PageInvariant, LedgerOfPages, PTL DEF ViewsSpec

\* When it is shown, a form offers nothing but what ReturnItem would accept, if
\* no file has lost rows since it was requested.
THEOREM OffersTrue == ViewsSpec => OffersCurrent
<1>1. ASSUME PageSound, Ledger, [ViewsNext]_<<vars, viewVars>>,
             page.at = "options", page'.at = "shown", Whole, NEW o \in page'.offers
      PROVE  \E tx \in txs : tx.id = o.tx /\ o.remaining = tx.qty - TotalReturned(tx.id)
  <2>t. /\ page \in Page /\ PageKept /\ Core
    BY <1>1 DEF PageSound, PageTypes, Ledger
  <2>1. page' # page
    BY <1>1
  <2>2. View
    BY <1>1, <2>1 DEF ViewsNext, viewVars
  <2>3. CASE ReadOptions
    <3>1. page'.offers = Remaining(page.issues, rets)
      BY <2>3, <2>t DEF ReadOptions, Page
    <3>2. page.issues \in SUBSET TxRow /\ page.issues \subseteq txs
      BY <1>1, <2>t DEF PageKept, Page
    <3>3. PICK tx \in page.issues : o = [tx |-> tx.id, remaining |-> tx.qty - TotalReturned(tx.id)]
      BY <1>1, <2>t, <3>1, <3>2, OffersType
    <3> QED
      BY <3>2, <3>3
  <2>4. CASE ReadFails
    <3>1. page'.offers = page.offers
      BY <1>1, <2>4, <2>t DEF ReadFails, Page
    <3> QED
      BY <1>1, <2>t, <3>1 DEF PageKept
  <2> QED
    BY <1>1, <2>2, <2>3, <2>4 DEF View, ReadItems, ReadTxs, ReadRets, ReadIssues, Close
<1>2. PageSound /\ Ledger /\ [ViewsNext]_<<vars, viewVars>> =>
        [(page.at = "options" /\ page'.at = "shown" /\ Whole) =>
           \A o \in page'.offers : \E tx \in txs :
             /\ tx.id = o.tx
             /\ o.remaining = tx.qty - TotalReturned(tx.id)]_<<vars, viewVars>>
  BY <1>1
<1> QED
  BY <1>2, PageInvariant, LedgerOfPages, PTL DEF ViewsSpec, OffersCurrent


\* A ledger adds up by items.
LEMMA QtyByItem ==
  ASSUME NEW rows, IsFiniteSet(rows), NEW I,
         \A row \in rows : row.qty \in Nat /\ row.item \in I,
         NEW g \in [I -> Nat], \A i \in I : g[i] = Total(QtyOf(OfItem(rows, i)))
  PROVE  Total(QtyOf(rows)) = Total(g)
<1>1. PICK f, owner : f = QtyOf(rows) /\ owner = [row \in rows |-> row.item]
  OBVIOUS
<1>2. f \in [rows -> Nat] /\ owner \in [rows -> I]
  BY <1>1 DEF QtyOf
<1>3. ASSUME NEW i \in I PROVE Share(f, owner, i) = QtyOf(OfItem(rows, i))
  <2>1. {row \in rows : owner[row] = i} = OfItem(rows, i)
    BY <1>1 DEF OfItem
  <2>2. \A row \in OfItem(rows, i) : f[row] = row.qty
    BY <1>1 DEF QtyOf, OfItem
  <2>3. DOMAIN f = rows
    BY <1>2
  <2> QED
    BY <2>1, <2>2, <2>3 DEF Share, QtyOf
<1>4. \A i \in I : g[i] = Total(Share(f, owner, i))
  BY <1>3
<1>5. Total(f) = Total(g)
  BY ONLY IsFiniteSet(rows), g \in [I -> Nat], <1>2, <1>4, TotalByOwner
<1> QED
  BY <1>1, <1>5

\* An equation that holds for every item holds for their sum.
LEMMA NetOfItems ==
  ASSUME NEW I, IsFiniteSet(I), NEW s \in [I -> Nat], NEW a \in [I -> Nat],
         NEW b \in [I -> Nat], NEW d \in [I -> Int],
         \A i \in I : s[i] + a[i] = d[i] + b[i]
  PROVE  /\ Total(s) \in Nat /\ Total(a) \in Nat /\ Total(b) \in Nat /\ Net(d) \in Int
         /\ Total(s) + Total(a) = Net(d) + Total(b)
<1>1. PICK pos : pos = [i \in I |-> IF d[i] > 0 THEN d[i] ELSE 0]
  OBVIOUS
<1>2. PICK neg : neg = [i \in I |-> IF d[i] < 0 THEN -d[i] ELSE 0]
  OBVIOUS
<1>3. PICK sa : sa = [i \in I |-> s[i] + a[i]]
  OBVIOUS
<1>4. PICK both : both = [i \in I |-> sa[i] + neg[i]]
  OBVIOUS
<1>5. /\ pos \in [I -> Nat] /\ neg \in [I -> Nat] /\ sa \in [I -> Nat] /\ both \in [I -> Nat]
      /\ \A i \in I : sa[i] = s[i] + a[i]
      /\ \A i \in I : both[i] = sa[i] + neg[i]
  BY <1>1, <1>2, <1>3, <1>4
<1>6. ASSUME NEW i \in I PROVE both[i] = pos[i] + b[i]
  <2>1. d[i] \in Int /\ s[i] + a[i] = d[i] + b[i] /\ b[i] \in Nat
    OBVIOUS
  <2>2. both[i] = (d[i] + b[i]) + neg[i]
    BY <1>5, <2>1
  <2>3. pos[i] = (IF d[i] > 0 THEN d[i] ELSE 0) /\ neg[i] = (IF d[i] < 0 THEN -d[i] ELSE 0)
    BY <1>1, <1>2
  <2> QED
    BY <2>1, <2>2, <2>3
<1>7. Total(sa) = Total(s) + Total(a)
  BY ONLY IsFiniteSet(I), s \in [I -> Nat], a \in [I -> Nat], <1>5, TotalPlus
<1>8. Total(both) = Total(sa) + Total(neg)
  BY ONLY IsFiniteSet(I), <1>5, TotalPlus
<1>9. Total(both) = Total(pos) + Total(b)
  BY ONLY IsFiniteSet(I), b \in [I -> Nat], <1>5, <1>6, TotalPlus
<1>10. Net(d) = Total(pos) - Total(neg)
  <2>1. DOMAIN d = I
    OBVIOUS
  <2> QED
    BY <1>1, <1>2, <2>1 DEF Net
<1>11. /\ Total(s) \in Nat /\ Total(a) \in Nat /\ Total(b) \in Nat
       /\ Total(pos) \in Nat /\ Total(neg) \in Nat
  BY <1>5, TotalType
<1> QED
  BY ONLY <1>7, <1>8, <1>9, <1>10, <1>11

\* The rows of an item that were read later are new.
LEMMA SelectedSplit ==
  ASSUME NEW read, IsFiniteSet(read), NEW before \in SUBSET read,
         \A row \in read : row.qty \in Nat
  PROVE  LET all == {row \in read : Selected(row.item)}
             old == {row \in before : Selected(row.item)}
             new == {row \in read \ before : Selected(row.item)}
         IN  /\ Total(QtyOf(old)) \in Nat /\ Total(QtyOf(new)) \in Nat
             /\ Total(QtyOf(all)) = Total(QtyOf(old)) + Total(QtyOf(new))
<1>1. PICK all : all = {row \in read : Selected(row.item)}
  OBVIOUS
<1>2. PICK old : old = {row \in before : Selected(row.item)}
  OBVIOUS
<1>3. PICK new : new = {row \in read \ before : Selected(row.item)}
  OBVIOUS
<1>4. old \in SUBSET all /\ new = all \ old /\ \A row \in all : row.qty \in Nat
  BY <1>1, <1>2, <1>3
<1>5. IsFiniteSet(all)
  <2>1. all \in SUBSET read
    BY <1>1
  <2> QED
    BY <2>1, FS_Subset
<1>6. /\ Total(QtyOf(old)) \in Nat /\ Total(QtyOf(all \ old)) \in Nat
      /\ Total(QtyOf(all)) = Total(QtyOf(old)) + Total(QtyOf(all \ old))
  BY <1>4, <1>5, QtySplit
<1> QED
  BY <1>1, <1>2, <1>3, <1>4, <1>6

\* The page attributes a return to the item it was recorded for.
LEMMA ItemRecorded ==
  ASSUME LedgerLinked, cut["transactions"] = 0, page.txs \subseteq txs, page.rets \subseteq rets,
         NEW ret \in page.rets
  PROVE  ItemOf(ret) = ret.item
<1>1. PICK known : known = {tx \in page.txs : tx.id = ret.tx}
  OBVIOUS
<1>2. CASE known = {}
  BY <1>1, <1>2 DEF ItemOf
<1>3. CASE known # {}
  <2>1. PICK tx : tx = CHOOSE x \in known : TRUE
    OBVIOUS
  <2>2. tx \in known
    BY <1>3, <2>1
  <2>3. PICK issue \in txs : issue.id = ret.tx /\ issue.item = ret.item
    BY DEF LedgerLinked
  <2>4. tx = issue
    BY <1>1, <2>2, <2>3 DEF LedgerLinked
  <2> QED
    BY <1>1, <1>3, <2>1, <2>3, <2>4 DEF ItemOf
<1> QED
  BY <1>2, <1>3

\* The three figures and what explains the difference between them.
LEMMA Figures == PageSound /\ Ledger => FiguresReconcile
<1> SUFFICES ASSUME PageSound, Ledger, page.at = "shown", page.kind = "dashboard", Whole,
                    page.item # NoId => cut["transactions"] = 0
             PROVE  LET new(read, before) ==
                          Total(QtyOf({row \in read \ before : Selected(row.item)}))
                        due == [i \in {j \in ItemIds : Selected(j)} |-> start.due[i]]
                    IN  TotalStock + TotalIssued - TotalReturnedShown
                          = Net(due) + new(page.txs, start.txs) - new(page.rets, start.rets)
  BY DEF FiguresReconcile
<1>t. /\ page \in Page /\ start \in Start /\ PageKept /\ StartBalanced /\ LedgerLinked
      /\ IsFiniteSet(txs) /\ IsFiniteSet(rets) /\ txs \subseteq TxRow /\ rets \subseteq RetRow
  BY DEF PageSound, PageTypes, Ledger, Core, TypeOK
<1>k. /\ start.txs \in SUBSET page.txs /\ page.txs \in SUBSET txs
      /\ start.rets \in SUBSET page.rets /\ page.rets \in SUBSET rets
  BY <1>t DEF PageKept
<1>f. /\ IsFiniteSet(page.txs) /\ IsFiniteSet(page.rets)
      /\ \A row \in page.txs : row.qty \in Nat /\ row.item \in ItemIds
      /\ \A row \in page.rets : row.qty \in Nat /\ row.item \in ItemIds
  BY <1>t, <1>k, FS_Subset DEF TxRow, RetRow
<1>1. PICK I : I = {j \in ItemIds : Selected(j)}
  OBVIOUS
<1>2. PICK s : s = [i \in I |-> IF i \in DOMAIN page.stock THEN page.stock[i] ELSE 0]
  OBVIOUS
<1>3. PICK a : a = [i \in I |-> Total(QtyOf(OfItem(start.txs, i)))]
  OBVIOUS
<1>4. PICK b : b = [i \in I |-> Total(QtyOf(OfItem(start.rets, i)))]
  OBVIOUS
<1>5. PICK d : d = [i \in I |-> start.due[i]]
  OBVIOUS
<1>6. PICK A, B : /\ A = {row \in start.txs : Selected(row.item)}
                  /\ B = {row \in start.rets : Selected(row.item)}
  OBVIOUS
<1>7. IsFiniteSet(I) /\ I \subseteq ItemIds
  <2>1. I \in SUBSET ItemIds
    BY <1>1
  <2> QED
    BY <2>1, FS_Subset, ViewsAssumption
<1>8. ASSUME NEW i \in I, NEW rows, IsFiniteSet(rows), \A row \in rows : row.qty \in Nat
      PROVE  /\ Total(QtyOf(OfItem(rows, i))) \in Nat
             /\ OfItem({row \in rows : Selected(row.item)}, i) = OfItem(rows, i)
  <2>1. OfItem(rows, i) \in SUBSET rows
    BY DEF OfItem
  <2>2. Total(QtyOf(OfItem(rows, i))) \in Nat
    BY <1>8, <2>1, QtySplit
  <2>3. Selected(i)
    BY <1>1
  <2> QED
    BY <2>2, <2>3 DEF OfItem
<1>9. /\ IsFiniteSet(start.txs) /\ IsFiniteSet(start.rets)
      /\ \A row \in start.txs : row.qty \in Nat /\ row.item \in ItemIds
      /\ \A row \in start.rets : row.qty \in Nat /\ row.item \in ItemIds
  BY <1>k, <1>f, FS_Subset
<1>10. s \in [I -> Nat] /\ a \in [I -> Nat] /\ b \in [I -> Nat] /\ d \in [I -> Int]
  <2>1. \A i \in I : (IF i \in DOMAIN page.stock THEN page.stock[i] ELSE 0) \in Nat
    BY <1>t DEF Page, Stocks
  <2>2. \A i \in I : start.due[i] \in Int
    BY <1>t, <1>7 DEF Start
  <2>3. \A i \in I : Total(QtyOf(OfItem(start.txs, i))) \in Nat
    BY <1>8, <1>9
  <2>4. \A i \in I : Total(QtyOf(OfItem(start.rets, i))) \in Nat
    BY <1>8, <1>9
  <2> QED
    BY <1>2, <1>3, <1>4, <1>5, <2>1, <2>2, <2>3, <2>4
<1>11. \A i \in I : s[i] + a[i] = d[i] + b[i]
  BY <1>t, <1>2, <1>3, <1>4, <1>5, <1>7 DEF StartBalanced
<1>12. /\ Total(s) \in Nat /\ Total(a) \in Nat /\ Total(b) \in Nat /\ Net(d) \in Int
       /\ Total(s) + Total(a) = Net(d) + Total(b)
  BY <1>7, <1>10, <1>11, NetOfItems
<1>13. TotalStock = Total(s)
  <2>1. PICK J : J = {j \in DOMAIN page.stock : Selected(j)}
    OBVIOUS
  <2>2. PICK g : g = [i \in J |-> page.stock[i]]
    OBVIOUS
  <2>3. page.stock \in [DOMAIN page.stock -> Nat] /\ DOMAIN page.stock \subseteq ItemIds
    BY <1>t DEF Page, Stocks
  <2>4. /\ J \subseteq I /\ g \in [J -> Nat] /\ s \in [I -> Nat]
        /\ \A x \in J : s[x] = g[x]
        /\ \A x \in I \ J : s[x] = 0
    BY <1>1, <1>2, <1>10, <2>1, <2>2, <2>3
  <2>5. Total(s) = Total(g)
    BY ONLY <2>4, TotalRestrict
  <2> QED
    BY <2>1, <2>2, <2>5 DEF TotalStock
<1>14. Total(QtyOf(A)) = Total(a)
  <2>1. IsFiniteSet(A) /\ \A row \in A : row.qty \in Nat /\ row.item \in I
    <3>1. A \in SUBSET start.txs
      BY <1>6
    <3>2. IsFiniteSet(A)
      BY <1>9, <3>1, FS_Subset
    <3> QED
      BY <1>1, <1>6, <1>9, <3>2
  <2>2. \A i \in I : a[i] = Total(QtyOf(OfItem(A, i)))
    BY <1>3, <1>6, <1>8, <1>9
  <2> QED
    BY <1>10, <2>1, <2>2, QtyByItem
<1>15. Total(QtyOf(B)) = Total(b)
  <2>1. IsFiniteSet(B) /\ \A row \in B : row.qty \in Nat /\ row.item \in I
    <3>1. B \in SUBSET start.rets
      BY <1>6
    <3>2. IsFiniteSet(B)
      BY <1>9, <3>1, FS_Subset
    <3> QED
      BY <1>1, <1>6, <1>9, <3>2
  <2>2. \A i \in I : b[i] = Total(QtyOf(OfItem(B, i)))
    BY <1>4, <1>6, <1>8, <1>9
  <2> QED
    BY <1>10, <2>1, <2>2, QtyByItem
<1>16. PICK newTxs, newRets :
         /\ newTxs = Total(QtyOf({row \in page.txs \ start.txs : Selected(row.item)}))
         /\ newRets = Total(QtyOf({row \in page.rets \ start.rets : Selected(row.item)}))
  OBVIOUS
<1>17. TotalIssued = Total(QtyOf(A)) + newTxs /\ newTxs \in Nat
  BY <1>k, <1>f, <1>6, <1>16, SelectedSplit DEF TotalIssued
<1>18. TotalReturnedShown = Total(QtyOf(B)) + newRets /\ newRets \in Nat
  <2>1. {ret \in page.rets : Selected(ItemOf(ret))} = {ret \in page.rets : Selected(ret.item)}
    <3>1. CASE page.item = NoId
      BY <3>1 DEF Selected
    <3>2. CASE page.item # NoId
      BY <1>t, <1>k, <3>2, ItemRecorded
    <3> QED
      BY <3>1, <3>2
  <2> QED
    BY <1>k, <1>f, <1>6, <1>16, <2>1, SelectedSplit DEF TotalReturnedShown
<1>19. TotalStock + TotalIssued - TotalReturnedShown = Net(d) + newTxs - newRets
  <2>1. PICK x, y, z, n : x = Total(s) /\ y = Total(a) /\ z = Total(b) /\ n = Net(d)
    OBVIOUS
  <2>2. /\ x \in Nat /\ y \in Nat /\ z \in Nat /\ n \in Int
        /\ newTxs \in Nat /\ newRets \in Nat /\ x + y = n + z
    BY ONLY <1>12, <1>17, <1>18, <2>1
  <2>3. x + (y + newTxs) - (z + newRets) = n + newTxs - newRets
    BY ONLY <2>2
  <2>4. /\ TotalStock = x /\ TotalIssued = y + newTxs
        /\ TotalReturnedShown = z + newRets
    BY ONLY <1>13, <1>14, <1>15, <1>17, <1>18, <2>1
  <2> QED
    BY ONLY <2>1, <2>3, <2>4
<1> QED
  BY <1>1, <1>5, <1>16, <1>19

\* The dashboard's stock, issued and returned units, for all items or one, add
\* up to the balance of the books when the page was requested, and to what was
\* recorded before it read each ledger, for any number of items, rows, requests
\* beside it and faults, unless a file loses rows while the page is read.
THEOREM FiguresTrue == ViewsSpec => []FiguresReconcile
BY Figures, PageInvariant, LedgerOfPages, PTL

-----------------------------------------------------------------------------
(* The dashboard, for any reading of the files.                            *)

\* What both kinds of event have in common.
Events(rows) ==
  /\ IsFiniteSet(DOMAIN rows)
  /\ \A k \in DOMAIN rows : rows[k].qty \in Nat /\ rows[k].date \in Days

\* The filters there are if the items are Its.
FiltersOver(Its) ==
  [from : Days \cup {Empty}, to : Days \cup {Empty}, user : Employees \cup {Empty},
   dept : Depts \cup {Empty}, item : Its \cup {Empty}]

\* The rows that pass a filter.
Passing(rows, itemOf, f) == {k \in DOMAIN rows : Passes(rows[k], itemOf[k], f)}

\* The units of finitely many rows are a natural number.
LEMMA UnitsType ==
  ASSUME NEW rows, NEW K, IsFiniteSet(K), \A k \in K : rows[k].qty \in Nat
  PROVE  UnitsAt(rows, K) \in Nat
<1>1. PICK q : q = [k \in K |-> rows[k].qty]
  OBVIOUS
<1>2. q \in [K -> Nat]
  BY <1>1
<1>3. Total(q) \in Nat
  BY ONLY <1>2, IsFiniteSet(K), TotalType
<1> QED
  BY <1>1, <1>3 DEF UnitsAt

\* The units of rows, each of which belongs to one t of T, are those of all t
\* together.
LEMMA UnitsByOwner ==
  ASSUME NEW rows, NEW K, IsFiniteSet(K), \A k \in K : rows[k].qty \in Nat,
         NEW T, NEW owner \in [K -> T], NEW g, g = [t \in T |-> g[t]],
         \A t \in T : g[t] = UnitsAt(rows, {k \in K : owner[k] = t})
  PROVE  UnitsAt(rows, K) = Total(g)
<1>1. PICK q : q = [k \in K |-> rows[k].qty]
  OBVIOUS
<1>2. q \in [K -> Nat]
  BY <1>1
<1>3. ASSUME NEW t \in T
      PROVE  UnitsAt(rows, {k \in K : owner[k] = t}) = Total(Share(q, owner, t))
  <2>1. PICK G : G = {k \in K : owner[k] = t}
    OBVIOUS
  <2>2. DOMAIN q = K /\ \A k \in G : q[k] = rows[k].qty
    BY <1>1, <2>1
  <2>3. [k \in G |-> q[k]] = [k \in G |-> rows[k].qty]
    BY <2>2
  <2> QED
    BY <2>1, <2>2, <2>3 DEF UnitsAt, Share
<1>4. \A t \in T : g[t] = Total(Share(q, owner, t))
  BY <1>3
<1>5. \A t \in T : Total(Share(q, owner, t)) \in Nat
  BY <1>2, ShareType
<1>6. g \in [T -> Nat]
  BY <1>4, <1>5
<1>7. Total(q) = Total(g)
  BY ONLY <1>2, <1>4, <1>6, IsFiniteSet(K), owner \in [K -> T], TotalByOwner
<1> QED
  BY <1>1, <1>7 DEF UnitsAt

\* The units of rows in two groups are those of both.
LEMMA UnitsInTwo ==
  ASSUME NEW rows, NEW K, IsFiniteSet(K), \A k \in K : rows[k].qty \in Nat,
         NEW A, NEW B, A \subseteq K, B = K \ A
  PROVE  UnitsAt(rows, K) = UnitsAt(rows, A) + UnitsAt(rows, B)
<1>1. PICK q : q = [k \in K |-> rows[k].qty]
  OBVIOUS
<1>2. PICK a : a = [k \in A |-> rows[k].qty]
  OBVIOUS
<1>3. PICK b : b = [k \in K \ A |-> rows[k].qty]
  OBVIOUS
<1>4. /\ q \in [K -> Nat] /\ a \in [A -> Nat] /\ b \in [K \ A -> Nat]
      /\ \A k \in A : a[k] = q[k]
      /\ \A k \in K \ A : b[k] = q[k]
  BY <1>1, <1>2, <1>3
<1>5. Total(q) = Total(a) + Total(b)
  BY ONLY <1>4, IsFiniteSet(K), A \subseteq K, TotalSplit
<1> QED
  BY <1>1, <1>2, <1>3, <1>5 DEF UnitsAt

\* The units of rows, some of which belong to one t of T, are those of all t
\* together and those of the rows that belong to none.
LEMMA UnitsListed ==
  ASSUME NEW rows, NEW K, IsFiniteSet(K), \A k \in K : rows[k].qty \in Nat,
         NEW T, NEW owner, NEW g, g = [t \in T |-> g[t]],
         \A t \in T : g[t] = UnitsAt(rows, {k \in K : owner[k] = t})
  PROVE  UnitsAt(rows, K) = Total(g) + UnitsAt(rows, {k \in K : owner[k] \notin T})
<1>1. PICK A : A = {k \in K : owner[k] \in T}
  OBVIOUS
<1>2. PICK B : B = {k \in K : owner[k] \notin T}
  OBVIOUS
<1>3. PICK o : o = [k \in A |-> owner[k]]
  OBVIOUS
<1>4. A \in SUBSET K /\ A \subseteq K /\ B = K \ A
  BY <1>1, <1>2
<1>5. IsFiniteSet(A)
  BY ONLY <1>4, IsFiniteSet(K), FS_Subset
<1>6. o \in [A -> T]
  BY <1>1, <1>3
<1>7. ASSUME NEW t \in T PROVE {k \in A : o[k] = t} = {k \in K : owner[k] = t}
  BY <1>1, <1>3
<1>8. \A t \in T : g[t] = UnitsAt(rows, {k \in A : o[k] = t})
  BY <1>7
<1>9. \A k \in A : rows[k].qty \in Nat
  BY <1>4
<1>10. UnitsAt(rows, A) = Total(g)
  BY ONLY <1>5, <1>6, <1>8, <1>9, g = [t \in T |-> g[t]], UnitsByOwner
<1>11. UnitsAt(rows, K) = UnitsAt(rows, A) + UnitsAt(rows, B)
  BY ONLY <1>4, IsFiniteSet(K), \A k \in K : rows[k].qty \in Nat, UnitsInTwo
<1> QED
  BY <1>2, <1>10, <1>11

\* The number of rows, as the units of rows of one unit each.
LEMMA CountOnes ==
  ASSUME NEW ones, NEW K, IsFiniteSet(K), \A k \in K : ones[k].qty = 1
  PROVE  UnitsAt(ones, K) = Cardinality(K)
<1>1. PICK q : q = [k \in K |-> ones[k].qty]
  OBVIOUS
<1>2. PICK F : F = [k \in K |-> <<k, 1>>]
  OBVIOUS
<1>3. ASSUME NEW u PROVE u \in Units(q) <=> \E k \in K : u = <<k, 1>>
  <2>1. ASSUME NEW k \in K PROVE u \in {k} \X (1 .. q[k]) <=> u = <<k, 1>>
    BY <1>1
  <2>2. u \in Units(q) <=> \E k \in K : u \in {k} \X (1 .. q[k])
    BY <1>1 DEF Units
  <2> QED
    BY <2>1, <2>2
<1>4. /\ F \in [K -> Units(q)]
      /\ \A j, k \in K : F[j] = F[k] => j = k
      /\ \A u \in Units(q) : \E k \in K : F[k] = u
  BY <1>2, <1>3
<1>5. Cardinality(Units(q)) = Cardinality(K)
  BY ONLY <1>4, IsFiniteSet(K), PairedOff
<1> QED
  BY <1>1, <1>5 DEF UnitsAt, Total


\* A filter on employees, departments, items or days splits the units of the
\* events of a kind: nothing is lost or doubled but the units of those in no
\* list, which are listed under no filter.
PartitionOf(rows, itemOf, Its, f) ==
  /\ f.user = Empty =>
       UnitsAt(rows, Passing(rows, itemOf, f))
         = Total([u \in Employees |-> UnitsAt(rows, Passing(rows, itemOf, [f EXCEPT !.user = u]))])
             + UnitsAt(rows, {k \in Passing(rows, itemOf, f) : rows[k].user \notin Employees})
  /\ f.dept = Empty =>
       UnitsAt(rows, Passing(rows, itemOf, f))
         = Total([d \in Depts |-> UnitsAt(rows, Passing(rows, itemOf, [f EXCEPT !.dept = d]))])
             + UnitsAt(rows, {k \in Passing(rows, itemOf, f) : Department(rows[k].user) \notin Depts})
  /\ f.item = Empty =>
       UnitsAt(rows, Passing(rows, itemOf, f))
         = Total([i \in Its |-> UnitsAt(rows, Passing(rows, itemOf, [f EXCEPT !.item = i]))])
             + UnitsAt(rows, {k \in Passing(rows, itemOf, f) : itemOf[k] \notin Its})
  /\ (f.from = Empty /\ f.to = Empty) => \A d \in Days \ {LastDay} :
       UnitsAt(rows, Passing(rows, itemOf, f))
         = UnitsAt(rows, Passing(rows, itemOf, [f EXCEPT !.to = d]))
             + UnitsAt(rows, Passing(rows, itemOf, [f EXCEPT !.from = d + 1]))

\* The rows that pass are finitely many, and their fields are what they are.
LEMMA PassingRows ==
  ASSUME NEW rows, NEW itemOf, NEW f, Events(rows)
  PROVE  /\ IsFiniteSet(Passing(rows, itemOf, f))
         /\ \A k \in Passing(rows, itemOf, f) :
              rows[k].qty \in Nat /\ rows[k].date \in Days
<1>1. Passing(rows, itemOf, f) \in SUBSET DOMAIN rows
  BY DEF Passing
<1>2. IsFiniteSet(Passing(rows, itemOf, f))
  BY <1>1, FS_Subset DEF Events
<1> QED
  BY <1>1, <1>2 DEF Events

\* The filters on whom, whose, what and when, each for events of one kind.
LEMMA FilterSplits ==
  ASSUME NEW rows, NEW itemOf, NEW Its, Empty \notin Its, Events(rows),
         NEW f \in FiltersOver(Its)
  PROVE  PartitionOf(rows, itemOf, Its, f)
<1>0. PICK K : K = Passing(rows, itemOf, f)
  OBVIOUS
<1>1. /\ IsFiniteSet(K)
      /\ \A k \in K : rows[k].qty \in Nat
  BY <1>0, PassingRows
<1>2. /\ LastDay \in Nat
      /\ Empty \notin Employees /\ Empty \notin Depts /\ Empty \notin Nat
  BY DashboardAssumption
<1>3. ASSUME f.user = Empty
      PROVE  UnitsAt(rows, K)
               = Total([u \in Employees |-> UnitsAt(rows, Passing(rows, itemOf, [f EXCEPT !.user = u]))])
                   + UnitsAt(rows, {k \in K : rows[k].user \notin Employees})
  <2>1. PICK owner : owner = [k \in K |-> rows[k].user]
    OBVIOUS
  <2>2. PICK g : g = [u \in Employees |-> UnitsAt(rows, Passing(rows, itemOf, [f EXCEPT !.user = u]))]
    OBVIOUS
  <2>3. PICK R : R = {k \in K : rows[k].user \notin Employees}
    OBVIOUS
  <2>4. R = {k \in K : owner[k] \notin Employees}
    BY <2>1, <2>3
  <2>5. ASSUME NEW u \in Employees
        PROVE  Passing(rows, itemOf, [f EXCEPT !.user = u]) = {k \in K : owner[k] = u}
    <3>1. PICK h : h = [f EXCEPT !.user = u]
      OBVIOUS
    <3>2. /\ h.from = f.from /\ h.to = f.to /\ h.dept = f.dept /\ h.item = f.item
          /\ h.user = u /\ u # Empty
      BY <1>2, <3>1 DEF FiltersOver
    <3>3. ASSUME NEW k \in DOMAIN rows
          PROVE  Passes(rows[k], itemOf[k], h)
                   <=> Passes(rows[k], itemOf[k], f) /\ rows[k].user = u
      BY <1>3, <3>2 DEF Passes, InRange
    <3> QED
      BY <1>0, <2>1, <3>1, <3>3 DEF Passing
  <2>6. \A u \in Employees : g[u] = UnitsAt(rows, {k \in K : owner[k] = u})
    BY <2>2, <2>5
  <2>7. g = [u \in Employees |-> g[u]]
    BY <2>2
  <2>8. UnitsAt(rows, K) = Total(g) + UnitsAt(rows, {k \in K : owner[k] \notin Employees})
    BY ONLY <1>1, <2>6, <2>7, UnitsListed
  <2> QED
    BY <2>2, <2>3, <2>4, <2>8
<1>4. ASSUME f.dept = Empty
      PROVE  UnitsAt(rows, K)
               = Total([d \in Depts |-> UnitsAt(rows, Passing(rows, itemOf, [f EXCEPT !.dept = d]))])
                   + UnitsAt(rows, {k \in K : Department(rows[k].user) \notin Depts})
  <2>1. PICK owner : owner = [k \in K |-> Department(rows[k].user)]
    OBVIOUS
  <2>2. PICK g : g = [d \in Depts |-> UnitsAt(rows, Passing(rows, itemOf, [f EXCEPT !.dept = d]))]
    OBVIOUS
  <2>3. PICK R : R = {k \in K : Department(rows[k].user) \notin Depts}
    OBVIOUS
  <2>4. R = {k \in K : owner[k] \notin Depts}
    BY <2>1, <2>3
  <2>5. ASSUME NEW d \in Depts
        PROVE  Passing(rows, itemOf, [f EXCEPT !.dept = d]) = {k \in K : owner[k] = d}
    <3>1. PICK h : h = [f EXCEPT !.dept = d]
      OBVIOUS
    <3>2. /\ h.from = f.from /\ h.to = f.to /\ h.user = f.user /\ h.item = f.item
          /\ h.dept = d /\ d # Empty
      BY <1>2, <3>1 DEF FiltersOver
    <3>3. ASSUME NEW k \in DOMAIN rows
          PROVE  Passes(rows[k], itemOf[k], h)
                   <=> Passes(rows[k], itemOf[k], f) /\ Department(rows[k].user) = d
      BY <1>4, <3>2 DEF Passes, InRange
    <3> QED
      BY <1>0, <2>1, <3>1, <3>3 DEF Passing
  <2>6. \A d \in Depts : g[d] = UnitsAt(rows, {k \in K : owner[k] = d})
    BY <2>2, <2>5
  <2>7. g = [d \in Depts |-> g[d]]
    BY <2>2
  <2>8. UnitsAt(rows, K) = Total(g) + UnitsAt(rows, {k \in K : owner[k] \notin Depts})
    BY ONLY <1>1, <2>6, <2>7, UnitsListed
  <2> QED
    BY <2>2, <2>3, <2>4, <2>8
<1>5. ASSUME f.item = Empty
      PROVE  UnitsAt(rows, K)
               = Total([i \in Its |-> UnitsAt(rows, Passing(rows, itemOf, [f EXCEPT !.item = i]))])
                   + UnitsAt(rows, {k \in K : itemOf[k] \notin Its})
  <2>1. PICK owner : owner = [k \in K |-> itemOf[k]]
    OBVIOUS
  <2>2. PICK g : g = [i \in Its |-> UnitsAt(rows, Passing(rows, itemOf, [f EXCEPT !.item = i]))]
    OBVIOUS
  <2>3. PICK R : R = {k \in K : itemOf[k] \notin Its}
    OBVIOUS
  <2>4. R = {k \in K : owner[k] \notin Its}
    BY <2>1, <2>3
  <2>5. ASSUME NEW i \in Its
        PROVE  Passing(rows, itemOf, [f EXCEPT !.item = i]) = {k \in K : owner[k] = i}
    <3>1. PICK h : h = [f EXCEPT !.item = i]
      OBVIOUS
    <3>2. /\ h.from = f.from /\ h.to = f.to /\ h.user = f.user /\ h.dept = f.dept
          /\ h.item = i /\ i # Empty
      BY <3>1 DEF FiltersOver
    <3>3. ASSUME NEW k \in DOMAIN rows
          PROVE  Passes(rows[k], itemOf[k], h)
                   <=> Passes(rows[k], itemOf[k], f) /\ itemOf[k] = i
      BY <1>5, <3>2 DEF Passes, InRange
    <3> QED
      BY <1>0, <2>1, <3>1, <3>3 DEF Passing
  <2>6. \A i \in Its : g[i] = UnitsAt(rows, {k \in K : owner[k] = i})
    BY <2>2, <2>5
  <2>7. g = [i \in Its |-> g[i]]
    BY <2>2
  <2>8. UnitsAt(rows, K) = Total(g) + UnitsAt(rows, {k \in K : owner[k] \notin Its})
    BY ONLY <1>1, <2>6, <2>7, UnitsListed
  <2> QED
    BY <2>2, <2>3, <2>4, <2>8
<1>6. ASSUME f.from = Empty, f.to = Empty, NEW d \in Days \ {LastDay}
      PROVE  UnitsAt(rows, K)
               = UnitsAt(rows, Passing(rows, itemOf, [f EXCEPT !.to = d]))
                   + UnitsAt(rows, Passing(rows, itemOf, [f EXCEPT !.from = d + 1]))
  <2>1. PICK A : A = Passing(rows, itemOf, [f EXCEPT !.to = d])
    OBVIOUS
  <2>2. PICK B : B = Passing(rows, itemOf, [f EXCEPT !.from = d + 1])
    OBVIOUS
  <2>3. d \in Nat /\ d + 1 \in Nat /\ d # Empty /\ d + 1 # Empty
    BY <1>2 DEF Days
  <2>4. PICK h : h = [f EXCEPT !.to = d]
    OBVIOUS
  <2>5. PICK e : e = [f EXCEPT !.from = d + 1]
    OBVIOUS
  <2>6. /\ h.from = Empty /\ h.to = d
        /\ h.user = f.user /\ h.dept = f.dept /\ h.item = f.item
        /\ e.from = d + 1 /\ e.to = Empty
        /\ e.user = f.user /\ e.dept = f.dept /\ e.item = f.item
    BY <1>6, <2>4, <2>5 DEF FiltersOver
  <2>7. ASSUME NEW k \in DOMAIN rows
        PROVE  /\ Passes(rows[k], itemOf[k], h)
                    <=> Passes(rows[k], itemOf[k], f) /\ d >= rows[k].date
               /\ Passes(rows[k], itemOf[k], e)
                    <=> Passes(rows[k], itemOf[k], f) /\ rows[k].date >= d + 1
    BY <1>6, <2>3, <2>6 DEF Passes, InRange
  <2>8. ASSUME NEW k \in DOMAIN rows
        PROVE  rows[k].date >= d + 1 <=> ~(d >= rows[k].date)
    BY <1>2, <2>3 DEF Events, Days
  <2>9. A \subseteq K /\ B = K \ A
    BY <1>0, <2>1, <2>2, <2>4, <2>5, <2>7, <2>8 DEF Passing
  <2>10. \A k \in K : rows[k].qty \in Nat
    BY <1>1
  <2>11. UnitsAt(rows, K) = UnitsAt(rows, A) + UnitsAt(rows, B)
    BY ONLY <1>1, <2>9, <2>10, UnitsInTwo
  <2> QED
    BY <2>1, <2>2, <2>11
<1> QED
  BY <1>0, <1>3, <1>4, <1>5, <1>6 DEF PartitionOf

\* The rows of a file.
LEMMA FileRows ==
  ASSUME NEW S, NEW s \in Seq(S)
  PROVE  /\ Len(s) \in Nat /\ DOMAIN s = 1 .. Len(s) /\ IsFiniteSet(DOMAIN s)
         /\ \A k \in DOMAIN s : s[k] \in S
<1>1. Len(s) \in Nat /\ DOMAIN s = 1 .. Len(s) /\ \A k \in DOMAIN s : s[k] \in S
  OBVIOUS
<1>2. IsFiniteSet(1 .. Len(s))
  BY ONLY <1>1, FS_Interval
<1> QED
  BY <1>1, <1>2

\* The issues of a reading, its returns, and the filters the page offers.
LEMMA ReadingEvents ==
  ASSUME NEW t, IsReading(t)
  PROVE  /\ Events(t.txs) /\ Events(t.rets)
         /\ Empty \notin DOMAIN t.items
         /\ Filters(t) = FiltersOver(DOMAIN t.items)
<1>1. /\ t.items \in Seq(Item) /\ t.txs \in Seq(Issue) /\ t.rets \in Seq(Ret)
  BY DEF IsReading
<1>2. Len(t.items) \in Nat /\ DOMAIN t.items = 1 .. Len(t.items)
  BY <1>1, FileRows
<1>3. IsFiniteSet(DOMAIN t.txs) /\ IsFiniteSet(DOMAIN t.rets)
  BY <1>1, FileRows
<1>4. ASSUME NEW k \in DOMAIN t.txs
      PROVE  t.txs[k].qty \in Nat /\ t.txs[k].date \in Days
  <2>1. t.txs[k] \in Issue
    BY <1>1, FileRows
  <2> QED
    BY <2>1 DEF Issue
<1>5. ASSUME NEW k \in DOMAIN t.rets
      PROVE  t.rets[k].qty \in Nat /\ t.rets[k].date \in Days
  <2>1. t.rets[k] \in Ret
    BY <1>1, FileRows
  <2> QED
    BY <2>1 DEF Ret
<1>6. Empty \notin DOMAIN t.items
  BY <1>2, DashboardAssumption
<1> QED
  BY <1>1, <1>3, <1>4, <1>5, <1>6 DEF Events, Filters, FiltersOver

\* What Issues and Returns select are the rows that pass.
LEMMA SelectedRows ==
  ASSUME NEW t, NEW f
  PROVE  /\ Issues(t, f) = Passing(t.txs, [k \in DOMAIN t.txs |-> t.txs[k].item], f)
         /\ Returns(t, f) = Passing(t.rets, [k \in DOMAIN t.rets |-> ItemOfReturn(t, t.rets[k])], f)
BY DEF Issues, Returns, Passing

\* FiltersPartition for one kind of event and one filter.
PartitionAt(kind, t, f) ==
  LET rows == RowsOf(kind, t)
      ks   == EventsOf(kind, t, f)
  IN  /\ f.user = Empty =>
           UnitsOf(kind, t, f) =
             Total([u \in Employees |-> UnitsOf(kind, t, [f EXCEPT !.user = u])])
               + UnitsAt(rows, {k \in ks : rows[k].user \notin Employees})
      /\ f.dept = Empty =>
           UnitsOf(kind, t, f) =
             Total([d \in Depts |-> UnitsOf(kind, t, [f EXCEPT !.dept = d])])
               + UnitsAt(rows, {k \in ks : Department(rows[k].user) \notin Depts})
      /\ f.item = Empty =>
           UnitsOf(kind, t, f) =
             Total([i \in DOMAIN t.items |-> UnitsOf(kind, t, [f EXCEPT !.item = i])])
               + UnitsAt(rows, {k \in ks : ItemAt(kind, t, k) \notin DOMAIN t.items})
      /\ (f.from = Empty /\ f.to = Empty) => \A d \in Days \ {LastDay} :
           UnitsOf(kind, t, f) = UnitsOf(kind, t, [f EXCEPT !.to = d])
                                   + UnitsOf(kind, t, [f EXCEPT !.from = d + 1])

\* The totals of the dashboard: the figures under a filter on employees,
\* departments or the items on offer add up to those without it, less exactly
\* the rows of users, departments and items that are in no list; those before
\* and after any day add up in full.  For every reading, whatever its rows
\* refer to, and every setting of the other filters.
THEOREM FiltersSplit ==
  ASSUME NEW t, IsReading(t)
  PROVE  FiltersPartition(t)
<1>a. PICK itemOfTx : itemOfTx = [k \in DOMAIN t.txs |-> t.txs[k].item]
  OBVIOUS
<1>b. PICK itemOfRet : itemOfRet = [k \in DOMAIN t.rets |-> ItemOfReturn(t, t.rets[k])]
  OBVIOUS
<1>1. ASSUME NEW f \in Filters(t)
      PROVE  /\ PartitionOf(t.txs, itemOfTx, DOMAIN t.items, f)
             /\ PartitionOf(t.rets, itemOfRet, DOMAIN t.items, f)
  BY ReadingEvents, FilterSplits
<1>2. /\ RowsOf("issue", t) = t.txs /\ RowsOf("return", t) = t.rets
      /\ \A f : EventsOf("issue", t, f) = Passing(t.txs, itemOfTx, f)
      /\ \A f : EventsOf("return", t, f) = Passing(t.rets, itemOfRet, f)
  BY <1>a, <1>b, SelectedRows DEF RowsOf, EventsOf
<1>3. /\ \A k \in DOMAIN t.txs : ItemAt("issue", t, k) = itemOfTx[k]
      /\ \A k \in DOMAIN t.rets : ItemAt("return", t, k) = itemOfRet[k]
  BY <1>a, <1>b DEF ItemAt
<1>4. ASSUME NEW f \in Filters(t), NEW rows, NEW itemOf, NEW kind,
             PartitionOf(rows, itemOf, DOMAIN t.items, f),
             RowsOf(kind, t) = rows,
             \A g : EventsOf(kind, t, g) = Passing(rows, itemOf, g),
             \A k \in DOMAIN rows : ItemAt(kind, t, k) = itemOf[k]
      PROVE  PartitionAt(kind, t, f)
  <2>1. \A g : UnitsOf(kind, t, g) = UnitsAt(rows, Passing(rows, itemOf, g))
    BY <1>4 DEF UnitsOf
  <2>2. {k \in EventsOf(kind, t, f) : ItemAt(kind, t, k) \notin DOMAIN t.items}
          = {k \in Passing(rows, itemOf, f) : itemOf[k] \notin DOMAIN t.items}
    BY <1>4 DEF Passing
  <2>3. ASSUME f.user = Empty
        PROVE  UnitsOf(kind, t, f) =
                 Total([u \in Employees |-> UnitsOf(kind, t, [f EXCEPT !.user = u])])
                   + UnitsAt(rows, {k \in EventsOf(kind, t, f) : rows[k].user \notin Employees})
    BY <1>4, <2>1, <2>3 DEF PartitionOf
  <2>4. ASSUME f.dept = Empty
        PROVE  UnitsOf(kind, t, f) =
                 Total([d \in Depts |-> UnitsOf(kind, t, [f EXCEPT !.dept = d])])
                   + UnitsAt(rows, {k \in EventsOf(kind, t, f) : Department(rows[k].user) \notin Depts})
    BY <1>4, <2>1, <2>4 DEF PartitionOf
  <2>5. ASSUME f.item = Empty
        PROVE  UnitsOf(kind, t, f) =
                 Total([i \in DOMAIN t.items |-> UnitsOf(kind, t, [f EXCEPT !.item = i])])
                   + UnitsAt(rows, {k \in EventsOf(kind, t, f) : ItemAt(kind, t, k) \notin DOMAIN t.items})
    BY <1>4, <2>1, <2>2, <2>5 DEF PartitionOf
  <2>6. ASSUME f.from = Empty, f.to = Empty, NEW d \in Days \ {LastDay}
        PROVE  UnitsOf(kind, t, f) = UnitsOf(kind, t, [f EXCEPT !.to = d])
                                       + UnitsOf(kind, t, [f EXCEPT !.from = d + 1])
    BY <1>4, <2>1, <2>6 DEF PartitionOf
  <2> QED
    BY <1>4, <2>3, <2>4, <2>5, <2>6, Zenon DEF PartitionAt
<1>5. ASSUME NEW f \in Filters(t)
      PROVE  PartitionAt("issue", t, f) /\ PartitionAt("return", t, f)
  BY <1>1, <1>2, <1>3, <1>4
<1>6. \A f \in Filters(t), kind \in {"issue", "return"} : PartitionAt(kind, t, f)
  BY <1>5
<1> QED
  BY <1>6, Zenon DEF FiltersPartition, PartitionAt


\* A set of numbers of rows has a least one.
LEMMA LeastRow ==
  ASSUME NEW S \in SUBSET Nat, S # {}
  PROVE  \E k \in S : \A j \in S : k <= j
<1> DEFINE Less == OpToRel(<, Nat)
<1>1. PICK k \in S : \A j \in S : ~(<<j, k>> \in Less)
  <2>1. IsWellFoundedOn(Less, Nat)
    BY NatLessThanWellFounded
  <2> HIDE DEF Less
  <2> QED
    BY <2>1, WFMin
<1>2. \A j \in S : ~(j < k)
  BY <1>1 DEF OpToRel
<1> QED
  BY <1>2

\* Of the rows of one key that run low the first is listed, and no other.
THEOREM LowStockListed ==
  ASSUME NEW t, IsReading(t)
  PROVE  LowStockNamesAll(t)
<1> SUFFICES ASSUME NEW f \in Filters(t), NEW i \in Scoped(t, f), t.items[i].qty < Threshold
             PROVE  Cardinality({j \in LowStockItems(t, f) : Key(t, j) = Key(t, i)}) = 1
  BY DEF LowStockNamesAll
<1>1. PICK S : S = {j \in Scoped(t, f) : Key(t, j) = Key(t, i) /\ t.items[j].qty < Threshold}
  OBVIOUS
<1>2. S # {} /\ S \in SUBSET Nat
  <2>1. t.items \in Seq(Item)
    BY DEF IsReading
  <2>2. DOMAIN t.items \subseteq Nat
    BY <2>1, FileRows
  <2> QED
    BY <1>1, <2>2 DEF Scoped
<1>3. PICK m \in S : \A j \in S : m <= j
  BY ONLY <1>2, LeastRow
<1>4. PICK same : same = {j \in LowStockItems(t, f) : Key(t, j) = Key(t, i)}
  OBVIOUS
<1>5. ASSUME NEW j \in same PROVE j = m
  <2>1. j \in S /\ \A k \in S : k >= j
    BY <1>1, <1>4 DEF LowStockItems
  <2>2. m >= j /\ m <= j /\ m \in Nat /\ j \in Nat
    BY <1>2, <1>3, <2>1
  <2> QED
    BY <2>2
<1>6. m \in same
  <2>1. m \in Scoped(t, f) /\ Key(t, m) = Key(t, i) /\ t.items[m].qty < Threshold
    BY <1>1
  <2>2. ASSUME NEW j \in Scoped(t, f), Key(t, j) = Key(t, m), t.items[j].qty < Threshold
        PROVE  j >= m
    <3>1. j \in S /\ m <= j
      BY <1>1, <1>3, <2>1, <2>2
    <3> QED
      BY <1>2, <3>1
  <2> QED
    BY <1>4, <2>1, <2>2 DEF LowStockItems
<1>7. same = {m}
  BY <1>5, <1>6
<1> QED
  BY <1>4, <1>7, FS_Singleton

\* The rows of a kind under a filter: finitely many, with a day of Days.
LEMMA SelectedFinite ==
  ASSUME NEW t, IsReading(t), NEW f
  PROVE  /\ IsFiniteSet(Issues(t, f)) /\ IsFiniteSet(Returns(t, f))
         /\ \A k \in Issues(t, f) :
              t.txs[k].qty \in Nat /\ t.txs[k].date \in Days
         /\ \A k \in Returns(t, f) : t.rets[k].qty \in Nat /\ t.rets[k].date \in Days
<1>1. PICK itemOfTx : itemOfTx = [k \in DOMAIN t.txs |-> t.txs[k].item]
  OBVIOUS
<1>2. PICK itemOfRet : itemOfRet = [k \in DOMAIN t.rets |-> ItemOfReturn(t, t.rets[k])]
  OBVIOUS
<1>3. /\ Events(t.txs) /\ Issues(t, f) = Passing(t.txs, itemOfTx, f)
      /\ Events(t.rets) /\ Returns(t, f) = Passing(t.rets, itemOfRet, f)
  BY <1>1, <1>2, ReadingEvents, SelectedRows
<1> QED
  BY <1>3, PassingRows

\* The days that have an event are those the line charts show.
LEMMA Labelled ==
  ASSUME NEW t, IsReading(t), NEW f
  PROVE  /\ IsFiniteSet(LineLabels(t, f))
         /\ \A k \in Issues(t, f) : t.txs[k].date \in LineLabels(t, f)
         /\ \A k \in Returns(t, f) : t.rets[k].date \in LineLabels(t, f)
<1>1. LineLabels(t, f) \in SUBSET Days /\ IsFiniteSet(Days)
  BY DashboardAssumption, FS_Interval DEF Days, LineLabels
<1>2. IsFiniteSet(LineLabels(t, f))
  BY ONLY <1>1, FS_Subset
<1>3. ASSUME NEW k \in Issues(t, f) PROVE t.txs[k].date \in LineLabels(t, f)
  <2>1. k \in IssuedOn(t, f, t.txs[k].date) /\ t.txs[k].date \in Days
    BY SelectedFinite DEF IssuedOn
  <2> QED
    BY <2>1 DEF LineLabels
<1>4. ASSUME NEW k \in Returns(t, f) PROVE t.rets[k].date \in LineLabels(t, f)
  <2>1. k \in ReturnedOn(t, f, t.rets[k].date) /\ t.rets[k].date \in Days
    BY SelectedFinite DEF ReturnedOn
  <2> QED
    BY <2>1 DEF LineLabels
<1> QED
  BY <1>2, <1>3, <1>4

\* Units and numbers of rows by day, over days that have them all.
LEMMA ByDay ==
  ASSUME NEW rows, NEW K, IsFiniteSet(K), NEW L, \A k \in K : rows[k].date \in L,
         \A k \in K : rows[k].qty \in Nat
  PROVE  /\ UnitsAt(rows, K) = Total([d \in L |-> UnitsAt(rows, {k \in K : rows[k].date = d})])
         /\ Cardinality(K) = Total([d \in L |-> Cardinality({k \in K : rows[k].date = d})])
<1>1. PICK owner : owner = [k \in K |-> rows[k].date]
  OBVIOUS
<1>2. owner \in [K -> L] /\ \A d : {k \in K : owner[k] = d} = {k \in K : rows[k].date = d}
  BY <1>1
<1>3. PICK g : g = [d \in L |-> UnitsAt(rows, {k \in K : rows[k].date = d})]
  OBVIOUS
<1>4. g = [d \in L |-> g[d]] /\ \A d \in L : g[d] = UnitsAt(rows, {k \in K : owner[k] = d})
  BY <1>2, <1>3
<1>5. UnitsAt(rows, K) = Total(g)
  <2>1. owner \in [K -> L] /\ \A k \in K : rows[k].qty \in Nat
    BY <1>2
  <2> QED
    BY ONLY <1>4, <2>1, IsFiniteSet(K), UnitsByOwner
<1>6. PICK ones : ones = [k \in K |-> [qty |-> 1]]
  OBVIOUS
<1>7. PICK n : n = [d \in L |-> Cardinality({k \in K : rows[k].date = d})]
  OBVIOUS
<1>8. ASSUME NEW d \in L PROVE n[d] = UnitsAt(ones, {k \in K : owner[k] = d})
  <2>1. PICK G : G = {k \in K : owner[k] = d}
    OBVIOUS
  <2>2. G \in SUBSET K /\ \A k \in G : ones[k].qty = 1
    BY <1>6, <2>1
  <2>3. IsFiniteSet(G)
    BY ONLY <2>2, IsFiniteSet(K), FS_Subset
  <2>4. UnitsAt(ones, G) = Cardinality(G)
    BY ONLY <2>2, <2>3, CountOnes
  <2> QED
    BY <1>2, <1>7, <2>1, <2>4
<1>9. /\ n = [d \in L |-> n[d]] /\ owner \in [K -> L]
      /\ \A d \in L : n[d] = UnitsAt(ones, {k \in K : owner[k] = d})
      /\ \A k \in K : ones[k].qty \in Nat
      /\ \A k \in K : ones[k].qty = 1
  BY <1>2, <1>6, <1>7, <1>8
<1>10. UnitsAt(ones, K) = Total(n)
  BY ONLY <1>9, IsFiniteSet(K), UnitsByOwner
<1>11. UnitsAt(ones, K) = Cardinality(K)
  BY ONLY <1>9, IsFiniteSet(K), CountOnes
<1> QED
  BY <1>3, <1>5, <1>7, <1>10, <1>11

\* The charts and the totals above them: the line charts count every event
\* that the totals add up, the daily and the departments' bars hold all their
\* units, whatever names departments and items share.
THEOREM ChartsComplete ==
  ASSUME NEW t, IsReading(t)
  PROVE  ChartsMatchTotals(t)
<1> SUFFICES ASSUME NEW f \in Filters(t)
             PROVE  /\ Total(IssuedCounts(t, f)) = Cardinality(Issues(t, f))
                    /\ Total(ReturnedCounts(t, f)) = Cardinality(Returns(t, f))
                    /\ Total(ItemQuantities(t, f)) = UnitsIssued(t, f) + UnitsReturned(t, f)
                    /\ Total(DeptUsage(t, f)) = UnitsIssued(t, f)
  BY DEF ChartsMatchTotals
<1>1. PICK L : L = LineLabels(t, f)
  OBVIOUS
<1>2. PICK I : I = Issues(t, f)
  OBVIOUS
<1>3. PICK R : R = Returns(t, f)
  OBVIOUS
<1>4. /\ IsFiniteSet(I) /\ IsFiniteSet(R) /\ IsFiniteSet(L)
      /\ \A k \in I : t.txs[k].qty \in Nat
      /\ \A k \in R : t.rets[k].qty \in Nat
      /\ \A k \in I : t.txs[k].date \in L
      /\ \A k \in R : t.rets[k].date \in L
  BY <1>1, <1>2, <1>3, SelectedFinite, Labelled
<1>5. /\ UnitsAt(t.txs, I) = Total([d \in L |-> UnitsAt(t.txs, IssuedOn(t, f, d))])
      /\ Cardinality(I) = Total([d \in L |-> Cardinality(IssuedOn(t, f, d))])
  <2>1. ASSUME NEW d PROVE IssuedOn(t, f, d) = {k \in I : t.txs[k].date = d}
    BY <1>2 DEF IssuedOn
  <2>2. /\ UnitsAt(t.txs, I) = Total([d \in L |-> UnitsAt(t.txs, {k \in I : t.txs[k].date = d})])
        /\ Cardinality(I) = Total([d \in L |-> Cardinality({k \in I : t.txs[k].date = d})])
    BY <1>4, ByDay
  <2> QED
    BY <2>1, <2>2
<1>6. /\ UnitsAt(t.rets, R) = Total([d \in L |-> UnitsAt(t.rets, ReturnedOn(t, f, d))])
      /\ Cardinality(R) = Total([d \in L |-> Cardinality(ReturnedOn(t, f, d))])
  <2>1. ASSUME NEW d PROVE ReturnedOn(t, f, d) = {k \in R : t.rets[k].date = d}
    BY <1>3 DEF ReturnedOn
  <2>2. /\ UnitsAt(t.rets, R) = Total([d \in L |-> UnitsAt(t.rets, {k \in R : t.rets[k].date = d})])
        /\ Cardinality(R) = Total([d \in L |-> Cardinality({k \in R : t.rets[k].date = d})])
    BY <1>4, ByDay
  <2> QED
    BY <2>1, <2>2
<1>7. /\ Total(IssuedCounts(t, f)) = Cardinality(I)
      /\ Total(ReturnedCounts(t, f)) = Cardinality(R)
  BY <1>1, <1>5, <1>6 DEF IssuedCounts, ReturnedCounts
<1>8. Total(ItemQuantities(t, f)) = UnitsAt(t.txs, I) + UnitsAt(t.rets, R)
  <2>1. PICK a : a = [d \in L |-> UnitsAt(t.txs, IssuedOn(t, f, d))]
    OBVIOUS
  <2>2. PICK b : b = [d \in L |-> UnitsAt(t.rets, ReturnedOn(t, f, d))]
    OBVIOUS
  <2>3. PICK c : c = [d \in L |-> UnitsAt(t.txs, IssuedOn(t, f, d))
                                     + UnitsAt(t.rets, ReturnedOn(t, f, d))]
    OBVIOUS
  <2>4. ASSUME NEW d \in L
        PROVE  UnitsAt(t.txs, IssuedOn(t, f, d)) \in Nat /\ UnitsAt(t.rets, ReturnedOn(t, f, d)) \in Nat
    <3>1. IssuedOn(t, f, d) \in SUBSET I /\ ReturnedOn(t, f, d) \in SUBSET R
      BY <1>2, <1>3 DEF IssuedOn, ReturnedOn
    <3>2. IsFiniteSet(IssuedOn(t, f, d)) /\ IsFiniteSet(ReturnedOn(t, f, d))
      BY ONLY <1>4, <3>1, FS_Subset
    <3> QED
      BY <1>4, <3>1, <3>2, UnitsType
  <2>5. /\ a \in [L -> Nat] /\ b \in [L -> Nat] /\ c \in [L -> Nat]
        /\ \A d \in L : c[d] = a[d] + b[d]
    BY <2>1, <2>2, <2>3, <2>4
  <2>6. Total(c) = Total(a) + Total(b)
    BY ONLY <1>4, <2>5, TotalPlus
  <2>7. ItemQuantities(t, f) = c
    BY <1>1, <2>3 DEF ItemQuantities
  <2> QED
    BY <1>5, <1>6, <2>1, <2>2, <2>6, <2>7
<1>9. Total(DeptUsage(t, f)) = UnitsAt(t.txs, I)
  <2>1. PICK T : T = DeptLabels(t, f) \X ItemTypes(t, f)
    OBVIOUS
  <2>2. PICK owner : owner = [k \in I |-> <<LabelOf(t.txs[k].user), t.txs[k].name>>]
    OBVIOUS
  <2>3. owner \in [I -> T]
    BY <1>2, <2>1, <2>2 DEF DeptLabels, ItemTypes
  <2>4. PICK g : g = [bar \in T |-> UnitsAt(t.txs, {k \in I : owner[k] = bar})]
    OBVIOUS
  <2>5. g = [bar \in T |-> g[bar]] /\ \A bar \in T : g[bar] = UnitsAt(t.txs, {k \in I : owner[k] = bar})
    BY <2>4
  <2>6. UnitsAt(t.txs, I) = Total(g)
    <3>1. PICK rows : rows = t.txs
      OBVIOUS
    <3>2. /\ IsFiniteSet(I) /\ \A k \in I : rows[k].qty \in Nat
          /\ \A bar \in T : g[bar] = UnitsAt(rows, {k \in I : owner[k] = bar})
      BY <1>4, <2>5, <3>1
    <3>3. UnitsAt(rows, I) = Total(g)
      BY ONLY <2>3, <2>5, <3>2, UnitsByOwner
    <3> QED
      BY <3>1, <3>3
  <2>7. ASSUME NEW bar
        PROVE  {k \in I : owner[k] = bar}
                 = {k \in I : <<LabelOf(t.txs[k].user), t.txs[k].name>> = bar}
    BY <2>2
  <2>8. DeptUsage(t, f) = g
    BY <1>2, <2>1, <2>4, <2>7 DEF DeptUsage
  <2> QED
    BY <2>6, <2>8
<1> QED
  BY <1>2, <1>3, <1>7, <1>8, <1>9 DEF UnitsIssued, UnitsReturned
=============================================================================
