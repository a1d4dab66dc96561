------------------------------ MODULE Inventory ------------------------------
(***************************************************************************)
(* The stock ledger of the warehouse: TransactionsService.IssueItem and    *)
(* ReturnItem (internal/services/transactions_service.go) over the items,  *)
(* transactions and returns repositories, plus ItemsService.AddItem.       *)
(*                                                                         *)
(* Every HTTP request runs in a goroutine of its own.  A repository call   *)
(* holds the store's one mutex from its first read to its last write, so   *)
(* it is one step here; the mutex is free between two calls of the same    *)
(* request, so the calls of different requests interleave.  The reads a    *)
(* service makes before its last check are folded into that check: a user  *)
(* or transaction is never changed once written, so they commute with      *)
(* every other step, or with the loss of the row in a write that is cut.   *)
(* A request that an early return rejects before it writes anything        *)
(* changes nothing and is not a step.                                      *)
(*                                                                         *)
(* Quantities are exact integers here; Width has their sums in Go's int.   *)
(***************************************************************************)
EXTENDS Integers, FiniteSets, Totals

CONSTANTS
  Requests,    \* request goroutines that may be in flight together
  ItemIds,     \* item ids NewID may draw
  TxIds,       \* transaction ids NewID may draw
  RetIds,      \* return ids NewID may draw
  UserIds,     \* user ids a caller may pass
  Users,       \* ids found in users.csv
  Warehouse,   \* ids of the users whose role is "warehouse"
  Quantities,  \* quantities a caller may pass, positive or not
  SeedStock,   \* items.csv when the server starts: id to quantity
  SeedTxs,     \* transactions.csv when the server starts
  NoId,        \* stands for an empty id
  MaxIssues,   \* bound: issues recorded or in flight
  MaxReturns,  \* bound: returns recorded or in flight
  MaxFaults    \* bound: failed repository calls, cut writes and crashes

TxRow  == [id : TxIds, item : ItemIds, qty : Nat \ {0}, by : UserIds]
RetRow == [id : RetIds, tx : TxIds, item : ItemIds, qty : Nat \ {0}, by : UserIds]

\* The rows the server starts with may name items that are no longer in
\* items.csv: the data directory of the repository does.
ASSUME InventoryAssumption ==
  /\ IsFiniteSet(Requests)
  /\ Warehouse \subseteq Users /\ Users \subseteq UserIds
  /\ Quantities \subseteq Int
  /\ DOMAIN SeedStock \subseteq ItemIds
  /\ \A i \in DOMAIN SeedStock : SeedStock[i] \in Nat
  /\ SeedTxs \subseteq TxRow /\ IsFiniteSet(SeedTxs)
  /\ \A t, u \in SeedTxs : t.id = u.id => t = u
  /\ NoId \notin ItemIds \cup TxIds
  /\ MaxIssues \in Nat /\ MaxReturns \in Nat /\ MaxFaults \in Nat

VARIABLES
  items,      \* items.csv: the ids that have a row
  stock,      \* items.csv: the quantity column
  txs,        \* transactions.csv
  rets,       \* returns.csv
  torn,       \* files that end in half a row: every call on them fails
  req,        \* what each request holds between two repository calls
  \* Bookkeeping that is not in the program:
  supplied,   \* units of each item that were there at the start or added
  drift,      \* units that left the shelf, less those put back, unrecorded
  overlapped, \* transactions whose returns were validated concurrently
  cut,        \* how often rows of each file were lost in a rewrite
  faults      \* failed repository calls, cut writes and crashes so far

disk == <<torn, cut>>
vars == <<items, stock, txs, rets, disk, req, supplied, drift, overlapped, faults>>

Files == {"items", "transactions", "returns"}

\* The next repository call of a request; "idle" before the first and after
\* the last one.
Calls == {"idle", "decrease", "addTransaction", "increase", "addReturn"}

Request == [pc : Calls, item : ItemIds \cup {NoId}, qty : Nat,
            tx : TxIds \cup {NoId}, by : UserIds \cup {NoId}]

\* The file of the call a request makes next.
FileOf(r) ==
  CASE req[r].pc = "addTransaction" -> "transactions"
    [] req[r].pc = "addReturn" -> "returns"
    [] OTHER -> "items"

Idle == [pc |-> "idle", item |-> NoId, qty |-> 0, tx |-> NoId, by |-> NoId]

TypeOK ==
  /\ items \subseteq ItemIds
  /\ stock \in [ItemIds -> Int]
  /\ txs \subseteq TxRow /\ IsFiniteSet(txs)
  /\ rets \subseteq RetRow /\ IsFiniteSet(rets)
  /\ torn \subseteq Files /\ cut \in [Files -> Nat]
  /\ req \in [Requests -> Request]
  /\ supplied \in [ItemIds -> Nat]
  /\ drift \in [ItemIds -> Int]
  /\ overlapped \subseteq TxIds
  /\ faults \in Nat

-----------------------------------------------------------------------------
(* What the services read.                                                 *)

\* ReturnsRepository.ListByTransactionID and the loop that sums the rows.
OfTransaction(rows, t) == {row \in rows : row.tx = t}
TotalReturned(t) == Total(QtyOf(OfTransaction(rets, t)))

InFlight(calls) == {r \in Requests : req[r].pc \in calls}
IssuesInFlight  == InFlight({"decrease", "addTransaction"})
ReturnsInFlight == InFlight({"increase", "addReturn"})

\* Returns of transaction t that passed validation and have no row yet.
ReturningNow(t) == {r \in ReturnsInFlight : req[r].tx = t}

\* What each request holds of item i while its next call is "call".
Held(call, i) ==
  [r \in Requests |-> IF req[r].pc = call /\ req[r].item = i THEN req[r].qty ELSE 0]

\* Units of item i taken from, or put back on, the shelf by requests that
\* have not recorded it yet.
PendingIssues(i) == Total(Held("addTransaction", i))
PendingReturns(i) == Total(Held("addReturn", i))

\* Units of item i in the two ledgers.
OfItem(rows, i) == {row \in rows : row.item = i}
Issued(i) == Total(QtyOf(OfItem(txs, i)))
Returned(i) == Total(QtyOf(OfItem(rets, i)))

-----------------------------------------------------------------------------
\* The store finds its files (ensureFiles writes the ones that are missing).
Init ==
  /\ items = DOMAIN SeedStock
  /\ stock = [i \in ItemIds |-> IF i \in items THEN SeedStock[i] ELSE 0]
  /\ txs = SeedTxs /\ rets = {}
  /\ torn = {} /\ cut = [f \in Files |-> 0]
  /\ req = [r \in Requests |-> Idle]
  /\ supplied = [i \in ItemIds |-> stock[i] + Issued(i)]
  /\ drift = [i \in ItemIds |-> 0]
  /\ overlapped = {}
  /\ faults = 0

\* ItemsService.AddItem: a new row under an id the file does not have yet.
AddItem(i, q) ==
  /\ q > 0
  /\ "items" \notin torn
  /\ i \notin items
  /\ items' = items \cup {i}
  /\ stock' = [stock EXCEPT ![i] = q]
  /\ supplied' = [supplied EXCEPT ![i] = @ + q]
  /\ UNCHANGED <<txs, rets, req, drift, overlapped, faults, disk>>

\* Mutant: the service forgets to refuse a quantity of 0.
IssueItemOfNone(r, i, q, to, by) ==
  /\ req[r].pc = "idle"
  /\ Cardinality(txs) + Cardinality(IssuesInFlight) < MaxIssues
  /\ by \in Warehouse /\ to \in Users /\ i \in items
  /\ q <= stock[i]
  /\ req' = [req EXCEPT ![r] =
       [pc |-> "decrease", item |-> i, qty |-> q, tx |-> NoId, by |-> by]]
  /\ UNCHANGED <<items, stock, txs, rets, supplied, drift, overlapped, faults, disk>>

\* IssueItem up to its stock check: arguments, issuer, receiver, item row.
IssueItem(r, i, q, to, by) ==
  /\ req[r].pc = "idle"
  /\ Cardinality(txs) + Cardinality(IssuesInFlight) < MaxIssues
  /\ q > 0
  /\ by \in Warehouse
  /\ to \in Users
  /\ "items" \notin torn
  /\ i \in items
  /\ q <= stock[i]
  /\ req' = [req EXCEPT ![r] =
       [pc |-> "decrease", item |-> i, qty |-> q, tx |-> NoId, by |-> by]]
  /\ UNCHANGED <<items, stock, txs, rets, supplied, drift, overlapped, faults, disk>>

\* Mutant: the repository trusts the stock check the service made earlier.
DecreaseQuantityUnchecked(r) ==
  /\ req[r].pc = "decrease" /\ "items" \notin torn
  /\ req[r].item \in items
  /\ stock' = [stock EXCEPT ![req[r].item] = @ - req[r].qty]
  /\ req' = [req EXCEPT ![r].pc = "addTransaction"]
  /\ UNCHANGED <<items, txs, rets, supplied, drift, overlapped, faults, disk>>

\* The stock may have gone down since the check, so the call checks again.
DecreaseQuantityIfEnough(r) ==
  /\ req[r].pc = "decrease" /\ "items" \notin torn
  /\ req[r].item \in items
  /\ stock[req[r].item] - req[r].qty >= 0
  /\ stock' = [stock EXCEPT ![req[r].item] = @ - req[r].qty]
  /\ req' = [req EXCEPT ![r].pc = "addTransaction"]
  /\ UNCHANGED <<items, txs, rets, supplied, drift, overlapped, faults, disk>>

\* Mutant: what is left is issued instead of refusing, recorded in full.
IssueWhatIsLeft(r) ==
  /\ req[r].pc = "decrease" /\ "items" \notin torn
  /\ req[r].item \in items
  /\ stock[req[r].item] - req[r].qty < 0
  /\ stock' = [stock EXCEPT ![req[r].item] = 0]
  /\ req' = [req EXCEPT ![r].pc = "addTransaction"]
  /\ UNCHANGED <<items, txs, rets, supplied, drift, overlapped, faults, disk>>

\* Mutant: the request waits for the item to be restocked.
WaitForStock(r) ==
  /\ req[r].pc = "decrease" /\ "items" \notin torn
  /\ req[r].item \in items
  /\ stock[req[r].item] - req[r].qty < 0
  /\ UNCHANGED vars

\* ... and answers "insufficient stock" when it no longer suffices.
InsufficientStock(r) ==
  /\ req[r].pc = "decrease" /\ "items" \notin torn
  /\ req[r].item \in items
  /\ stock[req[r].item] - req[r].qty < 0
  /\ req' = [req EXCEPT ![r] = Idle]
  /\ UNCHANGED <<items, stock, txs, rets, supplied, drift, overlapped, faults, disk>>

\* Mutant: the uniqueness guard on transaction ids is missing.
AddTransactionAnyId(r) ==
  /\ req[r].pc = "addTransaction" /\ "transactions" \notin torn
  /\ \E id \in TxIds :
       txs' = txs \cup {[id |-> id, item |-> req[r].item,
                         qty |-> req[r].qty, by |-> req[r].by]}
  /\ req' = [req EXCEPT ![r] = Idle]
  /\ UNCHANGED <<items, stock, rets, supplied, drift, overlapped, faults, disk>>

\* TransactionsRepository.Add, the second write of an issue.
AddTransaction(r) ==
  /\ req[r].pc = "addTransaction" /\ "transactions" \notin torn
  /\ \E id \in TxIds :
       /\ \A tx \in txs : tx.id # id
       /\ txs' = txs \cup {[id |-> id, item |-> req[r].item,
                            qty |-> req[r].qty, by |-> req[r].by]}
  /\ req' = [req EXCEPT ![r] = Idle]
  /\ UNCHANGED <<items, stock, rets, supplied, drift, overlapped, faults, disk>>

\* What a return that passed its check against "allowed" units leads to.
AcceptReturn(r, tx, q, by, allowed) ==
  /\ req[r].pc = "idle"
  /\ Cardinality(rets) + Cardinality(ReturnsInFlight) < MaxReturns
  /\ q > 0
  /\ by \in Warehouse
  /\ torn \cap {"transactions", "returns"} = {}
  /\ q <= allowed
  /\ req' = [req EXCEPT ![r] =
       [pc |-> "increase", item |-> tx.item, qty |-> q, tx |-> tx.id, by |-> by]]
  /\ overlapped' = IF ReturningNow(tx.id) = {} THEN overlapped
                                               ELSE overlapped \cup {tx.id}
  /\ UNCHANGED <<items, stock, txs, rets, supplied, drift, faults, disk>>

\* Mutant: the check leaves out the returns already recorded.
ReturnItemIgnoringEarlier(r, tx, q, by) == AcceptReturn(r, tx, q, by, tx.qty)

\* Mutant: the comparison is off by one.
ReturnItemOneTooMany(r, tx, q, by) ==
  AcceptReturn(r, tx, q, by, tx.qty - TotalReturned(tx.id) + 1)

\* ReturnItem up to its check against the returns already recorded:
\* totalReturned + quantity may not exceed the quantity issued.
ReturnItem(r, tx, q, by) ==
  AcceptReturn(r, tx, q, by, tx.qty - TotalReturned(tx.id))

IncreaseQuantity(r) ==
  /\ req[r].pc = "increase" /\ "items" \notin torn
  /\ req[r].item \in items
  /\ stock' = [stock EXCEPT ![req[r].item] = @ + req[r].qty]
  /\ req' = [req EXCEPT ![r].pc = "addReturn"]
  /\ UNCHANGED <<items, txs, rets, supplied, drift, overlapped, faults, disk>>

\* An issue of an item that has no row any more cannot be returned, nor one
\* be made whose item was lost since the check.
ItemNotFound(r) ==
  /\ req[r].pc \in {"decrease", "increase"} /\ "items" \notin torn
  /\ req[r].item \notin items
  /\ req' = [req EXCEPT ![r] = Idle]
  /\ UNCHANGED <<items, stock, txs, rets, supplied, drift, overlapped, faults, disk>>

\* ReturnsRepository.Add, the second write of a return.
AddReturn(r) ==
  /\ req[r].pc = "addReturn" /\ "returns" \notin torn
  /\ \E id \in RetIds :
       /\ \A ret \in rets : ret.id # id
       /\ rets' = rets \cup {[id |-> id, tx |-> req[r].tx, item |-> req[r].item,
                              qty |-> req[r].qty, by |-> req[r].by]}
  /\ req' = [req EXCEPT ![r] = Idle]
  /\ UNCHANGED <<items, stock, txs, supplied, drift, overlapped, faults, disk>>

\* A repository call returns an error and has changed nothing.  The service
\* returns the error and does not undo its first write.
GiveUp(r) ==
  /\ drift' = CASE req[r].pc = "addTransaction" ->
                     [drift EXCEPT ![req[r].item] = @ + req[r].qty]
                [] req[r].pc = "addReturn" ->
                     [drift EXCEPT ![req[r].item] = @ - req[r].qty]
                [] OTHER -> drift
  /\ req' = [req EXCEPT ![r] = Idle]
  /\ UNCHANGED <<items, stock, txs, rets, supplied, overlapped, disk>>

\* The file could not be opened or created, or NewID drew an id it has.
CallFails(r) ==
  /\ req[r].pc # "idle"
  /\ faults < MaxFaults /\ faults' = faults + 1
  /\ GiveUp(r)

\* The file cannot be read since a write of it was cut.
FileIsTorn(r) ==
  /\ req[r].pc # "idle" /\ FileOf(r) \in torn
  /\ GiveUp(r)
  /\ UNCHANGED faults

\* A write is cut short: os.Create has emptied the file, and not all of its
\* rows get back in; it may end in half a row.
Cut(file) ==
  /\ file \notin torn
  /\ faults < MaxFaults /\ faults' = faults + 1
  /\ cut' = [cut EXCEPT ![file] = @ + 1]
  /\ torn' \in {torn, torn \cup {file}}

\* items.csv was to hold "rows" with the quantities "new".
CutItems(rows, new) ==
  /\ Cut("items")
  /\ \E kept \in SUBSET rows \ {rows} :
       /\ items' = kept
       /\ stock' = [i \in ItemIds |-> IF i \in kept THEN new[i] ELSE 0]

AddItemCut(i, q) ==
  /\ q > 0
  /\ i \notin items
  /\ CutItems(items \cup {i}, [stock EXCEPT ![i] = q])
  /\ supplied' = [supplied EXCEPT ![i] = @ + q]
  /\ drift' = [j \in ItemIds |-> drift[j] + (IF j = i THEN q ELSE stock[j]) - stock'[j]]
  /\ UNCHANGED <<txs, rets, req, overlapped>>

\* DecreaseQuantityIfEnough and IncreaseQuantity.  An error of the last flush
\* is not seen, for writeAll has returned w.Error() before it: the request goes
\* on.  An earlier one ends it.
ShelfCut(r) ==
  LET i   == req[r].item
      new == IF req[r].pc = "decrease" THEN stock[i] - req[r].qty ELSE stock[i] + req[r].qty
  IN  /\ req[r].pc \in {"decrease", "increase"}
      /\ i \in items /\ new >= 0
      /\ CutItems(items, [stock EXCEPT ![i] = new])
      /\ \/ /\ req' = [req EXCEPT ![r].pc =
                           IF @ = "decrease" THEN "addTransaction" ELSE "addReturn"]
            /\ drift' = [j \in ItemIds |->
                           drift[j] + (IF j = i THEN new ELSE stock[j]) - stock'[j]]
         \/ /\ req' = [req EXCEPT ![r] = Idle]
            /\ drift' = [j \in ItemIds |-> drift[j] + stock[j] - stock'[j]]
      /\ UNCHANGED <<txs, rets, supplied, overlapped>>

\* TransactionsRepository.Add; the request ends whether it sees the error or not.
IssueCut(r) ==
  /\ req[r].pc = "addTransaction"
  /\ Cut("transactions")
  /\ \E id \in TxIds :
       /\ \A tx \in txs : tx.id # id
       /\ LET new == txs \cup {[id |-> id, item |-> req[r].item,
                                qty |-> req[r].qty, by |-> req[r].by]}
          IN  /\ txs' \in SUBSET new \ {new}
              /\ drift' = [i \in ItemIds |->
                             drift[i] + Total(QtyOf(OfItem(new \ txs', i)))]
  /\ req' = [req EXCEPT ![r] = Idle]
  /\ UNCHANGED <<items, stock, rets, supplied, overlapped>>

\* ReturnsRepository.Add.
ReturnCut(r) ==
  /\ req[r].pc = "addReturn"
  /\ Cut("returns")
  /\ \E id \in RetIds :
       /\ \A ret \in rets : ret.id # id
       /\ LET new == rets \cup {[id |-> id, tx |-> req[r].tx, item |-> req[r].item,
                                 qty |-> req[r].qty, by |-> req[r].by]}
          IN  /\ rets' \in SUBSET new \ {new}
              /\ drift' = [i \in ItemIds |->
                             drift[i] - Total(QtyOf(OfItem(new \ rets', i)))]
  /\ req' = [req EXCEPT ![r] = Idle]
  /\ UNCHANGED <<items, stock, txs, supplied, overlapped>>

\* The process dies between two repository calls and is started again: the
\* files keep what was written, every request is gone.  A process that dies
\* inside a write is a cut followed by this.
Crash ==
  /\ faults < MaxFaults
  /\ faults' = faults + 1
  /\ \E r \in Requests : req[r].pc # "idle"
  /\ drift' = [i \in ItemIds |->
       drift[i] + PendingIssues(i) - PendingReturns(i)]
  /\ req' = [r \in Requests |-> Idle]
  /\ UNCHANGED <<items, stock, txs, rets, supplied, overlapped, disk>>

\* The steps a request takes on its own once it is past its checks.
Proceed(r) ==
  \/ DecreaseQuantityIfEnough(r)
  \/ InsufficientStock(r)
  \/ AddTransaction(r)
  \/ IncreaseQuantity(r)
  \/ ItemNotFound(r)
  \/ AddReturn(r)
  \/ FileIsTorn(r)

Next ==
  \/ \E i \in ItemIds, q \in Quantities : AddItem(i, q) \/ AddItemCut(i, q)
  \/ \E r \in Requests, i \in ItemIds, q \in Quantities, to, by \in UserIds :
       IssueItem(r, i, q, to, by)
  \/ \E r \in Requests, tx \in txs, q \in Quantities, by \in UserIds :
       ReturnItem(r, tx, q, by)
  \/ \E r \in Requests : Proceed(r)
  \/ \E r \in Requests : CallFails(r) \/ ShelfCut(r) \/ IssueCut(r) \/ ReturnCut(r)
  \/ Crash

\* The Go scheduler runs every runnable goroutine and sync.Mutex hands the
\* lock to a waiter in bounded time, so a request in flight keeps moving.
\* Nothing obliges a client to send a request.
Fairness == \A r \in Requests : WF_vars(Proceed(r))

Spec == Init /\ [][Next]_vars
FairSpec == Spec /\ Fairness

-----------------------------------------------------------------------------
\* Stock is never negative (the rule above IssueItem, and the reason
\* DecreaseQuantityIfEnough repeats the check): no interleaving of issues,
\* returns and failures takes more units off the shelf than it holds.
StockNeverNegative == \A i \in ItemIds : stock[i] >= 0

\* The shelf and the two ledgers agree at all times: what was supplied and
\* returned is on the shelf, issued, or in the hands of a request between
\* its two writes; the only units unaccounted for are those of requests
\* whose second write failed or was cut off, and of rows a file lost in a
\* write that was cut; without such a fault there are none.
BooksBalance ==
  /\ \A i \in ItemIds :
       stock[i] + Issued(i) + PendingIssues(i) + drift[i]
         = supplied[i] + Returned(i) + PendingReturns(i)
  /\ faults = 0 => \A i \in ItemIds : drift[i] = 0

\* Total returned never exceeds the quantity issued, the returns in flight
\* included, for every transaction whose returns were validated one at a
\* time; also after returns.csv or items.csv has lost rows, but not when
\* transactions.csv has, for a later issue may then get the id of a lost one.
ReturnsWithinIssueIfSerial ==
  cut["transactions"] = 0 =>
    \A tx \in txs : tx.id \notin overlapped =>
      /\ TotalReturned(tx.id) <= tx.qty
      /\ \A r \in ReturningNow(tx.id) : TotalReturned(tx.id) + req[r].qty <= tx.qty
      /\ \A r, s \in ReturningNow(tx.id) : r = s

\* "total returned (summed across returns) cannot exceed original issued
\* quantity", the rule above ReturnItem, with no condition on concurrency.
ReturnsWithinIssue == \A tx \in txs : TotalReturned(tx.id) <= tx.qty

\* The rows of the ledgers fit together: ids are unique in each file, which
\* GetByID relies on, and a return names a recorded issue of the same item
\* as long as transactions.csv has lost none.
LedgerLinked ==
  /\ \A t, u \in txs : t.id = u.id => t = u
  /\ \A t, u \in rets : t.id = u.id => t = u
  /\ cut["transactions"] = 0 =>
       \A ret \in rets : \E tx \in txs : tx.id = ret.tx /\ tx.item = ret.item

\* Short of a fault or of concurrent returns of one issue, an item never has
\* more units on the shelf than were ever supplied.
ShelfWithinSupply ==
  (faults = 0 /\ overlapped = {}) => \A i \in ItemIds : stock[i] <= supplied[i]

\* Every request that passed its checks is answered.
RequestsAnswered == \A r \in Requests : req[r].pc # "idle" ~> req[r].pc = "idle"
=============================================================================
