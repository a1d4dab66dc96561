-------------------------------- MODULE Views --------------------------------
(***************************************************************************)
(* The pages that put several files together: the dashboard                *)
(* (DashboardHandler.Dashboard) and the issue and return forms with the    *)
(* history below them (TransactionsHandler.buildDashboardPageData).  A     *)
(* page calls one repository after the other, each call under the mutex    *)
(* and none of them together, while the requests of Inventory go on: its   *)
(* figures stem from different moments.  The users and departments it also *)
(* reads only name what it shows; rows of theirs are never changed.        *)
(***************************************************************************)
EXTENDS Inventory

CONSTANT MaxReadFaults  \* bound: failed reads of the files by a page

\* An item id is a few hex digits (NewID).
ASSUME ViewsAssumption == IsFiniteSet(ItemIds) /\ MaxReadFaults \in Nat

VARIABLES
  page,       \* what the page has read, and what it offers to return
  \* Bookkeeping that is not in the program:
  start,      \* the ledgers when the page was requested, its balance, and
              \* how often each of the files had lost rows by then
  readFaults  \* failed reads so far

viewVars == <<page, start, readFaults>>

\* What the page reads next; "shown" when it is with the user.
Reads == {"closed", "txs", "rets", "issues", "options", "shown"}

Offer == [tx : TxIds, remaining : Nat \ {0}]

NoPage == [at |-> "closed", kind |-> "dashboard", item |-> NoId, stock |-> <<>>,
           txs |-> {}, rets |-> {}, issues |-> {}, offers |-> {}, failed |-> FALSE]

\* Balance of item i: what its shelf, issued and returned units add up to.
Due(i) == supplied[i] + PendingReturns(i) - PendingIssues(i) - drift[i]

NoStart == [txs |-> {}, rets |-> {}, due |-> [i \in ItemIds |-> 0],
            cut |-> [f \in Files |-> 0]]

\* No file has lost rows since the page was requested.
Whole == start.cut = cut

ViewsInit ==
  /\ Init
  /\ page = NoPage /\ start = NoStart /\ readFaults = 0

-----------------------------------------------------------------------------
(* What a page makes of the rows it has read.                              *)

\* Mutant: a return whose issue the page does not know belongs to no item.
ItemOfIssueOnly(ret) ==
  LET known == {tx \in page.txs : tx.id = ret.tx}
  IN  IF known = {} THEN NoId ELSE (CHOOSE tx \in known : TRUE).item

\* The item of a return is that of its issue; if the page does not know the
\* issue, the one its own row names.
ItemOf(ret) ==
  LET known == {tx \in page.txs : tx.id = ret.tx}
  IN  IF known = {} THEN ret.item ELSE (CHOOSE tx \in known : TRUE).item

\* The dashboard may be narrowed to one item.
Selected(i) == page.item \in {NoId, i}

TotalStock ==
  Total([i \in {j \in DOMAIN page.stock : Selected(j)} |-> page.stock[i]])
TotalIssued == Total(QtyOf({tx \in page.txs : Selected(tx.item)}))
TotalReturnedShown == Total(QtyOf({ret \in page.rets : Selected(ItemOf(ret))}))

\* Mutant: the name is looked up among the issues with units left.
NamelessAfterLastReturn ==
  {ret \in page.rets : \A tx \in page.txs :
     tx.id = ret.tx => Total(QtyOf(OfTransaction(page.rets, tx.id))) >= tx.qty}

\* Rows of the history whose item has no name: it is copied from the issue.
Nameless == {ret \in page.rets : \A tx \in page.txs : tx.id # ret.tx}

\* Mutant: an issue with one unit left counts as returned.
RemainingAboveOne(issues, returns) ==
  {o \in {[tx |-> tx.id,
           remaining |-> tx.qty - Total(QtyOf(OfTransaction(returns, tx.id)))]
          : tx \in issues} : o.remaining > 1}

\* Mutant: an issue that was returned in full stays on offer.
RemainingOrNone(issues, returns) ==
  {o \in {[tx |-> tx.id,
           remaining |-> tx.qty - Total(QtyOf(OfTransaction(returns, tx.id)))]
          : tx \in issues} : o.remaining >= 0}

\* The issues with units left, and how many.
Remaining(issues, returns) ==
  {o \in {[tx |-> tx.id,
           remaining |-> tx.qty - Total(QtyOf(OfTransaction(returns, tx.id)))]
          : tx \in issues} : o.remaining > 0}

-----------------------------------------------------------------------------
\* The page is requested, for one item or all, and reads items.csv.
ReadItems(kind, item) ==
  /\ page.at = "closed" /\ "items" \notin torn
  /\ kind = "form" => item = NoId
  /\ page' = [NoPage EXCEPT !.at = "txs", !.kind = kind, !.item = item,
                            !.stock = [i \in items |-> stock[i]]]
  /\ start' = [txs |-> txs, rets |-> rets, due |-> [i \in ItemIds |-> Due(i)],
               cut |-> cut]
  /\ UNCHANGED readFaults

ReadTxs ==
  /\ page.at = "txs" /\ "transactions" \notin torn
  /\ page' = [page EXCEPT !.at = "rets", !.txs = txs]
  /\ UNCHANGED <<start, readFaults>>

ReadRets ==
  /\ page.at = "rets" /\ "returns" \notin torn
  /\ page' = [page EXCEPT !.at = IF page.kind = "form" THEN "issues" ELSE "shown",
                          !.rets = rets]
  /\ UNCHANGED <<start, readFaults>>

\* buildReturnIssueOptions reads the ledgers once more: "We compute remaining
\* using returns.csv, not the UI rows."
ReadIssues ==
  /\ page.at = "issues" /\ "transactions" \notin torn
  /\ page' = [page EXCEPT !.at = "options", !.issues = txs]
  /\ UNCHANGED <<start, readFaults>>

\* Mutant: it uses the rows of the history after all.
ReadOptionsOfHistory ==
  /\ page.at = "options" /\ "returns" \notin torn
  /\ page' = [page EXCEPT !.at = "shown", !.issues = {},
                          !.offers = Remaining(page.issues, page.rets)]
  /\ UNCHANGED <<start, readFaults>>

ReadOptions ==
  /\ page.at = "options" /\ "returns" \notin torn
  /\ page' = [page EXCEPT !.at = "shown", !.issues = {},
                          !.offers = Remaining(page.issues, rets)]
  /\ UNCHANGED <<start, readFaults>>

\* A file cannot be read, this time or since a write of it was cut.  In the
\* middle of the options the page is shown all the same, with nothing on offer
\* and no message; before, it is an error.
ReadFails ==
  /\ \/ /\ readFaults < MaxReadFaults /\ readFaults' = readFaults + 1
     \/ /\ (IF page.at \in {"txs", "issues"} THEN "transactions" ELSE "returns") \in torn
        /\ UNCHANGED readFaults
  /\ \/ /\ page.at \in {"txs", "rets"}
        /\ page' = NoPage /\ start' = NoStart
     \/ /\ page.at \in {"issues", "options"}
        /\ page' = [page EXCEPT !.at = "shown", !.issues = {}, !.failed = TRUE]
        /\ UNCHANGED start

\* The user leaves the page.
Close ==
  /\ page.at = "shown"
  /\ page' = NoPage /\ start' = NoStart
  /\ UNCHANGED readFaults

View ==
  \/ \E kind \in {"dashboard", "form"}, i \in ItemIds \cup {NoId} : ReadItems(kind, i)
  \/ ReadTxs \/ ReadRets \/ ReadIssues \/ ReadOptions
  \/ ReadFails
  \/ Close

ViewsNext ==
  \/ View /\ UNCHANGED vars
  \/ Next /\ UNCHANGED viewVars

ViewsSpec == ViewsInit /\ [][ViewsNext]_<<vars, viewVars>>

-----------------------------------------------------------------------------
ViewsTypeOK ==
  /\ page.at \in Reads /\ page.kind \in {"dashboard", "form"}
  /\ page.item \in ItemIds \cup {NoId}
  /\ DOMAIN page.stock \subseteq ItemIds
  /\ page.txs \subseteq TxRow /\ page.issues \subseteq TxRow
  /\ page.rets \subseteq RetRow
  /\ page.offers \subseteq Offer
  /\ page.failed \in BOOLEAN
  /\ start.txs \subseteq TxRow /\ start.rets \subseteq RetRow
  /\ start.cut \in [Files -> Nat]
  /\ readFaults \in 0 .. MaxReadFaults

\* The sum of a table of integers: what is above 0 less what is below.
Net(f) == Total([x \in DOMAIN f |-> IF f[x] > 0 THEN f[x] ELSE 0])
            - Total([x \in DOMAIN f |-> IF f[x] < 0 THEN -f[x] ELSE 0])

\* The three figures of the dashboard, narrowed to an item or not, miss the
\* balance by nothing but what is explained: the units that requests held, or
\* faults and cut writes had lost, when the page was requested, and the rows
\* that were recorded before it came to read them.  On a page read with nothing
\* in flight and nothing recorded meanwhile they add up to what was supplied.
\* No file must lose rows while the page is read; and once transactions.csv
\* has, a single item may be charged with a return of another one's issue,
\* should a later issue have got the id of a lost one.
FiguresReconcile ==
  (/\ page.at = "shown" /\ page.kind = "dashboard" /\ Whole
   /\ page.item # NoId => cut["transactions"] = 0) =>
    LET new(read, before) ==
          Total(QtyOf({row \in read \ before : Selected(row.item)}))
        due == [i \in {j \in ItemIds : Selected(j)} |-> start.due[i]]
    IN  TotalStock + TotalIssued - TotalReturnedShown
          = Net(due) + new(page.txs, start.txs) - new(page.rets, start.rets)

\* The history shows a return without the name of its item only if the issue
\* was recorded after the page was requested, or the file has lost it since.
NamelessOnlyIfNewer ==
  (page.at = "shown" /\ Whole) =>
    \A ret \in Nameless : \A tx \in start.txs : tx.id # ret.tx

\* Whatever can still be returned of an issue that was there when the form was
\* requested is on offer, however long the form has been open and whatever has
\* been returned in the meantime; unless one of its last two reads failed, or
\* a file has lost rows since.
OffersComplete ==
  (page.at = "shown" /\ page.kind = "form" /\ ~page.failed /\ Whole) =>
    \A tx \in start.txs :
      LET left == tx.qty - TotalReturned(tx.id)
      IN  left > 0 => \E o \in page.offers : o.tx = tx.id /\ o.remaining >= left

\* At the moment a form is shown, what it offers is what ReturnItem would
\* accept, also when returns were recorded while the page was read, as long as
\* no file loses rows then.
OffersCurrent ==
  [][(page.at = "options" /\ page'.at = "shown" /\ Whole) =>
       \A o \in page'.offers : \E tx \in txs :
         /\ tx.id = o.tx
         /\ o.remaining = tx.qty - TotalReturned(tx.id)]_<<vars, viewVars>>
=============================================================================
