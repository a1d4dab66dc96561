------------------------------ MODULE Dashboard ------------------------------
(***************************************************************************)
(* What DashboardHandler.Dashboard computes from one reading of the files: *)
(* the filters, the totals, the chart series and the list of items that    *)
(* run low.  Pure operators, compared with each other for any reading;     *)
(* which readings can come about beside running requests is the subject of *)
(* Views.                                                                  *)
(***************************************************************************)
EXTENDS Integers, Sequences, FiniteSets, Totals

CONSTANTS
  People,              \* ids of users the rows name, whether listed or not
  Employees, DeptOf,   \* users.csv: User.DepartmentID
  Depts, DeptName,     \* departments.csv: Department.Name
  ItemNames, Lowered,  \* item names, and what strings.ToLower makes of them
  Threshold,           \* lowStockThreshold
  Empty,               \* the empty string: no filter, no name, an id that is missing
  LastDay              \* bound: days

Days == 1 .. LastDay

\* The rows of items.csv, transactions.csv and returns.csv in the order of the
\* files; an index serves as id.  The ids a row refers to need not be in the
\* other files: data/transactions.csv has items and users no file lists, and a
\* return may be read whose issue was not.
Item  == [name : ItemNames, qty : Nat]
Issue == [item : Nat \cup {Empty}, name : ItemNames, qty : Nat \ {0}, user : People, date : Days]
Ret   == [tx : Nat, item : Nat \cup {Empty}, qty : Nat \ {0}, user : People, date : Days]

IsReading(t) == t.items \in Seq(Item) /\ t.txs \in Seq(Issue) /\ t.rets \in Seq(Ret)

ASSUME DashboardAssumption ==
  /\ DOMAIN DeptOf = Employees /\ DOMAIN DeptName = Depts
  /\ DOMAIN Lowered = ItemNames
  /\ Threshold \in Nat /\ LastDay \in Nat
  /\ Empty \notin Employees \cup Depts \cup Nat

\* userMap and issueMap give an empty record for an id they do not have.
Department(u) == IF u \in Employees THEN DeptOf[u] ELSE Empty

ItemOfReturn(t, ret) ==
  LET issued == IF ret.tx \in DOMAIN t.txs THEN t.txs[ret.tx].item ELSE Empty
  IN  IF issued = Empty THEN ret.item ELSE issued

-----------------------------------------------------------------------------
(* The filters.                                                            *)

\* What the page offers.
Filters(t) == [from : Days \cup {Empty}, to : Days \cup {Empty},
               user : Employees \cup {Empty}, dept : Depts \cup {Empty},
               item : DOMAIN t.items \cup {Empty}]

\* withinDateRange; dates are compared as strings, which orders them, and every
\* row the services write has one.
InRange(date, f) ==
  /\ f.from # Empty => date >= f.from
  /\ f.to # Empty => date <= f.to

\* What the loops over issues and returns ask of a row alike.
Passes(row, item, f) ==
  /\ InRange(row.date, f)
  /\ f.user \in {Empty, row.user}
  /\ f.dept \in {Empty, Department(row.user)}
  /\ f.item \in {Empty, item}

Issues(t, f)  == {k \in DOMAIN t.txs : Passes(t.txs[k], t.txs[k].item, f)}
Returns(t, f) == {k \in DOMAIN t.rets : Passes(t.rets[k], ItemOfReturn(t, t.rets[k]), f)}

\* The units of the rows ks.
UnitsAt(rows, ks) == Total([k \in ks |-> rows[k].qty])

UnitsIssued(t, f)   == UnitsAt(t.txs, Issues(t, f))
UnitsReturned(t, f) == UnitsAt(t.rets, Returns(t, f))

-----------------------------------------------------------------------------
(* The charts.                                                             *)

IssuedOn(t, f, d)   == {k \in Issues(t, f) : t.txs[k].date = d}
ReturnedOn(t, f, d) == {k \in Returns(t, f) : t.rets[k].date = d}

\* Days with an event of either kind, each of them once.
LineLabels(t, f) == {d \in Days : IssuedOn(t, f, d) \cup ReturnedOn(t, f, d) # {}}

IssuedCounts(t, f)   == [d \in LineLabels(t, f) |-> Cardinality(IssuedOn(t, f, d))]
ReturnedCounts(t, f) == [d \in LineLabels(t, f) |-> Cardinality(ReturnedOn(t, f, d))]

ItemQuantities(t, f) ==
  [d \in LineLabels(t, f) |->
     UnitsAt(t.txs, IssuedOn(t, f, d)) + UnitsAt(t.rets, ReturnedOn(t, f, d))]

\* The departments' bars go by name, so two of one name share a bar; one that
\* has no name, or is not listed, is shown by its id, and none as "N/A".
LabelOf(u) ==
  LET d == Department(u)
  IN  IF d \in Depts /\ DeptName[d] # Empty THEN DeptName[d] ELSE d
DeptLabels(t, f) == {LabelOf(t.txs[k].user) : k \in Issues(t, f)}
ItemTypes(t, f)  == {t.txs[k].name : k \in Issues(t, f)}

DeptUsage(t, f) ==
  [bar \in DeptLabels(t, f) \X ItemTypes(t, f) |->
     UnitsAt(t.txs, {k \in Issues(t, f) : <<LabelOf(t.txs[k].user), t.txs[k].name>> = bar})]

-----------------------------------------------------------------------------
(* The shelf.                                                              *)

\* "- No filters: use all items. - item filter: only selected item.
\* - date/employee/department filters: items present in filtered events."
Scoped(t, f) ==
  {i \in DOMAIN t.items :
     IF f.item # Empty THEN i = f.item
     ELSE (f.from # Empty \/ f.to # Empty \/ f.user # Empty \/ f.dept # Empty) =>
            \/ \E k \in Issues(t, f) : t.txs[k].item = i
            \/ \E k \in Returns(t, f) : ItemOfReturn(t, t.rets[k]) = i}

Key(t, i) == Lowered[t.items[i].name]

\* Rows below the threshold; of the rows of one name, in whatever spelling and
\* size, the first that is.
LowStockItems(t, f) ==
  {i \in Scoped(t, f) : /\ t.items[i].qty < Threshold
                        /\ \A j \in Scoped(t, f) :
                             (Key(t, j) = Key(t, i) /\ t.items[j].qty < Threshold) => j >= i}

-----------------------------------------------------------------------------
RowsOf(kind, t)      == IF kind = "issue" THEN t.txs ELSE t.rets
EventsOf(kind, t, f) == IF kind = "issue" THEN Issues(t, f) ELSE Returns(t, f)
ItemAt(kind, t, k)   == IF kind = "issue" THEN t.txs[k].item ELSE ItemOfReturn(t, t.rets[k])
UnitsOf(kind, t, f)  == UnitsAt(RowsOf(kind, t), EventsOf(kind, t, f))

\* A filter splits the figures without losing or doubling a row: the totals
\* over the employees, over the departments, over the items the page offers
\* add up to those without the filter, less exactly the rows of users,
\* departments and items that are in no list; those before and after any day
\* add up in full.  All this whatever the other filters are.
FiltersPartition(t) ==
  \A f \in Filters(t), kind \in {"issue", "return"} :
    LET rows == RowsOf(kind, t)
        ks   == EventsOf(kind, t, f)
    IN  /\ f.user = Empty =>
             UnitsOf(kind, t, f) =
               Total([u \in Employees |-> UnitsOf(kind, t, [f EXCEPT !.user = u])])
                 + UnitsAt(rows, {k \in ks : rows[k].user \notin Employees})
        /\ f.dept = Empty =>
             UnitsOf(kind, t, f) =
               Total([d \in Depts |-> UnitsOf(kind, t, [f EXCEPT !.dept = d])])
                 + UnitsAt(rows, {k \in ks : Department(rows[k].user) \notin Depts})
        /\ f.item = Empty =>
             UnitsOf(kind, t, f) =
               Total([i \in DOMAIN t.items |-> UnitsOf(kind, t, [f EXCEPT !.item = i])])
                 + UnitsAt(rows, {k \in ks : ItemAt(kind, t, k) \notin DOMAIN t.items})
        /\ (f.from = Empty /\ f.to = Empty) => \A d \in Days \ {LastDay} :
             UnitsOf(kind, t, f) = UnitsOf(kind, t, [f EXCEPT !.to = d])
                                     + UnitsOf(kind, t, [f EXCEPT !.from = d + 1])

\* The charts show the same events as the totals above them: the line charts
\* count every one, the daily bars and the departments' bars hold every unit,
\* also where departments share a name or have none, and items, users and
\* departments are in no list.
ChartsMatchTotals(t) ==
  \A f \in Filters(t) :
    /\ Total(IssuedCounts(t, f)) = Cardinality(Issues(t, f))
    /\ Total(ReturnedCounts(t, f)) = Cardinality(Returns(t, f))
    /\ Total(ItemQuantities(t, f)) = UnitsIssued(t, f) + UnitsReturned(t, f)
    /\ Total(DeptUsage(t, f)) = UnitsIssued(t, f)

\* Showing one row per name hides no name that runs low: under every filter
\* each row in scope below the threshold has its name on the list, once.
LowStockNamesAll(t) ==
  \A f \in Filters(t) : \A i \in Scoped(t, f) :
    t.items[i].qty < Threshold =>
      Cardinality({j \in LowStockItems(t, f) : Key(t, j) = Key(t, i)}) = 1

=============================================================================
