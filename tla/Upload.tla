------------------------------- MODULE Upload -------------------------------
(***************************************************************************)
(* POST /items/upload and POST /employees/upload: the rows of a sheet are  *)
(* added one by one, each by a service call of its own; a row that is      *)
(* refused or fails is reported by its number and the next one follows.    *)
(* The client corrects what was reported and sends it again, or sends the  *)
(* whole sheet again.  Uploads interleave with each other and with the     *)
(* form that adds a single row.                                            *)
(*                                                                         *)
(* Each call writes the whole file anew.  A write that is cut short leaves *)
(* the first rows of it, or a file that cannot be read; it returns an      *)
(* error, or none when it was the deferred Flush that failed.              *)
(*                                                                         *)
(* The two handlers differ in their columns only; a row of employees is    *)
(* never of the kind "not a number".                                       *)
(***************************************************************************)
EXTENDS Integers, Sequences, FiniteSets, Totals

CONSTANTS
  Clients,    \* who uploads; each has one request at a time
  Size,       \* rows of the sheet below its header
  Kinds,      \* kinds of rows considered
  MaxSends,   \* bound: sheets sent, corrections included
  MaxForms,   \* bound: rows added by the form
  MaxFaults   \* bound: failed repository calls and crashes

\* blank: every cell is empty.  incomplete: some cells are.  notNumber: the
\* quantity is no number.  unsound: the service refuses the row (a quantity
\* of 0, dates in the wrong order, an unknown role).
Refused == {"incomplete", "notNumber", "unsound"}

ASSUME UploadAssumption ==
  /\ IsFiniteSet(Clients)
  /\ Size \in Nat
  /\ Kinds \subseteq Refused \cup {"blank", "sound"}
  /\ MaxSends \in Nat /\ MaxForms \in Nat /\ MaxFaults \in Nat

RowNumbers == 1 .. Size

VARIABLES
  table,    \* items.csv or users.csv: the rows that were added, in order,
  gone,     \* ... the places of those a write cut short took out of the file,
  readable, \* ... and whether the file can be read
  req,      \* what each client has sent and the handler knows about it
  \* Bookkeeping that is not in the program:
  sends,    \* sheets sent
  sent,     \* per row of the sheet, how often it was sent as a new one
  dropped,  \* ... sent and given up, without an answer or reported
  forms,    \* rows added by the form
  faults

vars == <<table, gone, readable, req, sends, sent, dropped, forms, faults>>

\* Row "row" of the sheet (0: by the form), added by upload "up".
TableRow == [row : RowNumbers \cup {0}, up : Nat]

Idle == [pc |-> "idle"]

\* Mutant: the loop begins with the header.
UploadWithHeader(rows) == [pc |-> "rows", up |-> sends + 1, rows |-> rows, at |-> 0,
                           added |-> 0, errors |-> <<>>]

\* The sheet a client has sent: its rows, as numbers of the original sheet and
\* kinds; "at" is the next one the loop looks at.
Upload(rows) == [pc |-> "rows", up |-> sends + 1, rows |-> rows, at |-> 1,
                 added |-> 0, errors |-> <<>>]

Init ==
  /\ table = <<>> /\ gone = {} /\ readable = TRUE
  /\ req = [c \in Clients |-> Idle]
  /\ sends = 0
  /\ sent = [n \in RowNumbers |-> 0]
  /\ dropped = [n \in RowNumbers |-> 0]
  /\ forms = 0 /\ faults = 0

-----------------------------------------------------------------------------
(* The client.                                                             *)

\* A whole sheet, for the first time or again.
Send(c, kind) ==
  /\ req[c].pc = "idle"
  /\ sends < MaxSends /\ sends' = sends + 1
  /\ LET rows == [n \in RowNumbers |-> [row |-> n, kind |-> kind[n]]]
     IN  req' = [req EXCEPT ![c] = Upload(rows)]
  /\ sent' = [n \in RowNumbers |-> sent[n] + (IF kind[n] = "blank" THEN 0 ELSE 1)]
  /\ UNCHANGED <<table, gone, readable, dropped, forms, faults>>

\* A sheet of the rows that were reported, corrected or not.
Correct(c, kind) ==
  /\ req[c].pc = "answered"
  /\ req[c].errors # <<>>
  /\ sends < MaxSends /\ sends' = sends + 1
  /\ LET rows == [k \in DOMAIN req[c].errors |->
                    [row |-> req[c].errors[k], kind |-> kind[req[c].errors[k]]]]
     IN  /\ \A k \in DOMAIN rows : rows[k].kind # "blank"
         /\ req' = [req EXCEPT ![c] = Upload(rows)]
  /\ UNCHANGED <<table, gone, readable, sent, dropped, forms, faults>>

Times(n, s) == Cardinality({k \in DOMAIN s : s[k] = n})

\* The client leaves the reported rows as they are.
GiveUp(c) ==
  /\ req[c].pc = "answered"
  /\ dropped' = [n \in RowNumbers |-> dropped[n] + Times(n, req[c].errors)]
  /\ req' = [req EXCEPT ![c] = Idle]
  /\ UNCHANGED <<table, gone, readable, sends, sent, forms, faults>>

-----------------------------------------------------------------------------
(* The handler's loop.                                                     *)

InLoop(c) == req[c].pc = "rows" /\ req[c].at <= Len(req[c].rows)
Current(c) == req[c].rows[req[c].at]

\* The row is left out of the table and reported.
Reported(c) ==
  req' = [req EXCEPT ![c].errors = Append(@, Current(c).row), ![c].at = @ + 1]

SkipBlank(c) ==
  /\ InLoop(c)
  /\ Current(c).kind = "blank"
  /\ req' = [req EXCEPT ![c].at = @ + 1]
  /\ UNCHANGED <<table, gone, readable, sends, sent, dropped, forms, faults>>

\* Mutant: the "continue" after the report is missing.
RefuseRowButCounts(c) ==
  /\ InLoop(c)
  /\ Current(c).kind \in Refused
  /\ req' = [req EXCEPT ![c].errors = Append(@, Current(c).row),
                        ![c].added = @ + 1, ![c].at = @ + 1]
  /\ UNCHANGED <<table, gone, readable, sends, sent, dropped, forms, faults>>

RefuseRow(c) ==
  /\ InLoop(c)
  /\ Current(c).kind \in Refused
  /\ Reported(c)
  /\ UNCHANGED <<table, gone, readable, sends, sent, dropped, forms, faults>>

Unhurt == UNCHANGED <<gone, readable, faults>>
Fault  == faults < MaxFaults /\ faults' = faults + 1

\* The writing of a file of "length" rows, counted with those that are gone,
\* is cut: the first of its rows are left, or none that can be read.
WriteCut(length) ==
  /\ readable
  /\ Fault
  /\ \E n \in 0 .. Len(table) :
       /\ gone' = gone \cup (n + 1 .. length)
       /\ readable' \in {TRUE, n # 0}

\* AddItem or AddUser is called with a sound row.
AddCalled(c) == InLoop(c) /\ Current(c).kind = "sound"

\* The call, one repository call, returns without an error.
Added(c) ==
  /\ readable
  /\ table' = Append(table, [row |-> Current(c).row, up |-> req[c].up])
  /\ req' = [req EXCEPT ![c].added = @ + 1, ![c].at = @ + 1]
  /\ UNCHANGED <<sends, sent, dropped, forms>>

\* Mutant: new rows are put in front.
AddRowFirst(c) ==
  /\ AddCalled(c)
  /\ readable
  /\ table' = <<[row |-> Current(c).row, up |-> req[c].up]>> \o table
  /\ req' = [req EXCEPT ![c].added = @ + 1, ![c].at = @ + 1]
  /\ UNCHANGED <<sends, sent, dropped, forms>>
  /\ Unhurt

AddRow(c) == AddCalled(c) /\ Added(c) /\ Unhurt

\* Add returns w.Error(), and only then the deferred Flush fails: the row is
\* counted, and this one, perhaps others, are not in the file.
AddRowCut(c) == AddCalled(c) /\ Added(c) /\ WriteCut(Len(table) + 1)

\* The file cannot be read, it cannot be opened or the id is taken, or Write
\* reports that the disk takes no more.
AddRefused ==
  \/ ~readable /\ Unhurt
  \/ Fault /\ UNCHANGED <<gone, readable>>
  \/ WriteCut(Len(table))

\* Mutant: the handler stops at the first failure.
AddFailsAndStops(c) ==
  /\ AddCalled(c)
  /\ AddRefused
  /\ req' = [req EXCEPT ![c].errors = Append(@, Current(c).row),
                        ![c].at = Len(req[c].rows) + 1]
  /\ UNCHANGED <<table, sends, sent, dropped, forms>>

\* The call returns an error.
AddFails(c) ==
  /\ AddCalled(c)
  /\ AddRefused
  /\ Reported(c)
  /\ UNCHANGED <<table, sends, sent, dropped, forms>>

AtEnd(c) == req[c].pc = "rows" /\ req[c].at > Len(req[c].rows)

\* The page: the errors, or the number of rows added when there are none.
Answer(c) ==
  /\ AtEnd(c)
  /\ readable
  /\ req' = [req EXCEPT ![c].pc = "answered"]
  /\ UNCHANGED <<table, gone, readable, sends, sent, dropped, forms, faults>>

\* The page lists the table; when that fails, it shows neither the errors nor
\* the number.
AnswerFails(c) ==
  /\ AtEnd(c)
  /\ IF readable THEN Fault ELSE UNCHANGED faults
  /\ dropped' = [n \in RowNumbers |-> dropped[n] + Times(n, req[c].errors)]
  /\ req' = [req EXCEPT ![c] = Idle]
  /\ UNCHANGED <<table, gone, readable, sends, sent, forms>>

\* One row by the form, in one repository call.
Add ==
  /\ readable
  /\ forms < MaxForms /\ forms' = forms + 1
  /\ table' = Append(table, [row |-> 0, up |-> 0])
  /\ Unhurt \/ WriteCut(Len(table) + 1)
  /\ UNCHANGED <<req, sends, sent, dropped>>

\* Rows n of request q that the loop has yet to come to.
ToCome(q, n) ==
  {k \in q.at .. Len(q.rows) : q.rows[k].row = n /\ q.rows[k].kind # "blank"}

\* How many rows n are in the hands of request q: still to come, or reported.
Outstanding(q, n) ==
  CASE q.pc = "rows"     -> Cardinality(ToCome(q, n)) + Times(n, q.errors)
    [] q.pc = "answered" -> Times(n, q.errors)
    [] OTHER             -> 0

TotalOutstanding(n) == Total([c \in Clients |-> Outstanding(req[c], n)])

\* The process dies and is started again: no answer comes, whereas a page
\* that was received stays in its browser.  The file is cut when it was just
\* being written, by one of these requests or by another.
Crash ==
  /\ WriteCut(Len(table)) \/ (Fault /\ UNCHANGED <<gone, readable>>)
  /\ LET cut == {c \in Clients : req[c].pc = "rows"}
     IN  /\ dropped' = [n \in RowNumbers |->
              dropped[n] + Total([c \in cut |-> Outstanding(req[c], n)])]
         /\ req' = [c \in Clients |-> IF c \in cut THEN Idle ELSE req[c]]
  /\ UNCHANGED <<table, sends, sent, forms>>

Proceed(c) == SkipBlank(c) \/ RefuseRow(c) \/ AddRow(c) \/ Answer(c)

Next ==
  \/ \E c \in Clients, kind \in [RowNumbers -> Kinds] : Send(c, kind) \/ Correct(c, kind)
  \/ \E c \in Clients : 
       GiveUp(c) \/ Proceed(c) \/ AddRowCut(c) \/ AddFails(c) \/ AnswerFails(c)
  \/ Add
  \/ Crash

Spec == Init /\ [][Next]_vars

-----------------------------------------------------------------------------
SheetRow == [row : RowNumbers, kind : Kinds]
Request  == [pc : {"rows", "answered"}, up : 1 .. MaxSends, rows : Seq(SheetRow),
             at : 1 .. Size + 1, added : 0 .. Size, errors : Seq(RowNumbers)]

TypeOK ==
  /\ table \in Seq(TableRow) /\ gone \subseteq DOMAIN table /\ readable \in BOOLEAN
  /\ req \in [Clients -> {Idle} \cup Request]
  /\ sends \in 0 .. MaxSends
  /\ sent \in [RowNumbers -> Nat]
  /\ dropped \in [RowNumbers -> Nat]
  /\ forms \in 0 .. MaxForms
  /\ faults \in 0 .. MaxFaults

Places(n) == {k \in DOMAIN table : table[k].row = n}

\* Every row that was sent is accounted for: each time it was sent as a new
\* one it is in the file, or was and a write that was cut took it away, is in
\* the hands of a request, was reported to its client, or was given up.  So a
\* client that corrects and sends again exactly what was reported has each row
\* in the file once and misses none, but for cut writes; one that sends a whole
\* sheet again, or that got no answer, has the rows twice that had been added.
RowsAccountedFor ==
  \A n \in RowNumbers :
    Cardinality(Places(n) \ gone) + Cardinality(Places(n) \cap gone)
      + TotalOutstanding(n) + dropped[n] = sent[n]

\* How far an answer can be trusted, however other uploads, forms and failures
\* interleave.  Of the rows that are not blank, those reported are not in the
\* file and all others were added.  The number is that of the rows of this
\* upload that are in the file, and of those that were taken away again by a
\* write that was cut, the one that added them or a later one.
AnswerTruthful ==
  \A c \in Clients : req[c].pc # "idle" =>
    LET mine == {k \in DOMAIN table : table[k].up = req[c].up}
        seen == {req[c].rows[k] : k \in 1 .. req[c].at - 1}
    IN  /\ req[c].added = Cardinality(mine \ gone) + Cardinality(mine \cap gone)
        /\ {s.row : s \in {s \in seen : s.kind # "blank"}}
             = {table[k].row : k \in mine} \cup {req[c].errors[k] : k \in DOMAIN req[c].errors}
        /\ \A k \in mine : Times(table[k].row, req[c].errors) = 0

\* The rows of one upload are in the table in the order of its sheet, and
\* nothing a later call does changes a row that is there.
SheetOrderKept ==
  /\ \A j, k \in DOMAIN table :
       (j < k /\ table[j].up = table[k].up /\ table[j].up # 0) => table[j].row < table[k].row
  /\ \A c \in Clients : req[c].pc = "rows" =>
       \A k \in DOMAIN table : table[k].up = req[c].up =>
         \E j \in 1 .. req[c].at - 1 : req[c].rows[j].row = table[k].row
=============================================================================
