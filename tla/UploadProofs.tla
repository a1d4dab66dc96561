---------------------------- MODULE UploadProofs ----------------------------
(***************************************************************************)
(* No row of a sheet is lost or told wrongly, for any number of clients,   *)
(* sheets of any size, forms and faults.  In layers: Core (types, and what *)
(* the loop knows of its own sheet) is inductive by itself; the books and  *)
(* the answers are inductive relative to it.                               *)
(***************************************************************************)
EXTENDS Upload, TotalsProofs, SequenceTheorems

\* A request stands somewhere in its sheet, whose rows it sends in order; the
\* rows it reports, or has added, are among those before that place.
InPlace(q) ==
  /\ q.at <= Len(q.rows) + 1
  /\ Len(q.rows) <= Size
  /\ q.pc = "answered" => q.at = Len(q.rows) + 1
  /\ Len(q.errors) + q.added < q.at

Ordered(q) ==
  /\ \A j, k \in 1 .. Len(q.rows) : j < k => q.rows[j].row < q.rows[k].row
  /\ \A j, k \in 1 .. Len(q.errors) : j < k => q.errors[j] < q.errors[k]
  /\ \A k \in 1 .. Len(q.errors) : \E j \in 1 .. q.at - 1 : q.rows[j].row = q.errors[k]

Busy == {c \in Clients : req[c].pc # "idle"}

RequestsSound == \A c \in Busy : InPlace(req[c]) /\ Ordered(req[c])

\* Every upload has a number of its own, also among the rows of the table.
UploadsApart ==
  /\ \A k \in 1 .. Len(table) : table[k].up <= sends
  /\ \A c \in Busy : req[c].up <= sends
  /\ \A c, d \in Busy : req[c].up = req[d].up => c = d

Core == TypeOK /\ RequestsSound /\ UploadsApart

\* What TypeOK says of a request that is under way.
LEMMA BusyFields ==
  ASSUME TypeOK, NEW c \in Busy
  PROVE  /\ req[c] \in Request
         /\ req[c].pc \in {"rows", "answered"} /\ req[c].up \in 1 .. MaxSends
         /\ req[c].rows \in Seq(SheetRow) /\ Len(req[c].rows) \in Nat
         /\ req[c].at \in 1 .. Size + 1 /\ req[c].added \in 0 .. Size
         /\ req[c].errors \in Seq(RowNumbers) /\ Len(req[c].errors) \in Nat
<1>1. req[c] \in Request
  BY DEF TypeOK, Busy, Idle
<1> QED
  BY <1>1, LenProperties DEF Request

\* One more row of the table: the rows before it stay where they are.
LEMMA RowAppended ==
  ASSUME TypeOK, NEW new \in TableRow, table' = Append(table, new)
  PROVE  /\ table' \in Seq(TableRow)
         /\ Len(table) \in Nat /\ Len(table') = Len(table) + 1
         /\ \A k \in 1 .. Len(table) : table'[k] = table[k]
         /\ table'[Len(table) + 1] = new
<1>1. table \in Seq(TableRow)
  BY DEF TypeOK
<1> QED
  BY <1>1, AppendProperties, LenProperties

\* What is gone are rows of the table, whether the writing of it was cut, failed
\* or went well.
LEMMA FileKept ==
  ASSUME TypeOK, NEW new \in TableRow, NEW length \in Nat,
         \/ table' = table /\ length = Len(table)
         \/ table' = Append(table, new) /\ length = Len(table) + 1,
         \/ UNCHANGED <<gone, readable, faults>>
         \/ Fault /\ UNCHANGED <<gone, readable>>
         \/ WriteCut(length)
  PROVE  gone' \subseteq DOMAIN table' /\ readable' \in BOOLEAN /\ faults' \in 0 .. MaxFaults
<1>1. /\ DOMAIN table = 1 .. Len(table) /\ Len(table) \in Nat /\ gone \subseteq DOMAIN table
      /\ readable \in BOOLEAN /\ faults \in 0 .. MaxFaults /\ MaxFaults \in Nat
  BY LenProperties, UploadAssumption DEF TypeOK
<1>2. DOMAIN table' = 1 .. length /\ Len(table) <= length
  <2>1. CASE table' = table /\ length = Len(table)
    BY <1>1, <2>1
  <2>2. CASE table' = Append(table, new) /\ length = Len(table) + 1
    BY <1>1, <2>2, RowAppended, LenProperties
  <2> QED
    BY <2>1, <2>2
<1>a. 1 .. Len(table) \subseteq 1 .. length
  BY ONLY <1>1, <1>2, length \in Nat
<1>b. ASSUME Fault PROVE faults' \in 0 .. MaxFaults
  BY ONLY <1>1, <1>b DEF Fault
<1>3. CASE UNCHANGED <<gone, readable, faults>>
  <2>1. gone' = gone /\ readable' = readable /\ faults' = faults
    BY <1>3
  <2> QED
    BY ONLY <1>1, <1>2, <1>a, <2>1
<1>4. CASE Fault /\ UNCHANGED <<gone, readable>>
  <2>1. gone' = gone /\ readable' = readable
    BY <1>4
  <2> QED
    BY ONLY <1>1, <1>2, <1>4, <1>a, <1>b, <2>1
<1>5. CASE WriteCut(length)
  <2>1. PICK n \in 0 .. Len(table) : gone' = gone \cup (n + 1 .. length) /\ readable' \in {TRUE, n # 0}
    BY <1>5 DEF WriteCut
  <2>2. gone' \subseteq DOMAIN table'
    <3>1. n + 1 .. length \subseteq 1 .. length
      BY ONLY <1>1, length \in Nat, n \in 0 .. Len(table)
    <3> QED
      BY ONLY <1>1, <1>2, <1>a, <2>1, <3>1
  <2>3. readable' \in BOOLEAN
    BY <2>1
  <2>4. faults' \in 0 .. MaxFaults
    BY <1>5, <1>b DEF WriteCut
  <2> QED
    BY <2>2, <2>3, <2>4
<1> QED
  BY <1>3, <1>4, <1>5

\* A step of one request keeps Core if what it makes of the request is sound,
\* the table grows by rows of uploads there are, and a new upload is the next.
LEMMA OneRequest ==
  ASSUME Core, NEW c \in Clients, NEW q \in {Idle} \cup Request,
         req' = [req EXCEPT ![c] = q],
         q # Idle => InPlace(q) /\ Ordered(q),
         \/ q = Idle /\ sends' = sends
         \/ c \in Busy /\ q.up = req[c].up /\ sends' = sends
         \/ q.up = sends + 1 /\ sends < MaxSends /\ sends' = sends + 1,
         \/ table' = table
         \/ \E new \in TableRow : new.up <= sends /\ table' = Append(table, new),
         gone' \subseteq DOMAIN table', readable' \in BOOLEAN,
         sent' \in [RowNumbers -> Nat], dropped' \in [RowNumbers -> Nat],
         forms' \in 0 .. MaxForms, faults' \in 0 .. MaxFaults
  PROVE  Core'
<1>t. TypeOK /\ RequestsSound /\ UploadsApart
  BY DEF Core
<1>a. MaxSends \in Nat /\ sends \in 0 .. MaxSends /\ sends' \in 0 .. MaxSends /\ sends <= sends'
  BY <1>t, UploadAssumption DEF TypeOK
<1>1. /\ table' \in Seq(TableRow)
      /\ \A k \in 1 .. Len(table') : table'[k].up <= sends'
  <2>1. table \in Seq(TableRow) /\ \A k \in 1 .. Len(table) : table[k].up <= sends /\ table[k].up \in Nat
    <3>1. table \in Seq(TableRow) /\ \A k \in 1 .. Len(table) : table[k].up <= sends
      BY <1>t DEF TypeOK, UploadsApart
    <3>2. \A k \in 1 .. Len(table) : table[k] \in TableRow
      BY <3>1, ElementOfSeq
    <3> QED
      BY <3>1, <3>2 DEF TableRow
  <2>2. CASE table' = table
    BY <1>a, <2>1, <2>2
  <2>3. CASE \E new \in TableRow : new.up <= sends /\ table' = Append(table, new)
    <3>1. PICK new \in TableRow : new.up <= sends /\ table' = Append(table, new)
      BY <2>3
    <3>2. new.up \in Nat
      BY DEF TableRow
    <3>3. \A k \in 1 .. Len(table') : table'[k] = new \/ \E j \in 1 .. Len(table) : table'[k] = table[j]
      BY <1>t, <3>1, RowAppended
    <3> QED
      BY <1>t, <1>a, <2>1, <3>1, <3>2, <3>3, RowAppended
  <2> QED
    BY <2>2, <2>3
<1>2. /\ req' \in [Clients -> {Idle} \cup Request] /\ req'[c] = q
      /\ \A d \in Clients \ {c} : req'[d] = req[d]
  BY <1>t DEF TypeOK
<1>3. TypeOK'
  BY <1>a, <1>1, <1>2 DEF TypeOK
<1>4. /\ \A d \in Busy' : d # c => d \in Busy /\ req'[d] = req[d]
      /\ c \in Busy' => q \in Request
  BY <1>2 DEF Busy, Idle
<1>5. RequestsSound'
  BY <1>t, <1>2, <1>4 DEF RequestsSound, Busy, Idle
<1>6. c \in Busy' => /\ q.up <= sends'
                     /\ \A d \in Busy' \ {c} : q.up # req'[d].up
  <2> SUFFICES ASSUME c \in Busy'
               PROVE  q.up <= sends' /\ \A d \in Busy' \ {c} : q.up # req'[d].up
    OBVIOUS
  <2>1. q # Idle
    BY <1>2 DEF Busy, Idle
  <2>2. CASE c \in Busy /\ q.up = req[c].up /\ sends' = sends
    BY <1>t, <1>4, <2>2 DEF UploadsApart
  <2>3. CASE q.up = sends + 1 /\ sends' = sends + 1
    <3>1. \A d \in Busy : req[d].up <= sends /\ req[d].up \in Nat
      BY <1>t, BusyFields, UploadAssumption DEF UploadsApart
    <3> QED
      BY <1>a, <1>4, <2>3, <3>1
  <2> QED
    BY <2>1, <2>2, <2>3
<1>7. \A d \in Busy : req[d].up <= sends'
  <2>1. \A d \in Busy : req[d].up \in Nat /\ req[d].up <= sends
    BY <1>t, BusyFields, UploadAssumption DEF UploadsApart
  <2> QED
    BY <1>a, <2>1
<1>8. UploadsApart'
  <2>1. \A d \in Busy' : req'[d].up <= sends'
    BY <1>2, <1>4, <1>6, <1>7
  <2>2. \A d, e \in Busy' : req'[d].up = req'[e].up => d = e
    BY <1>t, <1>2, <1>4, <1>6 DEF UploadsApart
  <2> QED
    BY <1>1, <2>1, <2>2 DEF UploadsApart
<1> QED
  BY <1>3, <1>5, <1>8 DEF Core


\* A sheet that is sent in order is a sound request at its beginning.
LEMMA SheetSent ==
  ASSUME TypeOK, sends < MaxSends, NEW rows \in Seq(SheetRow), Len(rows) <= Size,
         \A j, k \in 1 .. Len(rows) : j < k => rows[j].row < rows[k].row,
         NEW q, q = Upload(rows)
  PROVE  /\ q \in Request /\ q # Idle /\ InPlace(q) /\ Ordered(q)
         /\ q.pc = "rows" /\ q.up = sends + 1 /\ q.rows = rows /\ q.at = 1
         /\ q.added = 0 /\ q.errors = <<>>
<1>1. /\ q.pc = "rows" /\ q.up = sends + 1 /\ q.rows = rows /\ q.at = 1
      /\ q.added = 0 /\ q.errors = <<>>
  BY DEF Upload
<1>2. sends + 1 \in 1 .. MaxSends /\ 1 \in 1 .. Size + 1 /\ 0 \in 0 .. Size
  BY UploadAssumption DEF TypeOK
<1>3. <<>> \in Seq(RowNumbers) /\ Len(<<>>) = 0 /\ Len(rows) \in Nat
  BY LenProperties, EmptySeq
<1>4. q \in Request
  BY <1>2, <1>3 DEF Upload, Request
<1>5. q # Idle
  BY <1>1 DEF Idle
<1>6. InPlace(q) /\ Ordered(q)
  BY <1>1, <1>3, UploadAssumption DEF InPlace, Ordered
<1> QED
  BY <1>1, <1>4, <1>5, <1>6

\* The rows of a whole sheet, by their numbers.
LEMMA WholeSheet ==
  ASSUME NEW kind \in [RowNumbers -> Kinds],
         NEW rows, rows = [n \in RowNumbers |-> [row |-> n, kind |-> kind[n]]]
  PROVE  /\ rows \in Seq(SheetRow) /\ Len(rows) = Size
         /\ \A j \in 1 .. Size : rows[j].row = j /\ rows[j].kind = kind[j]
         /\ \A j, k \in 1 .. Len(rows) : j < k => rows[j].row < rows[k].row
<1>1. rows \in [1 .. Size -> SheetRow]
  BY DEF SheetRow, RowNumbers
<1>2. rows \in Seq(SheetRow) /\ Len(rows) = Size
  BY <1>1, SeqDef, LenProperties, UploadAssumption
<1>3. \A j \in 1 .. Size : rows[j].row = j /\ rows[j].kind = kind[j]
  BY DEF RowNumbers
<1> QED
  BY <1>2, <1>3

\* The reported rows as a sheet again, one row each.
LEMMA ReportedRows ==
  ASSUME NEW e \in Seq(RowNumbers), NEW kind \in [RowNumbers -> Kinds],
         NEW rows, rows = [k \in DOMAIN e |-> [row |-> e[k], kind |-> kind[e[k]]]]
  PROVE  /\ rows \in Seq(SheetRow) /\ Len(rows) = Len(e)
         /\ \A j \in 1 .. Len(e) : rows[j].row = e[j]
<1>1. PICK n : n = Len(e)
  OBVIOUS
<1>2. n \in Nat /\ DOMAIN e = 1 .. n /\ \A k \in 1 .. n : e[k] \in RowNumbers
  BY <1>1, LenProperties, ElementOfSeq
<1>3. rows \in [1 .. n -> SheetRow] /\ \A j \in 1 .. n : rows[j].row = e[j]
  <2>1. \A k \in 1 .. n : [row |-> e[k], kind |-> kind[e[k]]] \in SheetRow
    BY <1>2 DEF SheetRow
  <2> QED
    BY <1>2, <2>1
<1>4. rows \in Seq(SheetRow) /\ Len(rows) = n
  BY <1>2, <1>3, SeqDef, LenProperties
<1> QED
  BY <1>1, <1>3, <1>4

\* The rows that were reported to a client are in order, and no more than the
\* sheet before had.
LEMMA ReportedSheet ==
  ASSUME Core, NEW c \in Busy, NEW kind \in [RowNumbers -> Kinds],
         NEW rows, rows = [k \in DOMAIN req[c].errors |->
                             [row |-> req[c].errors[k], kind |-> kind[req[c].errors[k]]]]
  PROVE  /\ rows \in Seq(SheetRow) /\ Len(rows) <= Size
         /\ \A j, k \in 1 .. Len(rows) : j < k => rows[j].row < rows[k].row
<1>1. PICK e \in Seq(RowNumbers) : e = req[c].errors
  BY BusyFields DEF Core
<1>2. PICK n \in Nat : n = Len(e)
  BY LenProperties
<1>3. rows = [k \in DOMAIN e |-> [row |-> e[k], kind |-> kind[e[k]]]]
  BY <1>1
<1>4. /\ rows \in Seq(SheetRow) /\ Len(rows) = Len(e)
      /\ \A j \in 1 .. Len(e) : rows[j].row = e[j]
  BY ONLY <1>3, e \in Seq(RowNumbers), kind \in [RowNumbers -> Kinds], ReportedRows
<1>5. rows \in Seq(SheetRow) /\ Len(rows) = n /\ \A j \in 1 .. n : rows[j].row = e[j]
  BY ONLY <1>2, <1>4
<1>6. n <= Size
  <2>1. PICK p : p = req[c]
    OBVIOUS
  <2>2. n + p.added < p.at /\ p.at <= Len(p.rows) + 1 /\ Len(p.rows) <= Size
    BY <1>1, <1>2, <2>1 DEF Core, RequestsSound, InPlace
  <2>3. p.added \in Nat /\ p.at \in Nat /\ Len(p.rows) \in Nat /\ Size \in Nat
    BY <2>1, BusyFields, UploadAssumption DEF Core
  <2>4. PICK x, y, z : x = p.added /\ y = p.at /\ z = Len(p.rows)
    OBVIOUS
  <2> QED
    BY ONLY <2>2, <2>3, <2>4, n \in Nat
<1>7. \A j, k \in 1 .. n : j < k => e[j] < e[k]
  BY <1>1, <1>2 DEF Core, RequestsSound, Ordered
<1> QED
  BY <1>1, <1>2, <1>5, <1>6, <1>7

\* The loop is done with a row: what it counts and reports now.
Moved(q, added, errors) == [q EXCEPT !.at = @ + 1, !.added = added, !.errors = errors]

\* A row is skipped or added, or it is reported.
Outcome(c, added, errors) ==
  \/ errors = req[c].errors /\ added \in {req[c].added, req[c].added + 1}
  \/ errors = Append(req[c].errors, Current(c).row) /\ added = req[c].added

\* What Core says of a request in its loop.
LEMMA LoopFields ==
  ASSUME Core, NEW c \in Clients, InLoop(c)
  PROVE  /\ c \in Busy /\ req[c] \in Request /\ InPlace(req[c]) /\ Ordered(req[c])
         /\ req[c].at \in 1 .. Len(req[c].rows) /\ req[c].at <= Size
         /\ Current(c) \in SheetRow /\ Current(c).row \in RowNumbers
<1>1. c \in Busy
  BY DEF InLoop, Busy
<1>2. /\ req[c] \in Request /\ req[c].rows \in Seq(SheetRow) /\ Len(req[c].rows) \in Nat
      /\ req[c].at \in 1 .. Size + 1
  BY <1>1, BusyFields DEF Core
<1>3. InPlace(req[c]) /\ Ordered(req[c])
  BY <1>1 DEF Core, RequestsSound
<1>4. req[c].at \in 1 .. Len(req[c].rows) /\ req[c].at <= Size
  BY <1>2, <1>3, UploadAssumption DEF InLoop, InPlace
<1>5. Current(c) \in SheetRow
  BY <1>2, <1>4, ElementOfSeq DEF Current
<1> QED
  BY <1>1, <1>2, <1>3, <1>4, <1>5 DEF SheetRow

\* A step of the loop leaves a sound request, one row further.
LEMMA MovedSound ==
  ASSUME Core, NEW c \in Clients, InLoop(c), NEW added, NEW errors,
         Outcome(c, added, errors),
         NEW q, q = Moved(req[c], added, errors)
  PROVE  /\ q \in Request /\ q # Idle /\ InPlace(q) /\ Ordered(q)
         /\ q.pc = "rows" /\ q.up = req[c].up /\ q.rows = req[c].rows
         /\ q.at = req[c].at + 1 /\ q.added = added /\ q.errors = errors
<1>1. PICK p : p = req[c]
  OBVIOUS
<1>2. /\ c \in Busy /\ p \in Request /\ InPlace(p) /\ Ordered(p)
      /\ p.at \in 1 .. Len(p.rows) /\ p.at <= Size /\ Current(c).row \in RowNumbers
      /\ p.pc = "rows"
  BY <1>1, LoopFields DEF InLoop
<1>3. /\ p.added \in 0 .. Size /\ p.errors \in Seq(RowNumbers) /\ Len(p.errors) \in Nat
      /\ p.rows \in Seq(SheetRow) /\ Len(p.rows) \in Nat /\ p.at \in 1 .. Size
  BY <1>1, <1>2, BusyFields, UploadAssumption DEF Core
<1>4. /\ q.pc = "rows" /\ q.up = p.up /\ q.rows = p.rows
      /\ q.at = p.at + 1 /\ q.added = added /\ q.errors = errors
  BY <1>1, <1>2 DEF Moved, Request
<1>5. errors \in Seq(RowNumbers) /\ Len(errors) \in Nat
      /\ Len(errors) + added < p.at + 1 /\ added \in 0 .. Size
  <2>1. Len(p.errors) + p.added < p.at
    BY <1>2 DEF InPlace
  <2>2. CASE errors = p.errors /\ added \in {p.added, p.added + 1}
    <3>1. Size \in Nat
      BY UploadAssumption
    <3>2. added \in Nat /\ added <= p.added + 1
      BY <1>3, <2>2
    <3> QED
      BY ONLY <1>3, <2>1, <2>2, <3>1, <3>2
  <2>3. CASE errors = Append(p.errors, Current(c).row) /\ added = p.added
    <3>1. errors \in Seq(RowNumbers) /\ Len(errors) = Len(p.errors) + 1
      BY <1>2, <1>3, <2>3, AppendProperties
    <3> QED
      BY <1>3, <2>1, <2>3, <3>1
  <2> QED
    BY <1>1, <2>2, <2>3 DEF Outcome
<1>6. q \in Request
  <2>1. p.at + 1 \in 1 .. Size + 1
    BY <1>3, UploadAssumption
  <2> QED
    BY <1>1, <1>2, <1>5, <2>1 DEF Moved, Request
<1>7. q # Idle
  BY <1>4 DEF Idle
<1>8. InPlace(q)
  BY <1>2, <1>3, <1>4, <1>5 DEF InPlace
<1>9. Ordered(q)
  <2>1. \A j, k \in 1 .. Len(p.rows) : j < k => p.rows[j].row < p.rows[k].row
    BY <1>2 DEF Ordered
  <2>2. /\ \A j, k \in 1 .. Len(p.errors) : j < k => p.errors[j] < p.errors[k]
        /\ \A k \in 1 .. Len(p.errors) : \E j \in 1 .. p.at - 1 : p.rows[j].row = p.errors[k]
    BY <1>2 DEF Ordered
  <2>3. CASE errors = p.errors
    <3>1. 1 .. p.at - 1 \subseteq 1 .. (p.at + 1) - 1
      BY <1>3
    <3>2. \A k \in 1 .. Len(errors) : \E j \in 1 .. (p.at + 1) - 1 : p.rows[j].row = errors[k]
      BY <2>2, <2>3, <3>1
    <3> QED
      BY <1>4, <2>1, <2>2, <2>3, <3>2 DEF Ordered
  <2>4. CASE errors = Append(p.errors, Current(c).row)
    <3>1. PICK n : n = Len(p.errors)
      OBVIOUS
    <3>2. /\ n \in Nat /\ Len(errors) = n + 1 /\ errors[n + 1] = p.rows[p.at].row
          /\ \A k \in 1 .. n : errors[k] = p.errors[k]
      BY <1>1, <1>2, <1>3, <2>4, <3>1, AppendProperties DEF Current
    <3>3. \A k \in 1 .. n : errors[k] < p.rows[p.at].row
      <4> SUFFICES ASSUME NEW k \in 1 .. n PROVE errors[k] < p.rows[p.at].row
        OBVIOUS
      <4>1. PICK j \in 1 .. p.at - 1 : p.rows[j].row = errors[k]
        BY <2>2, <3>1, <3>2
      <4>2. j \in 1 .. Len(p.rows) /\ j < p.at
        BY <1>2, <1>3
      <4> QED
        BY <1>2, <2>1, <4>1, <4>2
    <3>4. \A j, k \in 1 .. n + 1 : j < k => errors[j] < errors[k]
      <4> SUFFICES ASSUME NEW j \in 1 .. n + 1, NEW k \in 1 .. n + 1, j < k
                   PROVE  errors[j] < errors[k]
        OBVIOUS
      <4>1. j \in 1 .. n /\ (k \in 1 .. n \/ k = n + 1)
        BY <3>2
      <4> QED
        BY <2>2, <3>1, <3>2, <3>3, <4>1
    <3>5. \A k \in 1 .. n + 1 : \E j \in 1 .. (p.at + 1) - 1 : p.rows[j].row = errors[k]
      <4> SUFFICES ASSUME NEW k \in 1 .. n + 1
                   PROVE  \E j \in 1 .. (p.at + 1) - 1 : p.rows[j].row = errors[k]
        OBVIOUS
      <4>1. CASE k = n + 1
        <5>1. p.at \in 1 .. (p.at + 1) - 1
          BY <1>3
        <5> QED
          BY <3>2, <4>1, <5>1
      <4>2. CASE k \in 1 .. n
        <5>1. PICK j \in 1 .. p.at - 1 : p.rows[j].row = p.errors[k]
          BY <2>2, <3>1, <4>2
        <5>2. j \in 1 .. (p.at + 1) - 1
          BY <1>3
        <5> QED
          BY <3>2, <4>2, <5>1, <5>2
      <4> QED
        BY <3>2, <4>1, <4>2
    <3> QED
      BY <1>4, <2>1, <3>2, <3>4, <3>5 DEF Ordered
  <2> QED
    BY <1>1, <2>3, <2>4 DEF Outcome
<1> QED
  BY <1>1, <1>4, <1>6, <1>7, <1>8, <1>9


\* What the steps of the loop make of their request.
LEMMA LoopSteps ==
  ASSUME Core, NEW c \in Clients
  PROVE  LET p == req[c]
             Next1(added, errors) == req' = [req EXCEPT ![c] = Moved(p, added, errors)]
         IN  /\ SkipBlank(c) => Next1(p.added, p.errors)
             /\ RefuseRow(c) => Next1(p.added, Append(p.errors, Current(c).row))
             /\ AddCalled(c) /\ Added(c) => Next1(p.added + 1, p.errors)
             /\ AddFails(c)  => Next1(p.added, Append(p.errors, Current(c).row))
<1> SUFFICES ASSUME InLoop(c)
             PROVE  LET p == req[c]
                        Next1(added, errors) == req' = [req EXCEPT ![c] = Moved(p, added, errors)]
                    IN  /\ SkipBlank(c) => Next1(p.added, p.errors)
                        /\ RefuseRow(c) => Next1(p.added, Append(p.errors, Current(c).row))
                        /\ AddCalled(c) /\ Added(c) => Next1(p.added + 1, p.errors)
                        /\ AddFails(c)  => Next1(p.added, Append(p.errors, Current(c).row))
  BY DEF SkipBlank, RefuseRow, AddCalled, AddFails
<1>1. req \in [Clients -> {Idle} \cup Request] /\ req[c] \in Request
  BY LoopFields DEF Core, TypeOK
<1>2. PICK p \in Request : p = req[c]
  BY <1>1
<1>3. /\ Moved(p, p.added, p.errors) = [p EXCEPT !.at = @ + 1]
      /\ \A e : Moved(p, p.added, e) = [p EXCEPT !.errors = e, !.at = @ + 1]
      /\ Moved(p, p.added + 1, p.errors) = [p EXCEPT !.added = @ + 1, !.at = @ + 1]
  BY DEF Moved, Request
<1>4. ASSUME SkipBlank(c) PROVE req' = [req EXCEPT ![c] = Moved(p, p.added, p.errors)]
  BY <1>1, <1>2, <1>3, <1>4 DEF SkipBlank
<1>5. ASSUME Reported(c)
      PROVE  req' = [req EXCEPT ![c] = Moved(p, p.added, Append(p.errors, Current(c).row))]
  BY <1>1, <1>2, <1>3, <1>5 DEF Reported
<1>6. ASSUME Added(c) PROVE req' = [req EXCEPT ![c] = Moved(p, p.added + 1, p.errors)]
  BY <1>1, <1>2, <1>3, <1>6 DEF Added
<1> QED
  BY <1>2, <1>4, <1>5, <1>6 DEF RefuseRow, AddFails

\* The answer leaves the request at the end of its sheet.
LEMMA Answered ==
  ASSUME Core, NEW c \in Clients, Answer(c)
  PROVE  LET q == [req[c] EXCEPT !.pc = "answered"]
         IN  /\ c \in Busy /\ req' = [req EXCEPT ![c] = q]
             /\ q \in Request /\ q # Idle /\ InPlace(q) /\ Ordered(q)
             /\ q.pc = "answered" /\ q.up = req[c].up /\ q.rows = req[c].rows
             /\ q.at = req[c].at /\ q.added = req[c].added /\ q.errors = req[c].errors
             /\ q.at = Len(q.rows) + 1
<1>1. c \in Busy
  BY DEF Answer, AtEnd, Busy
<1>2. PICK p \in Request : p = req[c]
  BY <1>1, BusyFields DEF Core
<1>3. PICK q : q = [p EXCEPT !.pc = "answered"]
  OBVIOUS
<1>4. req' = [req EXCEPT ![c] = q] /\ p.at > Len(p.rows)
  BY <1>2, <1>3 DEF Answer, AtEnd
<1>5. /\ q.pc = "answered" /\ q.up = p.up /\ q.rows = p.rows /\ q.at = p.at
      /\ q.added = p.added /\ q.errors = p.errors
  BY <1>3 DEF Request
<1>6. q \in Request /\ q # Idle
  BY <1>3, <1>5 DEF Request, Idle
<1>7. p.at \in Nat /\ Len(p.rows) \in Nat /\ InPlace(p) /\ Ordered(p)
  BY <1>1, <1>2, BusyFields, UploadAssumption DEF Core, RequestsSound
<1>8. q.at = Len(q.rows) + 1 /\ InPlace(q)
  BY <1>4, <1>5, <1>7 DEF InPlace
<1>9. Ordered(q)
  BY <1>5, <1>7 DEF Ordered
<1> QED
  BY <1>1, <1>2, <1>3, <1>4, <1>5, <1>6, <1>8, <1>9

\* A crash ends the requests in the loop and leaves the answered ones.
LEMMA Crashed ==
  ASSUME Core, Crash
  PROVE  /\ req' \in [Clients -> {Idle} \cup Request]
         /\ \A c \in Clients : req'[c] = IF req[c].pc = "rows" THEN Idle ELSE req[c]
         /\ \A c \in Busy' : c \in Busy /\ req[c].pc = "answered" /\ req'[c] = req[c]
<1>1. req \in [Clients -> {Idle} \cup Request]
  BY DEF Core, TypeOK
<1>2. \A c \in Clients : req'[c] = IF req[c].pc = "rows" THEN Idle ELSE req[c]
  BY DEF Crash
<1>3. req' \in [Clients -> {Idle} \cup Request]
  BY <1>1 DEF Crash
<1>4. \A c \in Busy' : c \in Busy /\ req[c].pc # "rows" /\ req'[c] = req[c]
  BY <1>2 DEF Busy, Idle
<1> QED
  BY <1>2, <1>3, <1>4, BusyFields DEF Core

\* How often a row number occurs in a list of them.
LEMMA TimesType ==
  ASSUME NEW s \in Seq(RowNumbers), NEW n
  PROVE  /\ Times(n, s) \in Nat
         /\ \A m \in RowNumbers : Times(n, Append(s, m)) = Times(n, s) + (IF m = n THEN 1 ELSE 0)
<1>1. PICK K : K = {k \in DOMAIN s : s[k] = n}
  OBVIOUS
<1>2. IsFiniteSet(K) /\ Len(s) \in Nat /\ DOMAIN s = 1 .. Len(s)
  BY <1>1, LenProperties, FS_Interval, FS_Subset
<1>3. Times(n, s) = Cardinality(K) /\ Cardinality(K) \in Nat
  BY <1>1, <1>2, FS_CardinalityType DEF Times
<1>4. ASSUME NEW m \in RowNumbers
      PROVE  Times(n, Append(s, m)) = Times(n, s) + (IF m = n THEN 1 ELSE 0)
  <2>1. PICK z : z = Append(s, m)
    OBVIOUS
  <2>2. /\ DOMAIN z = 1 .. Len(s) + 1 /\ z[Len(s) + 1] = m
        /\ \A k \in 1 .. Len(s) : z[k] = s[k]
    BY <2>1, AppendProperties, LenProperties
  <2>3. Len(s) + 1 \notin K
    BY <1>1, <1>2
  <2>4. PICK Z : Z = {k \in DOMAIN z : z[k] = n}
    OBVIOUS
  <2>5. Times(n, z) = Cardinality(Z)
    BY <2>4 DEF Times
  <2>6. Cardinality(K \cup {Len(s) + 1}) = Cardinality(K) + 1
    BY <1>2, <2>3, FS_AddElement
  <2>7. CASE m = n
    <3>1. Z = K \cup {Len(s) + 1}
      BY <1>1, <1>2, <2>2, <2>4, <2>7
    <3> QED
      BY <1>3, <2>1, <2>5, <2>6, <2>7, <3>1
  <2>8. CASE m # n
    <3>1. Z = K
      BY <1>1, <1>2, <2>2, <2>4, <2>8
    <3> QED
      BY <1>3, <2>1, <2>5, <2>8, <3>1
  <2> QED
    BY <2>7, <2>8
<1> QED
  BY <1>3, <1>4

\* In no list, no row number.
LEMMA TimesNone == \A n : Times(n, <<>>) = 0
<1>1. \A n : {k \in DOMAIN <<>> : <<>>[k] = n} = {}
  OBVIOUS
<1> QED
  BY <1>1, FS_EmptySet DEF Times

\* What a request holds of a row is a number.
LEMMA OutstandingType ==
  ASSUME NEW q \in {Idle} \cup Request, NEW n
  PROVE  /\ Outstanding(q, n) \in Nat
         /\ q \in Request => IsFiniteSet(ToCome(q, n)) /\ Cardinality(ToCome(q, n)) \in Nat
<1>1. CASE q = Idle
  <2>1. q.pc = "idle"
    BY <1>1 DEF Idle
  <2>2. q \notin Request /\ Outstanding(q, n) = 0
    BY <2>1 DEF Outstanding, Request
  <2> QED
    BY <2>2
<1>2. CASE q \in Request
  <2>1. q.rows \in Seq(SheetRow) /\ Len(q.rows) \in Nat /\ q.at \in Int /\ q.errors \in Seq(RowNumbers)
    BY <1>2, LenProperties, UploadAssumption DEF Request
  <2>2. IsFiniteSet(q.at .. Len(q.rows))
    BY <2>1, FS_Interval
  <2>3. IsFiniteSet(ToCome(q, n))
    BY <2>2, FS_Subset DEF ToCome
  <2>4. Cardinality(ToCome(q, n)) \in Nat /\ Times(n, q.errors) \in Nat
    BY <2>1, <2>3, FS_CardinalityType, TimesType
  <2> QED
    BY <2>3, <2>4 DEF Outstanding
<1> QED
  BY <1>1, <1>2


-----------------------------------------------------------------------------
(* Types, and what the loop knows of its own sheet.                        *)

\* When the store is new nobody has sent anything.
LEMMA InitCore == Init => Core
<1> SUFFICES ASSUME Init PROVE Core
  OBVIOUS
<1>1. table \in Seq(TableRow) /\ Len(table) = 0
  BY EmptySeq DEF Init
<1>2. TypeOK
  BY <1>1, UploadAssumption DEF Init, TypeOK
<1>3. Busy = {}
  BY DEF Init, Busy, Idle
<1> QED
  BY <1>1, <1>2, <1>3 DEF Core, RequestsSound, UploadsApart

\* No step makes a request unsound.
LEMMA NextCore == Core /\ [Next]_vars => Core'
<1> SUFFICES ASSUME Core, [Next]_vars PROVE Core'
  OBVIOUS
<1>t. TypeOK /\ RequestsSound /\ UploadsApart
  BY DEF Core
<1>n. /\ sent \in [RowNumbers -> Nat] /\ dropped \in [RowNumbers -> Nat]
      /\ forms \in 0 .. MaxForms /\ faults \in 0 .. MaxFaults /\ sends \in 0 .. MaxSends
      /\ gone \subseteq DOMAIN table /\ readable \in BOOLEAN
      /\ MaxForms \in Nat /\ MaxFaults \in Nat
  BY <1>t, UploadAssumption DEF TypeOK
<1>1. ASSUME NEW c \in Clients, NEW kind \in [RowNumbers -> Kinds], Send(c, kind) PROVE Core'
  <2>1. PICK rows : rows = [n \in RowNumbers |-> [row |-> n, kind |-> kind[n]]]
    OBVIOUS
  <2>2. PICK q : q = Upload(rows)
    OBVIOUS
  <2>3. req' = [req EXCEPT ![c] = q] /\ sends < MaxSends /\ sends' = sends + 1
    BY <1>1, <2>1, <2>2 DEF Send
  <2>4. rows \in Seq(SheetRow) /\ Len(rows) = Size /\ \A j, k \in 1 .. Len(rows) : j < k => rows[j].row < rows[k].row
    BY <2>1, WholeSheet
  <2>5. q \in Request /\ InPlace(q) /\ Ordered(q) /\ q.up = sends + 1
    BY <1>t, <2>2, <2>3, <2>4, SheetSent, UploadAssumption
  <2>6. sent' \in [RowNumbers -> Nat]
    BY <1>n, <1>1 DEF Send
  <2>7. /\ table' = table /\ dropped' = dropped /\ forms' = forms /\ faults' = faults
        /\ gone' = gone /\ readable' = readable
    BY <1>1 DEF Send
  <2> QED
    BY <1>n, <2>3, <2>5, <2>6, <2>7, OneRequest
<1>2. ASSUME NEW c \in Clients, NEW kind \in [RowNumbers -> Kinds], Correct(c, kind) PROVE Core'
  <2>1. PICK rows : rows = [k \in DOMAIN req[c].errors |->
                             [row |-> req[c].errors[k], kind |-> kind[req[c].errors[k]]]]
    OBVIOUS
  <2>2. PICK q : q = Upload(rows)
    OBVIOUS
  <2>3. c \in Busy /\ req' = [req EXCEPT ![c] = q] /\ sends < MaxSends /\ sends' = sends + 1
    BY <1>2, <2>1, <2>2 DEF Correct, Busy
  <2>4. rows \in Seq(SheetRow) /\ Len(rows) <= Size /\ \A j, k \in 1 .. Len(rows) : j < k => rows[j].row < rows[k].row
    BY <2>1, <2>3, ReportedSheet
  <2>5. q \in Request /\ InPlace(q) /\ Ordered(q) /\ q.up = sends + 1
    BY <1>t, <2>2, <2>3, <2>4, SheetSent
  <2>6. /\ table' = table /\ sent' = sent /\ dropped' = dropped /\ forms' = forms /\ faults' = faults
        /\ gone' = gone /\ readable' = readable
    BY <1>2 DEF Correct
  <2> QED
    BY <1>n, <2>3, <2>5, <2>6, OneRequest
<1>3. ASSUME NEW c \in Clients, GiveUp(c) PROVE Core'
  <2>1. c \in Busy /\ req' = [req EXCEPT ![c] = Idle] /\ sends' = sends /\ table' = table
    BY <1>3 DEF GiveUp, Busy
  <2>2. req[c].errors \in Seq(RowNumbers)
    BY <1>t, <2>1, BusyFields
  <2>3. \A n \in RowNumbers : dropped[n] + Times(n, req[c].errors) \in Nat
    BY <1>n, <2>2, TimesType
  <2>4. /\ dropped' \in [RowNumbers -> Nat] /\ sent' = sent /\ forms' = forms /\ faults' = faults
        /\ gone' = gone /\ readable' = readable
    BY <1>3, <2>3 DEF GiveUp
  <2> QED
    BY <1>n, <2>1, <2>4, OneRequest
<1>4. ASSUME NEW c \in Clients, InLoop(c), NEW added, NEW errors,
             req' = [req EXCEPT ![c] = Moved(req[c], added, errors)],
             Outcome(c, added, errors),
             \/ table' = table
             \/ table' = Append(table, [row |-> Current(c).row, up |-> req[c].up]),
             gone' \subseteq DOMAIN table', readable' \in BOOLEAN,
             sends' = sends, sent' = sent, dropped' = dropped, forms' = forms,
             faults' \in 0 .. MaxFaults
      PROVE  Core'
  <2>1. c \in Busy /\ Current(c).row \in RowNumbers
    BY <1>4, LoopFields
  <2>2. PICK q : q = Moved(req[c], added, errors)
    OBVIOUS
  <2>3. q \in Request /\ InPlace(q) /\ Ordered(q) /\ q.up = req[c].up
    BY <1>4, <2>2, MovedSound
  <2>4. PICK new : new = [row |-> Current(c).row, up |-> req[c].up]
    OBVIOUS
  <2>5. new \in TableRow /\ new.up <= sends
    <3>1. req[c].up \in Nat /\ req[c].up <= sends
      BY <1>t, <2>1, BusyFields, UploadAssumption DEF UploadsApart
    <3> QED
      BY <2>1, <2>4, <3>1 DEF TableRow
  <2>6. /\ sent' \in [RowNumbers -> Nat] /\ dropped' \in [RowNumbers -> Nat]
        /\ forms' \in 0 .. MaxForms /\ sends' = sends
    BY <1>n, <1>4
  <2>7. table' = table \/ \E row \in TableRow : row.up <= sends /\ table' = Append(table, row)
    BY <1>4, <2>4, <2>5
  <2> QED
    BY <1>4, <2>1, <2>2, <2>3, <2>6, <2>7, OneRequest
<1>5. ASSUME NEW c \in Clients, SkipBlank(c) PROVE Core'
  <2>1. InLoop(c) /\ req' = [req EXCEPT ![c] = Moved(req[c], req[c].added, req[c].errors)]
    BY <1>5, LoopSteps DEF SkipBlank
  <2>2. /\ table' = table
        /\ sends' = sends /\ sent' = sent /\ dropped' = dropped /\ forms' = forms
        /\ gone' \subseteq DOMAIN table' /\ readable' \in BOOLEAN
        /\ faults' \in 0 .. MaxFaults
    BY <1>n, <1>5 DEF SkipBlank
  <2>3. Outcome(c, req[c].added, req[c].errors)
    BY DEF Outcome
  <2> QED
    BY <1>4, <2>1, <2>2, <2>3
<1>6. ASSUME NEW c \in Clients, RefuseRow(c) PROVE Core'
  <2>1. InLoop(c) /\ req' = [req EXCEPT ![c] = Moved(req[c], req[c].added, Append(req[c].errors, Current(c).row))]
    BY <1>6, LoopSteps DEF RefuseRow
  <2>2. /\ table' = table
        /\ sends' = sends /\ sent' = sent /\ dropped' = dropped /\ forms' = forms
        /\ gone' \subseteq DOMAIN table' /\ readable' \in BOOLEAN
        /\ faults' \in 0 .. MaxFaults
    BY <1>n, <1>6 DEF RefuseRow
  <2>3. Outcome(c, req[c].added, Append(req[c].errors, Current(c).row))
    BY DEF Outcome
  <2> QED
    BY <1>4, <2>1, <2>2, <2>3
<1>7. ASSUME NEW c \in Clients, AddRow(c) \/ AddRowCut(c) PROVE Core'
  <2>1. InLoop(c) /\ req' = [req EXCEPT ![c] = Moved(req[c], req[c].added + 1, req[c].errors)]
    BY <1>7, LoopSteps DEF AddRow, AddRowCut, AddCalled
  <2>2. /\ table' = Append(table, [row |-> Current(c).row, up |-> req[c].up])
        /\ sends' = sends /\ sent' = sent /\ dropped' = dropped /\ forms' = forms
    BY <1>7 DEF AddRow, AddRowCut, Added
  <2>3. Outcome(c, req[c].added + 1, req[c].errors)
    BY DEF Outcome
  <2>4. PICK new \in TableRow : new = [row |-> Current(c).row, up |-> req[c].up]
    <3>1. req[c].up \in Nat /\ Current(c).row \in RowNumbers
      BY <1>t, <2>1, LoopFields, BusyFields, UploadAssumption
    <3> QED
      BY <3>1 DEF TableRow
  <2>5. UNCHANGED <<gone, readable, faults>> \/ WriteCut(Len(table) + 1)
    BY <1>7 DEF AddRow, AddRowCut, Unhurt
  <2>6. gone' \subseteq DOMAIN table' /\ readable' \in BOOLEAN /\ faults' \in 0 .. MaxFaults
    <3>1. Len(table) + 1 \in Nat /\ table' = Append(table, new)
      BY <1>t, <2>2, <2>4, LenProperties DEF TypeOK
    <3> QED
      BY <1>t, <2>5, <3>1, FileKept
  <2> QED
    BY <1>4, <2>1, <2>2, <2>3, <2>6
<1>f. PICK row \in TableRow : row = [row |-> 0, up |-> 0]
  BY DEF TableRow
<1>8. ASSUME NEW c \in Clients, AddFails(c) PROVE Core'
  <2>1. InLoop(c) /\ req' = [req EXCEPT ![c] = Moved(req[c], req[c].added, Append(req[c].errors, Current(c).row))]
    BY <1>8, LoopSteps DEF AddFails, AddCalled
  <2>2. /\ table' = table
        /\ sends' = sends /\ sent' = sent /\ dropped' = dropped /\ forms' = forms
    BY <1>8 DEF AddFails
  <2>3. Outcome(c, req[c].added, Append(req[c].errors, Current(c).row))
    BY DEF Outcome
  <2>4. \/ UNCHANGED <<gone, readable, faults>> \/ (Fault /\ UNCHANGED <<gone, readable>>)
        \/ WriteCut(Len(table))
    BY <1>8 DEF AddFails, AddRefused, Unhurt
  <2>5. gone' \subseteq DOMAIN table' /\ readable' \in BOOLEAN /\ faults' \in 0 .. MaxFaults
    <3>1. Len(table) \in Nat
      BY <1>t, LenProperties DEF TypeOK
    <3> QED
      BY <1>t, <1>f, <2>2, <2>4, <3>1, FileKept
  <2> QED
    BY <1>4, <2>1, <2>2, <2>3, <2>5
<1>9. ASSUME NEW c \in Clients, Answer(c) PROVE Core'
  <2>1. PICK q : q = [req[c] EXCEPT !.pc = "answered"]
    OBVIOUS
  <2>2. c \in Busy /\ req' = [req EXCEPT ![c] = q] /\ q \in Request /\ InPlace(q) /\ Ordered(q) /\ q.up = req[c].up
    BY <1>9, <2>1, Answered
  <2>3. UNCHANGED <<table, gone, readable, sends, sent, dropped, forms, faults>>
    BY <1>9 DEF Answer
  <2> QED
    BY <1>n, <2>2, <2>3, OneRequest
<1>13. ASSUME NEW c \in Clients, AnswerFails(c) PROVE Core'
  <2>1. /\ c \in Busy /\ req' = [req EXCEPT ![c] = Idle] /\ sends' = sends /\ table' = table
        /\ gone' = gone /\ readable' = readable
    BY <1>13 DEF AnswerFails, AtEnd, Busy
  <2>2. req[c].errors \in Seq(RowNumbers)
    BY <1>t, <2>1, BusyFields
  <2>3. \A n \in RowNumbers : dropped[n] + Times(n, req[c].errors) \in Nat
    BY <1>n, <2>2, TimesType
  <2>4. dropped' \in [RowNumbers -> Nat] /\ sent' = sent /\ forms' = forms
    BY <1>13, <2>3 DEF AnswerFails
  <2>5. faults' \in 0 .. MaxFaults
    BY <1>n, <1>13 DEF AnswerFails, Fault
  <2> QED
    BY <1>n, <2>1, <2>4, <2>5, OneRequest
<1>10. ASSUME Add PROVE Core'
  <2>1. [row |-> 0, up |-> 0] \in TableRow /\ [row |-> 0, up |-> 0].up <= sends
    BY <1>n DEF TableRow
  <2>2. PICK new : new = [row |-> 0, up |-> 0]
    OBVIOUS
  <2>3. /\ table' \in Seq(TableRow) /\ Len(table') = Len(table) + 1 /\ Len(table) \in Nat
        /\ \A k \in 1 .. Len(table) : table'[k] = table[k]
        /\ table'[Len(table) + 1] = new
    BY <1>t, <1>10, <2>1, <2>2, RowAppended DEF Add
  <2>4. forms' \in 0 .. MaxForms /\ UNCHANGED <<req, sends, sent, dropped>>
    BY <1>n, <1>10 DEF Add
  <2>5. gone' \subseteq DOMAIN table' /\ readable' \in BOOLEAN /\ faults' \in 0 .. MaxFaults
    <3>1. table' = Append(table, new) /\ new \in TableRow /\ Len(table) + 1 \in Nat
      BY <1>10, <2>1, <2>2, <2>3 DEF Add
    <3>2. UNCHANGED <<gone, readable, faults>> \/ WriteCut(Len(table) + 1)
      BY <1>10 DEF Add, Unhurt
    <3> QED
      BY <1>t, <3>1, <3>2, FileKept
  <2>6. TypeOK'
    BY <1>t, <2>3, <2>4, <2>5 DEF TypeOK
  <2>7. \A k \in 1 .. Len(table') : table'[k].up <= sends'
    <3>1. \A k \in 1 .. Len(table') : k \in 1 .. Len(table) \/ k = Len(table) + 1
      BY <2>3
    <3>2. new.up <= sends
      BY <2>1, <2>2
    <3> QED
      BY <1>t, <2>3, <2>4, <3>1, <3>2 DEF UploadsApart
  <2> QED
    BY <1>t, <2>4, <2>6, <2>7 DEF Core, RequestsSound, UploadsApart, Busy
<1>11. ASSUME Crash PROVE Core'
  <2>1. /\ req' \in [Clients -> {Idle} \cup Request]
        /\ \A c \in Busy' : c \in Busy /\ req'[c] = req[c]
    BY <1>11, Crashed
  <2>2. PICK cut : cut = {c \in Clients : req[c].pc = "rows"}
    OBVIOUS
  <2>3. ASSUME NEW n \in RowNumbers
        PROVE  Total([c \in cut |-> Outstanding(req[c], n)]) \in Nat
    <3>1. PICK f : f = [c \in cut |-> Outstanding(req[c], n)]
      OBVIOUS
    <3>2. IsFiniteSet(cut)
      BY <2>2, FS_Subset, UploadAssumption
    <3>3. \A c \in cut : Outstanding(req[c], n) \in Nat
      BY <1>t, <2>2, OutstandingType DEF TypeOK
    <3>4. f \in [cut -> Nat]
      BY <3>1, <3>3
    <3> QED
      BY <3>1, <3>2, <3>4, TotalType
  <2>4. dropped' = [n \in RowNumbers |-> dropped[n] + Total([c \in cut |-> Outstanding(req[c], n)])]
    BY <1>11, <2>2 DEF Crash
  <2>5. dropped' \in [RowNumbers -> Nat]
    BY <1>n, <2>3, <2>4
  <2>6. UNCHANGED <<table, sends, sent, forms>>
    BY <1>11 DEF Crash
  <2>7. gone' \subseteq DOMAIN table' /\ readable' \in BOOLEAN /\ faults' \in 0 .. MaxFaults
    <3>1. Len(table) \in Nat
      BY <1>t, LenProperties DEF TypeOK
    <3>2. WriteCut(Len(table)) \/ (Fault /\ UNCHANGED <<gone, readable>>)
      BY <1>11 DEF Crash
    <3> QED
      BY <1>t, <1>f, <2>6, <3>1, <3>2, FileKept
  <2>8. TypeOK'
    BY <1>t, <2>1, <2>5, <2>6, <2>7 DEF TypeOK
  <2> QED
    BY <1>t, <2>1, <2>6, <2>8 DEF Core, RequestsSound, UploadsApart
<1>12. CASE UNCHANGED vars
  BY <1>t, <1>12 DEF vars, Core, TypeOK, RequestsSound, UploadsApart, Busy
<1> QED
  BY <1>1, <1>2, <1>3, <1>5, <1>6, <1>7, <1>8, <1>9, <1>10, <1>11, <1>12, <1>13 DEF Next, Proceed

\* Core holds of every reachable state.
THEOREM CoreInvariant == Spec => []Core
BY InitCore, NextCore, PTL DEF Spec

\* No sheet, however long, and no failure takes the loop past the end of its
\* rows, or its numbers out of those that were sent.
THEOREM UploadTypes == Spec => []TypeOK
<1>1. Core => TypeOK
  BY DEF Core
<1> QED
  BY <1>1, CoreInvariant, PTL


-----------------------------------------------------------------------------
(* The books.                                                              *)

\* One or none.
Unit(P) == IF P THEN 1 ELSE 0

\* A step past a row takes it out of what is to come.
LEMMA MovedOutstanding ==
  ASSUME Core, NEW c \in Clients, InLoop(c), NEW added, NEW errors,
         Outcome(c, added, errors), NEW q, q = Moved(req[c], added, errors), NEW n
  PROVE  Outstanding(q, n) - Times(n, errors)
           = Outstanding(req[c], n) - Times(n, req[c].errors)
               - Unit(Current(c).row = n /\ Current(c).kind # "blank")
<1>1. PICK p : p = req[c]
  OBVIOUS
<1>2. /\ p \in Request /\ p.pc = "rows" /\ p.at \in 1 .. Len(p.rows)
      /\ p.rows \in Seq(SheetRow) /\ Len(p.rows) \in Nat /\ p.errors \in Seq(RowNumbers)
  BY <1>1, LoopFields, LenProperties DEF InLoop, Request
<1>3. q \in Request /\ q.pc = "rows" /\ q.rows = p.rows /\ q.at = p.at + 1 /\ q.errors = errors
  BY <1>1, MovedSound
<1>4. PICK A, B : A = ToCome(p, n) /\ B = ToCome(q, n)
  OBVIOUS
<1>5. IsFiniteSet(A) /\ IsFiniteSet(B) /\ Cardinality(A) \in Nat /\ Cardinality(B) \in Nat
  BY <1>2, <1>3, <1>4, OutstandingType
<1>6. /\ Outstanding(p, n) = Cardinality(A) + Times(n, p.errors)
      /\ Outstanding(q, n) = Cardinality(B) + Times(n, errors)
  BY <1>2, <1>3, <1>4 DEF Outstanding
<1>7. Times(n, p.errors) \in Nat /\ Times(n, errors) \in Nat
  BY <1>2, <1>3, TimesType DEF Request
<1>8. PICK hit \in BOOLEAN : hit <=> p.rows[p.at].row = n /\ p.rows[p.at].kind # "blank"
  OBVIOUS
<1>9. A = IF hit THEN B \cup {p.at} ELSE B
  <2>1. p.at .. Len(p.rows) = {p.at} \cup (p.at + 1 .. Len(p.rows))
    BY <1>2
  <2>2. \A k : k \in A <=> k \in p.at .. Len(p.rows) /\ p.rows[k].row = n /\ p.rows[k].kind # "blank"
    BY <1>4 DEF ToCome
  <2>3. \A k : k \in B <=> k \in p.at + 1 .. Len(p.rows) /\ p.rows[k].row = n /\ p.rows[k].kind # "blank"
    BY <1>3, <1>4 DEF ToCome
  <2>4. CASE hit
    BY <1>8, <2>1, <2>2, <2>3, <2>4
  <2>5. CASE ~hit
    BY <1>8, <2>1, <2>2, <2>3, <2>5
  <2> QED
    BY <2>4, <2>5
<1>10. p.at \notin B
  BY <1>2, <1>3, <1>4 DEF ToCome
<1>11. Cardinality(A) = Cardinality(B) + Unit(hit)
  <2>1. Cardinality(B \cup {p.at}) = Cardinality(B) + 1
    BY <1>5, <1>10, FS_AddElement
  <2> QED
    BY <1>5, <1>9, <2>1 DEF Unit
<1>12. Unit(Current(c).row = n /\ Current(c).kind # "blank") = Unit(hit) /\ Unit(hit) \in Nat
  BY <1>1, <1>8 DEF Unit, Current
<1> QED
  BY <1>1, <1>5, <1>6, <1>7, <1>11, <1>12

\* A sheet that was sent holds each of its rows that is not blank once ...
LEMMA SentOutstanding ==
  ASSUME TypeOK, sends < MaxSends, NEW kind \in [RowNumbers -> Kinds], NEW n \in RowNumbers,
         NEW q, q = Upload([m \in RowNumbers |-> [row |-> m, kind |-> kind[m]]])
  PROVE  Outstanding(q, n) = IF kind[n] = "blank" THEN 0 ELSE 1
<1>1. PICK rows : rows = [m \in RowNumbers |-> [row |-> m, kind |-> kind[m]]]
  OBVIOUS
<1>2. /\ rows \in Seq(SheetRow) /\ Len(rows) = Size
      /\ \A j \in 1 .. Size : rows[j].row = j /\ rows[j].kind = kind[j]
      /\ \A j, k \in 1 .. Len(rows) : j < k => rows[j].row < rows[k].row
  BY <1>1, WholeSheet
<1>3. q.pc = "rows" /\ q.rows = rows /\ q.at = 1 /\ q.errors = <<>>
  <2>1. Size <= Size /\ q = Upload(rows)
    BY <1>1, UploadAssumption
  <2> QED
    BY <1>2, <2>1, SheetSent
<1>4. ToCome(q, n) = IF kind[n] = "blank" THEN {} ELSE {n}
  <2>1. \A k : k \in ToCome(q, n) <=> k \in 1 .. Size /\ rows[k].row = n /\ rows[k].kind # "blank"
    BY <1>2, <1>3 DEF ToCome
  <2>2. \A k : k \in ToCome(q, n) <=> k = n /\ kind[n] # "blank"
    BY <1>2, <2>1 DEF RowNumbers
  <2> QED
    BY <2>2
<1>5. Outstanding(q, n) = Cardinality(ToCome(q, n)) + Times(n, q.errors)
  BY <1>3 DEF Outstanding
<1>6. Times(n, q.errors) = 0 /\ Cardinality({}) = 0 /\ Cardinality({n}) = 1
  BY <1>3, TimesNone, FS_EmptySet, FS_Singleton
<1> QED
  BY <1>4, <1>5, <1>6

\* ... and one of reported rows, none of them blank, holds what was reported.
LEMMA RowsOutstanding ==
  ASSUME NEW e \in Seq(RowNumbers), NEW rows, rows \in Seq(SheetRow), Len(rows) = Len(e),
         \A j \in 1 .. Len(rows) : rows[j].row = e[j],
         \A k \in DOMAIN rows : rows[k].kind # "blank",
         NEW q, q.pc = "rows", q.rows = rows, q.at = 1, q.errors = <<>>, NEW n
  PROVE  Outstanding(q, n) = Times(n, e)
<1>1. DOMAIN e = 1 .. Len(e) /\ DOMAIN rows = 1 .. Len(rows)
  BY LenProperties
<1>2. PICK A : A = ToCome(q, n)
  OBVIOUS
<1>3. \A k : k \in A <=> k \in 1 .. Len(rows) /\ rows[k].row = n /\ rows[k].kind # "blank"
  BY ONLY <1>2, q.rows = rows, q.at = 1 DEF ToCome
<1>4. \A k : k \in A <=> k \in DOMAIN e /\ e[k] = n
  BY ONLY <1>1, <1>3, Len(rows) = Len(e), \A j \in 1 .. Len(rows) : rows[j].row = e[j],
          \A k \in DOMAIN rows : rows[k].kind # "blank"
<1>5. A = {k \in DOMAIN e : e[k] = n}
  BY ONLY <1>4
<1>6. Cardinality(A) = Times(n, e)
  BY ONLY <1>5 DEF Times
<1>7. Outstanding(q, n) = Cardinality(A) + Times(n, <<>>)
  BY ONLY <1>2, q.pc = "rows", q.errors = <<>> DEF Outstanding
<1>8. Times(n, e) \in Nat /\ Times(n, <<>>) = 0
  BY TimesType, TimesNone
<1> QED
  BY ONLY <1>6, <1>7, <1>8

\* When one request changes, the total changes by what it gains.
LEMMA TotalOfOne ==
  ASSUME TypeOK, NEW c \in Clients, NEW q \in {Idle} \cup Request,
         req' = [req EXCEPT ![c] = q], NEW n
  PROVE  /\ TotalOutstanding(n) \in Nat /\ TotalOutstanding(n)' \in Nat
         /\ Outstanding(req[c], n) \in Nat /\ Outstanding(q, n) \in Nat
         /\ TotalOutstanding(n)' = TotalOutstanding(n) - Outstanding(req[c], n) + Outstanding(q, n)
<1>1. PICK f : f = [d \in Clients |-> Outstanding(req[d], n)]
  OBVIOUS
<1>2. PICK g : g = [d \in Clients |-> IF d = c THEN Outstanding(q, n) ELSE Outstanding(req[d], n)]
  OBVIOUS
<1>3. req \in [Clients -> {Idle} \cup Request]
  BY DEF TypeOK
<1>4. \A d \in Clients : Outstanding(req[d], n) \in Nat
  BY <1>3, OutstandingType
<1>5. Outstanding(q, n) \in Nat
  BY OutstandingType
<1>6. f \in [Clients -> Nat] /\ g \in [Clients -> Nat] /\ \A d \in Clients \ {c} : g[d] = f[d]
  BY <1>1, <1>2, <1>4, <1>5
<1>7. Total(g) = Total(f) - f[c] + g[c] /\ Total(f) \in Nat /\ Total(g) \in Nat
  BY <1>6, UploadAssumption, TotalUpdate, TotalType
<1>8. [d \in Clients |-> Outstanding(req'[d], n)] = g
  BY <1>2, <1>3
<1>9. TotalOutstanding(n) = Total(f) /\ TotalOutstanding(n)' = Total(g)
  BY <1>1, <1>8 DEF TotalOutstanding
<1> QED
  BY <1>1, <1>2, <1>4, <1>5, <1>7, <1>9

\* The rows n that were added, gone or not.
Copies(n) == Cardinality(Places(n))

\* One row more in the table is one more of its number.
LEMMA CopiesGrow ==
  ASSUME TypeOK, NEW n
  PROVE  /\ Copies(n) \in Nat
         /\ \A new \in TableRow :
              table' = Append(table, new) => Copies(n)' = Copies(n) + Unit(new.row = n)
<1>1. PICK K : K = {k \in DOMAIN table : table[k].row = n}
  OBVIOUS
<1>2. table \in Seq(TableRow) /\ Len(table) \in Nat /\ DOMAIN table = 1 .. Len(table)
  BY LenProperties DEF TypeOK
<1>3. IsFiniteSet(K) /\ Len(table) + 1 \notin K
  <2>1. IsFiniteSet(1 .. Len(table))
    BY <1>2, FS_Interval
  <2>2. K \in SUBSET (1 .. Len(table)) /\ Len(table) + 1 \notin 1 .. Len(table)
    BY <1>1, <1>2
  <2> QED
    BY <2>1, <2>2, FS_Subset
<1>4. Copies(n) = Cardinality(K) /\ Cardinality(K) \in Nat
  BY <1>1, <1>3, FS_CardinalityType DEF Copies, Places
<1>5. ASSUME NEW new \in TableRow, table' = Append(table, new)
      PROVE  Copies(n)' = Copies(n) + Unit(new.row = n)
  <2>1. PICK z : z = table'
    OBVIOUS
  <2>2. /\ DOMAIN z = 1 .. Len(table) + 1 /\ z[Len(table) + 1] = new
        /\ \A k \in 1 .. Len(table) : z[k] = table[k]
    BY <1>5, <2>1, RowAppended, LenProperties
  <2>3. PICK Z : Z = {k \in DOMAIN z : z[k].row = n}
    OBVIOUS
  <2>4. Copies(n)' = Cardinality(Z)
    BY <2>1, <2>3 DEF Copies, Places
  <2>5. Cardinality(K \cup {Len(table) + 1}) = Cardinality(K) + 1
    BY <1>3, FS_AddElement
  <2>6. CASE new.row = n
    <3>1. Z = K \cup {Len(table) + 1}
      BY <1>1, <1>2, <2>2, <2>3, <2>6
    <3> QED
      BY <1>4, <2>4, <2>5, <2>6, <3>1 DEF Unit
  <2>7. CASE new.row # n
    <3>1. Z = K
      BY <1>1, <1>2, <2>2, <2>3, <2>7
    <3> QED
      BY <1>4, <2>4, <2>7, <3>1 DEF Unit
  <2> QED
    BY <2>6, <2>7
<1> QED
  BY <1>4, <1>5


\* What a crash takes from the requests in the loop is written off in full.
LEMMA CrashWritesOff ==
  ASSUME Core, Crash, NEW n \in RowNumbers
  PROVE  /\ TotalOutstanding(n)' \in Nat
         /\ TotalOutstanding(n)' + dropped'[n] = TotalOutstanding(n) + dropped[n]
<1>1. PICK f : f = [c \in Clients |-> Outstanding(req[c], n)]
  OBVIOUS
<1>2. PICK cut : cut = {c \in Clients : req[c].pc = "rows"}
  OBVIOUS
<1>3. PICK in : in = [c \in cut |-> Outstanding(req[c], n)]
  OBVIOUS
<1>4. PICK out : out = [c \in Clients \ cut |-> f[c]]
  OBVIOUS
<1>5. PICK g : g = [c \in Clients |-> Outstanding(req'[c], n)]
  OBVIOUS
<1>6. req \in [Clients -> {Idle} \cup Request] /\ \A c \in Clients : Outstanding(req[c], n) \in Nat
  BY OutstandingType DEF Core, TypeOK
<1>7. Outstanding(Idle, n) = 0
  BY DEF Outstanding, Idle
<1>8. /\ f \in [Clients -> Nat] /\ cut \subseteq Clients
      /\ in \in [cut -> Nat] /\ \A c \in cut : in[c] = f[c]
      /\ out \in [Clients \ cut -> Nat] /\ \A c \in Clients \ cut : out[c] = f[c]
  BY <1>1, <1>2, <1>3, <1>4, <1>6
<1>9. /\ g \in [Clients -> Nat]
      /\ \A c \in Clients \ cut : g[c] = out[c]
      /\ \A c \in cut : g[c] = 0
  <2>1. \A c \in Clients : req'[c] = IF c \in cut THEN Idle ELSE req[c]
    BY <1>2, Crashed
  <2> QED
    BY <1>1, <1>4, <1>5, <1>6, <1>7, <1>8, <2>1
<1>10. Total(f) = Total(in) + Total(out)
  BY <1>8, UploadAssumption, TotalSplit
<1>11. Total(g) = Total(out)
  <2>1. PICK R : R = Clients \ cut
    OBVIOUS
  <2>2. /\ R \subseteq Clients /\ out \in [R -> Nat] /\ g \in [Clients -> Nat]
        /\ (\A c \in R : g[c] = out[c]) /\ \A c \in Clients \ R : g[c] = 0
    BY <1>8, <1>9, <2>1
  <2> QED
    BY ONLY <2>2, TotalRestrict
<1>12. Total(in) \in Nat /\ Total(out) \in Nat
  <2>1. IsFiniteSet(cut) /\ IsFiniteSet(Clients \ cut)
    BY <1>8, UploadAssumption, FS_Subset
  <2> QED
    BY <1>8, <2>1, TotalType
<1>13. /\ TotalOutstanding(n) = Total(f) /\ TotalOutstanding(n)' = Total(g)
       /\ dropped'[n] = dropped[n] + Total(in)
  BY <1>1, <1>2, <1>3, <1>5 DEF TotalOutstanding, Crash
<1>14. dropped[n] \in Nat
  BY DEF Core, TypeOK
<1> QED
  BY <1>10, <1>11, <1>12, <1>13, <1>14

\* The books before anybody asks which rows are gone.
Books == \A n \in RowNumbers : Copies(n) + TotalOutstanding(n) + dropped[n] = sent[n]

\* Nothing sent, nothing to account for.
LEMMA InitBooks == Init => Books
<1> SUFFICES ASSUME Init, NEW n \in RowNumbers
             PROVE  Copies(n) + TotalOutstanding(n) + dropped[n] = sent[n]
  BY DEF Books
<1>1. Copies(n) = 0
  <2>1. {k \in DOMAIN table : table[k].row = n} = {}
    BY EmptySeq DEF Init
  <2> QED
    BY <2>1, FS_EmptySet DEF Copies, Places
<1>2. TotalOutstanding(n) = 0
  <2>1. PICK f : f = [c \in Clients |-> Outstanding(req[c], n)]
    OBVIOUS
  <2>2. \A c \in Clients : Outstanding(req[c], n) = 0
    BY DEF Init, Idle, Outstanding
  <2>3. f \in [Clients -> Nat] /\ \A c \in Clients : f[c] = 0
    BY <2>1, <2>2
  <2> QED
    BY <2>1, <2>3, TotalZero DEF TotalOutstanding
<1> QED
  BY <1>1, <1>2 DEF Init

\* A row that leaves one account enters another.
LEMMA NextBooks == Core /\ Books /\ [Next]_vars => Books'
<1> SUFFICES ASSUME Core, Books, [Next]_vars, NEW n \in RowNumbers
             PROVE  Copies(n)' + TotalOutstanding(n)' + dropped'[n] = sent'[n]
  BY DEF Books
<1>t. /\ TypeOK /\ Copies(n) \in Nat /\ dropped[n] \in Nat /\ sent[n] \in Nat
      /\ Copies(n) + TotalOutstanding(n) + dropped[n] = sent[n]
  BY CopiesGrow DEF Core, TypeOK, Books
<1>c. table' = table => Copies(n)' = Copies(n)
  BY DEF Copies, Places
<1>1. ASSUME NEW c \in Clients, NEW kind \in [RowNumbers -> Kinds], Send(c, kind)
      PROVE  Copies(n)' + TotalOutstanding(n)' + dropped'[n] = sent'[n]
  <2>1. PICK q : q = Upload([m \in RowNumbers |-> [row |-> m, kind |-> kind[m]]])
    OBVIOUS
  <2>2. /\ req' = [req EXCEPT ![c] = q] /\ sends < MaxSends /\ req[c].pc = "idle"
        /\ table' = table /\ dropped' = dropped
        /\ sent'[n] = sent[n] + (IF kind[n] = "blank" THEN 0 ELSE 1)
    BY <1>1, <2>1 DEF Send
  <2>3. q \in Request
    <3>1. PICK rows : rows = [m \in RowNumbers |-> [row |-> m, kind |-> kind[m]]]
      OBVIOUS
    <3>2. /\ rows \in Seq(SheetRow) /\ Len(rows) <= Size
          /\ \A j, k \in 1 .. Len(rows) : j < k => rows[j].row < rows[k].row
      BY <3>1, WholeSheet, UploadAssumption
    <3> QED
      BY <1>t, <2>1, <2>2, <3>1, <3>2, SheetSent
  <2>4. Outstanding(q, n) = IF kind[n] = "blank" THEN 0 ELSE 1
    BY <1>t, <2>1, <2>2, SentOutstanding
  <2>5. Outstanding(req[c], n) = 0
    BY <2>2 DEF Outstanding
  <2>6. /\ TotalOutstanding(n) \in Nat
        /\ TotalOutstanding(n)' = TotalOutstanding(n) - Outstanding(req[c], n) + Outstanding(q, n)
    BY <1>t, <2>2, <2>3, TotalOfOne
  <2> QED
    BY <1>t, <1>c, <2>2, <2>4, <2>5, <2>6
<1>2. ASSUME NEW c \in Clients, NEW kind \in [RowNumbers -> Kinds], Correct(c, kind)
      PROVE  Copies(n)' + TotalOutstanding(n)' + dropped'[n] = sent'[n]
  <2>1. PICK rows : rows = [k \in DOMAIN req[c].errors |->
                             [row |-> req[c].errors[k], kind |-> kind[req[c].errors[k]]]]
    OBVIOUS
  <2>2. PICK q : q = Upload(rows)
    OBVIOUS
  <2>3. /\ c \in Busy /\ req' = [req EXCEPT ![c] = q] /\ sends < MaxSends
        /\ req[c].pc = "answered" /\ \A k \in DOMAIN rows : rows[k].kind # "blank"
        /\ table' = table /\ dropped' = dropped /\ sent' = sent
    BY <1>2, <2>1, <2>2 DEF Correct, Busy
  <2>4. /\ rows \in Seq(SheetRow) /\ Len(rows) <= Size
        /\ \A j, k \in 1 .. Len(rows) : j < k => rows[j].row < rows[k].row
    BY <2>1, <2>3, ReportedSheet
  <2>5. q \in Request
    BY <1>t, <2>2, <2>3, <2>4, SheetSent
  <2>6. Outstanding(q, n) = Times(n, req[c].errors)
    <3>1. PICK e \in Seq(RowNumbers) : e = req[c].errors
      BY <1>t, <2>3, BusyFields
    <3>2. rows = [k \in DOMAIN e |-> [row |-> e[k], kind |-> kind[e[k]]]]
      BY <2>1, <3>1
    <3>3. /\ rows \in Seq(SheetRow) /\ Len(rows) = Len(e)
          /\ \A j \in 1 .. Len(rows) : rows[j].row = e[j]
      BY ONLY <3>2, e \in Seq(RowNumbers), kind \in [RowNumbers -> Kinds], ReportedRows
    <3>4. q.pc = "rows" /\ q.rows = rows /\ q.at = 1 /\ q.errors = <<>>
      BY ONLY <2>2 DEF Upload
    <3>5. \A k \in DOMAIN rows : rows[k].kind # "blank"
      BY <2>3
    <3>6. Outstanding(q, n) = Times(n, e)
      BY ONLY <3>3, <3>4, <3>5, e \in Seq(RowNumbers), RowsOutstanding
    <3> QED
      BY <3>1, <3>6
  <2>7. Outstanding(req[c], n) = Times(n, req[c].errors)
    BY <2>3 DEF Outstanding
  <2>8. /\ TotalOutstanding(n) \in Nat /\ Outstanding(q, n) \in Nat
        /\ TotalOutstanding(n)' = TotalOutstanding(n) - Outstanding(req[c], n) + Outstanding(q, n)
    BY <1>t, <2>3, <2>5, TotalOfOne
  <2> QED
    BY <1>t, <1>c, <2>3, <2>6, <2>7, <2>8
<1>3. ASSUME NEW c \in Clients, GiveUp(c)
      PROVE  Copies(n)' + TotalOutstanding(n)' + dropped'[n] = sent'[n]
  <2>1. /\ req' = [req EXCEPT ![c] = Idle] /\ req[c].pc = "answered"
        /\ dropped'[n] = dropped[n] + Times(n, req[c].errors)
        /\ table' = table /\ sent' = sent
    BY <1>3 DEF GiveUp
  <2>2. Outstanding(req[c], n) = Times(n, req[c].errors) /\ Outstanding(Idle, n) = 0
    BY <2>1 DEF Outstanding, Idle
  <2>3. /\ TotalOutstanding(n) \in Nat /\ Outstanding(req[c], n) \in Nat
        /\ TotalOutstanding(n)' = TotalOutstanding(n) - Outstanding(req[c], n) + Outstanding(Idle, n)
    BY <1>t, <2>1, TotalOfOne
  <2> QED
    BY <1>t, <1>c, <2>1, <2>2, <2>3
<1>4. ASSUME NEW c \in Clients, InLoop(c), NEW added, NEW errors, Outcome(c, added, errors),
             req' = [req EXCEPT ![c] = Moved(req[c], added, errors)],
             dropped' = dropped, sent' = sent
      PROVE  /\ TotalOutstanding(n) \in Nat
             /\ TotalOutstanding(n)' = TotalOutstanding(n) + Times(n, errors) - Times(n, req[c].errors)
                                         - Unit(Current(c).row = n /\ Current(c).kind # "blank")
             /\ Times(n, errors) \in Nat /\ Times(n, req[c].errors) \in Nat
  <2>1. PICK q : q = Moved(req[c], added, errors)
    OBVIOUS
  <2>2. q \in Request /\ q.errors = errors
    BY <1>4, <2>1, MovedSound
  <2>3. c \in Busy /\ req[c].errors \in Seq(RowNumbers) /\ errors \in Seq(RowNumbers)
    BY <1>t, <1>4, <2>2, LoopFields, BusyFields DEF Request
  <2>4. Times(n, errors) \in Nat /\ Times(n, req[c].errors) \in Nat
    BY <2>3, TimesType
  <2>5. /\ TotalOutstanding(n) \in Nat /\ Outstanding(req[c], n) \in Nat /\ Outstanding(q, n) \in Nat
        /\ TotalOutstanding(n)' = TotalOutstanding(n) - Outstanding(req[c], n) + Outstanding(q, n)
    BY <1>t, <1>4, <2>1, <2>2, TotalOfOne
  <2>6. PICK u \in Nat : u = Unit(Current(c).row = n /\ Current(c).kind # "blank")
    BY DEF Unit
  <2>7. Outstanding(q, n) - Times(n, errors) = Outstanding(req[c], n) - Times(n, req[c].errors) - u
    BY <1>4, <2>1, <2>6, MovedOutstanding
  <2> QED
    BY <2>4, <2>5, <2>6, <2>7
<1>5. ASSUME NEW c \in Clients, SkipBlank(c)
      PROVE  Copies(n)' + TotalOutstanding(n)' + dropped'[n] = sent'[n]
  <2>1. InLoop(c) /\ req' = [req EXCEPT ![c] = Moved(req[c], req[c].added, req[c].errors)]
    BY <1>5, LoopSteps DEF SkipBlank
  <2>2. table' = table /\ dropped' = dropped /\ sent' = sent /\ Current(c).kind = "blank"
    BY <1>5 DEF SkipBlank
  <2>3. Outcome(c, req[c].added, req[c].errors)
    BY DEF Outcome
  <2>4. Unit(Current(c).row = n /\ Current(c).kind # "blank") = 0
    BY <2>2 DEF Unit
  <2>5. PICK errors : errors = req[c].errors
    OBVIOUS
  <2>6. /\ TotalOutstanding(n) \in Nat /\ Times(n, errors) \in Nat
        /\ TotalOutstanding(n)' = TotalOutstanding(n) + Times(n, errors) - Times(n, errors) - 0
    <3>1. Outcome(c, req[c].added, errors)
      BY <2>3, <2>5
    <3>2. req' = [req EXCEPT ![c] = Moved(req[c], req[c].added, errors)]
      BY <2>1, <2>5
    <3> QED
      BY <1>4, <2>1, <2>2, <2>4, <2>5, <3>1, <3>2
  <2>7. TotalOutstanding(n)' = TotalOutstanding(n)
    BY ONLY <2>6
  <2> QED
    BY <1>t, <1>c, <2>2, <2>7
<1>6. ASSUME NEW c \in Clients, RefuseRow(c) \/ AddFails(c)
      PROVE  Copies(n)' + TotalOutstanding(n)' + dropped'[n] = sent'[n]
  <2>1. /\ InLoop(c)
        /\ req' = [req EXCEPT ![c] = Moved(req[c], req[c].added, Append(req[c].errors, Current(c).row))]
    BY <1>6, LoopSteps DEF RefuseRow, AddFails, AddCalled
  <2>2. table' = table /\ dropped' = dropped /\ sent' = sent /\ Current(c).kind # "blank"
    BY <1>6 DEF RefuseRow, AddFails, AddCalled, Refused
  <2>3. PICK errors : errors = Append(req[c].errors, Current(c).row)
    OBVIOUS
  <2>4. Outcome(c, req[c].added, errors)
    BY <2>3 DEF Outcome
  <2>5. Times(n, errors) = Times(n, req[c].errors) + Unit(Current(c).row = n)
    <3>1. req[c].errors \in Seq(RowNumbers) /\ Current(c).row \in RowNumbers
      BY <1>t, <2>1, LoopFields, BusyFields
    <3> QED
      BY <2>3, <3>1, TimesType DEF Unit
  <2>6. PICK u \in Nat : u = Unit(Current(c).row = n /\ Current(c).kind # "blank") /\ u = Unit(Current(c).row = n)
    BY <2>2 DEF Unit
  <2>7. req' = [req EXCEPT ![c] = Moved(req[c], req[c].added, errors)]
    BY <2>1, <2>3
  <2>8. /\ TotalOutstanding(n) \in Nat
        /\ TotalOutstanding(n)' = TotalOutstanding(n) + Times(n, errors) - Times(n, req[c].errors)
                                    - Unit(Current(c).row = n /\ Current(c).kind # "blank")
        /\ Times(n, errors) \in Nat /\ Times(n, req[c].errors) \in Nat
    BY <1>4, <2>1, <2>2, <2>4, <2>7
  <2>9. TotalOutstanding(n)' = TotalOutstanding(n)
    BY <2>5, <2>6, <2>8
  <2> QED
    BY <1>t, <1>c, <2>2, <2>9
<1>7. ASSUME NEW c \in Clients, AddRow(c) \/ AddRowCut(c)
      PROVE  Copies(n)' + TotalOutstanding(n)' + dropped'[n] = sent'[n]
  <2>1. InLoop(c) /\ req' = [req EXCEPT ![c] = Moved(req[c], req[c].added + 1, req[c].errors)]
    BY <1>7, LoopSteps DEF AddRow, AddRowCut, AddCalled
  <2>2. PICK new : new = [row |-> Current(c).row, up |-> req[c].up]
    OBVIOUS
  <2>3. table' = Append(table, new) /\ dropped' = dropped /\ sent' = sent /\ Current(c).kind # "blank"
    BY <1>7, <2>2 DEF AddRow, AddRowCut, AddCalled, Added
  <2>4. new \in TableRow
    <3>1. req[c].up \in Nat /\ Current(c).row \in RowNumbers
      BY <1>t, <2>1, LoopFields, BusyFields, UploadAssumption
    <3> QED
      BY <2>2, <3>1 DEF TableRow
  <2>5. Outcome(c, req[c].added + 1, req[c].errors)
    BY DEF Outcome
  <2>6. PICK u \in Nat : u = Unit(Current(c).row = n /\ Current(c).kind # "blank") /\ u = Unit(new.row = n)
    BY <2>2, <2>3 DEF Unit
  <2>7. Copies(n)' = Copies(n) + u
    BY <1>t, <2>3, <2>4, <2>6, CopiesGrow
  <2>8. PICK errors : errors = req[c].errors
    OBVIOUS
  <2>9. /\ TotalOutstanding(n) \in Nat /\ Times(n, errors) \in Nat
        /\ TotalOutstanding(n)' = TotalOutstanding(n) + Times(n, errors) - Times(n, errors) - u
    <3>1. Outcome(c, req[c].added + 1, errors)
      BY <2>5, <2>8
    <3>2. req' = [req EXCEPT ![c] = Moved(req[c], req[c].added + 1, errors)]
      BY <2>1, <2>8
    <3> QED
      BY <1>4, <2>1, <2>3, <2>6, <2>8, <3>1, <3>2
  <2>10. TotalOutstanding(n)' = TotalOutstanding(n) - u
    BY ONLY <2>6, <2>9
  <2> QED
    BY <1>t, <2>3, <2>6, <2>7, <2>9, <2>10
<1>8. ASSUME NEW c \in Clients, Answer(c)
      PROVE  Copies(n)' + TotalOutstanding(n)' + dropped'[n] = sent'[n]
  <2>1. PICK q : q = [req[c] EXCEPT !.pc = "answered"]
    OBVIOUS
  <2>2. /\ c \in Busy /\ req' = [req EXCEPT ![c] = q] /\ q \in Request /\ q.pc = "answered"
        /\ q.errors = req[c].errors /\ req[c].at = Len(req[c].rows) + 1
    BY <1>8, <2>1, Answered
  <2>3. table' = table /\ dropped' = dropped /\ sent' = sent /\ req[c].pc = "rows"
    BY <1>8 DEF Answer, AtEnd
  <2>4. ToCome(req[c], n) = {}
    <3>1. Len(req[c].rows) \in Nat
      BY <1>t, <2>2, BusyFields
    <3>2. req[c].at .. Len(req[c].rows) = {}
      BY <2>2, <3>1
    <3> QED
      BY <3>2 DEF ToCome
  <2>5. Times(n, req[c].errors) \in Nat
    BY <1>t, <2>2, BusyFields, TimesType
  <2>6. Outstanding(q, n) = Times(n, req[c].errors) /\ Outstanding(req[c], n) = 0 + Times(n, req[c].errors)
    BY <2>2, <2>3, <2>4, FS_EmptySet DEF Outstanding
  <2>7. /\ TotalOutstanding(n) \in Nat
        /\ TotalOutstanding(n)' = TotalOutstanding(n) - Outstanding(req[c], n) + Outstanding(q, n)
    BY <1>t, <2>2, TotalOfOne
  <2> QED
    BY <1>t, <1>c, <2>3, <2>5, <2>6, <2>7
<1>12. ASSUME NEW c \in Clients, AnswerFails(c)
      PROVE  Copies(n)' + TotalOutstanding(n)' + dropped'[n] = sent'[n]
  <2>1. /\ req' = [req EXCEPT ![c] = Idle] /\ req[c].pc = "rows" /\ req[c].at > Len(req[c].rows)
        /\ dropped'[n] = dropped[n] + Times(n, req[c].errors)
        /\ table' = table /\ sent' = sent /\ c \in Busy
    BY <1>12 DEF AnswerFails, AtEnd, Busy
  <2>2. ToCome(req[c], n) = {} /\ Times(n, req[c].errors) \in Nat
    <3>1. Len(req[c].rows) \in Nat /\ req[c].at \in Nat /\ req[c].errors \in Seq(RowNumbers)
      BY <1>t, <2>1, BusyFields, UploadAssumption
    <3>2. req[c].at .. Len(req[c].rows) = {}
      BY <2>1, <3>1
    <3>3. Times(n, req[c].errors) \in Nat
      BY <3>1, TimesType
    <3> QED
      BY <3>2, <3>3 DEF ToCome
  <2>3. Outstanding(req[c], n) = 0 + Times(n, req[c].errors) /\ Outstanding(Idle, n) = 0
    BY <2>1, <2>2, FS_EmptySet DEF Outstanding, Idle
  <2>4. /\ TotalOutstanding(n) \in Nat
        /\ TotalOutstanding(n)' = TotalOutstanding(n) - Outstanding(req[c], n) + Outstanding(Idle, n)
    BY <1>t, <2>1, TotalOfOne
  <2> QED
    BY <1>t, <1>c, <2>1, <2>2, <2>3, <2>4
<1>9. ASSUME Add
      PROVE  Copies(n)' + TotalOutstanding(n)' + dropped'[n] = sent'[n]
  <2>1. PICK new : new = [row |-> 0, up |-> 0]
    OBVIOUS
  <2>2. new \in TableRow /\ new.row # n
    BY <2>1 DEF TableRow, RowNumbers
  <2>3. table' = Append(table, new) /\ req' = req /\ dropped' = dropped /\ sent' = sent
    BY <1>9, <2>1 DEF Add
  <2>4. Copies(n)' = Copies(n) + 0
    BY <1>t, <2>2, <2>3, CopiesGrow DEF Unit
  <2>5. TotalOutstanding(n)' = TotalOutstanding(n)
    BY <2>3 DEF TotalOutstanding
  <2> QED
    BY <1>t, <2>3, <2>4, <2>5
<1>10. ASSUME Crash
       PROVE  Copies(n)' + TotalOutstanding(n)' + dropped'[n] = sent'[n]
  <2>1. table' = table /\ sent' = sent
    BY <1>10 DEF Crash
  <2>2. /\ TotalOutstanding(n)' \in Nat
        /\ TotalOutstanding(n)' + dropped'[n] = TotalOutstanding(n) + dropped[n]
    BY <1>10, CrashWritesOff
  <2>3. TotalOutstanding(n) \in Nat /\ dropped'[n] \in Nat
    <3>1. PICK f : f = [c \in Clients |-> Outstanding(req[c], n)]
      OBVIOUS
    <3>2. \A c \in Clients : Outstanding(req[c], n) \in Nat
      BY <1>t, OutstandingType DEF TypeOK
    <3>3. f \in [Clients -> Nat]
      BY <3>1, <3>2
    <3>4. Total(f) \in Nat
      BY <3>3, UploadAssumption, TotalType
    <3>5. Core'
      BY NextCore
    <3> QED
      BY <3>1, <3>4, <3>5 DEF TotalOutstanding, Core, TypeOK
  <2> QED
    BY <1>t, <1>c, <2>1, <2>2, <2>3
<1>11. CASE UNCHANGED vars
  BY <1>t, <1>11 DEF vars, Copies, Places, TotalOutstanding
<1> QED
  BY <1>1, <1>2, <1>3, <1>5, <1>6, <1>7, <1>8, <1>9, <1>10, <1>11, <1>12 DEF Next, Proceed

\* Of finitely many rows, some are gone and the others are not.
LEMMA GoneOrNot ==
  ASSUME NEW S, IsFiniteSet(S), NEW T
  PROVE  Cardinality(S \ T) + Cardinality(S \cap T) = Cardinality(S)
<1>1. S \cap T \in SUBSET S
  OBVIOUS
<1>2. IsFiniteSet(S \cap T)
  BY <1>1, FS_Subset
<1>3. PICK a, b, d : a = Cardinality(S \ T) /\ b = Cardinality(S \cap T) /\ d = Cardinality(S)
  OBVIOUS
<1>4. b \in Nat /\ d \in Nat /\ a = d - b
  BY <1>2, <1>3, FS_CardinalityType, FS_Difference
<1> QED
  BY <1>3, <1>4

\* What the books count as added is in the file or gone.
LEMMA BooksAccount == Core /\ Books => RowsAccountedFor
<1> SUFFICES ASSUME Core, Books, NEW n \in RowNumbers
             PROVE  Cardinality(Places(n) \ gone) + Cardinality(Places(n) \cap gone)
                      + TotalOutstanding(n) + dropped[n] = sent[n]
  BY DEF RowsAccountedFor
<1>1. table \in Seq(TableRow) /\ Len(table) \in Nat /\ DOMAIN table = 1 .. Len(table)
  BY LenProperties DEF Core, TypeOK
<1>2. IsFiniteSet(1 .. Len(table)) /\ Places(n) \in SUBSET (1 .. Len(table))
  BY <1>1, FS_Interval DEF Places
<1>3. IsFiniteSet(Places(n))
  BY <1>2, FS_Subset
<1>4. Cardinality(Places(n) \ gone) + Cardinality(Places(n) \cap gone) = Copies(n)
  BY <1>3, GoneOrNot DEF Copies
<1> QED
  BY <1>4 DEF Books

\* No row of a sheet is lost, and none is doubled by the program: for any
\* number of clients, sheets, forms and faults, each row that was sent is in
\* the file, was taken out of it by a write that was cut, is in the hands of a
\* request, or was given up.
THEOREM NoRowLost == Spec => []RowsAccountedFor
<1>1. Core /\ Books /\ [Next]_vars => Books'
  BY NextBooks
<1> QED
  BY <1>1, InitBooks, BooksAccount, CoreInvariant, PTL DEF Spec


-----------------------------------------------------------------------------
(* The answers.                                                            *)

\* The rows of a table that upload u put there.
Mine(t, u) == {k \in 1 .. Len(t) : t[k].up = u}

\* Row m is among those of request q the loop has seen, and is not blank.
SeenRow(q, m) == \E j \in 1 .. q.at - 1 : q.rows[j].row = m /\ q.rows[j].kind # "blank"

\* What request q is told of table t is the truth: AnswerTruthful, of any
\* table and request.
Told(t, q) ==
  /\ q.added = Cardinality(Mine(t, q.up))
  /\ \A k \in Mine(t, q.up) : SeenRow(q, t[k].row)
  /\ \A i \in 1 .. Len(q.errors) : SeenRow(q, q.errors[i])
  /\ \A m \in RowNumbers : SeenRow(q, m) =>
       \/ \E k \in Mine(t, q.up) : t[k].row = m
       \/ \E i \in 1 .. Len(q.errors) : q.errors[i] = m
  /\ \A k \in Mine(t, q.up), i \in 1 .. Len(q.errors) : q.errors[i] # t[k].row

\* The rows of one upload are in the order of its sheet.
InOrder(t) ==
  \A j, k \in 1 .. Len(t) :
    (j < k /\ t[j].up = t[k].up /\ t[j].up # 0) => t[j].row < t[k].row

Answers == (\A c \in Busy : Told(table, req[c])) /\ InOrder(table)

\* The rows of an upload are finitely many.
LEMMA MineFinite ==
  ASSUME NEW t \in Seq(TableRow), NEW u
  PROVE  IsFiniteSet(Mine(t, u)) /\ Cardinality(Mine(t, u)) \in Nat
<1>1. Len(t) \in Nat /\ Mine(t, u) \subseteq 1 .. Len(t)
  BY LenProperties DEF Mine
<1>2. IsFiniteSet(1 .. Len(t)) /\ Mine(t, u) \in SUBSET (1 .. Len(t))
  BY <1>1, FS_Interval
<1>3. IsFiniteSet(Mine(t, u))
  BY <1>2, FS_Subset
<1> QED
  BY <1>3, FS_CardinalityType

\* A row more is one of its upload, and of no other.
LEMMA MineAppended ==
  ASSUME NEW t \in Seq(TableRow), NEW new \in TableRow, NEW z, z = Append(t, new)
  PROVE  /\ Len(t) \in Nat /\ Len(z) = Len(t) + 1 /\ z[Len(t) + 1] = new
         /\ \A k \in 1 .. Len(t) : z[k] = t[k]
         /\ \A u : \A k : k \in Mine(z, u) <=> k \in Mine(t, u) \/ (k = Len(t) + 1 /\ new.up = u)
<1>1. /\ Len(t) \in Nat /\ Len(z) = Len(t) + 1 /\ z[Len(t) + 1] = new
      /\ \A k \in 1 .. Len(t) : z[k] = t[k]
  BY AppendProperties, LenProperties
<1>2. \A k : k \in 1 .. Len(z) <=> k \in 1 .. Len(t) \/ k = Len(t) + 1
  BY <1>1
<1>3. \A u : \A k : k \in Mine(z, u) <=> k \in Mine(t, u) \/ (k = Len(t) + 1 /\ new.up = u)
  BY <1>1, <1>2 DEF Mine
<1> QED
  BY <1>1, <1>3

\* ... and counted once.
LEMMA MineGrown ==
  ASSUME NEW t \in Seq(TableRow), NEW new \in TableRow, NEW u, new.up = u,
         NEW z, z = Append(t, new)
  PROVE  /\ Mine(z, u) = Mine(t, u) \cup {Len(t) + 1}
         /\ Cardinality(Mine(z, u)) = Cardinality(Mine(t, u)) + 1
<1>1. PICK M, n : M = Mine(t, u) /\ n = Len(t) + 1
  OBVIOUS
<1>2. \A v : \A k : k \in Mine(z, v) <=> k \in Mine(t, v) \/ (k = Len(t) + 1 /\ new.up = v)
  BY MineAppended
<1>3. Mine(z, u) = M \cup {n}
  BY <1>1, <1>2
<1>4. n \notin M
  BY <1>1, MineAppended DEF Mine
<1>5. IsFiniteSet(M)
  BY <1>1, MineFinite
<1>6. Cardinality(M \cup {n}) = Cardinality(M) + 1
  BY <1>4, <1>5, FS_AddElement
<1> QED
  BY <1>1, <1>3, <1>6

\* A row that another upload adds does not change what is told.
LEMMA ToldOfOthers ==
  ASSUME NEW t \in Seq(TableRow), NEW new \in TableRow, NEW q, Told(t, q), new.up # q.up,
         NEW z, z = Append(t, new)
  PROVE  Told(z, q)
<1>1. PICK M : M = Mine(t, q.up)
  OBVIOUS
<1>2. Mine(z, q.up) = M /\ \A k \in M : z[k] = t[k]
  BY <1>1, MineAppended DEF Mine
<1>3. /\ q.added = Cardinality(M)
      /\ \A k \in M : SeenRow(q, z[k].row)
      /\ \A i \in 1 .. Len(q.errors) : SeenRow(q, q.errors[i])
  BY <1>1, <1>2 DEF Told
<1>4. ASSUME NEW m \in RowNumbers, SeenRow(q, m)
      PROVE  \/ \E k \in M : z[k].row = m
             \/ \E i \in 1 .. Len(q.errors) : q.errors[i] = m
  <2>1. \/ \E k \in M : t[k].row = m
        \/ \E i \in 1 .. Len(q.errors) : q.errors[i] = m
    BY <1>1, <1>4 DEF Told
  <2> QED
    BY ONLY <1>2, <2>1
<1>5. ASSUME NEW k \in M, NEW i \in 1 .. Len(q.errors)
      PROVE  q.errors[i] # z[k].row
  <2>1. q.errors[i] # t[k].row
    BY <1>1 DEF Told
  <2> QED
    BY ONLY <1>2, <2>1, k \in M
<1> QED
  BY <1>2, <1>3, <1>4, <1>5 DEF Told

\* A new upload, of which nothing is in the table, is told nothing.
LEMMA ToldAtFirst ==
  ASSUME NEW t \in Seq(TableRow), NEW q, q.at = 1, q.added = 0, Len(q.errors) = 0,
         \A k \in 1 .. Len(t) : t[k].up # q.up
  PROVE  Told(t, q)
<1>1. Mine(t, q.up) = {}
  BY DEF Mine
<1>2. \A m : ~SeenRow(q, m)
  BY DEF SeenRow
<1>3. Cardinality({}) = 0
  BY FS_EmptySet
<1> QED
  BY <1>1, <1>2, <1>3 DEF Told

\* What the loop has seen are rows of the sheet.
LEMMA SeenIsRow ==
  ASSUME NEW p \in Request, InPlace(p), NEW m, SeenRow(p, m)
  PROVE  m \in RowNumbers
<1>1. p.rows \in Seq(SheetRow) /\ Len(p.rows) \in Nat /\ p.at \in Nat
  BY LenProperties, UploadAssumption DEF Request
<1>2. PICK j \in 1 .. p.at - 1 : p.rows[j].row = m
  BY DEF SeenRow
<1>3. j \in 1 .. Len(p.rows)
  BY <1>1 DEF InPlace
<1>4. p.rows[j] \in SheetRow
  BY <1>1, <1>3, ElementOfSeq
<1> QED
  BY <1>2, <1>4 DEF SheetRow

\* When the loop has passed a row, that one is seen too; it is none of those
\* seen before, and so none of those added or reported.
LEMMA SeenAfter ==
  ASSUME NEW t \in Seq(TableRow), NEW p \in Request, InPlace(p), Ordered(p), Told(t, p),
         p.at \in 1 .. Len(p.rows), NEW q, q.rows = p.rows, q.at = p.at + 1
  PROVE  /\ \A m \in RowNumbers : SeenRow(q, m) <=>
              SeenRow(p, m) \/ (p.rows[p.at].row = m /\ p.rows[p.at].kind # "blank")
         /\ \A k \in Mine(t, p.up) : t[k].row < p.rows[p.at].row
         /\ \A i \in 1 .. Len(p.errors) : p.errors[i] # p.rows[p.at].row
<1>1. p.rows \in Seq(SheetRow) /\ Len(p.rows) \in Nat /\ p.at \in Nat
  BY LenProperties, UploadAssumption DEF Request
<1>2. \A j : j \in 1 .. q.at - 1 <=> j \in 1 .. p.at - 1 \/ j = p.at
  BY <1>1
<1>3. \A m : SeenRow(q, m) <=>
              SeenRow(p, m) \/ (p.rows[p.at].row = m /\ p.rows[p.at].kind # "blank")
  BY <1>2 DEF SeenRow
<1>4. ASSUME NEW m, SeenRow(p, m) PROVE m < p.rows[p.at].row
  <2>1. PICK j \in 1 .. p.at - 1 : p.rows[j].row = m
    BY <1>4 DEF SeenRow
  <2>2. j \in 1 .. Len(p.rows) /\ j < p.at
    BY <1>1
  <2> QED
    BY <2>1, <2>2 DEF Ordered
<1>5. \A k \in Mine(t, p.up) : t[k].row < p.rows[p.at].row
  BY <1>4 DEF Told
<1>6. \A i \in 1 .. Len(p.errors) : p.errors[i] # p.rows[p.at].row
  <2>1. p.rows[p.at].row \in Int
    <3>1. p.rows[p.at] \in SheetRow
      BY <1>1, ElementOfSeq
    <3> QED
      BY <3>1, UploadAssumption DEF SheetRow, RowNumbers
  <2> QED
    BY <1>4, <2>1 DEF Told
<1> QED
  BY <1>3, <1>5, <1>6

\* A blank row that is skipped is not told of.
LEMMA ToldOfBlank ==
  ASSUME NEW t \in Seq(TableRow), NEW p \in Request, InPlace(p), Ordered(p), Told(t, p),
         p.at \in 1 .. Len(p.rows), p.rows[p.at].kind = "blank",
         NEW q, q.rows = p.rows, q.at = p.at + 1, q.up = p.up,
         q.added = p.added, q.errors = p.errors
  PROVE  Told(t, q)
<1>1. \A m \in RowNumbers : SeenRow(q, m) <=> SeenRow(p, m)
  BY SeenAfter
<1>2. /\ \A k \in Mine(t, p.up) : t[k].row \in RowNumbers
      /\ \A i \in 1 .. Len(p.errors) : p.errors[i] \in RowNumbers
  BY SeenIsRow DEF Told
<1> QED
  BY <1>1, <1>2 DEF Told

\* A row that is refused, or whose call fails, is reported.
LEMMA ToldOfRefused ==
  ASSUME NEW t \in Seq(TableRow), NEW p \in Request, InPlace(p), Ordered(p), Told(t, p),
         p.at \in 1 .. Len(p.rows), p.rows[p.at].kind # "blank",
         NEW q, q.rows = p.rows, q.at = p.at + 1, q.up = p.up,
         q.added = p.added, q.errors = Append(p.errors, p.rows[p.at].row)
  PROVE  Told(t, q)
<1>1. /\ \A m \in RowNumbers : SeenRow(q, m) <=> SeenRow(p, m) \/ m = p.rows[p.at].row
      /\ \A k \in Mine(t, p.up) : t[k].row < p.rows[p.at].row
  BY SeenAfter
<1>2. /\ \A k \in Mine(t, p.up) : t[k].row \in RowNumbers
      /\ \A i \in 1 .. Len(p.errors) : p.errors[i] \in RowNumbers
  BY SeenIsRow DEF Told
<1>3. p.rows[p.at].row \in RowNumbers /\ RowNumbers \subseteq Nat /\ p.errors \in Seq(RowNumbers)
  <2>1. p.rows \in Seq(SheetRow)
    BY DEF Request
  <2>2. p.rows[p.at] \in SheetRow
    BY <2>1, ElementOfSeq
  <2>3. p.rows[p.at].row \in RowNumbers
    BY ONLY <2>2 DEF SheetRow
  <2>4. RowNumbers \subseteq Nat
    BY ONLY UploadAssumption DEF RowNumbers
  <2>5. p.errors \in Seq(RowNumbers)
    BY DEF Request
  <2> QED
    BY ONLY <2>3, <2>4, <2>5
<1>4. PICK n : n = Len(p.errors)
  OBVIOUS
<1>5. /\ n \in Nat /\ Len(q.errors) = n + 1 /\ q.errors[n + 1] = p.rows[p.at].row
      /\ \A i \in 1 .. n : q.errors[i] = p.errors[i]
  BY <1>3, <1>4, AppendProperties, LenProperties
<1>6. \A i : i \in 1 .. n + 1 <=> i \in 1 .. n \/ i = n + 1
  BY <1>5
<1>7. /\ q.added = Cardinality(Mine(t, q.up))
      /\ \A k \in Mine(t, q.up) : SeenRow(q, t[k].row)
      /\ \A i \in 1 .. Len(q.errors) : SeenRow(q, q.errors[i])
  BY <1>1, <1>2, <1>3, <1>4, <1>5, <1>6 DEF Told
<1>8. \A m \in RowNumbers : SeenRow(q, m) =>
        \/ \E k \in Mine(t, q.up) : t[k].row = m
        \/ \E i \in 1 .. Len(q.errors) : q.errors[i] = m
  <2> SUFFICES ASSUME NEW m \in RowNumbers, SeenRow(q, m)
               PROVE  \/ \E k \in Mine(t, q.up) : t[k].row = m
                      \/ \E i \in 1 .. n + 1 : q.errors[i] = m
    BY <1>5
  <2>1. CASE m = p.rows[p.at].row
    BY <1>5, <1>6, <2>1
  <2>2. CASE SeenRow(p, m)
    BY <1>4, <1>5, <1>6, <2>2 DEF Told
  <2> QED
    BY <1>1, <2>1, <2>2
<1>9. \A k \in Mine(t, q.up), i \in 1 .. Len(q.errors) : q.errors[i] # t[k].row
  <2> SUFFICES ASSUME NEW k \in Mine(t, p.up), NEW i \in 1 .. n + 1
               PROVE  q.errors[i] # t[k].row
    BY <1>5
  <2>1. CASE i = n + 1
    <3>1. t[k].row < p.rows[p.at].row /\ t[k].row \in Nat /\ p.rows[p.at].row \in Nat
      BY <1>1, <1>2, <1>3
    <3>2. q.errors[i] = p.rows[p.at].row
      BY <1>5, <2>1
    <3> QED
      BY <3>1, <3>2
  <2>2. CASE i \in 1 .. n
    BY <1>4, <1>5, <2>2 DEF Told
  <2> QED
    BY <1>6, <2>1, <2>2
<1> QED
  BY <1>7, <1>8, <1>9 DEF Told

\* A row that is added is counted.
LEMMA ToldOfAdded ==
  ASSUME NEW t \in Seq(TableRow), NEW p \in Request, InPlace(p), Ordered(p), Told(t, p),
         p.at \in 1 .. Len(p.rows), p.rows[p.at].kind # "blank",
         NEW new \in TableRow, new.row = p.rows[p.at].row, new.up = p.up,
         NEW z, z = Append(t, new),
         NEW q, q.rows = p.rows, q.at = p.at + 1, q.up = p.up,
         q.added = p.added + 1, q.errors = p.errors
  PROVE  Told(z, q)
<1>1. /\ \A m \in RowNumbers : SeenRow(q, m) <=> SeenRow(p, m) \/ m = new.row
      /\ \A i \in 1 .. Len(p.errors) : p.errors[i] # new.row
  BY SeenAfter
<1>2. /\ \A k \in Mine(t, p.up) : t[k].row \in RowNumbers
      /\ \A i \in 1 .. Len(p.errors) : p.errors[i] \in RowNumbers
  BY SeenIsRow DEF Told
<1>3. new.row \in RowNumbers
  <2>1. p.rows \in Seq(SheetRow)
    BY DEF Request
  <2>2. p.rows[p.at] \in SheetRow
    BY <2>1, ElementOfSeq
  <2> QED
    BY <2>2 DEF SheetRow
<1>4. PICK n : n = Len(t) + 1
  OBVIOUS
<1>5. PICK M, Z : M = Mine(t, p.up) /\ Z = Mine(z, p.up)
  OBVIOUS
<1>6. /\ z[n] = new /\ \A k \in M : z[k] = t[k]
      /\ Z = M \cup {n} /\ Cardinality(Z) = Cardinality(M) + 1
  <2>1. z[n] = new /\ \A k \in 1 .. Len(t) : z[k] = t[k]
    BY <1>4, MineAppended
  <2>2. \A k \in M : z[k] = t[k]
    BY <1>5, <2>1 DEF Mine
  <2>3. PICK u : u = p.up
    OBVIOUS
  <2>4. Mine(z, u) = Mine(t, u) \cup {n} /\ Cardinality(Mine(z, u)) = Cardinality(Mine(t, u)) + 1
    <3>1. new.up = u
      BY <2>3
    <3> QED
      <4>1. n = Len(t) + 1 /\ z = Append(t, new)
        BY ONLY <1>4, z = Append(t, new)
      <4>2. /\ Mine(z, u) = Mine(t, u) \cup {Len(t) + 1}
            /\ Cardinality(Mine(z, u)) = Cardinality(Mine(t, u)) + 1
        BY ONLY <3>1, <4>1, t \in Seq(TableRow), new \in TableRow, MineGrown
      <4> QED
        BY ONLY <4>1, <4>2
  <2> QED
    BY <1>5, <2>1, <2>2, <2>3, <2>4
<1>7. /\ q.added = Cardinality(Z)
      /\ \A i \in 1 .. Len(q.errors) : SeenRow(q, q.errors[i])
  <2>1. p.added = Cardinality(M) /\ \A i \in 1 .. Len(p.errors) : SeenRow(p, p.errors[i])
    BY <1>5 DEF Told
  <2> QED
    BY <1>1, <1>2, <1>6, <2>1
<1>8. ASSUME NEW k \in Z PROVE SeenRow(q, z[k].row)
  <2>1. CASE k = n
    BY <1>1, <1>3, <1>6, <2>1
  <2>2. CASE k \in M
    <3>1. SeenRow(p, t[k].row) /\ t[k].row \in RowNumbers /\ z[k] = t[k]
      BY <1>2, <1>5, <1>6, <2>2 DEF Told
    <3> QED
      BY <1>1, <3>1
  <2> QED
    BY <1>6, <2>1, <2>2
<1>9. ASSUME NEW m \in RowNumbers, SeenRow(q, m)
      PROVE  \/ \E k \in Z : z[k].row = m
             \/ \E i \in 1 .. Len(q.errors) : q.errors[i] = m
  <2>1. CASE m = new.row
    BY <1>6, <2>1
  <2>2. CASE SeenRow(p, m)
    <3>1. \/ \E k \in M : t[k].row = m
          \/ \E i \in 1 .. Len(p.errors) : p.errors[i] = m
      BY <1>5, <2>2 DEF Told
    <3> QED
      BY <1>6, <3>1
  <2> QED
    BY <1>1, <1>9, <2>1, <2>2
<1>10. ASSUME NEW k \in Z, NEW i \in 1 .. Len(q.errors) PROVE q.errors[i] # z[k].row
  <2>1. CASE k = n
    BY <1>1, <1>6, <2>1
  <2>2. CASE k \in M
    <3>1. p.errors[i] # t[k].row /\ z[k] = t[k]
      BY <1>5, <1>6, <2>2 DEF Told
    <3> QED
      BY <3>1
  <2> QED
    BY <1>6, <2>1, <2>2
<1>11. Z = Mine(z, q.up)
  BY <1>5
<1> QED
  BY ONLY <1>7, <1>8, <1>9, <1>10, <1>11 DEF Told

\* A row behind all others of its upload keeps a table in order.
LEMMA OrderAppended ==
  ASSUME NEW t \in Seq(TableRow), InOrder(t), NEW new \in TableRow,
         new.up # 0 => \A k \in Mine(t, new.up) : t[k].row < new.row
  PROVE  InOrder(Append(t, new))
<1>1. PICK z, n : z = Append(t, new) /\ n = Len(t) + 1
  OBVIOUS
<1>2. /\ n \in Nat /\ Len(t) = n - 1 /\ Len(z) = n /\ z[n] = new
      /\ \A k \in 1 .. n - 1 : z[k] = t[k]
  BY <1>1, AppendProperties, LenProperties
<1> SUFFICES ASSUME NEW j \in 1 .. n, NEW k \in 1 .. n,
                    j < k, z[j].up = z[k].up, z[j].up # 0
             PROVE  z[j].row < z[k].row
  BY <1>1, <1>2 DEF InOrder
<1>3. j \in 1 .. n - 1 /\ (k \in 1 .. n - 1 \/ k = n)
  BY <1>2
<1>4. CASE k \in 1 .. n - 1
  BY <1>2, <1>3, <1>4 DEF InOrder
<1>5. CASE k = n
  <2>1. j \in Mine(t, new.up) /\ new.up # 0
    BY <1>2, <1>3, <1>5 DEF Mine
  <2> QED
    BY <1>2, <1>3, <1>5, <2>1
<1> QED
  BY <1>3, <1>4, <1>5

\* A step of one request that leaves the others as they are: what they are
\* told is as true as before, since a row that is added is not theirs.
LEMMA AnswersOfOthers ==
  ASSUME Core, Answers, NEW c \in Clients, NEW q \in {Idle} \cup Request,
         req' = [req EXCEPT ![c] = q],
         q # Idle => Told(table', q),
         \/ table' = table
         \/ \E new \in TableRow : /\ table' = Append(table, new)
                                  /\ c \in Busy /\ new.up = req[c].up
                                  /\ \A k \in Mine(table, new.up) : table[k].row < new.row
  PROVE  Answers'
<1>1. table \in Seq(TableRow) /\ req \in [Clients -> {Idle} \cup Request] /\ InOrder(table)
  BY DEF Core, TypeOK, Answers
<1>2. ASSUME NEW d \in Busy' PROVE Told(table', req'[d])
  <2>1. d \in Clients /\ req'[d].pc # "idle"
    BY <1>2 DEF Busy
  <2>2. CASE d = c
    BY <1>1, <2>1, <2>2 DEF Idle
  <2>3. CASE d # c
    <3>1. req'[d] = req[d] /\ d \in Busy
      BY <1>1, <2>1, <2>3 DEF Busy
    <3>2. Told(table, req[d])
      BY <3>1 DEF Answers
    <3>3. CASE table' = table
      BY <3>1, <3>2, <3>3
    <3>4. ASSUME NEW new \in TableRow, table' = Append(table, new), c \in Busy, new.up = req[c].up
          PROVE  Told(table', req[d])
      <4>1. new.up # req[d].up
        BY <2>3, <3>1, <3>4 DEF Core, UploadsApart
      <4> QED
        BY <1>1, <3>2, <3>4, <4>1, ToldOfOthers
    <3> QED
      BY <3>1, <3>3, <3>4
  <2> QED
    BY <2>2, <2>3
<1>3. InOrder(table')
  BY <1>1, OrderAppended
<1>4. \A d \in Busy' : Told(table', req'[d])
  BY <1>2
<1> QED
  BY <1>3, <1>4 DEF Answers

\* Nothing is told before anything is sent.
LEMMA InitAnswers == Init => Answers
<1> SUFFICES ASSUME Init PROVE Answers
  OBVIOUS
<1>1. Busy = {} /\ Len(table) = 0
  BY EmptySeq DEF Init, Busy, Idle
<1> QED
  BY <1>1 DEF Answers, InOrder

\* No step makes what was told untrue.
LEMMA NextAnswers == Core /\ Answers /\ [Next]_vars => Answers'
<1> SUFFICES ASSUME Core, Answers, [Next]_vars PROVE Answers'
  OBVIOUS
<1>t. /\ TypeOK /\ table \in Seq(TableRow) /\ sends \in Nat
      /\ \A k \in 1 .. Len(table) : table[k].up <= sends /\ table[k].up \in Nat
  <2>1. TypeOK /\ table \in Seq(TableRow) /\ sends \in Nat
    BY UploadAssumption DEF Core, TypeOK
  <2>2. \A k \in 1 .. Len(table) : table[k] \in TableRow
    BY <2>1, ElementOfSeq
  <2> QED
    BY <2>1, <2>2 DEF Core, UploadsApart, TableRow
<1>n. ASSUME NEW q, q.up = sends + 1, q.at = 1, q.added = 0, q.errors = <<>>
      PROVE  Told(table, q)
  <2>1. \A k \in 1 .. Len(table) : table[k].up # q.up
    BY <1>t, <1>n
  <2>2. Len(q.errors) = 0
    BY <1>n
  <2> QED
    BY <1>t, <1>n, <2>1, <2>2, ToldAtFirst
<1>1. ASSUME NEW c \in Clients, NEW kind \in [RowNumbers -> Kinds], Send(c, kind) PROVE Answers'
  <2>1. PICK rows : rows = [n \in RowNumbers |-> [row |-> n, kind |-> kind[n]]]
    OBVIOUS
  <2>2. PICK q : q = Upload(rows)
    OBVIOUS
  <2>3. req' = [req EXCEPT ![c] = q] /\ sends < MaxSends /\ table' = table
    BY <1>1, <2>1, <2>2 DEF Send
  <2>4. rows \in Seq(SheetRow) /\ Len(rows) = Size /\ \A j, k \in 1 .. Len(rows) : j < k => rows[j].row < rows[k].row
    BY <2>1, WholeSheet
  <2>5. q \in Request /\ q.up = sends + 1 /\ q.at = 1 /\ q.added = 0 /\ q.errors = <<>>
    BY <1>t, <2>2, <2>3, <2>4, SheetSent, UploadAssumption
  <2> QED
    BY <1>n, <2>3, <2>5, AnswersOfOthers
<1>2. ASSUME NEW c \in Clients, NEW kind \in [RowNumbers -> Kinds], Correct(c, kind) PROVE Answers'
  <2>1. PICK rows : rows = [k \in DOMAIN req[c].errors |->
                             [row |-> req[c].errors[k], kind |-> kind[req[c].errors[k]]]]
    OBVIOUS
  <2>2. PICK q : q = Upload(rows)
    OBVIOUS
  <2>3. c \in Busy /\ req' = [req EXCEPT ![c] = q] /\ sends < MaxSends /\ table' = table
    BY <1>2, <2>1, <2>2 DEF Correct, Busy
  <2>4. rows \in Seq(SheetRow) /\ Len(rows) <= Size /\ \A j, k \in 1 .. Len(rows) : j < k => rows[j].row < rows[k].row
    BY <2>1, <2>3, ReportedSheet
  <2>5. q \in Request /\ q.up = sends + 1 /\ q.at = 1 /\ q.added = 0 /\ q.errors = <<>>
    BY <1>t, <2>2, <2>3, <2>4, SheetSent
  <2> QED
    BY <1>n, <2>3, <2>5, AnswersOfOthers
<1>3. ASSUME NEW c \in Clients, GiveUp(c) PROVE Answers'
  <2>1. req' = [req EXCEPT ![c] = Idle] /\ table' = table
    BY <1>3 DEF GiveUp
  <2> QED
    BY <2>1, AnswersOfOthers
<1>4. ASSUME NEW c \in Clients, InLoop(c), NEW added, NEW errors,
             req' = [req EXCEPT ![c] = Moved(req[c], added, errors)],
             Outcome(c, added, errors),
             \/ /\ table' = table /\ Current(c).kind = "blank"
                /\ added = req[c].added /\ errors = req[c].errors
             \/ /\ table' = table /\ Current(c).kind # "blank"
                /\ added = req[c].added /\ errors = Append(req[c].errors, Current(c).row)
             \/ /\ table' = Append(table, [row |-> Current(c).row, up |-> req[c].up])
                /\ Current(c).kind # "blank"
                /\ added = req[c].added + 1 /\ errors = req[c].errors
      PROVE  Answers'
  <2>1. PICK p : p = req[c]
    OBVIOUS
  <2>2. /\ c \in Busy /\ p \in Request /\ InPlace(p) /\ Ordered(p) /\ p.at \in 1 .. Len(p.rows)
        /\ Current(c).row \in RowNumbers /\ p.rows[p.at] = Current(c)
    BY <1>4, <2>1, LoopFields DEF Current
  <2>3. Told(table, p)
    BY <2>1, <2>2 DEF Answers
  <2>4. PICK q : q = Moved(p, added, errors)
    OBVIOUS
  <2>5. /\ q \in Request /\ q.up = p.up /\ q.rows = p.rows /\ q.at = p.at + 1
        /\ q.added = added /\ q.errors = errors
    BY <1>4, <2>1, <2>4, MovedSound
  <2>6. req' = [req EXCEPT ![c] = q]
    BY <1>4, <2>1, <2>4
  <2>7. CASE /\ table' = table /\ Current(c).kind = "blank"
             /\ added = p.added /\ errors = p.errors
    <3>1. Told(table, q)
      BY <1>t, <2>2, <2>3, <2>5, <2>7, ToldOfBlank
    <3> QED
      BY <2>5, <2>6, <2>7, <3>1, AnswersOfOthers
  <2>8. CASE /\ table' = table /\ Current(c).kind # "blank"
             /\ added = p.added /\ errors = Append(p.errors, Current(c).row)
    <3>1. Told(table, q)
      BY <1>t, <2>2, <2>3, <2>5, <2>8, ToldOfRefused
    <3> QED
      BY <2>5, <2>6, <2>8, <3>1, AnswersOfOthers
  <2>9. CASE /\ table' = Append(table, [row |-> Current(c).row, up |-> p.up])
             /\ Current(c).kind # "blank"
             /\ added = p.added + 1 /\ errors = p.errors
    <3>1. PICK new : new = [row |-> Current(c).row, up |-> p.up]
      OBVIOUS
    <3>2. /\ new \in TableRow /\ table' = Append(table, new)
          /\ new.row = Current(c).row /\ new.up = p.up
      <4>1. p.up \in Nat
        BY <1>t, <2>1, <2>2, BusyFields, UploadAssumption
      <4> QED
        BY <2>2, <2>9, <3>1, <4>1 DEF TableRow
    <3>3. Told(table', q)
      BY <1>t, <2>2, <2>3, <2>5, <2>9, <3>2, ToldOfAdded
    <3>4. \A k \in Mine(table, p.up) : table[k].row < Current(c).row
      BY <1>t, <2>2, <2>3, <2>5, SeenAfter
    <3> QED
      BY <2>1, <2>2, <2>5, <2>6, <3>2, <3>3, <3>4, AnswersOfOthers
  <2> QED
    BY <1>4, <2>1, <2>7, <2>8, <2>9
<1>5. ASSUME NEW c \in Clients, SkipBlank(c) PROVE Answers'
  <2>1. InLoop(c) /\ req' = [req EXCEPT ![c] = Moved(req[c], req[c].added, req[c].errors)]
    BY <1>5, LoopSteps DEF SkipBlank
  <2>2. table' = table /\ Current(c).kind = "blank"
    BY <1>5 DEF SkipBlank
  <2>3. Outcome(c, req[c].added, req[c].errors)
    BY DEF Outcome
  <2> QED
    BY <1>4, <2>1, <2>2, <2>3
<1>6. ASSUME NEW c \in Clients, RefuseRow(c) \/ AddFails(c) PROVE Answers'
  <2>1. InLoop(c) /\ req' = [req EXCEPT ![c] = Moved(req[c], req[c].added, Append(req[c].errors, Current(c).row))]
    BY <1>6, LoopSteps DEF RefuseRow, AddFails, AddCalled
  <2>2. table' = table /\ Current(c).kind # "blank"
    BY <1>6 DEF RefuseRow, AddFails, AddCalled, Refused
  <2>3. Outcome(c, req[c].added, Append(req[c].errors, Current(c).row))
    BY DEF Outcome
  <2> QED
    BY <1>4, <2>1, <2>2, <2>3
<1>7. ASSUME NEW c \in Clients, AddRow(c) \/ AddRowCut(c) PROVE Answers'
  <2>1. InLoop(c) /\ req' = [req EXCEPT ![c] = Moved(req[c], req[c].added + 1, req[c].errors)]
    BY <1>7, LoopSteps DEF AddRow, AddRowCut, AddCalled
  <2>2. /\ table' = Append(table, [row |-> Current(c).row, up |-> req[c].up])
        /\ Current(c).kind # "blank"
    BY <1>7 DEF AddRow, AddRowCut, AddCalled, Added
  <2>3. Outcome(c, req[c].added + 1, req[c].errors)
    BY DEF Outcome
  <2> QED
    BY <1>4, <2>1, <2>2, <2>3
<1>8. ASSUME NEW c \in Clients, Answer(c) PROVE Answers'
  <2>1. PICK q : q = [req[c] EXCEPT !.pc = "answered"]
    OBVIOUS
  <2>2. /\ c \in Busy /\ req' = [req EXCEPT ![c] = q] /\ q \in Request
        /\ q.up = req[c].up /\ q.rows = req[c].rows /\ q.at = req[c].at
        /\ q.added = req[c].added /\ q.errors = req[c].errors
    BY <1>8, <2>1, Answered
  <2>3. table' = table
    BY <1>8 DEF Answer
  <2>4. Told(table, req[c])
    BY <2>2 DEF Answers
  <2>5. Told(table, q)
    BY <2>2, <2>4 DEF Told, SeenRow
  <2> QED
    BY <2>2, <2>3, <2>5, AnswersOfOthers
<1>12. ASSUME NEW c \in Clients, AnswerFails(c) PROVE Answers'
  <2>1. req' = [req EXCEPT ![c] = Idle] /\ table' = table
    BY <1>12 DEF AnswerFails
  <2> QED
    BY <2>1, AnswersOfOthers
<1>9. ASSUME Add PROVE Answers'
  <2>1. PICK new : new = [row |-> 0, up |-> 0]
    OBVIOUS
  <2>2. new \in TableRow /\ new.up = 0
    BY <2>1 DEF TableRow
  <2>3. table' = Append(table, new) /\ req' = req
    BY <1>9, <2>1 DEF Add
  <2>4. InOrder(table')
    BY <1>t, <2>2, <2>3, OrderAppended DEF Answers
  <2>5. ASSUME NEW c \in Busy PROVE Told(table', req[c])
    <3>1. new.up # req[c].up
      BY <1>t, <2>2, BusyFields, UploadAssumption
    <3> QED
      BY <1>t, <2>2, <2>3, <3>1, ToldOfOthers DEF Answers
  <2>6. Busy' = Busy
    BY <2>3 DEF Busy
  <2> QED
    BY <2>3, <2>4, <2>5, <2>6 DEF Answers
<1>10. ASSUME Crash PROVE Answers'
  <2>1. \A c \in Busy' : c \in Busy /\ req'[c] = req[c]
    BY <1>10, Crashed
  <2>2. table' = table
    BY <1>10 DEF Crash
  <2> QED
    BY <2>1, <2>2 DEF Answers
<1>11. CASE UNCHANGED vars
  BY <1>11 DEF vars, Answers, Busy
<1> QED
  BY <1>1, <1>2, <1>3, <1>5, <1>6, <1>7, <1>8, <1>9, <1>10, <1>11, <1>12 DEF Next, Proceed

\* What is told of the table is told of its requests.
LEMMA AnswersTold == Core /\ Answers => AnswerTruthful /\ SheetOrderKept
<1> SUFFICES ASSUME Core, Answers PROVE AnswerTruthful /\ SheetOrderKept
  OBVIOUS
<1>1. TypeOK /\ table \in Seq(TableRow) /\ DOMAIN table = 1 .. Len(table)
  BY LenProperties DEF Core, TypeOK
<1>2. ASSUME NEW c \in Busy, NEW q, q = req[c],
             NEW mine, mine = {k \in DOMAIN table : table[k].up = q.up},
             NEW seen, seen = {q.rows[k] : k \in 1 .. q.at - 1}
      PROVE  /\ q.added = Cardinality(mine \ gone) + Cardinality(mine \cap gone)
             /\ {s.row : s \in {s \in seen : s.kind # "blank"}}
                  = {table[k].row : k \in mine} \cup {q.errors[k] : k \in DOMAIN q.errors}
             /\ \A k \in mine : Times(table[k].row, q.errors) = 0
  <2>1. /\ q \in Request /\ InPlace(q) /\ Told(table, q)
        /\ q.errors \in Seq(RowNumbers) /\ DOMAIN q.errors = 1 .. Len(q.errors)
    BY <1>1, <1>2, BusyFields, LenProperties DEF Core, RequestsSound, Answers
  <2>2. mine = Mine(table, q.up)
    BY <1>1, <1>2 DEF Mine
  <2>3. \A m : m \in {s.row : s \in {s \in seen : s.kind # "blank"}} <=> SeenRow(q, m)
    BY <1>2 DEF SeenRow
  <2>4. \A m : SeenRow(q, m) <=> \/ \E k \in mine : table[k].row = m
                                 \/ \E i \in 1 .. Len(q.errors) : q.errors[i] = m
    BY <2>1, <2>2, SeenIsRow DEF Told
  <2>5. {s.row : s \in {s \in seen : s.kind # "blank"}}
          = {table[k].row : k \in mine} \cup {q.errors[k] : k \in DOMAIN q.errors}
    <3>1. \A m : m \in {table[k].row : k \in mine} \cup {q.errors[k] : k \in DOMAIN q.errors}
                   <=> SeenRow(q, m)
      BY <2>1, <2>4
    <3> QED
      BY <2>3, <3>1
  <2>6. ASSUME NEW k \in mine PROVE Times(table[k].row, q.errors) = 0
    <3>1. \A i \in DOMAIN q.errors : q.errors[i] # table[k].row
      BY <2>1, <2>2 DEF Told
    <3>2. {i \in DOMAIN q.errors : q.errors[i] = table[k].row} = {}
      BY <3>1
    <3> QED
      BY <3>2, FS_EmptySet DEF Times
  <2>7. q.added = Cardinality(mine \ gone) + Cardinality(mine \cap gone)
    <3>1. q.added = Cardinality(mine)
      BY <2>1, <2>2 DEF Told
    <3>2. IsFiniteSet(mine)
      BY <1>1, <2>2, MineFinite
    <3> QED
      BY <3>1, <3>2, GoneOrNot
  <2> QED
    BY <2>5, <2>6, <2>7
<1>3. AnswerTruthful
  BY <1>2 DEF AnswerTruthful, Busy
<1>4. ASSUME NEW c \in Clients, req[c].pc = "rows", NEW k \in DOMAIN table, table[k].up = req[c].up
      PROVE  \E j \in 1 .. req[c].at - 1 : req[c].rows[j].row = table[k].row
  <2>1. c \in Busy /\ k \in Mine(table, req[c].up)
    BY <1>1, <1>4 DEF Busy, Mine
  <2>2. SeenRow(req[c], table[k].row)
    BY <2>1 DEF Answers, Told
  <2> QED
    BY <2>2 DEF SeenRow
<1>5. SheetOrderKept
  BY <1>1, <1>4 DEF SheetOrderKept, Answers, InOrder
<1> QED
  BY <1>3, <1>5

\* How far the page can be trusted, however uploads, forms and failures
\* interleave: the rows reported are not in the file, and of the others, the
\* number, those are not that a write took away again when it was cut.
THEOREM AnswersTrue == Spec => []AnswerTruthful
<1>1. Core /\ Answers /\ [Next]_vars => Answers'
  BY NextAnswers
<1>2. Core /\ Answers => AnswerTruthful
  BY AnswersTold
<1> QED
  BY <1>1, <1>2, InitAnswers, CoreInvariant, PTL DEF Spec

\* The rows of a sheet stay in its order, whatever is added between them.
THEOREM SheetOrder == Spec => []SheetOrderKept
<1>1. Core /\ Answers /\ [Next]_vars => Answers'
  BY NextAnswers
<1>2. Core /\ Answers => SheetOrderKept
  BY AnswersTold
<1> QED
  BY <1>1, <1>2, InitAnswers, CoreInvariant, PTL DEF Spec
=============================================================================
