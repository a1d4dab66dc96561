----------------------------- MODULE CsvStoreProofs -----------------------------
(***************************************************************************)
(* The files under the mutex behave like tables that are changed in one    *)
(* step, for any number of goroutines, files, rows and faults: CsvStore    *)
(* implements Repository.                                                  *)
(***************************************************************************)
EXTENDS CsvStore, SequenceTheorems, TLAPS

-----------------------------------------------------------------------------
(* What is written is what is read.                                        *)

\* Every format has columns, and keeps the rows writeAll writes.
LEMMA Formats ==
  ASSUME NEW f \in DOMAIN Format
  PROVE  /\ Format[f].width \in Nat /\ Format[f].least \in Nat
         /\ 0 < Format[f].least /\ Format[f].least <= Format[f].width
BY DEF Format, ItemsFormat, UsersFormat, DepartmentsFormat, TransactionsFormat,
       ReturnsFormat, AccountsFormat

\* A sequence by its elements.
LEMMA SeqOf ==
  ASSUME NEW S, NEW n \in Nat, NEW s \in [1 .. n -> S]
  PROVE  s \in Seq(S) /\ Len(s) = n
OBVIOUS

\* What readAll returns are rows, unless it fails.
LEMMA ReadAllType ==
  ASSUME NEW f \in Files, NEW file \in File, ~Rejected(file)
  PROVE  ReadAll(f, file) \in Seq(Stored)
<1>1. CASE file.header < Format[f].least
  BY <1>1 DEF ReadAll
<1>2. CASE ~(file.header < Format[f].least)
  <2>1. file.lines \in Seq(Line)
    BY DEF File
  <2> DEFINE n == Len(file.lines)
             rows == [k \in 1 .. n |-> file.lines[k].row]
  <2>2. n \in Nat /\ DOMAIN file.lines = 1 .. n /\ \A k \in 1 .. n : file.lines[k] \in Line
    BY <2>1
  <2>3. \A k \in 1 .. n : file.lines[k].row \in Stored
    BY <2>2 DEF Line
  <2>4. ReadAll(f, file) = rows
    BY <1>2, <2>2 DEF ReadAll
  <2>5. rows \in [1 .. n -> Stored]
    BY <2>3
  <2> HIDE DEF n, rows
  <2> QED
    BY <2>2, <2>4, <2>5, SeqOf
<1> QED
  BY <1>1, <1>2

\* writeAll's lines, by their number.
LEMMA EncodeLines ==
  ASSUME NEW f \in Files, NEW table \in Seq(Stored)
  PROVE  /\ Encode(f, table) \in File
         /\ Encode(f, table).header = Format[f].width
         /\ Len(Encode(f, table).lines) = Len(table)
         /\ \A k \in 1 .. Len(table) :
              Encode(f, table).lines[k] = [cols |-> Format[f].width, row |-> table[k]]
<1> DEFINE w == Format[f].width
           n == Len(table)
           lines == [k \in 1 .. n |-> [cols |-> w, row |-> table[k]]]
<1>1. w \in Nat
  BY Formats, CsvStoreAssumption
<1>2. n \in Nat /\ DOMAIN table = 1 .. n /\ \A k \in 1 .. n : table[k] \in Stored
  OBVIOUS
<1>3. Encode(f, table) = [header |-> w, lines |-> lines]
  BY <1>2 DEF Encode
<1> HIDE DEF w
<1>4. lines \in [1 .. n -> Line]
  BY <1>1, <1>2 DEF Line
<1>5. lines \in Seq(Line) /\ Len(lines) = n
  BY <1>2, <1>4, SeqOf
<1>6. \A k \in 1 .. n : lines[k] = [cols |-> w, row |-> table[k]]
  OBVIOUS
<1> HIDE DEF lines, n
<1>7. [header |-> w, lines |-> lines] \in File
  BY <1>1, <1>5 DEF File
<1> QED
  BY <1>2, <1>3, <1>5, <1>6, <1>7 DEF n, w

\* A whole file reads as the table it was made from.
LEMMA EncodeReads ==
  ASSUME NEW f \in Files, NEW table \in Seq(Stored)
  PROVE  ReadAll(f, Encode(f, table)) = table
<1> DEFINE file == Encode(f, table)
           n == Len(table)
<1>1. /\ file.header = Format[f].width
      /\ DOMAIN file.lines = 1 .. n
      /\ \A k \in 1 .. n : file.lines[k].cols = Format[f].width /\ file.lines[k].row = table[k]
  <2>1. /\ file \in File /\ file.header = Format[f].width /\ Len(file.lines) = n
        /\ \A k \in 1 .. n : file.lines[k] = [cols |-> Format[f].width, row |-> table[k]]
    BY EncodeLines
  <2>2. file.lines \in Seq(Line)
    BY <2>1 DEF File
  <2> HIDE DEF file, n
  <2>3. ASSUME NEW k \in 1 .. n
        PROVE  file.lines[k].cols = Format[f].width /\ file.lines[k].row = table[k]
    <3>1. file.lines[k] = [cols |-> Format[f].width, row |-> table[k]]
      BY <2>1
    <3> QED
      BY <3>1
  <2> QED
    BY <2>1, <2>2, <2>3
<1>2. ~Rejected(file)
  BY <1>1 DEF Rejected
<1>3. ~(file.header < Format[f].least)
  BY <1>1, Formats, CsvStoreAssumption
<1>4. table = [k \in 1 .. n |-> table[k]]
  OBVIOUS
<1> HIDE DEF file
<1>5. ReadAll(f, file) = [k \in 1 .. n |-> file.lines[k].row]
  BY <1>1, <1>2, <1>3 DEF ReadAll
<1> QED
  BY <1>1, <1>4, <1>5 DEF file

\* An emptied file reads as a table without rows.
LEMMA TruncatedReads ==
  ASSUME NEW f \in Files
  PROVE  Truncated \in File /\ ReadAll(f, Truncated) = <<>>
<1>1. Truncated \in File /\ Truncated.header = 0 /\ Truncated.lines = <<>>
  BY DEF Truncated, File
<1>2. ~Rejected(Truncated)
  BY <1>1 DEF Rejected
<1>3. 0 < Format[f].least
  BY Formats, CsvStoreAssumption
<1> QED
  BY <1>1, <1>2, <1>3 DEF ReadAll

\* A file cut short between two rows reads as the rows before the cut.
LEMMA CutReads ==
  ASSUME NEW f \in Files, NEW table \in Seq(Stored), NEW n \in 0 .. Len(table)
  PROVE  /\ Partial(f, table, n, FALSE) \in File
         /\ ReadAll(f, Partial(f, table, n, FALSE)) = SubSeq(table, 1, n)
<1> DEFINE lines == Encode(f, table).lines
           cut == SubSeq(lines, 1, n)
           file == Partial(f, table, n, FALSE)
<1>1. file = [Encode(f, table) EXCEPT !.lines = cut]
  BY DEF Partial
<1>2. /\ Encode(f, table) \in File /\ Encode(f, table).header = Format[f].width
      /\ Len(lines) = Len(table) /\ lines \in Seq(Line)
      /\ \A k \in 1 .. Len(table) : lines[k] = [cols |-> Format[f].width, row |-> table[k]]
  BY EncodeLines DEF File
<1>3. n \in Nat /\ n <= Len(table) /\ Len(table) \in Nat
  OBVIOUS
<1> HIDE DEF lines
<1>4. \A k \in 1 .. n : lines[k] \in Line
  BY <1>2, <1>3
<1>5. /\ cut \in Seq(Line) /\ Len(cut) = n
      /\ \A k \in 1 .. n : cut[k] = lines[k]
  BY <1>3, <1>4, SubSeqProperties
<1> HIDE DEF cut
<1>6. file \in File /\ file.header = Format[f].width /\ file.lines = cut
  BY <1>1, <1>2, <1>5 DEF File
<1> HIDE DEF file
<1>7. ASSUME NEW k \in 1 .. n
      PROVE  cut[k].cols = Format[f].width /\ cut[k].row = table[k]
  <2>1. k \in 1 .. Len(table)
    BY <1>3
  <2>2. cut[k] = [cols |-> Format[f].width, row |-> table[k]]
    BY <1>2, <1>5, <2>1
  <2> QED
    BY <2>2
<1>8. DOMAIN cut = 1 .. n
  BY <1>5
<1>9. ~Rejected(file)
  BY <1>6, <1>7, <1>8 DEF Rejected
<1>10. ~(file.header < Format[f].least)
  BY <1>6, Formats, CsvStoreAssumption
<1>11. ReadAll(f, file) = [k \in 1 .. n |-> cut[k].row]
  BY <1>6, <1>8, <1>9, <1>10 DEF ReadAll
<1>12. [k \in 1 .. n |-> cut[k].row] = [k \in 1 .. n |-> table[k]]
  BY <1>7
<1>13. SubSeq(table, 1, n) = [k \in 1 .. n |-> table[k]]
  <2>1. \A k \in 1 .. n : table[k] \in Stored
    BY <1>3
  <2>2. /\ SubSeq(table, 1, n) \in Seq(Stored) /\ Len(SubSeq(table, 1, n)) = n
        /\ \A k \in 1 .. n : SubSeq(table, 1, n)[k] = table[k]
    BY <1>3, <2>1, SubSeqProperties
  <2> DEFINE s == SubSeq(table, 1, n)
  <2> HIDE DEF s
  <2>3. s = [k \in 1 .. n |-> s[k]]
    BY <2>2 DEF s
  <2> QED
    BY <2>2, <2>3 DEF s
<1> QED
  BY <1>6, <1>11, <1>12, <1>13 DEF file

\* A file cut inside a row cannot be read.
LEMMA TornReads ==
  ASSUME NEW f \in Files, NEW table \in Seq(Stored), NEW n \in 0 .. Len(table) - 1
  PROVE  /\ Partial(f, table, n, TRUE) \in File
         /\ ReadAll(f, Partial(f, table, n, TRUE)) = Unreadable
<1> DEFINE lines == Encode(f, table).lines
           cut == SubSeq(lines, 1, n)
           last == Torn(lines[n + 1])
           file == Partial(f, table, n, TRUE)
<1>1. file = [Encode(f, table) EXCEPT !.lines = Append(cut, last)]
  BY DEF Partial
<1>2. /\ Encode(f, table) \in File /\ Encode(f, table).header = Format[f].width
      /\ Len(lines) = Len(table) /\ lines \in Seq(Line)
      /\ \A k \in 1 .. Len(table) : lines[k] = [cols |-> Format[f].width, row |-> table[k]]
  BY EncodeLines DEF File
<1>3. n \in Nat /\ n + 1 \in 1 .. Len(table) /\ Len(table) \in Nat
  OBVIOUS
<1>4. Format[f].width \in Nat /\ Format[f].width > 0
  BY Formats, CsvStoreAssumption
<1>5. last = [cols |-> Format[f].width - 1, row |-> table[n + 1]]
  <2>1. lines[n + 1] = [cols |-> Format[f].width, row |-> table[n + 1]]
    BY <1>2, <1>3
  <2> QED
    BY <2>1 DEF Torn
<1>6. last \in Line /\ last.cols # Format[f].width
  BY <1>3, <1>4, <1>5 DEF Line
<1> HIDE DEF lines, last
<1>7. \A k \in 1 .. n : lines[k] \in Line
  BY <1>2, <1>3
<1>8. cut \in Seq(Line) /\ Len(cut) = n
  BY <1>3, <1>7, SubSeqProperties
<1> HIDE DEF cut
<1>9. /\ Append(cut, last) \in Seq(Line) /\ Len(Append(cut, last)) = n + 1
      /\ Append(cut, last)[n + 1] = last
  BY <1>6, <1>8, AppendProperties
<1>10. file \in File /\ file.header = Format[f].width /\ file.lines = Append(cut, last)
  BY <1>1, <1>2, <1>9 DEF File
<1> HIDE DEF file, last
<1>11. n + 1 \in DOMAIN file.lines
  <2>1. DOMAIN Append(cut, last) = 1 .. n + 1
    BY <1>3, <1>9, LenProperties
  <2> QED
    BY <1>3, <1>10, <2>1
<1>12. Rejected(file)
  BY <1>6, <1>9, <1>10, <1>11 DEF Rejected
<1> QED
  BY <1>10, <1>12 DEF ReadAll, file

\* What a fault leaves behind: the first rows, or a file nobody can read.
LEMMA LeftBehind ==
  ASSUME NEW f \in Files, NEW table \in Seq(Stored),
         NEW file \in Partials(f, table) \cup {Truncated}
  PROVE  /\ file \in File
         /\ \/ ReadAll(f, file) = Unreadable
            \/ \E n \in 0 .. Len(table) : ReadAll(f, file) = SubSeq(table, 1, n)
<1>1. CASE file = Truncated
  <2>1. SubSeq(table, 1, 0) = <<>> /\ 0 \in 0 .. Len(table)
    BY SubSeqEmpty
  <2> QED
    BY <1>1, <2>1, TruncatedReads
<1>2. CASE \E n \in 0 .. Len(table) : file = Partial(f, table, n, FALSE)
  BY <1>2, CutReads
<1>3. CASE \E n \in 0 .. Len(table) - 1 : file = Partial(f, table, n, TRUE)
  BY <1>3, TornReads
<1> QED
  BY <1>1, <1>2, <1>3 DEF Partials

\* readAll fails exactly on rejected files.
LEMMA Readable ==
  ASSUME NEW f \in Files, NEW file \in File
  PROVE  Rejected(file) <=> ReadAll(f, file) = Unreadable
<1>1. CASE Rejected(file)
  BY <1>1 DEF ReadAll
<1>2. CASE ~Rejected(file)
  BY <1>2, ReadAllType, CsvStoreAssumption
<1> QED
  BY <1>1, <1>2

\* Every method turns rows into rows.
LEMMA ResultType ==
  ASSUME NEW table \in Seq(Stored), NEW row \in Row, NEW file, NEW method,
         Accepts(file, method, table, row)
  PROVE  Result(method, table, row) \in Seq(Stored)
<1> DEFINE n == Len(table)
<1>1. n \in Nat /\ DOMAIN table = 1 .. n /\ \A k \in 1 .. n : table[k] \in Stored
  OBVIOUS
<1>2. row \in Stored /\ row.val \in Int
  BY CsvStoreAssumption DEF Row, Stored
<1>3. ASSUME NEW id, NEW delta \in Int
      PROVE  Changed(table, id, delta) \in Seq(Stored)
  <2> DEFINE i == First(table, id)
             changed == [table[i] EXCEPT !.val = @ + delta]
  <2>1. Changed(table, id, delta) = [table EXCEPT ![i] = changed]
    BY DEF Changed
  <2> HIDE DEF i
  <2>2. CASE i \in 1 .. n
    <3>1. changed \in Stored
      BY <1>1, <1>3, <2>2 DEF Stored
    <3> HIDE DEF changed
    <3> QED
      BY <2>1, <2>2, <3>1, ExceptSeq
  <2>3. CASE i \notin 1 .. n
    <3>1. [table EXCEPT ![i] = changed] = table
      BY <1>1, <2>3
    <3> QED
      BY <2>1, <3>1
  <2> QED
    BY <2>2, <2>3
<1>4. Replace(table, row) \in Seq(Stored)
  <2> DEFINE new == [k \in 1 .. n |-> IF table[k].id = row.id THEN row ELSE table[k]]
  <2>1. Replace(table, row) = new
    BY <1>1 DEF Replace
  <2>2. new \in [1 .. n -> Stored]
    BY <1>1, <1>2
  <2> HIDE DEF new, n
  <2> QED
    BY <1>1, <2>1, <2>2, SeqOf
<1>5. Append(table, row) \in Seq(Stored)
  BY <1>2, AppendProperties
<1>6. method \in {"add", "update", "decrease", "increase"}
  BY DEF Accepts
<1>7. -row.val \in Int
  BY <1>2
<1> HIDE DEF n
<1> QED
  BY <1>2, <1>3, <1>4, <1>5, <1>6, <1>7 DEF Result

-----------------------------------------------------------------------------
(* What holds in every state.                                              *)

\* A goroutine calls a method of its repository ...
Known == \A p \in Procs : ~At(p, "idle") => call[p].method \in Methods[call[p].file]

\* ... holds what that method makes of the file as it is ...
Ready ==
  \A p \in Procs : At(p, "create") =>
    LET c == call[p]
        table == ReadAll(c.file, disk[c.file])
    IN  /\ table # Unreadable
        /\ Accepts(c.file, c.method, table, c.row)
        /\ c.table = Result(c.method, table, c.row)

\* ... and has written a part of it so far.
Writing ==
  \A p \in Procs : At(p, "write") =>
    disk[call[p].file] \in Partials(call[p].file, call[p].table) \cup {Truncated}

Inv == TypeOK /\ Known /\ Ready /\ Writing

\* What a goroutine holds, by the step that comes next.
LEMMA HeldFields ==
  ASSUME TypeOK, NEW p \in Procs
  PROVE  /\ call[p].pc \in {"idle", "lock", "read", "create", "write"}
         /\ call[p].pc # "idle" => call[p].file \in Files /\ call[p].row \in Row
         /\ call[p].pc \in {"create", "write"} => call[p].table \in Seq(Stored)
BY DEF TypeOK, CallType, Idle

\* Between Lock and Unlock there is one goroutine.
LEMMA OneInside ==
  ASSUME TypeOK, NEW p \in Procs, call[p].pc \in {"read", "create", "write"}
  PROVE  \A q \in Procs \ {p} : call[q].pc \in {"idle", "lock"}
BY HeldFields DEF TypeOK

\* The mutex is free exactly when nobody is in there.
LEMMA NobodyInside ==
  ASSUME TypeOK, lock = Free
  PROVE  \A q \in Procs : call[q].pc \in {"idle", "lock"}
BY HeldFields, CsvStoreAssumption DEF TypeOK

\* Nothing is known about a server that has just started but its files.
LEMMA InitInv == Init => Inv
<1> SUFFICES ASSUME Init PROVE Inv
  OBVIOUS
<1>1. \A p \in Procs : call[p] = Idle /\ call[p].pc = "idle"
  BY DEF Init, Idle
<1>2. disk \in [Files -> File]
  BY CsvStoreAssumption DEF Init
<1>3. TypeOK
  BY <1>1, <1>2, CsvStoreAssumption DEF Init, TypeOK
<1> QED
  BY <1>1, <1>3 DEF Inv, Known, Ready, Writing, At

\* A goroutine that comes out leaves the mutex to nobody.
LEMMA LeavesInv ==
  ASSUME Inv, NEW p \in Procs, call[p].pc \in {"read", "create", "write"},
         Returned(p), lock' = Free, disk' \in [Files -> File],
         acked' \in [Files -> SUBSET Ids], calls' \in Nat, faults' \in Nat
  PROVE  Inv'
<1>1. call' = [call EXCEPT ![p] = Idle] /\ Idle.pc = "idle"
  BY DEF Returned, Idle
<1>2. \A q \in Procs \ {p} : call[q].pc \in {"idle", "lock"}
  BY OneInside DEF Inv
<1>3. /\ call' \in [Procs -> CallType \cup {Idle}]
      /\ call'[p] = Idle /\ \A q \in Procs \ {p} : call'[q] = call[q]
  BY <1>1 DEF Inv, TypeOK
<1>4. \A q \in Procs : call'[q].pc \in {"idle", "lock"}
  BY <1>1, <1>2, <1>3
<1>5. TypeOK'
  BY <1>3, <1>4, CsvStoreAssumption DEF TypeOK
<1>6. Known'
  BY <1>1, <1>3 DEF Inv, Known, At
<1> QED
  BY <1>4, <1>5, <1>6 DEF Inv, Ready, Writing, At

\* Inv is inductive.
LEMMA NextInv == Inv /\ [Next]_vars => Inv'
<1> SUFFICES ASSUME Inv, [Next]_vars PROVE Inv'
  OBVIOUS
<1>t. /\ TypeOK /\ Known /\ Ready /\ Writing
      /\ disk \in [Files -> File] /\ acked \in [Files -> SUBSET Ids]
      /\ call \in [Procs -> CallType \cup {Idle}]
      /\ calls \in Nat /\ faults \in Nat
  BY DEF Inv, TypeOK
<1>1. ASSUME NEW p \in Procs, NEW f \in Files, NEW method \in Methods[f], NEW row \in Row,
             Begin(p, f, method, row)
      PROVE  Inv'
  <2> DEFINE new == [pc |-> "lock", file |-> f, method |-> method, row |-> row]
  <2>1. /\ call[p].pc = "idle" /\ call' = [call EXCEPT ![p] = new] /\ calls' = calls + 1
        /\ UNCHANGED <<disk, lock, acked, faults>>
    BY <1>1 DEF Begin, At
  <2>2. new \in CallType /\ new.pc = "lock" /\ new.file = f /\ new.method = method
    BY DEF CallType
  <2> HIDE DEF new
  <2>3. /\ call'[p] = new /\ \A q \in Procs \ {p} : call'[q] = call[q]
        /\ call' \in [Procs -> CallType \cup {Idle}]
    BY <1>t, <2>1, <2>2
  <2>4. TypeOK'
    BY <1>t, <2>1, <2>2, <2>3 DEF TypeOK
  <2>5. Known'
    BY <1>t, <2>2, <2>3 DEF Known, At
  <2>6. Ready'
    BY <1>t, <2>1, <2>2, <2>3 DEF Ready, At
  <2>7. Writing'
    BY <1>t, <2>1, <2>2, <2>3 DEF Writing, At
  <2> QED
    BY <2>4, <2>5, <2>6, <2>7 DEF Inv
<1>2. ASSUME NEW p \in Procs, Lock(p) PROVE Inv'
  <2> DEFINE new == [call[p] EXCEPT !.pc = "read"]
  <2>1. /\ call[p].pc = "lock" /\ lock = Free /\ lock' = p /\ call' = [call EXCEPT ![p] = new]
        /\ UNCHANGED <<disk, acked, calls, faults>>
    BY <1>2 DEF Lock, At
  <2>2. /\ new \in CallType /\ new.pc = "read"
        /\ new.file = call[p].file /\ new.method = call[p].method
    BY <1>t, <2>1 DEF CallType, Idle
  <2> HIDE DEF new
  <2>3. /\ call'[p] = new /\ \A q \in Procs \ {p} : call'[q] = call[q]
        /\ call' \in [Procs -> CallType \cup {Idle}]
    BY <1>t, <2>1, <2>2
  <2>4. \A q \in Procs \ {p} : call'[q].pc \in {"idle", "lock"}
    BY <1>t, <2>1, <2>3, NobodyInside
  <2>5. TypeOK'
    BY <1>t, <2>1, <2>2, <2>3, <2>4 DEF TypeOK
  <2>6. Known'
    BY <1>t, <2>1, <2>2, <2>3 DEF Known, At
  <2>7. Ready' /\ Writing'
    BY <2>2, <2>3, <2>4 DEF Ready, Writing, At
  <2> QED
    BY <2>5, <2>6, <2>7 DEF Inv
<1>3. ASSUME NEW p \in Procs, Read(p) PROVE Inv'
  <2> DEFINE c == call[p]
             table == ReadAll(c.file, disk[c.file])
             new == [pc |-> "create", file |-> c.file, method |-> c.method, row |-> c.row,
                     table |-> Result(c.method, table, c.row)]
  <2>1. /\ call[p].pc = "read" /\ table # Unreadable
        /\ Accepts(c.file, c.method, table, c.row)
        /\ call' = [call EXCEPT ![p] = new]
        /\ UNCHANGED <<disk, lock, acked, calls, faults>>
    BY <1>3 DEF Read, At
  <2>2. c.file \in Files /\ c.row \in Row /\ c.method \in Methods[c.file]
    BY <1>t, <2>1, HeldFields DEF Known, At
  <2>3. table \in Seq(Stored)
    BY <1>t, <2>1, <2>2, Readable, ReadAllType
  <2>4. Result(c.method, table, c.row) \in Seq(Stored)
    BY <2>1, <2>2, <2>3, ResultType
  <2>5. /\ new \in CallType /\ new.pc = "create" /\ new.file = c.file /\ new.method = c.method
        /\ new.row = c.row /\ new.table = Result(c.method, table, c.row)
    BY <2>2, <2>4 DEF CallType
  <2> HIDE DEF new, table
  <2>6. /\ call'[p] = new /\ \A q \in Procs \ {p} : call'[q] = call[q]
        /\ call' \in [Procs -> CallType \cup {Idle}]
    BY <1>t, <2>1, <2>5
  <2>7. \A q \in Procs \ {p} : call'[q].pc \in {"idle", "lock"}
    BY <1>t, <2>1, <2>6, OneInside
  <2>8. TypeOK'
    BY <1>t, <2>1, <2>5, <2>6, <2>7 DEF TypeOK
  <2>9. Known'
    BY <1>t, <2>2, <2>5, <2>6 DEF Known, At
  <2>10. Ready'
    BY <2>1, <2>5, <2>6, <2>7 DEF Ready, At, table
  <2>11. Writing'
    BY <2>5, <2>6, <2>7 DEF Writing, At
  <2> QED
    BY <2>8, <2>9, <2>10, <2>11 DEF Inv
<1>4. ASSUME NEW p \in Procs, ReturnEarly(p) PROVE Inv'
  BY <1>t, <1>4, LeavesInv DEF ReturnEarly, At
<1>5. ASSUME NEW p \in Procs, Create(p) PROVE Inv'
  <2> DEFINE f == call[p].file
             new == [call[p] EXCEPT !.pc = "write"]
  <2>1. /\ call[p].pc = "create" /\ disk' = [disk EXCEPT ![f] = Truncated]
        /\ call' = [call EXCEPT ![p] = new]
        /\ UNCHANGED <<lock, acked, calls, faults>>
    BY <1>5 DEF Create, At
  <2>2. /\ new \in CallType /\ new.pc = "write" /\ new.file = f
        /\ new.method = call[p].method /\ f \in Files
    <3>1. PICK c : c = call[p]
      OBVIOUS
    <3>2. c \in [pc : {"create", "write"}, file : Files,
                 method : UNION {Methods[g] : g \in Files}, row : Row, table : Seq(Stored)]
      BY <1>t, <2>1, <3>1 DEF CallType, Idle
    <3> QED
      BY <3>1, <3>2 DEF CallType
  <2> HIDE DEF new
  <2>3. /\ call'[p] = new /\ \A q \in Procs \ {p} : call'[q] = call[q]
        /\ call' \in [Procs -> CallType \cup {Idle}]
    BY <1>t, <2>1, <2>2
  <2>4. \A q \in Procs \ {p} : call'[q].pc \in {"idle", "lock"}
    BY <1>t, <2>1, <2>3, OneInside
  <2>5. disk' \in [Files -> File] /\ disk'[f] = Truncated
    BY <1>t, <2>1, <2>2, TruncatedReads
  <2>6. TypeOK'
    BY <1>t, <2>1, <2>2, <2>3, <2>4, <2>5 DEF TypeOK
  <2>7. Known'
    BY <1>t, <2>1, <2>2, <2>3 DEF Known, At
  <2>8. Ready' /\ Writing'
    BY <2>2, <2>3, <2>4, <2>5 DEF Ready, Writing, At
  <2> QED
    BY <2>6, <2>7, <2>8 DEF Inv
<1>6. ASSUME NEW p \in Procs, FlushSome(p) PROVE Inv'
  <2> DEFINE f == call[p].file
  <2>1. /\ call[p].pc = "write" /\ f \in Files /\ call[p].table \in Seq(Stored)
        /\ UNCHANGED <<lock, call, acked, calls, faults>>
    BY <1>t, <1>6, HeldFields DEF FlushSome, At
  <2>2. PICK file \in Partials(f, call[p].table) : disk' = [disk EXCEPT ![f] = file]
    BY <1>6 DEF FlushSome
  <2>3. file \in File
    BY <2>1, LeftBehind
  <2>4. disk' \in [Files -> File] /\ disk'[f] = file
    BY <1>t, <2>1, <2>2, <2>3
  <2>5. \A q \in Procs \ {p} : call[q].pc \in {"idle", "lock"}
    BY <1>t, <2>1, OneInside
  <2>6. TypeOK' /\ Known'
    BY <1>t, <2>1, <2>4 DEF TypeOK, Known, At
  <2>7. Ready'
    BY <2>1, <2>5 DEF Ready, At
  <2>8. Writing'
    BY <2>1, <2>2, <2>4, <2>5 DEF Writing, At
  <2> QED
    BY <2>6, <2>7, <2>8 DEF Inv
<1>7. ASSUME NEW p \in Procs, Finish(p) PROVE Inv'
  <2>1. call[p].file \in Files /\ call[p].row \in Row /\ call[p].table \in Seq(Stored)
        /\ call[p].pc = "write"
    BY <1>t, <1>7, HeldFields DEF Finish, At
  <2>2. Encode(call[p].file, call[p].table) \in File
    BY <2>1, EncodeLines
  <2>3. disk' \in [Files -> File] /\ acked' \in [Files -> SUBSET Ids]
    BY <1>t, <1>7, <2>1, <2>2 DEF Finish, Acknowledge, Row
  <2> QED
    BY <1>t, <1>7, <2>1, <2>3, LeavesInv DEF Finish
<1>8. ASSUME NEW p \in Procs, OpenFails(p) PROVE Inv'
  BY <1>t, <1>8, LeavesInv DEF OpenFails, Fault
<1>9. ASSUME NEW p \in Procs, WriteStops(p),
             UNCHANGED acked \/ Acknowledge(p)
      PROVE  Inv'
  <2>1. call[p].file \in Files /\ call[p].row \in Row /\ call[p].table \in Seq(Stored)
        /\ call[p].pc = "write"
    BY <1>t, <1>9, HeldFields DEF WriteStops, At
  <2>2. disk' \in [Files -> File]
    BY <1>t, <1>9, <2>1, LeftBehind DEF WriteStops
  <2>3. acked' \in [Files -> SUBSET Ids]
    BY <1>t, <1>9, <2>1 DEF Acknowledge, Row
  <2> QED
    BY <1>t, <1>9, <2>1, <2>2, <2>3, LeavesInv DEF WriteStops, Fault
<1>10. ASSUME Crash PROVE Inv'
  <2>1. \A p \in Procs : call'[p] = Idle /\ call'[p].pc = "idle"
    BY <1>10 DEF Crash, Idle
  <2>2. TypeOK'
    BY <1>t, <1>10, <2>1, CsvStoreAssumption DEF Crash, Fault, TypeOK
  <2> QED
    BY <2>1, <2>2 DEF Inv, Known, Ready, Writing, At
<1>11. CASE UNCHANGED vars
  BY <1>11 DEF vars, Inv, TypeOK, Known, Ready, Writing, At
<1> QED
  BY <1>1, <1>2, <1>3, <1>4, <1>5, <1>6, <1>7, <1>8, <1>9, <1>10, <1>11
  DEF Next, Proceed, WriteFails, FlushFails

\* Inv holds of every reachable state.
THEOREM StoreInvariant == Spec => []Inv
BY InitInv, NextInv, PTL DEF Spec

\* Whoever is between Lock and Unlock holds the mutex, alone, and files and
\* requests are well formed.
THEOREM MutexHeld == Spec => []TypeOK
<1>1. Inv => TypeOK
  BY DEF Inv
<1> QED
  BY <1>1, StoreInvariant, PTL

-----------------------------------------------------------------------------
(* CsvStore implements Repository.                                         *)

\* Repository has the operators of Tables under names of its own.
LEMMA SameOperators ==
  /\ Abstract!Methods = Methods /\ Abstract!Row = Row
  /\ \A f, method, table, row :
       /\ Abstract!Accepts(f, method, table, row) = Accepts(f, method, table, row)
       /\ Abstract!Result(method, table, row) = Result(method, table, row)
<1>1. Abstract!Methods = Methods
  BY DEF Abstract!Methods, Methods, Abstract!ItemsMethods, ItemsMethods, Abstract!UsersMethods,
    UsersMethods, Abstract!DepartmentsMethods, DepartmentsMethods, Abstract!TransactionsMethods,
    TransactionsMethods, Abstract!ReturnsMethods, ReturnsMethods, Abstract!AccountsMethods,
    AccountsMethods
<1>2. Abstract!Row = Row
  BY DEF Abstract!Row, Row
<1>3. ASSUME NEW f, NEW method, NEW table, NEW row
      PROVE  Abstract!Accepts(f, method, table, row) = Accepts(f, method, table, row)
  BY DEF Abstract!Accepts, Accepts, Abstract!HasId, HasId, Abstract!EmailTaken, EmailTaken,
    Abstract!First, First, Abstract!Rows, Rows
<1>4. ASSUME NEW f, NEW method, NEW table, NEW row
      PROVE  Abstract!Result(method, table, row) = Result(method, table, row)
  BY DEF Abstract!Result, Result, Abstract!Replace, Replace, Abstract!Changed, Changed,
    Abstract!First, First
<1> QED
  BY <1>1, <1>2, <1>3, <1>4

\* A file nobody is writing stands for the table readAll returns ...
LEMMA ContentsAtRest ==
  ASSUME NEW f \in Files, \A p \in Procs : ~(At(p, "write") /\ call[p].file = f)
  PROVE  Contents(f) = ReadAll(f, disk[f])
<1>1. Holder(f) = {}
  BY DEF Holder, At
<1> QED
  BY <1>1 DEF Contents

\* ... and one that is being written for the table its writer holds.
LEMMA ContentsWritten ==
  ASSUME TypeOK, NEW p \in Procs, At(p, "write")
  PROVE  /\ Contents(call[p].file) = call[p].table
         /\ \A f \in Files \ {call[p].file} : Contents(f) = ReadAll(f, disk[f])
<1>1. \A q \in Procs \ {p} : call[q].pc # "write"
  BY OneInside DEF At
<1>2. Holder(call[p].file) = {p}
  BY <1>1 DEF Holder, At
<1>3. (CHOOSE q \in {p} : TRUE) = p
  OBVIOUS
<1>4. Contents(call[p].file) = call[p].table
  BY <1>2, <1>3 DEF Contents
<1>5. \A f \in Files \ {call[p].file} : Contents(f) = ReadAll(f, disk[f])
  BY <1>1, ContentsAtRest DEF At
<1> QED
  BY <1>4, <1>5

\* As long as the same goroutines are writing, and only where they are, the
\* tables stay what they are.
LEMMA ContentsStay ==
  ASSUME \A p \in Procs : (At(p, "write") \/ call'[p].pc = "write") => call'[p] = call[p],
         \A f \in Files : Holder(f) = {} => disk'[f] = disk[f]
  PROVE  \A f \in Files : Contents(f)' = Contents(f)
<1> SUFFICES ASSUME NEW f \in Files PROVE Contents(f)' = Contents(f)
  OBVIOUS
<1>1. Holder(f)' = Holder(f)
  BY DEF Holder, At
<1>2. CASE Holder(f) = {}
  BY <1>1, <1>2 DEF Contents
<1>3. CASE Holder(f) # {}
  <2> DEFINE p == CHOOSE q \in Holder(f) : TRUE
  <2>1. p \in Holder(f)
    BY <1>3
  <2>2. p \in Procs /\ At(p, "write")
    BY <2>1 DEF Holder, At
  <2>3. call'[p] = call[p]
    BY <2>2
  <2>4. p' = p
    BY <1>1
  <2> QED
    BY <1>1, <1>3, <2>3, <2>4 DEF Contents
<1> QED
  BY <1>2, <1>3

\* When the writer is gone, its file stands for what readAll makes of it.
LEMMA ContentsAfter ==
  ASSUME TypeOK, NEW p \in Procs, At(p, "write"), NEW g \in Files, g = call[p].file,
         \A q \in Procs : call'[q].pc # "write",
         NEW file, disk' = [disk EXCEPT ![g] = file]
  PROVE  /\ Contents(g)' = ReadAll(g, file)
         /\ \A f \in Files \ {g} : Contents(f)' = Contents(f)
<1>1. disk'[g] = file /\ \A f \in Files \ {g} : disk'[f] = disk[f]
  BY DEF TypeOK
<1>2. ASSUME NEW f \in Files PROVE Contents(f)' = ReadAll(f, disk'[f])
  <2>1. Holder(f)' = {}
    BY DEF Holder
  <2> QED
    BY <2>1 DEF Contents
<1>3. \A f \in Files \ {g} : Contents(f) = ReadAll(f, disk[f])
  BY ContentsWritten
<1> QED
  BY <1>1, <1>2, <1>3

\* The tables in one function, as Repository has them.
Tabled == [f \in Files |-> Contents(f)]

\* A step after which every file stands for what it stood for before.
LEMMA TablesStay ==
  ASSUME \A f \in Files : Contents(f)' = Contents(f)
  PROVE  Tabled' = Tabled
BY DEF Tabled

\* A step after which one file stands for something else.
LEMMA TableChanges ==
  ASSUME NEW g \in Files, NEW t, Contents(g)' = t,
         \A f \in Files \ {g} : Contents(f)' = Contents(f)
  PROVE  Tabled' = [Tabled EXCEPT ![g] = t]
<1>1. Tabled' = [f \in Files |-> IF f = g THEN t ELSE Contents(f)]
  BY DEF Tabled
<1> QED
  BY <1>1 DEF Tabled

\* The files at the start are tables.
LEMMA InitRefines == Init => Abstract!Init
<1> SUFFICES ASSUME Init PROVE Abstract!Init
  OBVIOUS
<1>1. ASSUME NEW f \in Files
      PROVE  Contents(f) \in Seq(Stored) \cup {Unreadable}
  <2>1. Contents(f) = ReadAll(f, disk[f])
    BY ContentsAtRest DEF Init, Idle, At
  <2>2. disk[f] \in File
    BY CsvStoreAssumption DEF Init
  <2> QED
    BY <2>1, <2>2, Readable, ReadAllType
<1>2. Tabled \in [Files -> Seq(Stored) \cup {Unreadable}]
  BY <1>1 DEF Tabled
<1> QED
  BY <1>2 DEF Abstract!Init, Tabled, Stored, Init

\* The file a fault leaves behind is one Repository may leave behind.
LEMMA DamageRefines ==
  ASSUME Inv, NEW p \in Procs, At(p, "write"), NEW g \in Files, g = call[p].file,
         \A q \in Procs : call'[q].pc # "write",
         NEW file \in Partials(g, call[p].table) \cup {Truncated},
         disk' = [disk EXCEPT ![g] = file], Fault
  PROVE  Abstract!Next
<1>1. call[p].table \in Seq(Stored)
  BY HeldFields DEF Inv, At
<1>2. /\ Contents(g)' = ReadAll(g, file)
      /\ \A f \in Files \ {g} : Contents(f)' = Contents(f)
  BY ContentsAfter DEF Inv
<1>3. Contents(g) = call[p].table
  BY ContentsWritten DEF Inv
<1>4. Tabled[g] = call[p].table /\ Tabled[g] # Unreadable
  BY <1>1, <1>3, CsvStoreAssumption DEF Tabled
<1>5. Tabled' = [Tabled EXCEPT ![g] = ReadAll(g, file)]
  BY <1>2, TableChanges
<1>6. \/ ReadAll(g, file) = Unreadable
      \/ \E n \in 0 .. Len(Tabled[g]) : ReadAll(g, file) = SubSeq(Tabled[g], 1, n)
  BY <1>1, <1>4, LeftBehind
<1>7. \/ \E n \in 0 .. Len(Tabled[g]) : Tabled' = [Tabled EXCEPT ![g] = SubSeq(@, 1, n)]
      \/ Tabled' = [Tabled EXCEPT ![g] = Unreadable]
  BY <1>5, <1>6
<1>8. Abstract!Damage(g)
  BY <1>4, <1>7 DEF Abstract!Damage, Fault, Tabled
<1> QED
  BY <1>8 DEF Abstract!Next

\* Each step of a goroutine is a step of a table or invisible.
LEMMA NextRefines == Inv /\ [Next]_vars => [Abstract!Next]_<<Tabled, faults>>
<1> SUFFICES ASSUME Inv, [Next]_vars
             PROVE  Abstract!Next \/ UNCHANGED <<Tabled, faults>>
  OBVIOUS
<1>t. TypeOK /\ Known /\ Ready /\ Writing /\ disk \in [Files -> File]
      /\ call \in [Procs -> CallType \cup {Idle}]
  BY DEF Inv, TypeOK
<1>1. ASSUME NEW p \in Procs, NEW new, call' = [call EXCEPT ![p] = new],
             call[p].pc # "write", new.pc # "write", UNCHANGED disk
      PROVE  Tabled' = Tabled
  <2>1. \A q \in Procs : (At(q, "write") \/ call'[q].pc = "write") => call'[q] = call[q]
    BY <1>t, <1>1 DEF At
  <2>2. \A f \in Files : Contents(f)' = Contents(f)
    BY <1>1, <2>1, ContentsStay
  <2> QED
    BY <2>2, TablesStay
<1>2. ASSUME NEW p \in Procs, NEW f \in Files, NEW method \in Methods[f], NEW row \in Row,
             Begin(p, f, method, row)
      PROVE  UNCHANGED <<Tabled, faults>>
  <2> DEFINE new == [pc |-> "lock", file |-> f, method |-> method, row |-> row]
  <2>1. call' = [call EXCEPT ![p] = new] /\ UNCHANGED <<disk, faults>> /\ call[p].pc # "write"
    BY <1>2 DEF Begin, At
  <2>2. new.pc # "write"
    OBVIOUS
  <2> HIDE DEF new
  <2> QED
    BY <1>1, <2>1, <2>2
<1>3. ASSUME NEW p \in Procs, Lock(p) PROVE UNCHANGED <<Tabled, faults>>
  <2> DEFINE new == [call[p] EXCEPT !.pc = "read"]
  <2>1. call' = [call EXCEPT ![p] = new] /\ UNCHANGED <<disk, faults>> /\ call[p].pc # "write"
    BY <1>3 DEF Lock, At
  <2>2. new.pc # "write"
    BY <1>t, <1>3 DEF Lock, At, CallType, Idle
  <2> HIDE DEF new
  <2> QED
    BY <1>1, <2>1, <2>2
<1>4. ASSUME NEW p \in Procs, Read(p) PROVE UNCHANGED <<Tabled, faults>>
  <2> DEFINE c == call[p]
             new == [pc |-> "create", file |-> c.file, method |-> c.method, row |-> c.row,
                     table |-> Result(c.method, ReadAll(c.file, disk[c.file]), c.row)]
  <2>1. call' = [call EXCEPT ![p] = new] /\ UNCHANGED <<disk, faults>> /\ call[p].pc # "write"
    BY <1>4 DEF Read, At
  <2>2. new.pc # "write"
    OBVIOUS
  <2> HIDE DEF new
  <2> QED
    BY <1>1, <2>1, <2>2
<1>i. Idle.pc # "write"
  BY DEF Idle
<1>5. ASSUME NEW p \in Procs, ReturnEarly(p) PROVE UNCHANGED <<Tabled, faults>>
  <2>1. /\ call' = [call EXCEPT ![p] = Idle] /\ UNCHANGED <<disk, faults>>
        /\ call[p].pc # "write"
    BY <1>5 DEF ReturnEarly, Returned, At
  <2> QED
    BY <1>1, <1>i, <2>1
<1>6. ASSUME NEW p \in Procs, Create(p) PROVE Abstract!Next
  <2> DEFINE c == call[p]
  <2>1. PICK g \in Files : g = c.file
    BY <1>t, <1>6, HeldFields DEF Create, At
  <2> DEFINE table == ReadAll(g, disk[g])
  <2>2. /\ c.pc = "create" /\ c.row \in Row /\ c.method \in Methods[g]
        /\ table # Unreadable /\ Accepts(g, c.method, table, c.row)
        /\ c.table = Result(c.method, table, c.row)
    BY <1>t, <1>6, <2>1, HeldFields DEF Create, Known, Ready, At
  <2>3. /\ call' = [call EXCEPT ![p] = [c EXCEPT !.pc = "write"]]
        /\ disk' = [disk EXCEPT ![g] = Truncated] /\ UNCHANGED faults
    BY <1>6, <2>1 DEF Create
  <2>4. \A q \in Procs \ {p} : call[q].pc # "write"
    BY <1>t, <2>2, OneInside
  <2>5. \A f \in Files : Contents(f) = ReadAll(f, disk[f])
    BY <2>2, <2>4, ContentsAtRest DEF At
  <2>6. /\ call'[p].pc = "write" /\ call'[p].file = g /\ call'[p].table = c.table
        /\ \A q \in Procs \ {p} : call'[q] = call[q]
    BY <1>t, <2>1, <2>2, <2>3 DEF CallType, Idle
  <2>7. Contents(g)' = c.table
    <3>1. Holder(g)' = {p}
      BY <2>4, <2>6 DEF Holder
    <3>2. (CHOOSE q \in {p} : TRUE) = p
      OBVIOUS
    <3> QED
      BY <2>6, <3>1, <3>2 DEF Contents
  <2>8. ASSUME NEW f \in Files \ {g} PROVE Contents(f)' = Contents(f)
    <3>1. Holder(f)' = {}
      BY <2>4, <2>6 DEF Holder
    <3>2. disk'[f] = disk[f]
      BY <1>t, <2>3
    <3> QED
      BY <2>5, <3>1, <3>2 DEF Contents
  <2>9. Tabled' = [Tabled EXCEPT ![g] = c.table]
    BY <2>7, <2>8, TableChanges
  <2>10. Tabled[g] = table
    BY <2>5 DEF Tabled
  <2> HIDE DEF table
  <2>11. /\ Tabled[g] # Unreadable /\ Abstract!Accepts(g, c.method, Tabled[g], c.row)
         /\ Tabled' = [Tabled EXCEPT ![g] = Abstract!Result(c.method, Tabled[g], c.row)]
    BY <2>2, <2>9, <2>10, SameOperators
  <2>12. Abstract!Call(g, c.method, c.row)
    BY <2>3, <2>11 DEF Abstract!Call, Tabled
  <2> QED
    BY <2>2, <2>12, SameOperators DEF Abstract!Next
<1>7. ASSUME NEW p \in Procs, FlushSome(p) PROVE UNCHANGED <<Tabled, faults>>
  <2>1. /\ At(p, "write") /\ UNCHANGED <<call, faults>>
        /\ \A f \in Files : f # call[p].file => disk'[f] = disk[f]
    BY <1>t, <1>7 DEF FlushSome
  <2>2. \A f \in Files : Holder(f) = {} => disk'[f] = disk[f]
    BY <2>1 DEF Holder, At
  <2>3. \A f \in Files : Contents(f)' = Contents(f)
    BY <2>1, <2>2, ContentsStay
  <2> QED
    BY <2>1, <2>3, TablesStay
<1>8. ASSUME NEW p \in Procs, At(p, "write"), Returned(p)
      PROVE  \A q \in Procs : call'[q].pc # "write"
  BY <1>t, <1>8, OneInside DEF Returned, Idle, At
<1>9. ASSUME NEW p \in Procs, Finish(p) PROVE UNCHANGED <<Tabled, faults>>
  <2>1. At(p, "write") /\ Returned(p) /\ UNCHANGED faults
    BY <1>9 DEF Finish
  <2>2. PICK g \in Files : g = call[p].file
    BY <1>t, <2>1, HeldFields DEF At
  <2>3. call[p].table \in Seq(Stored)
    BY <1>t, <2>1, HeldFields DEF At
  <2>4. disk' = [disk EXCEPT ![g] = Encode(g, call[p].table)]
    BY <1>9, <2>2 DEF Finish
  <2>5. /\ Contents(g)' = ReadAll(g, Encode(g, call[p].table))
        /\ \A f \in Files \ {g} : Contents(f)' = Contents(f)
    BY <1>t, <1>8, <2>1, <2>2, <2>4, ContentsAfter
  <2>6. Contents(g) = call[p].table
    BY <1>t, <2>1, <2>2, ContentsWritten
  <2>7. \A f \in Files : Contents(f)' = Contents(f)
    BY <2>2, <2>3, <2>5, <2>6, EncodeReads
  <2> QED
    BY <2>1, <2>7, TablesStay
<1>10. ASSUME Tabled' = Tabled, Fault PROVE Abstract!Next
  <2>1. Abstract!HarmlessFault
    BY <1>10 DEF Abstract!HarmlessFault, Fault, Tabled
  <2> QED
    BY <2>1 DEF Abstract!Next
<1>11. ASSUME NEW p \in Procs, OpenFails(p) PROVE Abstract!Next
  <2>1. /\ call' = [call EXCEPT ![p] = Idle] /\ UNCHANGED disk /\ Fault
        /\ call[p].pc # "write"
    BY <1>11 DEF OpenFails, Returned
  <2> QED
    BY <1>1, <1>10, <1>i, <2>1
<1>12. ASSUME NEW p \in Procs, At(p, "write"), UNCHANGED disk, Fault,
              \A q \in Procs : call'[q].pc # "write"
       PROVE  Abstract!Next
  <2>1. PICK g \in Files : g = call[p].file
    BY <1>t, <1>12, HeldFields DEF At
  <2>2. disk[g] \in Partials(g, call[p].table) \cup {Truncated}
    BY <1>t, <1>12, <2>1 DEF Writing
  <2>3. disk' = [disk EXCEPT ![g] = disk[g]]
    BY <1>t, <1>12
  <2>4. PICK file \in Partials(g, call[p].table) \cup {Truncated} :
          disk' = [disk EXCEPT ![g] = file]
    BY <2>2, <2>3
  <2> QED
    BY <1>12, <2>1, <2>4, DamageRefines
<1>13. ASSUME NEW p \in Procs, WriteStops(p) PROVE Abstract!Next
  <2>1. At(p, "write") /\ Returned(p) /\ Fault
    BY <1>13 DEF WriteStops
  <2>2. \A q \in Procs : call'[q].pc # "write"
    BY <1>8, <2>1
  <2>3. CASE UNCHANGED disk
    BY <1>12, <2>1, <2>2, <2>3
  <2>4. CASE \E file \in Partials(call[p].file, call[p].table) :
               disk' = [disk EXCEPT ![call[p].file] = file]
    <3>1. PICK g \in Files : g = call[p].file
      BY <1>t, <2>1, HeldFields DEF At
    <3>2. PICK file \in Partials(g, call[p].table) \cup {Truncated} :
            disk' = [disk EXCEPT ![g] = file]
      BY <2>4, <3>1
    <3> QED
      BY <2>1, <2>2, <3>1, <3>2, DamageRefines
  <2> QED
    BY <1>13, <2>3, <2>4 DEF WriteStops
<1>14. ASSUME Crash PROVE Abstract!Next
  <2>1. /\ Fault /\ UNCHANGED disk
        /\ \A q \in Procs : call'[q].pc # "write"
    BY <1>14 DEF Crash, Idle
  <2>2. CASE \E p \in Procs : At(p, "write")
    BY <1>12, <2>1, <2>2
  <2>3. CASE \A p \in Procs : ~At(p, "write")
    <3>1. \A f \in Files : Contents(f)' = Contents(f)
      BY <2>1, <2>3, ContentsStay
    <3> QED
      BY <1>10, <2>1, <3>1, TablesStay
  <2> QED
    BY <2>2, <2>3
<1>15. CASE UNCHANGED vars
  <2>1. \A f \in Files : Contents(f)' = Contents(f)
    BY <1>15, ContentsStay DEF vars
  <2> QED
    BY <1>15, <2>1, TablesStay DEF vars
<1> QED
  BY <1>2, <1>3, <1>4, <1>5, <1>6, <1>7, <1>9, <1>11, <1>13, <1>14, <1>15
  DEF Next, Proceed, WriteFails, FlushFails

\* Seen from outside, a method reads and changes its table in one step, and
\* only a fault loses rows or a file.
THEOREM Implements == Spec => ImplementsRepository
<1>1. Inv /\ [Next]_vars => [Abstract!Next]_<<[f \in Files |-> Contents(f)], faults>>
  BY NextRefines DEF Tabled
<1> QED
  BY <1>1, InitRefines, StoreInvariant, PTL DEF Spec, ImplementsRepository, Abstract!Spec

\* A torn file is left as it is: whatever writes a file has read it before.
THEOREM TornFilesKept == Spec => TornFileKept
<1>1. ASSUME Inv, [Next]_vars, NEW f \in Files, Contents(f) = Unreadable
      PROVE  disk'[f] = disk[f]
  <2>t. TypeOK /\ Ready /\ disk \in [Files -> File]
    BY <1>1 DEF Inv, TypeOK
  <2>1. ASSUME NEW p \in Procs, At(p, "write") PROVE call[p].file # f
    <3>1. call[p].table \in Seq(Stored) /\ Contents(call[p].file) = call[p].table
      BY <2>t, <2>1, HeldFields, ContentsWritten DEF At
    <3> QED
      BY <1>1, <3>1, CsvStoreAssumption
  <2>2. ASSUME NEW p \in Procs, At(p, "create") PROVE call[p].file # f
    <3>1. \A q \in Procs : ~At(q, "write")
      BY <2>t, <2>2, OneInside DEF At
    <3>2. Contents(f) = ReadAll(f, disk[f])
      BY <3>1, ContentsAtRest
    <3> QED
      BY <1>1, <2>t, <2>2, <3>2 DEF Ready
  <2>3. \A p \in Procs : Create(p) \/ FlushSome(p) \/ Finish(p) \/ WriteStops(p) =>
          disk'[f] = disk[f]
    BY <2>t, <2>1, <2>2 DEF Create, FlushSome, Finish, WriteStops
  <2> QED
    BY <1>1, <2>3 DEF Next, Proceed, Begin, Lock, Read, ReturnEarly, OpenFails, WriteFails,
      FlushFails, Crash, vars
<1>2. Inv /\ [Next]_vars =>
        [\A f \in Files : Contents(f) = Unreadable => disk'[f] = disk[f]]_vars
  BY <1>1
<1> QED
  BY <1>2, StoreInvariant, PTL DEF Spec, TornFileKept

-----------------------------------------------------------------------------
(* What was reported as added is there.                                    *)

\* No method takes a row out of its table.
LEMMA ResultKeeps ==
  ASSUME NEW table \in Seq(Stored), NEW row \in Row, NEW file, NEW method,
         Accepts(file, method, table, row), NEW id, HasId(table, id)
  PROVE  HasId(Result(method, table, row), id)
<1> DEFINE n == Len(table)
<1>1. n \in Nat /\ DOMAIN table = 1 .. n /\ \A k \in 1 .. n : table[k] \in Stored
  OBVIOUS
<1>2. PICK i \in 1 .. n : table[i].id = id
  BY <1>1 DEF HasId, Rows
<1>3. method \in {"add", "update", "decrease", "increase"}
  BY DEF Accepts
<1>4. row \in Stored
  BY CsvStoreAssumption DEF Row, Stored
<1>5. HasId(Append(table, row), id)
  <2>1. Append(table, row)[i] = table[i] /\ i \in DOMAIN Append(table, row)
    BY <1>4, AppendProperties
  <2> QED
    BY <1>2, <2>1 DEF HasId, Rows
<1>6. HasId(Replace(table, row), id)
  BY <1>1, <1>2 DEF HasId, Rows, Replace
<1>7. ASSUME NEW other, NEW delta
      PROVE  HasId(Changed(table, other, delta), id)
  <2> DEFINE changed == Changed(table, other, delta)
  <2>1. DOMAIN changed = 1 .. n /\ changed[i].id = table[i].id
    BY <1>1, <1>2 DEF Changed, Stored
  <2> QED
    BY <1>2, <2>1 DEF HasId, Rows
<1> QED
  BY <1>3, <1>5, <1>6, <1>7 DEF Result

\* A new row is in what its call is going to write.
Added ==
  \A p \in Procs :
    (call[p].pc \in {"create", "write"} /\ call[p].method = "add")
      => HasId(call[p].table, call[p].row.id)

\* A file stands for rows, or nobody can read it.
LEMMA ContentsType ==
  ASSUME TypeOK, NEW f \in Files
  PROVE  Contents(f) \in Seq(Stored) \cup {Unreadable}
<1>1. CASE Holder(f) = {}
  BY <1>1, Readable, ReadAllType DEF Contents, TypeOK
<1>2. CASE Holder(f) # {}
  <2>1. PICK p \in Procs : At(p, "write") /\ call[p].file = f
    BY <1>2 DEF Holder, At
  <2> QED
    BY <2>1, ContentsWritten, HeldFields DEF At
<1> QED
  BY <1>1, <1>2

\* Added is inductive: Read puts the new row in, nobody takes it out.
LEMMA AddedKept == Inv /\ Added /\ [Next]_vars => Added'
<1> SUFFICES ASSUME Inv, Added, [Next]_vars,
                    NEW p \in Procs, call'[p].pc \in {"create", "write"}, call'[p].method = "add"
             PROVE  HasId(call'[p].table, call'[p].row.id)
  BY DEF Added
<1>t. TypeOK /\ call \in [Procs -> CallType \cup {Idle}] /\ disk \in [Files -> File]
  BY DEF Inv, TypeOK
<1>1. CASE \E q \in Procs : Read(q) /\ call'[p] # call[p]
  <2>1. Read(p)
    BY <1>t, <1>1 DEF Read
  <2> DEFINE c == call[p]
             table == ReadAll(c.file, disk[c.file])
  <2>2. /\ c.file \in Files /\ c.row \in Row /\ table \in Seq(Stored)
        /\ call'[p].row = c.row /\ call'[p].method = c.method
        /\ call'[p].table = Result(c.method, table, c.row)
    BY <1>t, <2>1, HeldFields, Readable, ReadAllType DEF Read, At
  <2> HIDE DEF table
  <2>3. call'[p].table = Append(table, c.row) /\ c.row \in Stored
    BY <2>2, CsvStoreAssumption DEF Result, Row, Stored
  <2>4. /\ Append(table, c.row)[Len(table) + 1] = c.row
        /\ Len(table) + 1 \in DOMAIN Append(table, c.row)
    BY <2>2, <2>3, AppendProperties
  <2> QED
    BY <2>2, <2>3, <2>4 DEF HasId, Rows
<1>2. CASE \E q \in Procs : Create(q) /\ call'[p] # call[p]
  <2>1. Create(p)
    BY <1>t, <1>2 DEF Create
  <2>2. /\ call[p].pc = "create" /\ call'[p].table = call[p].table
        /\ call'[p].row = call[p].row /\ call'[p].method = call[p].method
    BY <1>t, <2>1 DEF Create, At, CallType, Idle
  <2> QED
    BY <2>2 DEF Added
<1>3. CASE call'[p] = call[p]
  BY <1>3 DEF Added
<1>4. CASE ~(\E q \in Procs : Read(q) \/ Create(q)) /\ call'[p] # call[p]
  <2>1. call'[p].pc \in {"idle", "lock", "read"}
    BY <1>t, <1>4 DEF Next, Begin, Lock, Proceed, ReturnEarly, FlushSome, Finish, OpenFails,
      WriteFails, FlushFails, WriteStops, Crash, Returned, Idle, vars, At, CallType
  <2> QED
    BY <2>1
<1> QED
  BY <1>1, <1>2, <1>3, <1>4

\* Every file can be read when the server starts.
SeedsReadable == \A f \in Files : \A file \in SeedFiles[f] : ~Rejected(file)

\* From readable files on, and as long as nothing fails, what was reported as
\* added stays in its file.
THEOREM AcknowledgedStays == SeedsReadable /\ Spec => []AcknowledgedKept
<1>1. SeedsReadable /\ Init => Added /\ AcknowledgedKept
  <2> SUFFICES ASSUME SeedsReadable, Init PROVE Added /\ AcknowledgedKept
    OBVIOUS
  <2>1. \A p \in Procs : call[p].pc = "idle"
    BY DEF Init, Idle
  <2>2. ASSUME NEW f \in Files PROVE Contents(f) # Unreadable
    <3>1. Contents(f) = ReadAll(f, disk[f])
      BY <2>1, ContentsAtRest DEF At
    <3> QED
      BY <3>1, Readable, CsvStoreAssumption DEF Init, SeedsReadable
  <2> QED
    BY <2>1, <2>2 DEF Init, Added, AcknowledgedKept
<1>2. Inv /\ Added /\ AcknowledgedKept /\ [Next]_vars => AcknowledgedKept'
  <2> SUFFICES ASSUME Inv, Added, AcknowledgedKept, [Next]_vars, faults' = 0, NEW f \in Files
               PROVE  /\ Contents(f)' # Unreadable
                      /\ \A id \in acked'[f] : HasId(Contents(f)', id)
    BY DEF AcknowledgedKept, HasId, Rows
  <2>t. TypeOK /\ faults \in Nat /\ acked \in [Files -> SUBSET Ids]
    BY DEF Inv, TypeOK
  <2>1. faults = 0
    BY <2>t DEF Next, Begin, Lock, Proceed, Read, ReturnEarly, Create, FlushSome, Finish,
      OpenFails, WriteFails, FlushFails, WriteStops, Fault, Crash, vars
  <2>2. Contents(f) \in Seq(Stored) /\ Contents(f) # Unreadable
    BY <2>t, <2>1, ContentsType DEF AcknowledgedKept
  <2>3. /\ Contents(f)' # Unreadable
        /\ \A id : HasId(Contents(f), id) => HasId(Contents(f)', id)
    <3>1. CASE Tabled' = Tabled
      <4>1. Contents(f)' = Contents(f)
        BY <3>1 DEF Tabled
      <4> QED
        BY <2>2, <4>1
    <3>2. CASE Abstract!Next
      <4>1. PICK g \in Files : \E method \in Methods[g], row \in Row :
              Abstract!Call(g, method, row)
        BY <2>t, <2>1, <3>2, SameOperators
        DEF Abstract!Next, Abstract!Damage, Abstract!HarmlessFault
      <4>2. PICK method \in Methods[g], row \in Row : Abstract!Call(g, method, row)
        BY <4>1
      <4>3. /\ Tabled[g] # Unreadable /\ Abstract!Accepts(g, method, Tabled[g], row)
            /\ Tabled' = [Tabled EXCEPT ![g] = Abstract!Result(method, Tabled[g], row)]
        BY <4>2 DEF Abstract!Call, Tabled
      <4>4. CASE f # g
        <5>1. Contents(f)' = Contents(f)
          BY <4>3, <4>4 DEF Tabled
        <5> QED
          BY <2>2, <5>1
      <4>5. CASE f = g
        <5>1. /\ Accepts(f, method, Contents(f), row)
              /\ Contents(f)' = Result(method, Contents(f), row)
          BY <4>3, <4>5, SameOperators DEF Tabled
        <5>2. Contents(f)' \in Seq(Stored)
          BY <2>2, <5>1, ResultType
        <5> QED
          BY <2>2, <5>1, <5>2, ResultKeeps, CsvStoreAssumption
      <4> QED
        BY <4>4, <4>5
    <3> QED
      BY <3>1, <3>2, NextRefines
  <2>4. ASSUME NEW id \in acked'[f], id \notin acked[f]
        PROVE  HasId(Contents(f), id)
    <3>1. PICK p \in Procs : Finish(p)
      BY <2>t, <2>1, <2>4 DEF Next, Begin, Lock, Proceed, Read, ReturnEarly, Create, FlushSome,
        OpenFails, WriteFails, FlushFails, WriteStops, Fault, Crash, vars
    <3>2. /\ At(p, "write") /\ call[p].method = "add" /\ call[p].file = f
          /\ id = call[p].row.id
      BY <2>t, <2>4, <3>1 DEF Finish, Acknowledge
    <3>3. HasId(call[p].table, id)
      BY <3>2 DEF Added, At
    <3> QED
      BY <2>t, <3>2, <3>3, ContentsWritten
  <2>5. \A id \in acked[f] : HasId(Contents(f), id)
    BY <2>1 DEF AcknowledgedKept
  <2> QED
    BY <2>3, <2>4, <2>5
<1> QED
  BY <1>1, <1>2, AddedKept, StoreInvariant, PTL DEF Spec
=============================================================================
