------------------------------ MODULE CsvStore ------------------------------
(***************************************************************************)
(* The CSV repositories (internal/storage): every method locks the store's *)
(* one mutex, reads the whole file, and, if it changes anything, truncates *)
(* the file and writes it anew through a buffer.  Requests interleave at   *)
(* every step; the disk may fail and the process may be killed between any *)
(* two of them.                                                            *)
(***************************************************************************)
EXTENDS Tables, FiniteSets

CONSTANTS
  Procs,       \* request goroutines
  Files,       \* the files considered
  Ids, Vals,   \* ids and values of the rows a caller may pass
  SeedFiles,   \* what each file may hold when the server starts
  Free,        \* the mutex when nobody holds it
  Unreadable,  \* the table of a file that readAll rejects
  MaxFaults,   \* bound: disk errors and crashes
  MaxCalls     \* bound: repository calls

VARIABLES
  disk,    \* each file: columns of its header (0: no header), and its lines
  lock,    \* the store's mutex
  call,    \* the call each goroutine is making
  \* Bookkeeping that is not in the program:
  acked,   \* per file, the ids whose addition was reported as done
  calls, faults

vars == <<disk, lock, call, acked, calls, faults>>

Row    == [id : Ids, val : Vals]
Stored == [id : Ids, val : Int]
Line   == [cols : Nat, row : Stored]
File   == [header : Nat, lines : Seq(Line)]

\* Quantities and the numbers that stand for addresses are ints; the files may
\* hold anything that has the shape of lines.
ASSUME CsvStoreAssumption ==
  /\ Files \subseteq DOMAIN Format
  /\ Vals \subseteq Int
  /\ \A f \in Files : SeedFiles[f] \subseteq File
  /\ Free \notin Procs
  /\ Unreadable \notin Seq(Stored)
  /\ MaxFaults \in Nat /\ MaxCalls \in Nat

-----------------------------------------------------------------------------
(* Files and tables.                                                       *)

\* Mutant: rows keep the columns of the older format under the new header.
EncodeNarrow(f, table) ==
  [header |-> Format[f].width,
   lines  |-> [k \in DOMAIN table |-> [cols |-> Format[f].least, row |-> table[k]]]]

\* writeAll: the header and every row with all their columns.
Encode(f, table) ==
  [header |-> Format[f].width,
   lines  |-> [k \in DOMAIN table |-> [cols |-> Format[f].width, row |-> table[k]]]]

\* A file between os.Create and the last flush: nothing yet, or the first n
\* rows and, if the buffer ran over inside a row, a part of the next one.
Truncated == [header |-> 0, lines |-> <<>>]
Torn(line) == [line EXCEPT !.cols = @ - 1]
Partial(f, table, n, torn) ==
  LET whole == Encode(f, table) IN
  [whole EXCEPT !.lines = IF torn THEN Append(SubSeq(@, 1, n), Torn(@[n + 1]))
                                  ELSE SubSeq(@, 1, n)]
Partials(f, table) ==
  {Partial(f, table, n, FALSE) : n \in 0 .. Len(table)}
    \cup {Partial(f, table, n, TRUE) : n \in 0 .. Len(table) - 1}

\* csv.Reader demands the header's number of fields of every record.
Rejected(file) == \E k \in DOMAIN file.lines : file.lines[k].cols # file.header

\* readAll skips rows with too few columns: as all of them have the header's,
\* it keeps either every row or none.
ReadAll(f, file) ==
  IF Rejected(file) THEN Unreadable
  ELSE IF file.header < Format[f].least THEN <<>>
  ELSE [k \in DOMAIN file.lines |-> file.lines[k].row]

-----------------------------------------------------------------------------
Idle == [pc |-> "idle"]

Returned(p) == call' = [call EXCEPT ![p] = Idle]
At(p, pc) == call[p].pc = pc
Holder(f) == {p \in Procs : call[p].pc = "write" /\ call[p].file = f}

\* The table a file stands for: while it is being written, the one that the
\* writer is going to leave there.
Contents(f) == IF Holder(f) = {} THEN ReadAll(f, disk[f])
               ELSE call[CHOOSE p \in Holder(f) : TRUE].table

Init ==
  /\ disk \in [Files -> UNION {SeedFiles[f] : f \in Files}]
  /\ \A f \in Files : disk[f] \in SeedFiles[f]
  /\ lock = Free
  /\ call = [p \in Procs |-> Idle]
  /\ acked = [f \in Files |-> {}]
  /\ calls = 0 /\ faults = 0

\* A service calls a repository method and waits for the mutex.
Begin(p, f, method, row) ==
  /\ At(p, "idle")
  /\ calls < MaxCalls
  /\ calls' = calls + 1
  /\ call' = [call EXCEPT ![p] = [pc |-> "lock", file |-> f, method |-> method, row |-> row]]
  /\ UNCHANGED <<disk, lock, acked, faults>>

\* Mutant: a repository has a mutex of its own method, not the shared one.
LockNothing(p) ==
  /\ At(p, "lock")
  /\ lock' = p
  /\ call' = [call EXCEPT ![p].pc = "read"]
  /\ UNCHANGED <<disk, acked, calls, faults>>

\* Mutant: a reading method that holds the mutex calls another one, the way
\* ListByTransactionID calls List.
LockTwice(p) ==
  /\ At(p, "lock")
  /\ lock = Free
  /\ lock' = p
  /\ call' = IF call[p].method = "read" THEN call ELSE [call EXCEPT ![p].pc = "read"]
  /\ UNCHANGED <<disk, acked, calls, faults>>

Lock(p) ==
  /\ At(p, "lock")
  /\ lock = Free
  /\ lock' = p
  /\ call' = [call EXCEPT ![p].pc = "read"]
  /\ UNCHANGED <<disk, acked, calls, faults>>

\* readAll, and the checks passed: the new rows are ready in memory.
Read(p) ==
  /\ At(p, "read")
  /\ LET c == call[p]
         table == ReadAll(c.file, disk[c.file])
     IN  /\ table # Unreadable
         /\ Accepts(c.file, c.method, table, c.row)
         /\ call' = [call EXCEPT ![p] =
              [pc |-> "create", file |-> c.file, method |-> c.method, row |-> c.row,
               table |-> Result(c.method, table, c.row)]]
  /\ UNCHANGED <<disk, lock, acked, calls, faults>>

\* Mutant: a read error counts as an empty file.
IgnoreReadError(p) ==
  /\ At(p, "read")
  /\ LET c == call[p]
         table == ReadAll(c.file, disk[c.file])
     IN  IF table # Unreadable \/ c.method # "add"
           THEN /\ table # Unreadable => ~Accepts(c.file, c.method, table, c.row)
                /\ Returned(p) /\ lock' = Free
           ELSE /\ call' = [call EXCEPT ![p] =
                     [pc |-> "create", file |-> c.file, method |-> c.method, row |-> c.row,
                      table |-> <<c.row>>]]
                /\ UNCHANGED lock
  /\ UNCHANGED <<disk, acked, calls, faults>>

\* The file cannot be read, a check fails, or there is nothing to write.
ReturnEarly(p) ==
  /\ At(p, "read")
  /\ LET c == call[p]
         table == ReadAll(c.file, disk[c.file])
     IN  table # Unreadable => ~Accepts(c.file, c.method, table, c.row)
  /\ Returned(p) /\ lock' = Free
  /\ UNCHANGED <<disk, acked, calls, faults>>

\* os.Create empties the file.
Create(p) ==
  /\ At(p, "create")
  /\ disk' = [disk EXCEPT ![call[p].file] = Truncated]
  /\ call' = [call EXCEPT ![p].pc = "write"]
  /\ UNCHANGED <<lock, acked, calls, faults>>

\* The writer's buffer ran over: a first part of the file reaches the disk.
Longer(p, file) ==
  /\ file \in Partials(call[p].file, call[p].table)
  /\ Len(file.lines) > Len(disk[call[p].file].lines)

FlushSome(p) ==
  /\ At(p, "write")
  /\ \E file \in Partials(call[p].file, call[p].table) :
       Longer(p, file) /\ disk' = [disk EXCEPT ![call[p].file] = file]
  /\ UNCHANGED <<lock, call, acked, calls, faults>>

Acknowledge(p) ==
  acked' = IF call[p].method = "add"
             THEN [acked EXCEPT ![call[p].file] = @ \cup {call[p].row.id}] ELSE acked

\* The deferred Flush writes the rest; Close and Unlock follow.
Finish(p) ==
  /\ At(p, "write")
  /\ disk' = [disk EXCEPT ![call[p].file] = Encode(call[p].file, call[p].table)]
  /\ Acknowledge(p)
  /\ Returned(p) /\ lock' = Free
  /\ UNCHANGED <<calls, faults>>

-----------------------------------------------------------------------------
(* Faults.                                                                 *)

Fault == faults < MaxFaults /\ faults' = faults + 1

\* os.Open or os.Create reports an error: nothing has been written.
OpenFails(p) ==
  /\ call[p].pc \in {"read", "create"}
  /\ Fault
  /\ Returned(p) /\ lock' = Free
  /\ UNCHANGED <<disk, acked, calls>>

\* The disk takes no more: the file keeps what was written so far, perhaps
\* with a part of the last buffer.
WriteStops(p) ==
  /\ At(p, "write")
  /\ Fault
  /\ \/ UNCHANGED disk
     \/ \E file \in Partials(call[p].file, call[p].table) :
          Longer(p, file) /\ disk' = [disk EXCEPT ![call[p].file] = file]
  /\ Returned(p) /\ lock' = Free
  /\ UNCHANGED calls

\* A buffer in the middle of the file: Write reports it.
WriteFails(p) == WriteStops(p) /\ UNCHANGED acked

\* The last buffer: Flush runs after "return w.Error()", so nobody sees it.
FlushFails(p) == WriteStops(p) /\ Acknowledge(p)

\* The process dies and is started again.  ensureFiles finds every file, cut
\* short or not, and leaves it alone.
Crash ==
  /\ Fault
  /\ call' = [p \in Procs |-> Idle]
  /\ lock' = Free
  /\ UNCHANGED <<disk, acked, calls>>

-----------------------------------------------------------------------------
\* What a goroutine does by itself once it has the mutex.
Proceed(p) == Read(p) \/ ReturnEarly(p) \/ Create(p) \/ FlushSome(p) \/ Finish(p)

Next ==
  \/ \E p \in Procs, f \in Files : \E method \in Methods[f], row \in Row :
       Begin(p, f, method, row)
  \/ \E p \in Procs : Lock(p) \/ Proceed(p) \/ OpenFails(p) \/ WriteFails(p) \/ FlushFails(p)
  \/ Crash

Spec == Init /\ [][Next]_vars

\* A runnable goroutine runs, and a waiter of a sync.Mutex that is released
\* again and again gets it (its starvation mode hands it over).
FairSpec == Spec /\ \A p \in Procs : WF_vars(Proceed(p)) /\ SF_vars(Lock(p))

-----------------------------------------------------------------------------
CallType ==
  [pc : {"lock", "read"}, file : Files, method : UNION {Methods[f] : f \in Files}, row : Row]
    \cup [pc : {"create", "write"}, file : Files,
          method : UNION {Methods[f] : f \in Files}, row : Row,
          table : Seq(Stored)]

\* The types, and who is between Lock and Unlock.
TypeOK ==
  /\ disk \in [Files -> File]
  /\ lock \in Procs \cup {Free}
  /\ call \in [Procs -> CallType \cup {Idle}]
  /\ \A p \in Procs : lock = p <=> call[p].pc \in {"read", "create", "write"}
  /\ acked \in [Files -> SUBSET Ids]
  /\ calls \in Nat /\ faults \in Nat

\* The files behave like tables that each method reads and changes in one
\* step: no update is lost between the read and the write of another one, a
\* reader never meets a half-written file, and only a fault loses rows.
Abstract == INSTANCE Repository WITH table <- [f \in Files |-> Contents(f)]
ImplementsRepository == Abstract!Spec

\* As long as nothing fails, a row whose addition was reported as done is in
\* its file, whatever was written to the file since.
AcknowledgedKept ==
  faults = 0 => \A f \in Files :
    /\ Contents(f) # Unreadable
    /\ \A id \in acked[f] : HasId(Contents(f), id)

\* A file that a fault left with a torn line is never overwritten: readAll
\* fails first, so what is still in it survives until somebody repairs it.
TornFileKept ==
  [][\A f \in Files : Contents(f) = Unreadable => disk'[f] = disk[f]]_vars

\* Every call returns: no path through a repository keeps the mutex or waits
\* for one that it holds itself.
CallsReturn == \A p \in Procs : ~At(p, "idle") ~> At(p, "idle")

\* "tolerate malformed/short lines" (readAll of items.csv): a line with too
\* few columns is skipped, so it does not keep a new row from being added.
ShortLinesTolerated ==
  [][\A p \in Procs :
       /\ At(p, "read") /\ call[p].method = "add"
       /\ disk[call[p].file].header = Format[call[p].file].width
       /\ \A line \in Rows(disk[call[p].file].lines) : line.row.id # call[p].row.id
       => call'[p].pc # "idle"]_vars
=============================================================================
