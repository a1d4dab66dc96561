----------------------------- MODULE Repository -----------------------------
(***************************************************************************)
(* What the services rely on: each file is a table, each repository method *)
(* reads and changes it in one step.  A fault may leave a table cut short  *)
(* or unreadable, once per fault and in no other way.                      *)
(***************************************************************************)
EXTENDS Tables

CONSTANTS
  Files,       \* the files considered
  Ids, Vals,   \* ids and values of the rows a caller may pass
  Unreadable,  \* the table of a file that readAll rejects
  MaxFaults    \* bound: faults

VARIABLES table, faults

Row == [id : Ids, val : Vals]

Init ==
  /\ table \in [Files -> Seq([id : Ids, val : Int]) \cup {Unreadable}]
  /\ faults = 0

\* A method that succeeds; one that is refused changes nothing.
Call(f, method, row) ==
  /\ table[f] # Unreadable
  /\ Accepts(f, method, table[f], row)
  /\ table' = [table EXCEPT ![f] = Result(method, table[f], row)]
  /\ UNCHANGED faults

\* The disk or the process fails: the table keeps its first n rows, or
\* cannot be read any more.
Damage(f) ==
  /\ faults < MaxFaults
  /\ faults' = faults + 1
  /\ table[f] # Unreadable
  /\ \/ \E n \in 0 .. Len(table[f]) : table' = [table EXCEPT ![f] = SubSeq(@, 1, n)]
     \/ table' = [table EXCEPT ![f] = Unreadable]

\* A fault while nothing is being written.
HarmlessFault ==
  /\ faults < MaxFaults
  /\ faults' = faults + 1
  /\ UNCHANGED table

Next ==
  \/ \E f \in Files : \E method \in Methods[f], row \in Row : Call(f, method, row)
  \/ \E f \in Files : Damage(f)
  \/ HarmlessFault

Spec == Init /\ [][Next]_<<table, faults>>
=============================================================================
