---------------------------- MODULE StartupProofs ----------------------------
(***************************************************************************)
(* What a start of the program relies on and leaves behind, for any files, *)
(* people and peppers and any number of interrupted starts: hashes can be  *)
(* checked, and what it begins to serve with is complete.                  *)
(***************************************************************************)
EXTENDS Startup, SequenceTheorems, TLAPS

\* The files that are known to be there, by how far ensureFiles has come.
FilesPresent ==
  /\ pc = "files" => \A k \in 1 .. at - 1 : k \in DOMAIN Order => file[Order[k]] # "absent"
  /\ pc \notin {"down", "files"} => \A f \in Files : file[f] # "absent"

\* A new pepper is drawn only where there is none to lose, and the process
\* has one when it makes a hash.
PepperInOrder ==
  /\ (pc = "newPepper" /\ readFaults = 0) => key = Unset
  /\ pc \in {"admin", "serving"} => pepper \in Keys

Inv == TypeOK /\ FilesPresent /\ PepperInOrder /\ HashesCheckable

\* The rows of a table that can be read.
LEMMA ReadableRows ==
  ASSUME TypeOK, Readable
  PROVE  accounts \in Seq(Row) /\ Rows(accounts) \subseteq Row
BY DEF TypeOK, Readable, Rows

\* A table with one more account has the rows it had, and that one.
LEMMA AppendedRows ==
  ASSUME NEW who \in People \cup {Admin}, TypeOK, Readable, pepper \in Keys
  PROVE  LET row == [who |-> who, pepper |-> pepper]
         IN  /\ WithRow(who) \in Seq(Row)
             /\ Rows(WithRow(who)) = Rows(accounts) \cup {row}
<1> DEFINE row == [who |-> who, pepper |-> pepper]
<1>1. row \in Row
  BY DEF Row
<1>2. accounts \in Seq(Row)
  BY ReadableRows
<1>3. WithRow(who) = Append(accounts, row)
  BY DEF WithRow
<1> HIDE DEF row
<1>4. /\ Append(accounts, row) \in Seq(Row)
      /\ Len(Append(accounts, row)) = Len(accounts) + 1
      /\ \A i \in 1 .. Len(accounts) : Append(accounts, row)[i] = accounts[i]
      /\ Append(accounts, row)[Len(accounts) + 1] = row
  BY <1>1, <1>2, AppendProperties
<1>5. Rows(Append(accounts, row)) = Rows(accounts) \cup {row}
  <2>1. /\ Len(accounts) \in Nat /\ DOMAIN accounts = 1 .. Len(accounts)
        /\ DOMAIN Append(accounts, row) = 1 .. Len(accounts) + 1
    BY <1>2, <1>4
  <2> QED
    BY <1>4, <2>1 DEF Rows
<1> QED
  BY <1>3, <1>4, <1>5 DEF row

\* A table whose write was cut short has only rows it was to have.
LEMMA RemainingRows ==
  ASSUME NEW table \in Seq(Row), NEW left \in Remains(table)
  PROVE  left = Torn \/ (left \in Seq(Row) /\ Rows(left) \subseteq Rows(table))
<1>1. CASE left = Torn
  BY <1>1
<1>2. CASE left # Torn
  <2>1. PICK n \in 0 .. Len(table) : left = SubSeq(table, 1, n)
    BY <1>2 DEF Remains
  <2>2. \A i \in 1 .. n : table[i] \in Row /\ i \in DOMAIN table
    BY <2>1
  <2>3. /\ left \in Seq(Row)
        /\ Len(left) = IF 1 <= n THEN n - 1 + 1 ELSE 0
        /\ \A i \in 1 .. n - 1 + 1 : left[i] = table[1 + i - 1]
    BY <2>1, <2>2, SubSeqProperties
  <2>4. DOMAIN left = 1 .. n /\ \A i \in 1 .. n : left[i] = table[i]
    BY <2>1, <2>3
  <2> QED
    BY <2>2, <2>3, <2>4 DEF Rows
<1> QED
  BY <1>1, <1>2

\* The program has never run, or a version without peppers has.
LEMMA InitInv == Init => Inv
<1> SUFFICES ASSUME Init PROVE Inv
  OBVIOUS
<1>1. CASE accounts = Absent
  <2>1. file = [f \in Files |-> "absent"] \/ file = [f \in Files |-> "whole"]
    BY DEF Init
  <2> QED
    BY <1>1, <2>1, StartupAssumption
    DEF Init, Inv, TypeOK, FilesPresent, PepperInOrder, HashesCheckable, Readable
<1>2. CASE accounts # Absent
  <2>1. PICK p \in People : accounts = <<[who |-> p, pepper |-> Plain]>>
    BY <1>2 DEF Init
  <2> DEFINE row == [who |-> p, pepper |-> Plain]
  <2>2. row \in Row /\ row.pepper = Plain
    BY DEF Row
  <2> HIDE DEF row
  <2>3. accounts \in Seq(Row) /\ Rows(accounts) = {row}
    BY <2>1, <2>2 DEF row, Rows
  <2> QED
    BY <1>2, <2>2, <2>3, StartupAssumption
    DEF Init, Inv, TypeOK, FilesPresent, PepperInOrder, HashesCheckable
<1> QED
  BY <1>1, <1>2

\* Adding an account to a table that can be read keeps what is claimed of it.
LEMMA AddedAccount ==
  ASSUME NEW who \in People \cup {Admin}, Inv, Readable, pc \in {"admin", "serving"}
  PROVE  /\ WithRow(who) \in Seq(Row)
         /\ readFaults = 0 => \A row \in Rows(WithRow(who)) : row.pepper \in {Plain, key}
         /\ \E row \in Rows(WithRow(who)) : row.who = who /\ row.pepper = pepper
<1>1. pepper \in Keys
  BY DEF Inv, PepperInOrder
<1>2. /\ WithRow(who) \in Seq(Row)
      /\ Rows(WithRow(who)) = Rows(accounts) \cup {[who |-> who, pepper |-> pepper]}
  BY <1>1, AppendedRows DEF Inv
<1>3. readFaults = 0 => pepper = key /\ \A row \in Rows(accounts) : row.pepper \in {Plain, key}
  BY DEF Inv, HashesCheckable
<1> DEFINE new == [who |-> who, pepper |-> pepper]
<1>4. new.who = who /\ new.pepper = pepper
  OBVIOUS
<1> HIDE DEF new
<1>5. Rows(WithRow(who)) = Rows(accounts) \cup {new}
  BY <1>2 DEF new
<1> QED
  BY <1>2, <1>3, <1>4, <1>5

\* What a cut write leaves of such a table is no worse.
LEMMA CutAccount ==
  ASSUME NEW who \in People \cup {Admin}, Inv, Readable, pc \in {"admin", "serving"},
         accounts' \in Remains(WithRow(who)), readFaults' = readFaults, key' = key
  PROVE  /\ accounts' \in {Absent, Torn} \/ accounts' \in Seq(Row)
         /\ (readFaults = 0 /\ Readable') => \A row \in Rows(accounts') : row.pepper \in {Plain, key}
<1>1. accounts' = Torn \/ (accounts' \in Seq(Row) /\ Rows(accounts') \subseteq Rows(WithRow(who)))
  BY AddedAccount, RemainingRows
<1> QED
  BY <1>1, AddedAccount DEF Readable

\* Inv is inductive.
LEMMA NextInv == Inv /\ [Next]_vars => Inv'
<1> SUFFICES ASSUME Inv, [Next]_vars PROVE Inv'
  OBVIOUS
<1> USE DEF Inv
<1>t. TypeOK /\ FilesPresent /\ PepperInOrder /\ HashesCheckable
  OBVIOUS
<1>1. ASSUME Start PROVE Inv'
  BY <1>1, StartupAssumption
  DEF Start, TypeOK, FilesPresent, PepperInOrder, HashesCheckable, Readable, Rows
<1>2. ASSUME EnsureFile PROVE Inv'
  <2>1. at \in DOMAIN Order /\ at \in Nat /\ Order[at] \in Files
    <3>1. Len(Order) \in Nat /\ DOMAIN Order = 1 .. Len(Order)
      BY StartupAssumption
    <3>2. at \in 1 .. Len(Order) + 1 /\ at <= Len(Order)
      BY <1>2 DEF EnsureFile, TypeOK
    <3>3. at \in 1 .. Len(Order)
      BY <3>1, <3>2
    <3> QED
      BY <3>1, <3>3 DEF Files
  <2>2. TypeOK'
    BY <1>2, <2>1, StartupAssumption DEF EnsureFile, TypeOK
  <2>3. \A f \in Files : file[f] # "absent" => file'[f] # "absent"
    BY <1>2 DEF EnsureFile, TypeOK
  <2>4. file'[Order[at]] # "absent"
    BY <1>2, <2>1 DEF EnsureFile, TypeOK
  <2>5. \A k \in 1 .. at : k \in DOMAIN Order => file'[Order[k]] # "absent"
    <3> SUFFICES ASSUME NEW k \in 1 .. at, k \in DOMAIN Order PROVE file'[Order[k]] # "absent"
      OBVIOUS
    <3>1. Order[k] \in Files
      BY DEF Files
    <3>2. CASE k = at
      BY <2>4, <3>2
    <3>3. CASE k # at
      <4>1. k \in 1 .. at - 1
        BY <2>1, <3>3
      <4> QED
        BY <1>2, <2>3, <3>1, <4>1 DEF EnsureFile, FilesPresent
    <3> QED
      BY <3>2, <3>3
  <2>6. at = Len(Order) => \A f \in Files : file'[f] # "absent"
    BY <2>5, StartupAssumption DEF Files
  <2>7. FilesPresent'
    BY <1>2, <2>1, <2>5, <2>6 DEF EnsureFile, FilesPresent
  <2> QED
    BY <1>2, <2>2, <2>7 DEF EnsureFile, PepperInOrder, HashesCheckable, Readable, Rows
<1>3. ASSUME EnsureAccounts PROVE Inv'
  <2>1. accounts' \in {Absent, Torn} \/ accounts' \in Seq(Row)
    BY <1>3 DEF EnsureAccounts, TypeOK
  <2>2. Readable' => \A row \in Rows(accounts') : row \in Rows(accounts) /\ Readable
    BY <1>3 DEF EnsureAccounts, Readable, Rows
  <2> QED
    BY <1>3, <2>1, <2>2 DEF EnsureAccounts, TypeOK, FilesPresent, PepperInOrder, HashesCheckable
<1>4. ASSUME LoadPepper PROVE Inv'
  BY <1>4 DEF LoadPepper, TypeOK, FilesPresent, PepperInOrder, HashesCheckable, Readable, Rows
<1>5. ASSUME NoPepper PROVE Inv'
  BY <1>5 DEF NoPepper, TypeOK, FilesPresent, PepperInOrder, HashesCheckable, Readable, Rows
<1>6. ASSUME ReadKeyFails PROVE Inv'
  BY <1>6, StartupAssumption DEF ReadKeyFails, TypeOK, FilesPresent, PepperInOrder, HashesCheckable
<1>7. ASSUME NewPepper PROVE Inv'
  <2>1. PICK p \in Peppers : key' = Key(p) /\ pepper' = Key(p) /\ drawn' = drawn \cup {p}
    BY <1>7 DEF NewPepper
  <2>2. Key(p) \in Keys
    BY DEF Key, Keys
  <2>3. (readFaults = 0 /\ Readable) => \A row \in Rows(accounts) : row.pepper = Plain
    <3>1. (readFaults = 0 /\ Readable) => \A row \in Rows(accounts) : row \in Row /\ row.pepper \in {Plain, Unset}
      BY <1>7, ReadableRows DEF NewPepper, PepperInOrder, HashesCheckable
    <3> QED
      BY <3>1, StartupAssumption DEF Row
  <2> QED
    BY <1>7, <2>1, <2>2, <2>3
    DEF NewPepper, TypeOK, FilesPresent, PepperInOrder, HashesCheckable, Readable, Rows
<1>8. ASSUME EnsureDefaultAdmin PROVE Inv'
  <2>1. accounts' \in Seq(Row)
        /\ (readFaults = 0 => \A row \in Rows(accounts') : row.pepper \in {Plain, key})
    BY <1>8, AddedAccount, ReadableRows DEF EnsureDefaultAdmin, HashesCheckable
  <2> QED
    BY <1>8, <2>1 DEF EnsureDefaultAdmin, TypeOK, FilesPresent, PepperInOrder, HashesCheckable
<1>9. ASSUME Panic PROVE Inv'
  BY <1>9 DEF Panic, TypeOK, FilesPresent, PepperInOrder, HashesCheckable, Readable, Rows
<1>10. ASSUME NEW who \in People, Register(who) PROVE Inv'
  <2>1. accounts' \in Seq(Row)
        /\ (readFaults = 0 => \A row \in Rows(accounts') : row.pepper \in {Plain, key})
    BY <1>10, AddedAccount DEF Register
  <2> QED
    BY <1>10, <2>1 DEF Register, TypeOK, FilesPresent, PepperInOrder, HashesCheckable
<1>11. ASSUME NEW who \in People, RegisterCutShort(who) PROVE Inv'
  <2>1. /\ accounts' \in {Absent, Torn} \/ accounts' \in Seq(Row)
        /\ (readFaults = 0 /\ Readable') => \A row \in Rows(accounts') : row.pepper \in {Plain, key}
    BY <1>11, CutAccount DEF RegisterCutShort
  <2> QED
    BY <1>11, <2>1, StartupAssumption
    DEF RegisterCutShort, TypeOK, FilesPresent, PepperInOrder, HashesCheckable
<1>12. ASSUME Stop PROVE Inv'
  BY <1>12, StartupAssumption
  DEF Stop, TypeOK, FilesPresent, PepperInOrder, HashesCheckable, Readable, Rows
<1>13. ASSUME StartCutShort PROVE Inv'
  <2>1. /\ faults' \in 0 .. MaxFaults /\ pc' = "down" /\ pepper' = Unset
        /\ UNCHANGED <<at, readFaults>>
    BY <1>13, StartupAssumption DEF StartCutShort, TypeOK
  <2>2. CASE pc = "files" /\ file' = [file EXCEPT ![Order[at]] = "cut"]
             /\ UNCHANGED <<accounts, key, drawn>>
    BY <2>1, <2>2 DEF TypeOK, FilesPresent, PepperInOrder, HashesCheckable, Readable, Rows
  <2>3. CASE /\ pc = "newPepper"
             /\ \E p \in Peppers \ drawn : drawn' = drawn \cup {p} /\ key' \in {Unset, PartOf(p)}
             /\ UNCHANGED <<file, accounts>>
    <3>1. key' \in Keys \cup {Unset} /\ drawn' \subseteq Peppers
      <4>1. PICK p \in Peppers \ drawn : drawn' = drawn \cup {p} /\ key' \in {Unset, PartOf(p)}
        BY <2>3
      <4>2. PartOf(p) \in Keys
        BY DEF PartOf, Keys
      <4> QED
        BY <4>1, <4>2 DEF TypeOK
    <3>2. (readFaults = 0 /\ Readable) => \A row \in Rows(accounts) : row \in Row /\ row.pepper \in {Plain, Unset}
      BY <2>3, ReadableRows DEF PepperInOrder, HashesCheckable
    <3>3. (readFaults = 0 /\ Readable) => \A row \in Rows(accounts) : row.pepper = Plain
      BY <3>2, StartupAssumption DEF Row
    <3> QED
      BY <2>1, <2>3, <3>1, <3>3
      DEF TypeOK, FilesPresent, PepperInOrder, HashesCheckable, Readable, Rows
  <2>4. CASE /\ pc = "admin" /\ Readable /\ accounts' \in Remains(WithRow(Admin))
             /\ UNCHANGED <<file, key, drawn>>
    <3>1. /\ accounts' \in {Absent, Torn} \/ accounts' \in Seq(Row)
          /\ (readFaults = 0 /\ Readable') => \A row \in Rows(accounts') : row.pepper \in {Plain, key}
      BY <2>1, <2>4, CutAccount
    <3> QED
      BY <2>1, <2>4, <3>1 DEF TypeOK, FilesPresent, PepperInOrder, HashesCheckable
  <2> QED
    BY <1>13, <2>2, <2>3, <2>4 DEF StartCutShort
<1>14. CASE UNCHANGED vars
  BY <1>14 DEF vars, TypeOK, FilesPresent, PepperInOrder, HashesCheckable, Readable, Rows
<1> QED
  BY <1>1, <1>2, <1>3, <1>4, <1>5, <1>6, <1>7, <1>8, <1>9, <1>10, <1>11, <1>12, <1>13, <1>14
  DEF Next, Proceed

\* Inv holds of every reachable state.
THEOREM StartupInvariant == Spec => []Inv
BY InitInv, NextInv, PTL DEF Spec

\* Whatever a crash leaves of the files, the program goes on with values of the
\* kinds it knows: no start runs on rows or a pepper it could not have written.
THEOREM StartupTypes == Spec => []TypeOK
<1>1. Inv => TypeOK
  BY DEF Inv
<1> QED
  BY <1>1, StartupInvariant, PTL

\* However often the program was stopped or its writes cut short, every hash in
\* accounts.csv was made with no pepper or with the one in password.key.
THEOREM HashesStayCheckable == Spec => []HashesCheckable
<1>1. Inv => HashesCheckable
  BY DEF Inv
<1> QED
  BY <1>1, StartupInvariant, PTL

\* The step into service finds all files there and the administrator among the
\* accounts, with a hash the process can check.
THEOREM CompleteService == Spec => ServesComplete
<1>1. ASSUME Inv, [Next]_vars, pc # "serving", pc' = "serving"
      PROVE  /\ \A f \in Files : file'[f] # "absent"
             /\ accounts' \notin {Absent, Torn}
             /\ \E row \in Rows(accounts') :
                  row.who = Admin /\ (readFaults = 0 => row.pepper \in {Plain, pepper'})
  <2>1. EnsureDefaultAdmin
    BY <1>1 DEF Next, Proceed, Start, EnsureFile, EnsureAccounts, LoadPepper, NoPepper,
      NewPepper, Panic, ReadKeyFails, Register, RegisterCutShort, Stop, StartCutShort, vars
  <2>2. \A f \in Files : file'[f] # "absent"
    BY <1>1, <2>1 DEF EnsureDefaultAdmin, Inv, FilesPresent
  <2>3. readFaults = 0 => pepper' = key
    BY <1>1, <2>1 DEF EnsureDefaultAdmin, Inv, HashesCheckable
  <2>4. CASE HasAccount(Admin)
    <3>1. accounts' = accounts /\ Readable
      BY <2>1, <2>4 DEF EnsureDefaultAdmin
    <3>2. PICK row \in Rows(accounts) : row.who = Admin
      BY <2>4 DEF HasAccount
    <3>3. readFaults = 0 => row.pepper \in {Plain, pepper'}
      BY <1>1, <2>3, <3>1 DEF Inv, HashesCheckable
    <3> QED
      BY <2>2, <3>1, <3>2, <3>3 DEF Readable
  <2>5. CASE ~HasAccount(Admin)
    <3>1. /\ accounts' = WithRow(Admin) /\ pepper' = pepper
          /\ Readable /\ pc \in {"admin", "serving"}
      BY <2>1, <2>5 DEF EnsureDefaultAdmin
    <3>2. /\ WithRow(Admin) \in Seq(Row)
          /\ \E row \in Rows(WithRow(Admin)) : row.who = Admin /\ row.pepper = pepper
      BY <1>1, <3>1, AddedAccount
    <3> QED
      BY <2>2, <3>1, <3>2, StartupAssumption
  <2> QED
    BY <2>4, <2>5
<1> QED
  BY <1>1, StartupInvariant, PTL DEF Spec, ServesComplete
=============================================================================
