------------------------------- MODULE Startup -------------------------------
(***************************************************************************)
(* Run of internal/app/app.go up to the first request: the CSV files that  *)
(* are missing are created one by one with sample data, the pepper is read *)
(* or drawn and stored, and the administrator's account is added.  The     *)
(* process may be stopped at every step, a write may be cut short, and the *)
(* next start finds what is left.  While it serves, accounts are added:    *)
(* their hashes hold the pepper the process has in memory.                 *)
(***************************************************************************)
EXTENDS Integers, Sequences

CONSTANTS
  Order,         \* the data files, in the order ensureFiles looks at them
  Admin,         \* "admin@ppe.local"
  People,        \* whoever else has an account
  Peppers,       \* 32 random bytes in hexadecimal
  Plain,         \* the pepper of a hash made before there were peppers
  Unset,         \* no pepper, in memory or in password.key
  Absent, Torn,  \* accounts.csv is missing, or readAll rejects it
  MaxFaults,     \* bound: writes cut short
  MaxReadFaults  \* bound: failed reads of password.key

Files == {Order[k] : k \in DOMAIN Order}

\* A key file may end early: what is left of pepper p is a pepper, too.
Key(p) == [of |-> p, whole |-> TRUE]
PartOf(p) == [of |-> p, whole |-> FALSE]
Keys == [of : Peppers, whole : BOOLEAN]

Row == [who : People \cup {Admin}, pepper : Keys \cup {Plain}]

ASSUME StartupAssumption ==
  /\ Len(Order) \in Nat /\ DOMAIN Order = 1 .. Len(Order)
  /\ Admin \notin People
  /\ {Plain, Unset} \cap Keys = {} /\ Plain # Unset
  /\ {Absent, Torn} \cap Seq(Row) = {}
  /\ MaxFaults \in Nat /\ MaxReadFaults \in Nat

VARIABLES
  file,      \* per data file: "absent", "cut" (its samples end early), "whole"
  accounts,  \* accounts.csv: Absent, Torn, or its rows
  key,       \* password.key: missing or empty, or what it says
  pc,        \* where Run is
  at,        \* the file ensureFiles looks at next
  pepper,    \* PasswordHasher.pepper
  \* Bookkeeping that is not in the program:
  drawn,     \* peppers drawn so far
  faults, readFaults

vars == <<file, accounts, key, pc, at, pepper, drawn, faults, readFaults>>

Rows(table) == {table[k] : k \in DOMAIN table}
Readable == accounts \notin {Absent, Torn}
HasAccount(who) == \E row \in Rows(accounts) : row.who = who

\* Mutant: the hash is made before there is a pepper.
WithRowUnpeppered(who) == Append(accounts, [who |-> who, pepper |-> Unset])

\* A new account, with the hash the process makes.
WithRow(who) == Append(accounts, [who |-> who, pepper |-> pepper])

\* A first installation, or the files of a version without peppers.
Init ==
  /\ \/ file = [f \in Files |-> "absent"] /\ accounts = Absent
     \/ /\ file = [f \in Files |-> "whole"]
        /\ accounts \in {<<[who |-> p, pepper |-> Plain]>> : p \in People}
  /\ key = Unset
  /\ pc = "down" /\ at = 1
  /\ pepper = Unset
  /\ drawn = {} /\ faults = 0 /\ readFaults = 0

Start ==
  /\ pc = "down"
  /\ pc' = "files" /\ at' = 1
  /\ UNCHANGED <<file, accounts, key, pepper, drawn, faults, readFaults>>

-----------------------------------------------------------------------------
(* ensureFiles                                                             *)

\* A file that exists is left alone, however it came to be what it is.
EnsureFile ==
  /\ pc = "files"
  /\ at <= Len(Order)
  /\ file' = [file EXCEPT ![Order[at]] = IF @ = "absent" THEN "whole" ELSE @]
  /\ at' = at + 1
  /\ pc' = IF at = Len(Order) THEN "accounts" ELSE pc
  /\ UNCHANGED <<accounts, key, pepper, drawn, faults, readFaults>>

EnsureAccounts ==
  /\ pc = "accounts"
  /\ accounts' = IF accounts = Absent THEN <<>> ELSE accounts
  /\ pc' = "pepper"
  /\ UNCHANGED <<file, key, at, pepper, drawn, faults, readFaults>>

-----------------------------------------------------------------------------
(* loadOrCreatePepper                                                      *)

\* Mutant: a pepper that is too short is an error, and Run panics.
LoadPepperOfFullLength ==
  /\ pc = "pepper"
  /\ key # Unset
  /\ IF key.whole THEN pepper' = key /\ pc' = "admin"
                  ELSE pepper' = Unset /\ pc' = "down"
  /\ UNCHANGED <<file, accounts, key, at, drawn, faults, readFaults>>

\* The file is not empty: its content is the pepper, of whatever length.
LoadPepper ==
  /\ pc = "pepper"
  /\ key # Unset
  /\ pepper' = key
  /\ pc' = "admin"
  /\ UNCHANGED <<file, accounts, key, at, drawn, faults, readFaults>>

\* It is missing or empty.
NoPepper ==
  /\ pc = "pepper"
  /\ key = Unset
  /\ pc' = "newPepper"
  /\ UNCHANGED <<file, accounts, key, at, pepper, drawn, faults, readFaults>>

\* os.ReadFile fails on a file that is there: it is taken for a missing one.
ReadKeyFails ==
  /\ pc = "pepper"
  /\ key # Unset
  /\ readFaults < MaxReadFaults /\ readFaults' = readFaults + 1
  /\ pc' = "newPepper"
  /\ UNCHANGED <<file, accounts, key, at, pepper, drawn, faults>>

\* Mutant: the pepper is used before it is stored.
NewPepperInMemory ==
  /\ pc = "newPepper"
  /\ \E p \in Peppers \ drawn :
       /\ drawn' = drawn \cup {p}
       /\ pepper' = Key(p)
  /\ pc' = "admin"
  /\ UNCHANGED <<file, accounts, key, at, faults, readFaults>>

\* 32 random bytes are not drawn twice.
NewPepper ==
  /\ pc = "newPepper"
  /\ \E p \in Peppers \ drawn :
       /\ drawn' = drawn \cup {p}
       /\ key' = Key(p)
       /\ pepper' = Key(p)
  /\ pc' = "admin"
  /\ UNCHANGED <<file, accounts, at, faults, readFaults>>

-----------------------------------------------------------------------------
(* EnsureDefaultAdmin, and the registrations that follow.                  *)

\* Mutant: only an empty file gets an administrator.
EnsureAdminInEmptyFile ==
  /\ pc = "admin"
  /\ Readable
  /\ accounts' = IF accounts # <<>> THEN accounts ELSE WithRow(Admin)
  /\ pc' = "serving"
  /\ UNCHANGED <<file, key, at, pepper, drawn, faults, readFaults>>

EnsureDefaultAdmin ==
  /\ pc = "admin"
  /\ Readable
  /\ accounts' = IF HasAccount(Admin) THEN accounts ELSE WithRow(Admin)
  /\ pc' = "serving"
  /\ UNCHANGED <<file, key, at, pepper, drawn, faults, readFaults>>

\* The accounts cannot be read: Run panics.
Panic ==
  /\ pc = "admin"
  /\ ~Readable
  /\ pc' = "down" /\ pepper' = Unset
  /\ UNCHANGED <<file, accounts, key, at, drawn, faults, readFaults>>

Register(who) ==
  /\ pc = "serving"
  /\ Readable
  /\ ~HasAccount(who)
  /\ accounts' = WithRow(who)
  /\ UNCHANGED <<file, key, pc, at, pepper, drawn, faults, readFaults>>

-----------------------------------------------------------------------------
(* Stops.                                                                  *)

\* The process ends between two writes.
Stop ==
  /\ pc # "down"
  /\ faults < MaxFaults /\ faults' = faults + 1
  /\ pc' = "down" /\ pepper' = Unset
  /\ UNCHANGED <<file, accounts, key, at, drawn, readFaults>>

\* accounts.csv after a write of "rows" that was cut short: some first rows,
\* or a file whose last line readAll rejects.
Remains(rows) == {SubSeq(rows, 1, n) : n \in 0 .. Len(rows)} \cup {Torn}

\* The process ends, by a crash or by the panic after a disk error, in the
\* middle of the write it was about to make.
StartCutShort ==
  /\ faults < MaxFaults /\ faults' = faults + 1
  /\ \/ /\ pc = "files" /\ file[Order[at]] = "absent"
        /\ file' = [file EXCEPT ![Order[at]] = "cut"]
        /\ UNCHANGED <<accounts, key, drawn>>
     \/ /\ pc = "newPepper"
        /\ \E p \in Peppers \ drawn :
             /\ drawn' = drawn \cup {p}
             /\ key' \in {Unset, PartOf(p)}
        /\ UNCHANGED <<file, accounts>>
     \/ /\ pc = "admin" /\ Readable /\ ~HasAccount(Admin)
        /\ accounts' \in Remains(WithRow(Admin))
        /\ UNCHANGED <<file, key, drawn>>
  /\ pc' = "down" /\ pepper' = Unset
  /\ UNCHANGED <<at, readFaults>>

\* A crash in the middle of a registration, or a disk error, after which the
\* process goes on serving.
RegisterCutShort(who) ==
  /\ pc = "serving"
  /\ Readable
  /\ ~HasAccount(who)
  /\ faults < MaxFaults /\ faults' = faults + 1
  /\ accounts' \in Remains(WithRow(who))
  /\ \/ pc' = "down" /\ pepper' = Unset
     \/ UNCHANGED <<pc, pepper>>
  /\ UNCHANGED <<file, key, at, drawn, readFaults>>

Proceed ==
  \/ Start \/ EnsureFile \/ EnsureAccounts
  \/ LoadPepper \/ NoPepper \/ NewPepper
  \/ EnsureDefaultAdmin \/ Panic

Next ==
  \/ Proceed
  \/ ReadKeyFails
  \/ \E who \in People : Register(who) \/ RegisterCutShort(who)
  \/ Stop
  \/ StartCutShort

Spec == Init /\ [][Next]_vars

\* Run goes on by itself, and somebody starts the program again when it has
\* stopped.
FairSpec == Spec /\ WF_vars(Proceed)

-----------------------------------------------------------------------------
TypeOK ==
  /\ file \in [Files -> {"absent", "cut", "whole"}]
  /\ accounts \in {Absent, Torn} \/ accounts \in Seq(Row)
  /\ key \in Keys \cup {Unset}
  /\ pc \in {"down", "files", "accounts", "pepper", "newPepper", "admin", "serving"}
  /\ at \in 1 .. Len(Order) + 1
  /\ pepper \in Keys \cup {Unset}
  /\ drawn \subseteq Peppers
  /\ faults \in 0 .. MaxFaults /\ readFaults \in 0 .. MaxReadFaults

\* Every hash in accounts.csv can be checked by the process that runs and by
\* any that starts later, wherever earlier starts were stopped or their writes
\* cut short, the write of the key included: no hash is made before its pepper
\* is in password.key, and the pepper there is not replaced.  A failed read of
\* the key is the one exception.
HashesCheckable ==
  readFaults = 0 =>
    /\ Readable => \A row \in Rows(accounts) : row.pepper \in {Plain, key}
    /\ pc \in {"admin", "serving"} => pepper = key

\* Whenever the process begins to serve, all files are there, and the
\* administrator can log in, whatever earlier starts and registrations have
\* left behind; only a failed read of the key shuts the administrator out.
ServesComplete ==
  [][(pc # "serving" /\ pc' = "serving") =>
       /\ \A f \in Files : file'[f] # "absent"
       /\ accounts' \notin {Absent, Torn}
       /\ \E row \in Rows(accounts') :
            row.who = Admin /\ (readFaults = 0 => row.pepper \in {Plain, pepper'})]_vars

\* Started again after every stop, the process comes to serve, unless a write
\* cut short has left accounts.csv unreadable.
ComesToServe == pc = "down" ~> (pc = "serving" \/ accounts = Torn)
=============================================================================
