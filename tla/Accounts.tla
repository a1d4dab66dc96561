------------------------------ MODULE Accounts ------------------------------
(***************************************************************************)
(* AuthService over accounts.csv (internal/services/auth_service.go).      *)
(* SetApproval, ResetPasswordByAdmin and ChangePassword read an account,   *)
(* change their fields of the copy (after a slow bcrypt in two of them)    *)
(* and write the whole copy back; Register looks the email up and adds a   *)
(* row later.  Each repository call is one step, requests interleave       *)
(* between the calls.                                                      *)
(***************************************************************************)
EXTENDS Integers, FiniteSets

CONSTANTS
  Requests,       \* request goroutines
  AccountIds,     \* ids NewID may draw, and the administrator's
  Administrator,  \* "ACC-ADMIN"
  Emails,         \* addresses, lower-cased and trimmed
  AdminEmail,     \* "admin@ppe.local"
  Passwords,      \* passwords, trimmed
  AdminPassword,  \* "admin"
  Length,         \* bytes of each password
  FromOldVersion, \* whether accounts.csv is one of a version without pepper
  Nobody,         \* stands for the absence of an account
  MaxCalls        \* bound: service calls

VARIABLES
  accounts,    \* accounts.csv: the account of each id, or Nobody
  req,         \* what each request holds between two repository calls
  \* Bookkeeping that is not in the program:
  unhashed,    \* passwords Register refused because they could not be hashed
  intended,    \* per account, its fields after the completed calls, each
               \* changing its own fields only
  overlapped,  \* accounts read by a call while another one was to write them
  past,        \* per account, every hash it has had
  calls

vars == <<accounts, req, unhashed, intended, overlapped, past, calls>>

-----------------------------------------------------------------------------
(* Passwords: the pepper is 32 random bytes in hexadecimal, appended to    *)
(* the password; bcrypt refuses more than 72 bytes.                        *)
PepperLength == 64
BcryptLimit == 72
Hashable(pw) == Length[pw] + PepperLength <= BcryptLimit
Hash(pw) == [of |-> pw, peppered |-> TRUE]
OldHash(pw) == [of |-> pw, peppered |-> FALSE]  \* of a version without pepper
Verify(hash, pw) == hash \in {Hash(pw), OldHash(pw)}
LongEnough(pw) == Length[pw] >= 4

Hashes == {Hash(pw) : pw \in Passwords} \cup {OldHash(pw) : pw \in Passwords}
Account == [email : Emails, hash : Hashes, approved : BOOLEAN,
            admin : BOOLEAN, mustReset : BOOLEAN]

ASSUME AccountsAssumption ==
  /\ Administrator \in AccountIds /\ AdminEmail \in Emails
  /\ AdminPassword \in Passwords
  /\ Length \in [Passwords -> Nat]
  /\ Nobody \notin AccountIds \cup Account
  /\ FromOldVersion \in BOOLEAN
  /\ MaxCalls \in Nat

Existing == {id \in AccountIds : accounts[id] # Nobody}
EmailTaken(email) == \E id \in Existing : accounts[id].email = email

-----------------------------------------------------------------------------
Idle == [pc |-> "idle"]
Updating(id) == {r \in Requests : req[r].pc = "update" /\ req[r].id = id}

\* Mutant: the administrator is written without the column of the reset flag.
AdminWithoutFlag == [email |-> AdminEmail, hash |-> Hash(AdminPassword),
                     approved |-> TRUE, admin |-> TRUE]

\* EnsureDefaultAdmin on a file without accounts ...
DefaultAdmin == [email |-> AdminEmail, hash |-> Hash(AdminPassword), approved |-> TRUE,
                 admin |-> TRUE, mustReset |-> FALSE]

\* ... and the administrator it finds and leaves alone in one of an older
\* version.
FirstAdmin ==
  IF FromOldVersion THEN [DefaultAdmin EXCEPT !.hash = OldHash(AdminPassword)]
  ELSE DefaultAdmin

Init ==
  /\ accounts = [id \in AccountIds |-> IF id = Administrator THEN FirstAdmin ELSE Nobody]
  /\ req = [r \in Requests |-> Idle]
  /\ unhashed = {}
  /\ intended = accounts
  /\ overlapped = {}
  /\ past = [id \in AccountIds |-> IF id \in Existing THEN {accounts[id].hash} ELSE {}]
  /\ calls = 0

Enter(r) == req[r].pc = "idle" /\ calls < MaxCalls /\ calls' = calls + 1

\* Register up to the lookup of the email and the hash.
Register(r, email, pw) ==
  /\ Enter(r)
  /\ LongEnough(pw)
  /\ ~EmailTaken(email)
  /\ Hashable(pw)
  /\ req' = [req EXCEPT ![r] = [pc |-> "add", email |-> email, hash |-> Hash(pw)]]
  /\ UNCHANGED <<accounts, unhashed, intended, overlapped, past>>

\* "failed to hash password".
RegisterFails(r, email, pw) ==
  /\ Enter(r)
  /\ LongEnough(pw)
  /\ ~EmailTaken(email)
  /\ ~Hashable(pw)
  /\ unhashed' = unhashed \cup {pw}
  /\ UNCHANGED <<accounts, req, intended, overlapped, past>>

\* Mutant: the repository relies on the lookup the service made.
AddUnchecked(r) ==
  /\ req[r].pc = "add"
  /\ \E id \in AccountIds \ Existing :
       LET new == [email |-> req[r].email, hash |-> req[r].hash, approved |-> FALSE,
                   admin |-> FALSE, mustReset |-> FALSE]
       IN  /\ accounts' = [accounts EXCEPT ![id] = new]
           /\ intended' = [intended EXCEPT ![id] = new]
           /\ past' = [past EXCEPT ![id] = {new.hash}]
  /\ req' = [req EXCEPT ![r] = Idle]
  /\ UNCHANGED <<unhashed, overlapped, calls>>

\* AuthAccountsRepository.Add looks the email up again, under the lock.
Add(r) ==
  /\ req[r].pc = "add"
  /\ ~EmailTaken(req[r].email)
  /\ \E id \in AccountIds \ Existing :
       LET new == [email |-> req[r].email, hash |-> req[r].hash, approved |-> FALSE,
                   admin |-> FALSE, mustReset |-> FALSE]
       IN  /\ accounts' = [accounts EXCEPT ![id] = new]
           /\ intended' = [intended EXCEPT ![id] = new]
           /\ past' = [past EXCEPT ![id] = {new.hash}]
  /\ req' = [req EXCEPT ![r] = Idle]
  /\ UNCHANGED <<unhashed, overlapped, calls>>

\* Mutant: the request tries again until the address is free.
TryAgain(r) ==
  /\ req[r].pc = "add"
  /\ EmailTaken(req[r].email)
  /\ UNCHANGED vars

EmailAlreadyExists(r) ==
  /\ req[r].pc = "add"
  /\ EmailTaken(req[r].email)
  /\ req' = [req EXCEPT ![r] = Idle]
  /\ UNCHANGED <<accounts, unhashed, intended, overlapped, past, calls>>

\* A call has read account id and is going to write "copy" back; "fields"
\* are the ones it means to change, "current" what the caller gave as the
\* password in use.
Holds(r, id, copy, fields, current) ==
  /\ req' = [req EXCEPT ![r] = [pc |-> "update", id |-> id, copy |-> copy,
                                fields |-> fields, current |-> current]]
  /\ overlapped' = IF Updating(id) = {} THEN overlapped ELSE overlapped \cup {id}
  /\ UNCHANGED <<accounts, unhashed, intended, past>>

\* Mutant: the account is approved as a fresh one, without its flags.
SetApprovalAfresh(r, id, approved) ==
  /\ Enter(r)
  /\ id \in Existing
  /\ Holds(r, id, [accounts[id] EXCEPT !.approved = approved, !.mustReset = FALSE],
           {"approved"}, Nobody)

SetApproval(r, id, approved) ==
  /\ Enter(r)
  /\ id \in Existing
  /\ Holds(r, id, [accounts[id] EXCEPT !.approved = approved], {"approved"}, Nobody)

ResetPasswordByAdmin(r, id, pw) ==
  /\ Enter(r)
  /\ LongEnough(pw)
  /\ id \in Existing
  /\ Hashable(pw)
  /\ Holds(r, id, [accounts[id] EXCEPT !.hash = Hash(pw), !.mustReset = TRUE],
           {"hash", "mustReset"}, Nobody)

\* Mutant: the current password is not verified.
ChangePasswordUnverified(r, id, current, pw) ==
  /\ Enter(r)
  /\ LongEnough(pw)
  /\ id \in Existing
  /\ Hashable(pw)
  /\ Holds(r, id, [accounts[id] EXCEPT !.hash = Hash(pw), !.mustReset = FALSE],
           {"hash", "mustReset"}, current)

ChangePassword(r, id, current, pw) ==
  /\ Enter(r)
  /\ LongEnough(pw)
  /\ id \in Existing
  /\ Verify(accounts[id].hash, current)
  /\ Hashable(pw)
  /\ Holds(r, id, [accounts[id] EXCEPT !.hash = Hash(pw), !.mustReset = FALSE],
           {"hash", "mustReset"}, current)

\* AuthAccountsRepository.Update replaces the whole row.
Update(r) ==
  /\ req[r].pc = "update"
  /\ LET id == req[r].id
         copy == req[r].copy
     IN  /\ \A other \in Existing \ {id} : accounts[other].email # copy.email
         /\ accounts' = [accounts EXCEPT ![id] = copy]
         /\ intended' = [intended EXCEPT ![id] =
              [f \in DOMAIN copy |-> IF f \in req[r].fields THEN copy[f] ELSE @[f]]]
         /\ past' = [past EXCEPT ![id] = @ \cup {copy.hash}]
  /\ req' = [req EXCEPT ![r] = Idle]
  /\ UNCHANGED <<unhashed, overlapped, calls>>

\* The repository call fails: the file could not be read or created.
CallFails(r) ==
  /\ req[r].pc # "idle"
  /\ req' = [req EXCEPT ![r] = Idle]
  /\ UNCHANGED <<accounts, unhashed, intended, overlapped, past, calls>>

\* The process dies and is started again; the file has the administrator, so
\* EnsureDefaultAdmin leaves it alone.
Crash ==
  /\ req' = [r \in Requests |-> Idle]
  /\ UNCHANGED <<accounts, unhashed, intended, overlapped, past, calls>>

Proceed(r) == Add(r) \/ EmailAlreadyExists(r) \/ Update(r)

Next ==
  \/ \E r \in Requests :
       \/ \E email \in Emails, pw \in Passwords :
            Register(r, email, pw) \/ RegisterFails(r, email, pw)
       \/ \E id \in AccountIds :
            \/ \E approved \in BOOLEAN : SetApproval(r, id, approved)
            \/ \E pw \in Passwords : ResetPasswordByAdmin(r, id, pw)
            \/ \E current, pw \in Passwords : ChangePassword(r, id, current, pw)
       \/ Proceed(r)
       \/ CallFails(r)
  \/ Crash

Spec == Init /\ [][Next]_vars
FairSpec == Spec /\ \A r \in Requests : WF_vars(Proceed(r))

-----------------------------------------------------------------------------
RequestType ==
  {Idle}
    \cup [pc : {"add"}, email : Emails, hash : Hashes]
    \cup [pc : {"update"}, id : AccountIds, copy : Account,
          fields : SUBSET {"approved", "hash", "mustReset"}, current : Passwords \cup {Nobody}]

TypeOK ==
  /\ accounts \in [AccountIds -> Account \cup {Nobody}]
  /\ req \in [Requests -> RequestType]
  /\ unhashed \subseteq Passwords
  /\ intended \in [AccountIds -> Account \cup {Nobody}]
  /\ overlapped \subseteq AccountIds
  /\ past \in [AccountIds -> SUBSET Hashes]
  /\ calls \in Nat

\* Two accounts never share an email, although two registrations may both
\* have found it free; and writing an account back never meets another one
\* with its email, so Update has no conflict to report.
EmailsUnique ==
  /\ \A a, b \in Existing : accounts[a].email = accounts[b].email => a = b
  /\ \A r \in Requests : req[r].pc = "update" =>
       req[r].id \in Existing /\ req[r].copy.email = accounts[req[r].id].email

\* An account whose calls never overlapped has in every field what the last
\* completed call meant to put there: an approval does not bring back an old
\* password, nor a change of password an approval that was withdrawn.
LastDecisionKept ==
  \A id \in Existing \ overlapped :
    /\ accounts[id] = intended[id]
    /\ \A r \in Updating(id) : \A f \in DOMAIN accounts[id] \ req[r].fields :
         req[r].copy[f] = accounts[id][f]

\* The hashes a call on the account can have read: the one it has and, once
\* calls on it have overlapped, any it ever had.
Readable(id) == IF id \in overlapped THEN past[id] ELSE {accounts[id].hash}

\* A password gives way to another one only at the hands of somebody who
\* knows it or of the administrator's reset, which demands a new one.  Where
\* calls on the account have overlapped, Update writes back what was read some
\* time ago: then an earlier password of the same account may come back, and
\* knowing an earlier one may be enough, but never anything else.
PasswordChangeVerified ==
  [][\A id \in AccountIds :
       (accounts[id] # Nobody /\ accounts'[id].hash # accounts[id].hash) =>
         \/ accounts'[id].mustReset
         \/ accounts'[id].hash \in Readable(id)
         \/ \E r \in Updating(id), hash \in Readable(id) : Verify(hash, req[r].current)]_vars

\* Every registration and every update is answered.
CallsAnswered == \A r \in Requests : req[r].pc # "idle" ~> req[r].pc = "idle"

\* "password must be at least 4 characters", the only rule Register states: a
\* password that is long enough is not refused for another reason.
LongEnoughAccepted == \A pw \in unhashed : ~LongEnough(pw)
=============================================================================
