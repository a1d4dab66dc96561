------------------------------ MODULE AccessProofs ------------------------------
(***************************************************************************)
(* Accounts and the web in front of them, for any number of requests,      *)
(* accounts, addresses, passwords, tokens and faults.  First AuthService   *)
(* by itself: one account per address, and no decision about an account    *)
(* undone by a call that does not mean to.  Then the web: only entitled    *)
(* requests get past the middleware, and an account is changed by its      *)
(* owner or an administrator only.  The second part composes the first:    *)
(* whatever the web does, AuthService only sees its own steps.             *)
(***************************************************************************)
EXTENDS Access, TLAPS

-----------------------------------------------------------------------------
(* AuthService over accounts.csv.                                          *)

\* The columns of accounts.csv that calls change or keep.
Fields == {"email", "hash", "approved", "admin", "mustReset"}

\* A row has exactly these columns, each of its type.
LEMMA AccountFields ==
  ASSUME NEW a
  PROVE  a \in Account <=>
           /\ a = [f \in Fields |-> a[f]]
           /\ a["email"] \in Emails /\ a["hash"] \in Hashes /\ a["approved"] \in BOOLEAN
           /\ a["admin"] \in BOOLEAN /\ a["mustReset"] \in BOOLEAN
BY DEF Account, Fields

\* What Update writes and what bookkeeping makes of it are rows again.
LEMMA Merged ==
  ASSUME NEW copy \in Account, NEW old \in Account, NEW fields
  PROVE  LET new == [f \in DOMAIN copy |-> IF f \in fields THEN copy[f] ELSE old[f]]
         IN  /\ new \in Account
             /\ DOMAIN copy = Fields /\ DOMAIN old = Fields
<1> DEFINE new == [f \in DOMAIN copy |-> IF f \in fields THEN copy[f] ELSE old[f]]
<1>1. DOMAIN copy = Fields /\ DOMAIN old = Fields
  BY AccountFields
<1>2. DOMAIN new = Fields /\ \A f \in Fields : new[f] = IF f \in fields THEN copy[f] ELSE old[f]
  BY <1>1
<1>3. new = [f \in Fields |-> new[f]]
  BY <1>1
<1> HIDE DEF new
<1>4. {"email", "hash", "approved", "admin", "mustReset"} \subseteq Fields
  BY DEF Fields
<1>5. new \in Account
  BY <1>2, <1>3, <1>4, AccountFields
<1> QED
  BY <1>1, <1>5 DEF new

\* Short of two calls that overlapped, one call at a time holds an account ...
OneAtATime ==
  \A id \in AccountIds \ overlapped : \A r, s \in Updating(id) : r = s

\* A copy to be written back is justified by the hashes that may have been
\* read: it has one of them, or a password set by a reset or against one.
Justified(hashes, copy, current) ==
  \/ copy.hash \in hashes
  \/ copy.mustReset
  \/ \E hash \in hashes : Verify(hash, current)

\* ... and what any call holds is justified by what it can have read.
OwnerKnew ==
  \A id \in AccountIds : \A r \in Updating(id) :
    Justified(Readable(id), req[r].copy, req[r].current)

\* The hash an account has is one it has had.
PastComplete == \A id \in Existing : accounts[id].hash \in past[id]

\* An account has an intended state as long as it exists.
IntendedToo == \A id \in Existing : intended[id] \in Account

Inv == /\ TypeOK /\ EmailsUnique /\ LastDecisionKept
       /\ OneAtATime /\ OwnerKnew /\ PastComplete /\ IntendedToo

\* What a request holds, by the call that comes next.
LEMMA HeldFields ==
  ASSUME TypeOK, NEW r \in Requests
  PROVE  /\ req[r].pc \in {"idle", "add", "update"}
         /\ req[r].pc = "add" => req[r].email \in Emails /\ req[r].hash \in Hashes
         /\ req[r].pc = "update" =>
              /\ req[r].id \in AccountIds /\ req[r].copy \in Account
              /\ req[r].fields \subseteq {"approved", "hash", "mustReset"}
              /\ req[r].current \in Passwords \cup {Nobody}
BY DEF TypeOK, RequestType, Idle

\* A request that ends leaves the others as they are.
LEMMA Ended ==
  ASSUME TypeOK, NEW r \in Requests, req' = [req EXCEPT ![r] = Idle]
  PROVE  /\ req' \in [Requests -> RequestType]
         /\ \A s \in Requests : req'[s].pc # "idle" => s # r /\ req'[s] = req[s]
BY DEF TypeOK, RequestType, Idle

\* The file starts with the administrator or with what earlier runs left.
LEMMA InitInv == Init => Inv
<1> SUFFICES ASSUME Init PROVE Inv
  OBVIOUS
<1>1. DefaultAdmin \in Account
  BY AccountsAssumption DEF DefaultAdmin, Account, Hashes
<1>6. FirstAdmin \in Account
  BY <1>1, AccountsAssumption DEF FirstAdmin, Account, Hashes
<1>2. accounts \in [AccountIds -> Account \cup {Nobody}] /\ intended = accounts
  BY <1>6 DEF Init
<1>3. \A r \in Requests : req[r] = Idle /\ req[r].pc = "idle"
  BY DEF Init, Idle
<1>7. \A id \in Existing : accounts[id] \in Account /\ accounts[id].hash \in Hashes
  BY <1>2 DEF Existing, Account
<1>8. /\ past = [id \in AccountIds |-> IF id \in Existing THEN {accounts[id].hash} ELSE {}]
      /\ Existing \subseteq AccountIds
  BY DEF Init, Existing
<1>9. past \in [AccountIds -> SUBSET Hashes] /\ PastComplete
  BY <1>7, <1>8 DEF PastComplete
<1>4. TypeOK
  BY <1>2, <1>3, <1>9 DEF Init, TypeOK, RequestType
<1>5. Existing \subseteq {Administrator}
  BY DEF Init, Existing
<1> QED
  BY <1>2, <1>3, <1>4, <1>5, <1>9
  DEF Inv, EmailsUnique, LastDecisionKept, OneAtATime, OwnerKnew, Updating, IntendedToo, Existing

\* More hashes justify as much.
LEMMA JustifiedByMore ==
  ASSUME NEW few, NEW many, few \subseteq many, NEW copy, NEW current,
         Justified(few, copy, current)
  PROVE  Justified(many, copy, current)
BY DEF Justified

\* A step that leaves the table alone and may end requests keeps everything.
LEMMA OnlyEnds ==
  ASSUME Inv, UNCHANGED <<accounts, intended, overlapped, past>>,
         req' \in [Requests -> RequestType], unhashed' \subseteq Passwords, calls' \in Nat,
         \A s \in Requests : req'[s].pc = "update" => req'[s] = req[s]
  PROVE  Inv'
<1>1. TypeOK'
  BY DEF Inv, TypeOK
<1>2. Existing' = Existing /\ \A id \in AccountIds : Updating(id)' \subseteq Updating(id)
  BY DEF Existing, Updating
<1>3. EmailsUnique'
  BY <1>2 DEF Inv, EmailsUnique
<1>4. LastDecisionKept'
  <2> SUFFICES ASSUME NEW id \in Existing \ overlapped
               PROVE  /\ accounts[id] = intended[id]
                      /\ \A s \in Updating(id)' : \A f \in DOMAIN accounts[id] \ req'[s].fields :
                           req'[s].copy[f] = accounts[id][f]
    BY <1>2 DEF LastDecisionKept
  <2>1. \A s \in Updating(id)' : s \in Updating(id) /\ req'[s] = req[s]
    BY DEF Updating
  <2> QED
    BY <2>1 DEF Inv, LastDecisionKept
<1>5. OneAtATime'
  BY <1>2 DEF Inv, OneAtATime
<1>6. OwnerKnew'
  <2>0. \A id : Readable(id)' = Readable(id)
    BY DEF Readable
  <2> SUFFICES ASSUME NEW id \in AccountIds, NEW s \in Updating(id)'
               PROVE  Justified(Readable(id), req'[s].copy, req'[s].current)
    BY <2>0 DEF OwnerKnew, Justified, Verify, Hash, OldHash
  <2>1. s \in Updating(id) /\ req'[s] = req[s]
    BY DEF Updating
  <2> QED
    BY <2>1 DEF Inv, OwnerKnew
<1>7. IntendedToo' /\ PastComplete'
  BY <1>2 DEF Inv, IntendedToo, PastComplete
<1> QED
  BY <1>1, <1>3, <1>4, <1>5, <1>6, <1>7 DEF Inv

\* A call that has read an account and holds a copy of it, changed in the
\* fields it means to change and with the right to do so.
LEMMA HoldsKeeps ==
  ASSUME Inv, NEW r \in Requests, req[r].pc = "idle", calls' = calls + 1,
         NEW id \in Existing, NEW copy \in Account,
         NEW fields \in SUBSET {"approved", "hash", "mustReset"},
         NEW current \in Passwords \cup {Nobody},
         \A f \in Fields \ fields : copy[f] = accounts[id][f],
         Justified({accounts[id].hash}, copy, current),
         Holds(r, id, copy, fields, current)
  PROVE  Inv'
<1> DEFINE held == [pc |-> "update", id |-> id, copy |-> copy,
                    fields |-> fields, current |-> current]
<1>1. /\ req' = [req EXCEPT ![r] = held]
      /\ overlapped' = IF Updating(id) = {} THEN overlapped ELSE overlapped \cup {id}
      /\ UNCHANGED <<accounts, unhashed, intended, past>>
  BY DEF Holds
<1>2. id \in AccountIds /\ held \in RequestType
  BY DEF Existing, RequestType
<1>3. /\ held.pc = "update" /\ held.id = id /\ held.copy = copy
      /\ held.fields = fields /\ held.current = current
  OBVIOUS
<1> HIDE DEF held
<1>4. /\ req' \in [Requests -> RequestType] /\ req'[r] = held
      /\ \A s \in Requests \ {r} : req'[s] = req[s]
  BY <1>1, <1>2 DEF Inv, TypeOK
<1>5. TypeOK'
  BY <1>1, <1>2, <1>4 DEF Inv, TypeOK
<1>6. Existing' = Existing
  BY <1>1 DEF Existing
<1>7. /\ Updating(id)' = Updating(id) \cup {r}
      /\ \A other \in AccountIds \ {id} : Updating(other)' = Updating(other)
      /\ \A other \in AccountIds : r \notin Updating(other)
  BY <1>3, <1>4 DEF Updating
<1>8. copy.email = accounts[id].email
  <2>1. "email" \in Fields \ fields
    BY DEF Fields
  <2> QED
    BY <2>1
<1>9. EmailsUnique'
  <2>1. ASSUME NEW s \in Requests, req'[s].pc = "update"
        PROVE  req'[s].id \in Existing /\ req'[s].copy.email = accounts[req'[s].id].email
    BY <1>3, <1>4, <1>8, <2>1 DEF Inv, EmailsUnique
  <2> QED
    BY <1>1, <1>6, <2>1 DEF Inv, EmailsUnique
<1>10. ASSUME NEW other \in AccountIds \ overlapped', NEW s \in Updating(other)'
       PROVE  \/ s # r /\ s \in Updating(other) /\ req'[s] = req[s] /\ other \notin overlapped
              \/ s = r /\ other = id /\ id \notin overlapped /\ Updating(id) = {}
  BY <1>1, <1>2, <1>4, <1>7, <1>10 DEF Updating
<1>11. LastDecisionKept'
  <2> SUFFICES ASSUME NEW other \in Existing \ overlapped'
               PROVE  /\ accounts[other] = intended[other]
                      /\ \A s \in Updating(other)' :
                           \A f \in DOMAIN accounts[other] \ req'[s].fields :
                             req'[s].copy[f] = accounts[other][f]
    BY <1>1, <1>6 DEF LastDecisionKept
  <2>1. other \in AccountIds \ overlapped
    BY <1>1 DEF Existing
  <2>2. DOMAIN accounts[id] = Fields
    BY AccountFields DEF Inv, TypeOK, Existing
  <2>3. ASSUME NEW s \in Updating(other)', NEW f \in DOMAIN accounts[other] \ req'[s].fields
        PROVE  req'[s].copy[f] = accounts[other][f]
    <3>1. CASE s # r
      BY <1>10, <2>1, <2>3, <3>1 DEF Inv, LastDecisionKept
    <3>2. CASE s = r
      BY <1>3, <1>4, <1>10, <2>1, <2>2, <2>3, <3>2
    <3> QED
      BY <3>1, <3>2
  <2> QED
    BY <2>1, <2>3 DEF Inv, LastDecisionKept
<1>12. OneAtATime'
  BY <1>10 DEF Inv, OneAtATime
<1>13. OwnerKnew'
  <2>0. \A other \in Existing :
          /\ Readable(other) \subseteq Readable(other)'
          /\ {accounts[other].hash} \subseteq Readable(other)'
    BY <1>1 DEF Inv, PastComplete, Readable
  <2> SUFFICES ASSUME NEW other \in AccountIds, NEW s \in Updating(other)'
               PROVE  Justified(Readable(other)', req'[s].copy, req'[s].current)
    BY DEF OwnerKnew, Justified, Verify, Hash, OldHash
  <2>1. CASE s # r
    <3>1. s \in Updating(other) /\ req'[s] = req[s] /\ other \in Existing
      BY <1>4, <2>1 DEF Updating, Inv, EmailsUnique
    <3>2. Justified(Readable(other), req[s].copy, req[s].current)
      BY <3>1 DEF Inv, OwnerKnew
    <3>3. Readable(other) \subseteq Readable(other)'
      BY <2>0, <3>1
    <3> QED
      BY <3>1, <3>2, <3>3, JustifiedByMore
  <2>2. CASE s = r
    <3>1. other = id /\ req'[s].copy = copy /\ req'[s].current = current
      BY <1>3, <1>4, <2>2 DEF Updating
    <3>2. {accounts[id].hash} \subseteq Readable(id)'
      BY <2>0
    <3>3. Justified(Readable(id)', copy, current)
      BY <3>2, JustifiedByMore
    <3> QED
      BY <3>1, <3>3
  <2> QED
    BY <2>1, <2>2
<1>14. IntendedToo' /\ PastComplete'
  BY <1>1, <1>6 DEF Inv, IntendedToo, PastComplete
<1> QED
  BY <1>5, <1>9, <1>11, <1>12, <1>13, <1>14 DEF Inv

\* A new row has an id and an address nobody has.
LEMMA AddKeeps ==
  ASSUME Inv, NEW r \in Requests, Add(r)
  PROVE  Inv'
<1> DEFINE new == [email |-> req[r].email, hash |-> req[r].hash, approved |-> FALSE,
                   admin |-> FALSE, mustReset |-> FALSE]
<1>1. PICK id \in AccountIds \ Existing :
        /\ accounts' = [accounts EXCEPT ![id] = new]
        /\ intended' = [intended EXCEPT ![id] = new]
        /\ past' = [past EXCEPT ![id] = {new.hash}]
  BY DEF Add
<1>2. /\ req[r].pc = "add" /\ ~EmailTaken(req[r].email)
      /\ req' = [req EXCEPT ![r] = Idle]
      /\ UNCHANGED <<unhashed, overlapped, calls>>
  BY DEF Add
<1>3. new \in Account /\ new.email = req[r].email /\ new.hash \in Hashes
  BY <1>2, HeldFields DEF Inv, Account
<1> HIDE DEF new
<1>4. /\ req' \in [Requests -> RequestType]
      /\ \A s \in Requests : req'[s].pc = "update" => s # r /\ req'[s] = req[s]
  BY <1>2, Ended DEF Inv
<1>5. TypeOK'
  BY <1>1, <1>2, <1>3, <1>4 DEF Inv, TypeOK
<1>6. /\ Existing' = Existing \cup {id} /\ id \notin Existing /\ accounts'[id] = new
      /\ \A other \in Existing : accounts'[other] = accounts[other] /\ past'[other] = past[other]
      /\ past'[id] = {new.hash}
  BY <1>1, <1>3, AccountsAssumption DEF Inv, TypeOK, Existing
<1>7. \A other \in AccountIds : \A s \in Updating(other)' :
        s \in Updating(other) /\ req'[s] = req[s] /\ other \in Existing
  BY <1>4 DEF Inv, EmailsUnique, Updating
<1>8. EmailsUnique'
  <2>1. \A other \in Existing : accounts[other].email # new.email
    BY <1>2, <1>3 DEF EmailTaken
  <2>2. ASSUME NEW a \in Existing', NEW b \in Existing', accounts'[a].email = accounts'[b].email
        PROVE  a = b
    BY <1>6, <2>1, <2>2 DEF Inv, EmailsUnique
  <2>3. ASSUME NEW s \in Requests, req'[s].pc = "update"
        PROVE  req'[s].id \in Existing' /\ req'[s].copy.email = accounts'[req'[s].id].email
    BY <1>4, <1>6, <2>3 DEF Inv, EmailsUnique
  <2> QED
    BY <2>2, <2>3 DEF EmailsUnique
<1>9. LastDecisionKept'
  <2> SUFFICES ASSUME NEW other \in Existing' \ overlapped
               PROVE  /\ accounts'[other] = intended'[other]
                      /\ \A s \in Updating(other)' :
                           \A f \in DOMAIN accounts'[other] \ req'[s].fields :
                             req'[s].copy[f] = accounts'[other][f]
    BY <1>2 DEF LastDecisionKept
  <2>1. CASE other = id
    BY <1>1, <1>6, <1>7, <2>1 DEF Inv, TypeOK
  <2>2. CASE other # id
    <3>1. /\ other \in Existing /\ other \in AccountIds /\ accounts'[other] = accounts[other]
          /\ intended'[other] = intended[other]
      BY <1>1, <1>6, <2>2 DEF Inv, TypeOK, Existing
    <3> QED
      BY <1>7, <3>1 DEF Inv, LastDecisionKept
  <2> QED
    BY <2>1, <2>2
<1>10. OneAtATime'
  BY <1>2, <1>7 DEF Inv, OneAtATime
<1>11. OwnerKnew'
  <2> SUFFICES ASSUME NEW other \in AccountIds, NEW s \in Updating(other)'
               PROVE  Justified(Readable(other)', req'[s].copy, req'[s].current)
    BY DEF OwnerKnew, Justified, Verify, Hash, OldHash
  <2>1. s \in Updating(other) /\ req'[s] = req[s] /\ other \in Existing
    BY <1>7
  <2>2. Readable(other)' = Readable(other)
    BY <1>2, <1>6, <2>1 DEF Readable
  <2> QED
    BY <2>1, <2>2 DEF Inv, OwnerKnew
<1>12. IntendedToo' /\ PastComplete'
  BY <1>1, <1>3, <1>6 DEF Inv, IntendedToo, PastComplete, TypeOK, Existing
<1> QED
  BY <1>5, <1>8, <1>9, <1>10, <1>11, <1>12 DEF Inv

\* A copy written back is the account with the fields of its call changed.
LEMMA UpdateKeeps ==
  ASSUME Inv, NEW r \in Requests, Update(r)
  PROVE  Inv'
<1> DEFINE id == req[r].id
           copy == req[r].copy
           new == [f \in DOMAIN copy |-> IF f \in req[r].fields THEN copy[f] ELSE intended[id][f]]
<1>1. /\ req[r].pc = "update"
      /\ accounts' = [accounts EXCEPT ![id] = copy]
      /\ req' = [req EXCEPT ![r] = Idle]
      /\ UNCHANGED <<unhashed, overlapped, calls>>
  BY DEF Update
<1>2. /\ intended' = [intended EXCEPT ![id] = new]
      /\ past' = [past EXCEPT ![id] = @ \cup {copy.hash}]
  BY DEF Update
<1>3. /\ id \in AccountIds /\ id \in Existing /\ copy \in Account /\ r \in Updating(id)
      /\ copy.hash \in Hashes /\ copy.email = accounts[id].email
      /\ accounts[id] \in Account
  BY <1>1, HeldFields DEF Inv, EmailsUnique, Updating, Existing, TypeOK, Account
<1>4. intended \in [AccountIds -> Account \cup {Nobody}] /\ copy # Nobody
  BY <1>3, AccountsAssumption DEF Inv, TypeOK
<1>5. intended[id] \in Account
  BY <1>3 DEF Inv, IntendedToo
<1>6. new \in Account
  BY <1>3, <1>5, Merged
<1>7. id \notin overlapped => new = copy
  <2> SUFFICES ASSUME id \notin overlapped PROVE new = copy
    OBVIOUS
  <2>1. accounts[id] = intended[id] /\ DOMAIN accounts[id] = Fields
    BY <1>3, <1>5, Merged DEF Inv, LastDecisionKept
  <2>2. \A f \in Fields \ req[r].fields : copy[f] = intended[id][f]
    BY <1>3, <2>1 DEF Inv, LastDecisionKept
  <2>3. DOMAIN copy = Fields /\ copy = [f \in Fields |-> copy[f]]
    BY <1>3, AccountFields
  <2>4. \A f \in Fields :
          (IF f \in req[r].fields THEN copy[f] ELSE intended[id][f]) = copy[f]
    BY <2>2
  <2> HIDE DEF id, copy
  <2> QED
    BY <2>3, <2>4
<1> HIDE DEF id, copy, new
<1>8. /\ req' \in [Requests -> RequestType]
      /\ \A s \in Requests : req'[s].pc = "update" => s # r /\ req'[s] = req[s]
  BY <1>1, Ended DEF Inv
<1>9. /\ accounts'[id] = copy /\ intended'[id] = new
      /\ \A other \in AccountIds \ {id} :
           /\ accounts'[other] = accounts[other] /\ intended'[other] = intended[other]
           /\ past'[other] = past[other]
      /\ past'[id] = past[id] \cup {copy.hash}
      /\ Existing' = Existing
  BY <1>1, <1>2, <1>3, <1>4 DEF Inv, TypeOK, Existing
<1>10. TypeOK'
  BY <1>1, <1>2, <1>3, <1>6, <1>8 DEF Inv, TypeOK
<1>11. \A other \in AccountIds : \A s \in Updating(other)' :
         s \in Updating(other) /\ req'[s] = req[s] /\ s # r
  BY <1>8 DEF Updating
<1>12. \A other \in AccountIds \ overlapped : \A s \in Updating(other)' : other # id
  BY <1>3, <1>11 DEF Inv, OneAtATime
<1>13. EmailsUnique'
  <2>1. \A other \in Existing : accounts'[other].email = accounts[other].email
    BY <1>3, <1>9 DEF Existing
  <2>2. ASSUME NEW s \in Requests, req'[s].pc = "update"
        PROVE  req'[s].id \in Existing' /\ req'[s].copy.email = accounts'[req'[s].id].email
    BY <1>8, <1>9, <2>1, <2>2 DEF Inv, EmailsUnique
  <2> QED
    BY <1>9, <2>1, <2>2 DEF Inv, EmailsUnique
<1>14. LastDecisionKept'
  <2> SUFFICES ASSUME NEW other \in Existing \ overlapped
               PROVE  /\ accounts'[other] = intended'[other]
                      /\ \A s \in Updating(other)' :
                           \A f \in DOMAIN accounts'[other] \ req'[s].fields :
                             req'[s].copy[f] = accounts'[other][f]
    BY <1>1, <1>9 DEF LastDecisionKept
  <2>0. other \in AccountIds
    BY DEF Existing
  <2>1. CASE other = id
    BY <1>7, <1>9, <1>12, <2>0, <2>1
  <2>2. CASE other # id
    BY <1>9, <1>11, <2>0, <2>2 DEF Inv, LastDecisionKept
  <2> QED
    BY <2>1, <2>2
<1>15. OneAtATime'
  BY <1>1, <1>11 DEF Inv, OneAtATime
<1>16. OwnerKnew'
  <2> SUFFICES ASSUME NEW other \in AccountIds, NEW s \in Updating(other)'
               PROVE  Justified(Readable(other)', req'[s].copy, req'[s].current)
    BY DEF OwnerKnew, Justified, Verify, Hash, OldHash
  <2>1. s \in Updating(other) /\ req'[s] = req[s]
    BY <1>11
  <2>2. Readable(other) \subseteq Readable(other)'
    <3>1. CASE other \in overlapped
      BY <1>1, <1>3, <1>9, <3>1 DEF Readable
    <3>2. CASE other \notin overlapped
      BY <1>1, <1>9, <1>12, <3>2 DEF Readable
    <3> QED
      BY <3>1, <3>2
  <2>3. Justified(Readable(other), req[s].copy, req[s].current)
    BY <2>1 DEF Inv, OwnerKnew
  <2> QED
    BY <2>1, <2>2, <2>3, JustifiedByMore
<1>17. IntendedToo' /\ PastComplete'
  BY <1>6, <1>9 DEF Inv, IntendedToo, PastComplete, Existing
<1> QED
  BY <1>10, <1>13, <1>14, <1>15, <1>16, <1>17 DEF Inv

\* Inv is inductive.
LEMMA NextInv == Inv /\ [Next]_vars => Inv'
<1> SUFFICES ASSUME Inv, [Next]_vars PROVE Inv'
  OBVIOUS
<1>t. TypeOK /\ calls \in Nat /\ unhashed \subseteq Passwords /\ req \in [Requests -> RequestType]
  BY DEF Inv, TypeOK
<1>1. ASSUME NEW r \in Requests, NEW email \in Emails, NEW pw \in Passwords,
             Register(r, email, pw)
      PROVE  Inv'
  <2> DEFINE new == [pc |-> "add", email |-> email, hash |-> Hash(pw)]
  <2>1. new \in RequestType /\ new.pc = "add"
    BY DEF RequestType, Hashes
  <2> HIDE DEF new
  <2>2. req' = [req EXCEPT ![r] = new] /\ calls' = calls + 1
        /\ UNCHANGED <<accounts, unhashed, intended, overlapped, past>>
    BY <1>1 DEF Register, Enter, new
  <2>3. req' \in [Requests -> RequestType]
    BY <1>t, <2>1, <2>2
  <2>4. \A s \in Requests : req'[s].pc = "update" => req'[s] = req[s]
    BY <1>t, <2>1, <2>2
  <2> QED
    BY <1>t, <2>2, <2>3, <2>4, OnlyEnds
<1>2. ASSUME NEW r \in Requests, NEW email \in Emails, NEW pw \in Passwords,
             RegisterFails(r, email, pw)
      PROVE  Inv'
  BY <1>2, <1>t, OnlyEnds DEF RegisterFails, Enter
<1>3. ASSUME NEW r \in Requests, NEW id \in AccountIds, NEW approved \in BOOLEAN,
             SetApproval(r, id, approved)
      PROVE  Inv'
  <2>1. /\ id \in Existing /\ accounts[id] \in Account
        /\ req[r].pc = "idle" /\ calls' = calls + 1
    BY <1>3 DEF SetApproval, Enter, Existing, Inv, TypeOK
  <2> DEFINE copy == [accounts[id] EXCEPT !.approved = approved]
  <2>2. /\ copy \in Account /\ copy.hash = accounts[id].hash
        /\ \A f \in Fields \ {"approved"} : copy[f] = accounts[id][f]
    BY <2>1 DEF Account, Fields
  <2>3. Holds(r, id, copy, {"approved"}, Nobody)
    BY <1>3 DEF SetApproval
  <2> HIDE DEF copy
  <2>4. Justified({accounts[id].hash}, copy, Nobody)
    BY <2>2 DEF Justified
  <2> QED
    BY <2>1, <2>2, <2>3, <2>4, HoldsKeeps
<1>4. ASSUME NEW r \in Requests, NEW id \in AccountIds, NEW pw \in Passwords,
             ResetPasswordByAdmin(r, id, pw)
      PROVE  Inv'
  <2>1. /\ id \in Existing /\ accounts[id] \in Account
        /\ req[r].pc = "idle" /\ calls' = calls + 1
    BY <1>4 DEF ResetPasswordByAdmin, Enter, Existing, Inv, TypeOK
  <2> DEFINE copy == [accounts[id] EXCEPT !.hash = Hash(pw), !.mustReset = TRUE]
  <2>2. /\ copy \in Account /\ copy.mustReset
        /\ \A f \in Fields \ {"hash", "mustReset"} : copy[f] = accounts[id][f]
    BY <2>1 DEF Account, Fields, Hashes
  <2>3. Holds(r, id, copy, {"hash", "mustReset"}, Nobody)
    BY <1>4 DEF ResetPasswordByAdmin
  <2> HIDE DEF copy
  <2>4. Justified({accounts[id].hash}, copy, Nobody)
    BY <2>2 DEF Justified
  <2> QED
    BY <2>1, <2>2, <2>3, <2>4, HoldsKeeps
<1>5. ASSUME NEW r \in Requests, NEW id \in AccountIds,
             NEW current \in Passwords, NEW pw \in Passwords,
             ChangePassword(r, id, current, pw)
      PROVE  Inv'
  <2>1. /\ id \in Existing /\ accounts[id] \in Account
        /\ req[r].pc = "idle" /\ calls' = calls + 1
        /\ Verify(accounts[id].hash, current)
    BY <1>5 DEF ChangePassword, Enter, Existing, Inv, TypeOK
  <2> DEFINE copy == [accounts[id] EXCEPT !.hash = Hash(pw), !.mustReset = FALSE]
  <2>2. /\ copy \in Account
        /\ \A f \in Fields \ {"hash", "mustReset"} : copy[f] = accounts[id][f]
    BY <2>1 DEF Account, Fields, Hashes
  <2>3. Holds(r, id, copy, {"hash", "mustReset"}, current)
    BY <1>5 DEF ChangePassword
  <2> HIDE DEF copy
  <2>4. Justified({accounts[id].hash}, copy, current)
    BY <2>1 DEF Justified
  <2> QED
    BY <2>1, <2>2, <2>3, <2>4, HoldsKeeps
<1>6. ASSUME NEW r \in Requests, Proceed(r) PROVE Inv'
  <2>1. CASE Add(r)
    BY <2>1, AddKeeps
  <2>2. CASE Update(r)
    BY <2>2, UpdateKeeps
  <2>3. CASE EmailAlreadyExists(r)
    BY <1>t, <2>3, Ended, OnlyEnds DEF EmailAlreadyExists, Idle
  <2> QED
    BY <1>6, <2>1, <2>2, <2>3 DEF Proceed
<1>7. ASSUME NEW r \in Requests, CallFails(r) PROVE Inv'
  BY <1>t, <1>7, Ended, OnlyEnds DEF CallFails, Idle
<1>8. ASSUME Crash PROVE Inv'
  <2>1. Idle \in RequestType /\ Idle.pc = "idle"
    BY DEF RequestType, Idle
  <2>2. req' \in [Requests -> RequestType] /\ \A s \in Requests : req'[s].pc = "idle"
    BY <1>8, <2>1 DEF Crash
  <2> QED
    BY <1>t, <1>8, <2>2, OnlyEnds DEF Crash
<1>9. CASE UNCHANGED vars
  BY <1>t, <1>9, OnlyEnds DEF vars
<1> QED
  BY <1>1, <1>2, <1>3, <1>4, <1>5, <1>6, <1>7, <1>8, <1>9 DEF Next

\* Inv holds of every reachable state.
THEOREM AccountsInvariant == Spec => []Inv
BY InitInv, NextInv, PTL DEF Spec

\* The table of accounts and the requests keep their types: no call writes back
\* a row with a column missing or of another kind.
THEOREM AccountTypes == Spec => []TypeOK
<1>1. Inv => TypeOK
  BY DEF Inv
<1> QED
  BY <1>1, AccountsInvariant, PTL

\* No two accounts have one address, however many registrations raced for it.
THEOREM UniqueEmails == Spec => []EmailsUnique
<1>1. Inv => EmailsUnique
  BY DEF Inv
<1> QED
  BY <1>1, AccountsInvariant, PTL

\* An account on which no two calls ever overlapped has in every field what the
\* last completed call meant to put there.  Of an account with overlapping calls
\* nothing is claimed: the later Update undoes the earlier one.
THEOREM DecisionsKept == Spec => []LastDecisionKept
<1>1. Inv => LastDecisionKept
  BY DEF Inv
<1> QED
  BY <1>1, AccountsInvariant, PTL

\* Of any account: whoever replaces its password knows it, or is an
\* administrator resetting it.  Where calls on the account overlapped, knowing
\* one it had earlier is enough, and one it had earlier may come back, as a
\* stale Update does; no other password gets there.
THEOREM ChangesVerified == Spec => PasswordChangeVerified
<1>1. ASSUME Inv, Inv', [Next]_vars, NEW id \in AccountIds,
             accounts[id] # Nobody, accounts'[id].hash # accounts[id].hash
      PROVE  \/ accounts'[id].mustReset
             \/ accounts'[id].hash \in Readable(id)
             \/ \E r \in Updating(id), hash \in Readable(id) : Verify(hash, req[r].current)
  <2>1. CASE \E r \in Requests : Add(r)
    <3>1. PICK r \in Requests : Add(r)
      BY <2>1
    <3>2. PICK new \in AccountIds \ Existing : \E row : accounts' = [accounts EXCEPT ![new] = row]
      BY <3>1 DEF Add
    <3>3. id # new
      BY <1>1, <3>2 DEF Existing
    <3> QED
      BY <1>1, <3>2, <3>3 DEF Inv, TypeOK
  <2>2. CASE \E r \in Requests : Update(r)
    <3>1. PICK r \in Requests : Update(r)
      BY <2>2
    <3>2. /\ req[r].pc = "update"
          /\ accounts' = [accounts EXCEPT ![req[r].id] = req[r].copy]
      BY <3>1 DEF Update
    <3>3. id = req[r].id /\ accounts'[id] = req[r].copy
      BY <1>1, <3>2 DEF Inv, TypeOK
    <3>4. r \in Updating(id)
      BY <3>2, <3>3 DEF Updating
    <3>5. Justified(Readable(id), req[r].copy, req[r].current)
      BY <1>1, <3>4 DEF Inv, OwnerKnew
    <3> QED
      BY <3>3, <3>4, <3>5 DEF Justified
  <2>3. CASE accounts' = accounts
    BY <1>1, <2>3
  <2> QED
    BY <1>1, <2>1, <2>2, <2>3 DEF Next, Proceed, Register, RegisterFails, SetApproval,
      ResetPasswordByAdmin, ChangePassword, Holds, EmailAlreadyExists, CallFails, Crash, vars
<1>2. Inv /\ Inv' /\ [Next]_vars =>
        [\A id \in AccountIds :
          (accounts[id] # Nobody /\ accounts'[id].hash # accounts[id].hash) =>
            \/ accounts'[id].mustReset
            \/ accounts'[id].hash \in Readable(id)
            \/ \E r \in Updating(id), hash \in Readable(id) : Verify(hash, req[r].current)]_vars
  BY <1>1
<1> QED
  BY <1>2, AccountsInvariant, PTL DEF Spec, PasswordChangeVerified

-----------------------------------------------------------------------------
(* Sessions, middleware and handlers.                                      *)

\* Nobody becomes or ceases to be an administrator.
AdminKept ==
  \A r \in Requests : req[r].pc = "update" => req[r].copy.admin = accounts[req[r].id].admin

\* A step of AuthService leaves the accounts there are in place, with their
\* flag.
LEMMA AdminStays ==
  ASSUME Inv, Inv', AdminKept, [Next]_vars
  PROVE  /\ AdminKept'
         /\ \A id \in Existing : id \in Existing' /\ accounts'[id].admin = accounts[id].admin
<1>t. /\ TypeOK /\ TypeOK' /\ req \in [Requests -> RequestType]
      /\ accounts \in [AccountIds -> Account \cup {Nobody}]
      /\ \A r \in Requests : req[r].pc = "update" => req[r].id \in Existing
      /\ Nobody \notin Account
  BY AccountsAssumption DEF Inv, TypeOK, EmailsUnique
<1>1. ASSUME NEW r \in Requests, NEW id \in Existing, NEW copy, NEW fields, NEW current,
             Holds(r, id, copy, fields, current), copy.admin = accounts[id].admin
      PROVE  AdminKept' /\ accounts' = accounts
  <2> DEFINE held == [pc |-> "update", id |-> id, copy |-> copy,
                      fields |-> fields, current |-> current]
  <2>1. req' = [req EXCEPT ![r] = held] /\ accounts' = accounts
    BY <1>1 DEF Holds
  <2>2. held.pc = "update" /\ held.id = id /\ held.copy = copy
    OBVIOUS
  <2> HIDE DEF held
  <2>3. req'[r] = held /\ \A s \in Requests \ {r} : req'[s] = req[s]
    BY <1>t, <2>1
  <2> QED
    BY <1>1, <2>1, <2>2, <2>3 DEF AdminKept
<1>2. ASSUME accounts' = accounts,
             \A s \in Requests : req'[s].pc = "update" => req'[s] = req[s]
      PROVE  AdminKept'
  BY <1>2 DEF AdminKept
<1>3. ASSUME accounts' = accounts
      PROVE  \A id \in Existing : id \in Existing' /\ accounts'[id].admin = accounts[id].admin
  BY <1>3 DEF Existing
<1>4. ASSUME NEW r \in Requests, NEW email \in Emails, NEW pw \in Passwords,
             Register(r, email, pw) \/ RegisterFails(r, email, pw)
      PROVE  AdminKept' /\ accounts' = accounts
  <2>1. accounts' = accounts
    BY <1>4 DEF Register, RegisterFails
  <2>2. \A s \in Requests : req'[s].pc = "update" => req'[s] = req[s]
    BY <1>t, <1>4 DEF Register, RegisterFails
  <2> QED
    BY <1>2, <2>1, <2>2
<1>5. ASSUME NEW r \in Requests, NEW id \in AccountIds, NEW approved \in BOOLEAN,
             SetApproval(r, id, approved)
      PROVE  AdminKept' /\ accounts' = accounts
  <2> DEFINE copy == [accounts[id] EXCEPT !.approved = approved]
  <2>1. id \in Existing /\ Holds(r, id, copy, {"approved"}, Nobody)
    BY <1>5 DEF SetApproval
  <2>2. copy.admin = accounts[id].admin
    BY <1>t, <2>1 DEF Existing, Account
  <2> HIDE DEF copy
  <2> QED
    BY <1>1, <2>1, <2>2
<1>6. ASSUME NEW r \in Requests, NEW id \in AccountIds, NEW pw \in Passwords,
             ResetPasswordByAdmin(r, id, pw)
      PROVE  AdminKept' /\ accounts' = accounts
  <2> DEFINE copy == [accounts[id] EXCEPT !.hash = Hash(pw), !.mustReset = TRUE]
  <2>1. id \in Existing /\ Holds(r, id, copy, {"hash", "mustReset"}, Nobody)
    BY <1>6 DEF ResetPasswordByAdmin
  <2>2. copy.admin = accounts[id].admin
    BY <1>t, <2>1 DEF Existing, Account
  <2> HIDE DEF copy
  <2> QED
    BY <1>1, <2>1, <2>2
<1>7. ASSUME NEW r \in Requests, NEW id \in AccountIds, NEW current \in Passwords,
             NEW pw \in Passwords, ChangePassword(r, id, current, pw)
      PROVE  AdminKept' /\ accounts' = accounts
  <2> DEFINE copy == [accounts[id] EXCEPT !.hash = Hash(pw), !.mustReset = FALSE]
  <2>1. id \in Existing /\ Holds(r, id, copy, {"hash", "mustReset"}, current)
    BY <1>7 DEF ChangePassword
  <2>2. copy.admin = accounts[id].admin
    BY <1>t, <2>1 DEF Existing, Account
  <2> HIDE DEF copy
  <2> QED
    BY <1>1, <2>1, <2>2
<1>8. ASSUME NEW r \in Requests, req' = [req EXCEPT ![r] = Idle]
      PROVE  \A s \in Requests : req'[s].pc = "update" => req'[s] = req[s] /\ s # r
  BY <1>t, <1>8 DEF Idle
<1>9. ASSUME NEW r \in Requests, Add(r)
      PROVE  /\ AdminKept'
             /\ \A id \in Existing : id \in Existing' /\ accounts'[id].admin = accounts[id].admin
  <2>1. PICK new \in AccountIds \ Existing : \E row : accounts' = [accounts EXCEPT ![new] = row]
    BY <1>9 DEF Add
  <2>2. \A id \in Existing : accounts'[id] = accounts[id] /\ id \in Existing'
    BY <1>t, <2>1 DEF Existing
  <2>3. \A s \in Requests : req'[s].pc = "update" => req'[s] = req[s]
    BY <1>8, <1>9 DEF Add
  <2> QED
    BY <1>t, <2>2, <2>3 DEF AdminKept
<1>10. ASSUME NEW r \in Requests, Update(r)
       PROVE  /\ AdminKept'
              /\ \A id \in Existing : id \in Existing' /\ accounts'[id].admin = accounts[id].admin
  <2>1. /\ req[r].pc = "update" /\ req' = [req EXCEPT ![r] = Idle]
        /\ accounts' = [accounts EXCEPT ![req[r].id] = req[r].copy]
    BY <1>10 DEF Update
  <2>2. req[r].copy \in Account /\ req[r].copy.admin = accounts[req[r].id].admin
    BY <1>t, <2>1, HeldFields DEF AdminKept
  <2>3. \A id \in Existing : id \in Existing' /\ accounts'[id].admin = accounts[id].admin
    BY <1>t, <2>1, <2>2 DEF Existing
  <2>4. \A s \in Requests : req'[s].pc = "update" => req'[s] = req[s]
    BY <1>8, <2>1
  <2> QED
    BY <1>t, <2>3, <2>4 DEF AdminKept
<1>11. ASSUME NEW r \in Requests, EmailAlreadyExists(r) \/ CallFails(r)
       PROVE  AdminKept' /\ accounts' = accounts
  BY <1>2, <1>8, <1>11 DEF EmailAlreadyExists, CallFails
<1>12. ASSUME Crash PROVE AdminKept' /\ accounts' = accounts
  BY <1>2, <1>12 DEF Crash, Idle
<1>13. CASE UNCHANGED vars
  BY <1>2, <1>3, <1>13 DEF vars
<1> QED
  BY <1>3, <1>4, <1>5, <1>6, <1>7, <1>9, <1>10, <1>11, <1>12, <1>13 DEF Next, Proceed

-----------------------------------------------------------------------------
(* What the web does to AuthService.                                       *)

\* What a request carries, by where it is.
LEMMA HttpFields ==
  ASSUME AccessTypeOK, NEW r \in Requests
  PROVE  /\ http[r].pc \in {"none", "create", "register", "admit", "handler", "service"}
         /\ http[r].pc = "none" => http[r] = None
         /\ http[r].pc = "create" => http[r].id \in AccountIds
         /\ http[r].pc \in {"admit", "handler", "service"} => http[r] \in Visits
         /\ req[r].pc = "idle" <=> http[r].pc \notin {"register", "service"}
BY HeldFields DEF AccessTypeOK, Http, Visits, None, At

\* Every step of the web is a step of AuthService or leaves it alone.
LEMMA WebIsService == AccessTypeOK /\ [AccessNext]_<<vars, web>> => [Next]_vars
<1> SUFFICES ASSUME AccessTypeOK, [AccessNext]_<<vars, web>> PROVE [Next]_vars
  OBVIOUS
<1>1. ASSUME NEW r \in Requests, NEW current \in Passwords, NEW pw \in Passwords,
             ChangeOwnPassword(r, current, pw)
      PROVE  Next
  <2>1. http[r].id \in AccountIds
    BY <1>1, HttpFields DEF ChangeOwnPassword, Serve, At, Visits
  <2>2. ChangePassword(r, http[r].id, current, pw)
    BY <1>1 DEF ChangeOwnPassword
  <2> QED
    BY <2>1, <2>2 DEF Next
<1>2. ASSUME NEW r \in Requests, Continue(r) PROVE Next \/ UNCHANGED vars
  BY <1>2 DEF Continue, Create, Admit, TurnAway, Logout, Answer, RegisterEnds, ServiceEnds,
    Next, Proceed
<1>3. ASSUME NEW r \in Requests, RequestFails(r) PROVE Next \/ UNCHANGED vars
  BY <1>3 DEF RequestFails, Next
<1>4. ASSUME NEW r \in Requests, NEW id \in AccountIds, NEW pw \in Passwords,
             Authenticate(r, id, pw) \/ AdminResetPassword(r, id, pw)
      PROVE  Next \/ UNCHANGED vars
  BY <1>4 DEF Authenticate, AdminResetPassword, Next
<1>5. ASSUME NEW r \in Requests, NEW t \in Tokens,
             Expire(r, t) \/ \E path \in Paths : GetAccountID(r, t, path)
      PROVE  UNCHANGED vars
  BY <1>5 DEF Expire, GetAccountID
<1>6. ASSUME NEW r \in Requests, NEW email \in Emails, NEW pw \in Passwords,
             RegisterPage(r, email, pw)
      PROVE  Next
  BY <1>6 DEF RegisterPage, Next
<1>7. ASSUME NEW r \in Requests, NEW id \in AccountIds, NEW approved \in BOOLEAN,
             AdminSetApproval(r, id, approved)
      PROVE  Next
  BY <1>7 DEF AdminSetApproval, Next
<1>8. CASE Tick \/ Restart
  BY <1>8 DEF Tick, Restart, Next
<1> QED
  BY <1>1, <1>2, <1>3, <1>4, <1>5, <1>6, <1>7, <1>8 DEF AccessNext

-----------------------------------------------------------------------------
(* The inductive invariant.                                                *)

\* Sessions and requests belong to accounts there are.
LiveIds ==
  /\ \A t \in Tokens : sessions[t] # NoSession => sessions[t].id \in Existing
  /\ \A r \in Behind({"create", "admit", "handler", "service"}) : http[r].id \in Existing

\* Behind RequireAdmin there are administrators, whatever was written since.
AdminPages ==
  \A r \in Behind({"handler", "service"}) :
    http[r].path \in AdminPaths => accounts[http[r].id].admin

\* The only service that is not the administrator's changes the password of
\* the session's own account.
OwnPassword ==
  \A r \in Behind({"service"}) :
    \/ http[r].path \in AdminPaths
    \/ req[r].id = http[r].id /\ req[r].fields = {"hash", "mustReset"}

AccessInv == /\ Inv /\ AdminKept /\ AccessTypeOK
             /\ LiveIds /\ AdminPages /\ OwnPassword /\ AdmittedIsEntitled

\* A server that has just started has neither sessions nor requests.
LEMMA AccessInitInv == AccessInit => AccessInv
<1> SUFFICES ASSUME AccessInit PROVE AccessInv
  OBVIOUS
<1>1. Inv /\ \A r \in Requests : req[r].pc = "idle"
  BY InitInv DEF AccessInit, Init, Idle
<1>2. \A r \in Requests : http[r] = None /\ http[r].pc = "none"
  BY DEF AccessInit, None
<1>3. AccessTypeOK
  BY <1>1, <1>2 DEF AccessInit, AccessTypeOK, Inv, Http, At
<1> QED
  BY <1>1, <1>2, <1>3 DEF AccessInit, AccessInv, AdminKept, LiveIds, AdminPages, OwnPassword,
    AdmittedIsEntitled, Behind

\* What the steps that write no account that is there have in common.
LEMMA Keeps ==
  ASSUME AccessInv, Inv', AdminKept', AccessTypeOK',
         \A id \in Existing : id \in Existing' /\ accounts'[id] = accounts[id],
         \A t \in Tokens : sessions'[t] # NoSession => sessions'[t].id \in Existing,
         \A r \in Requests :
           \/ http'[r].pc \in {"none", "register"}
           \/ http'[r] = http[r] /\ req'[r] = req[r]
           \/ http'[r].pc \in {"create", "admit"} /\ http'[r].id \in Existing
           \/ /\ http'[r].pc = "handler" /\ http'[r].id \in Existing
              /\ Entitled(accounts[http'[r].id], http'[r].path)
           \/ /\ http'[r].pc = "service" /\ http[r].pc = "handler"
              /\ http'[r].id = http[r].id /\ http'[r].path = http[r].path
              /\ http'[r].stale = http[r].stale
              /\ \/ http'[r].path \in AdminPaths
                 \/ req'[r].id = http'[r].id /\ req'[r].fields = {"hash", "mustReset"}
  PROVE  AccessInv'
<1>1. \A r \in Behind({"create", "admit", "handler", "service"})' : http'[r].id \in Existing
  BY DEF Behind, AccessInv, LiveIds
<1>2. LiveIds'
  BY <1>1 DEF LiveIds
<1>3. \A r \in Behind({"handler", "service"})' :
        accounts'[http'[r].id] = accounts[http'[r].id]
  BY <1>1 DEF Behind
<1>4. AdminPages'
  <2> SUFFICES ASSUME NEW r \in Behind({"handler", "service"})', http'[r].path \in AdminPaths
               PROVE  accounts[http'[r].id].admin
    BY <1>3 DEF AdminPages, AdminPaths
  <2> QED
    BY DEF Behind, Entitled, AccessInv, AdminPages
<1>5. OwnPassword'
  BY DEF Behind, AccessInv, OwnPassword, AdminPaths
<1>6. AdmittedIsEntitled'
  <2> SUFFICES ASSUME NEW r \in Behind({"handler", "service"})', ~http'[r].stale
               PROVE  Entitled(accounts[http'[r].id], http'[r].path)
    BY <1>3 DEF AdmittedIsEntitled, Entitled, Active, AdminPaths
  <2> QED
    BY DEF Behind, AccessInv, AdmittedIsEntitled
<1> QED
  BY <1>2, <1>4, <1>5, <1>6 DEF AccessInv

\* A step of one request that is nobody's business but the session table's.
LEMMA Quiet ==
  ASSUME AccessInv, UNCHANGED vars, NEW r \in Requests, NEW next \in Http, Moves(r, next),
         http[r].pc \notin {"register", "service"}, next.pc \notin {"register", "service"},
         sessions' \in [Tokens -> [id : AccountIds, expires : Nat] \cup {NoSession}],
         drawn' \subseteq Tokens, \A t \in Tokens \ drawn' : sessions'[t] = NoSession,
         clock' \in Nat, faults' \in Nat,
         \A t \in Tokens : sessions'[t] # NoSession => sessions'[t].id \in Existing,
         next.pc \in {"create", "admit", "handler"} => next.id \in Existing,
         next.pc = "handler" => Entitled(accounts[next.id], next.path)
  PROVE  AccessInv'
<1>1. Inv' /\ AdminKept'
  BY NextInv, AdminStays DEF AccessInv
<1>2. /\ accounts' = accounts /\ req' = req
      /\ http' \in [Requests -> Http] /\ http'[r] = next
      /\ \A s \in Requests \ {r} : http'[s] = http[s]
  BY DEF vars, Moves, AccessInv, AccessTypeOK
<1>3. AccessTypeOK'
  BY <1>1, <1>2 DEF AccessInv, AccessTypeOK, At, Inv
<1>4. next.pc \in {"none", "create", "admit", "handler"}
  BY DEF Http, Visits, None
<1>5. Existing' = Existing
  BY <1>2 DEF Existing
<1> QED
  BY <1>1, <1>2, <1>3, <1>4, <1>5, Keeps

\* A handler calls its service, which reads an account.
LEMMA Serves ==
  ASSUME AccessInv, NEW r \in Requests, NEW path \in Paths \ {"/logout", "/issue"},
         Serve(r, path), [Next]_vars, NEW id, NEW copy, NEW fields, NEW current,
         Holds(r, id, copy, fields, current),
         path = "/change-password" => id = http[r].id /\ fields = {"hash", "mustReset"}
  PROVE  AccessInv'
<1> DEFINE held == [pc |-> "update", id |-> id, copy |-> copy,
                    fields |-> fields, current |-> current]
           next == [http[r] EXCEPT !.pc = "service"]
<1>1. Inv' /\ AdminKept'
  BY NextInv, AdminStays DEF AccessInv
<1>2. /\ req' = [req EXCEPT ![r] = held] /\ accounts' = accounts
      /\ held.pc = "update" /\ held.id = id /\ held.fields = fields
  BY DEF Holds
<1>3. http[r].pc = "handler" /\ http[r].path = path /\ http' = [http EXCEPT ![r] = next]
      /\ UNCHANGED <<sessions, drawn, clock, faults>>
  BY DEF Serve, At, Moves
<1>4. /\ next \in Http /\ next.pc = "service" /\ next.id = http[r].id
      /\ next.path = path /\ next.stale = http[r].stale
  BY <1>3, HttpFields DEF AccessInv, Http, Visits
<1> HIDE DEF held, next
<1>5. /\ http' \in [Requests -> Http] /\ http'[r] = next /\ req'[r] = held
      /\ \A s \in Requests \ {r} : http'[s] = http[s] /\ req'[s] = req[s]
  BY <1>2, <1>3, <1>4 DEF AccessInv, AccessTypeOK, TypeOK
<1>6. AccessTypeOK'
  BY <1>1, <1>2, <1>3, <1>4, <1>5 DEF AccessInv, AccessTypeOK, At, Inv
<1>7. Existing' = Existing
  BY <1>2 DEF Existing
<1>8. \A t \in Tokens : sessions'[t] # NoSession => sessions'[t].id \in Existing
  BY <1>3 DEF AccessInv, LiveIds
<1>9. path \in AdminPaths \/ path = "/change-password"
  BY DEF Paths
<1> QED
  BY <1>1, <1>2, <1>3, <1>4, <1>5, <1>6, <1>7, <1>8, <1>9, Keeps

\* A service or a registration ends without having written an account that
\* was there.
LEMMA EndsQuietly ==
  ASSUME AccessInv, NEW r \in Requests, Ends(r), [Next]_vars,
         req' = [req EXCEPT ![r] = Idle],
         \A id \in Existing : id \in Existing' /\ accounts'[id] = accounts[id],
         UNCHANGED <<sessions, drawn, clock>>, faults' \in Nat
  PROVE  AccessInv'
<1>1. Inv' /\ AdminKept'
  BY NextInv, AdminStays DEF AccessInv
<1>2. /\ http' \in [Requests -> Http] /\ http'[r] = None /\ req'[r] = Idle
      /\ \A s \in Requests \ {r} : http'[s] = http[s] /\ req'[s] = req[s]
  BY DEF Ends, Moves, Http, AccessInv, AccessTypeOK, TypeOK
<1>3. None.pc = "none" /\ Idle.pc = "idle"
  BY DEF None, Idle
<1>4. AccessTypeOK'
  BY <1>1, <1>2, <1>3 DEF AccessInv, AccessTypeOK, At, Inv
<1>5. \A t \in Tokens : sessions'[t] # NoSession => sessions'[t].id \in Existing
  BY DEF AccessInv, LiveIds
<1> QED
  BY <1>1, <1>2, <1>3, <1>4, <1>5, Keeps

\* An account is written back: whoever is under way for it is marked.
LEMMA ServiceEndsKeeps ==
  ASSUME AccessInv, NEW r \in Requests, ServiceEnds(r), [Next]_vars
  PROVE  AccessInv'
<1> DEFINE g == req[r].id
           next(s) == IF s = r THEN None
                      ELSE IF s \in Behind({"admit", "handler", "service"}) /\ http[s].id = req[r].id
                        THEN [http[s] EXCEPT !.stale = TRUE]
                      ELSE http[s]
<1>1. Inv' /\ AdminKept'
  BY NextInv, AdminStays DEF AccessInv
<1>2. /\ http' = [s \in Requests |-> next(s)]
      /\ Update(r) /\ UNCHANGED <<sessions, drawn, clock, faults>>
  BY DEF ServiceEnds
<1>3. /\ req[r].pc = "update" /\ req' = [req EXCEPT ![r] = Idle]
      /\ accounts' = [accounts EXCEPT ![g] = req[r].copy]
  BY <1>2 DEF Update
<1>4. /\ \A id \in Existing : id \in Existing' /\ accounts'[id].admin = accounts[id].admin
      /\ \A id \in Existing : id # g => accounts'[id] = accounts[id]
  BY <1>1, <1>3, AdminStays DEF AccessInv, Inv, TypeOK, Existing
<1>5. None.pc = "none" /\ Idle.pc = "idle" /\ req'[r] = Idle
      /\ \A s \in Requests \ {r} : req'[s] = req[s]
  BY <1>3 DEF None, Idle, AccessInv, Inv, TypeOK
<1>6. ASSUME NEW s \in Requests
      PROVE  /\ http'[s] \in Http
             /\ s = r => http'[s] = None
             /\ s # r => /\ http'[s].pc = http[s].pc
                         /\ http'[s].pc = "create" => http'[s].id = http[s].id
                         /\ http'[s].pc \in {"admit", "handler", "service"} =>
                              /\ http'[s].id = http[s].id /\ http'[s].path = http[s].path
                              /\ ~http'[s].stale => ~http[s].stale /\ http[s].id # g
  <2>1. http'[s] = next(s)
    BY <1>2
  <2>2. http[s] \in Http
    BY DEF AccessInv, AccessTypeOK
  <2>3. CASE s = r
    BY <2>1, <2>3 DEF Http
  <2>4. CASE s # r /\ http[s].pc \in {"admit", "handler", "service"} /\ http[s].id = g
    <3>1. http'[s] = [http[s] EXCEPT !.stale = TRUE] /\ http[s] \in Visits
      BY <2>1, <2>4, HttpFields DEF Behind, AccessInv
    <3>2. http'[s] \in Http
      BY <3>1 DEF Visits, Http
    <3>3. /\ http'[s].pc = http[s].pc /\ http'[s].id = http[s].id
          /\ http'[s].path = http[s].path /\ http'[s].stale
      BY <3>1 DEF Visits
    <3> QED
      BY <2>4, <3>2, <3>3
  <2>5. CASE s # r /\ ~(http[s].pc \in {"admit", "handler", "service"} /\ http[s].id = g)
    <3>1. http'[s] = http[s]
      BY <2>1, <2>5 DEF Behind
    <3> QED
      BY <2>2, <2>5, <3>1
  <2> QED
    BY <2>3, <2>4, <2>5
<1> HIDE DEF next
<1>7. http' \in [Requests -> Http]
  BY <1>2, <1>6
<1>8. AccessTypeOK'
  BY <1>1, <1>2, <1>3, <1>5, <1>6, <1>7 DEF AccessInv, AccessTypeOK, At, Inv
<1>9. \A s \in Requests : http'[s].pc # "none" => s # r /\ http'[s].pc = http[s].pc
  BY <1>5, <1>6
<1>10. LiveIds'
  <2>1. ASSUME NEW s \in Behind({"create", "admit", "handler", "service"})'
        PROVE  http'[s].id \in Existing'
    BY <1>4, <1>6, <1>9 DEF Behind, AccessInv, LiveIds
  <2>2. \A t \in Tokens : sessions'[t] # NoSession => sessions'[t].id \in Existing'
    BY <1>2, <1>4 DEF AccessInv, LiveIds
  <2> QED
    BY <2>1, <2>2 DEF LiveIds
<1>11. \A s \in Behind({"handler", "service"})' :
         /\ s \in Behind({"handler", "service"}) /\ s # r
         /\ http'[s].id = http[s].id /\ http'[s].path = http[s].path
         /\ http[s].id \in Existing
  BY <1>6, <1>9 DEF Behind, AccessInv, LiveIds
<1>12. AdminPages'
  <2> SUFFICES ASSUME NEW s \in Behind({"handler", "service"})', http'[s].path \in AdminPaths
               PROVE  accounts'[http'[s].id].admin
    BY DEF AdminPages, AdminPaths
  <2> QED
    BY <1>4, <1>11 DEF AccessInv, AdminPages
<1>13. OwnPassword'
  <2> SUFFICES ASSUME NEW s \in Behind({"service"})'
               PROVE  \/ http'[s].path \in AdminPaths
                      \/ req'[s].id = http'[s].id /\ req'[s].fields = {"hash", "mustReset"}
    BY DEF OwnPassword, AdminPaths
  <2>1. s \in Behind({"service"}) /\ s \in Behind({"handler", "service"})' /\ s # r
    BY <1>9 DEF Behind
  <2> QED
    BY <1>5, <1>11, <2>1 DEF Behind, AccessInv, OwnPassword
<1>14. AdmittedIsEntitled'
  <2> SUFFICES ASSUME NEW s \in Behind({"handler", "service"})', ~http'[s].stale
               PROVE  Entitled(accounts'[http'[s].id], http'[s].path)
    BY DEF AdmittedIsEntitled, Entitled, Active, AdminPaths
  <2>1. ~http[s].stale /\ http[s].id # g
    BY <1>6, <1>11 DEF Behind
  <2> QED
    BY <1>4, <1>11, <2>1 DEF AccessInv, AdmittedIsEntitled
<1> QED
  BY <1>1, <1>8, <1>10, <1>12, <1>13, <1>14 DEF AccessInv

\* AccessInv is inductive.
LEMMA AccessNextInv == AccessInv /\ [AccessNext]_<<vars, web>> => AccessInv'
<1> SUFFICES ASSUME AccessInv, [AccessNext]_<<vars, web>> PROVE AccessInv'
  OBVIOUS
<1>t. /\ AccessTypeOK /\ LiveIds /\ [Next]_vars /\ clock \in Nat /\ faults \in Nat
      /\ sessions \in [Tokens -> [id : AccountIds, expires : Nat] \cup {NoSession}]
      /\ drawn \subseteq Tokens /\ \A t \in Tokens \ drawn : sessions[t] = NoSession
      /\ http \in [Requests -> Http] /\ req \in [Requests -> RequestType]
      /\ \A t \in Tokens : sessions[t] # NoSession => sessions[t].id \in Existing
      /\ None \in Http /\ None.pc = "none"
  BY WebIsService DEF AccessInv, AccessTypeOK, LiveIds, Http, None, Inv, TypeOK
<1>1. ASSUME NEW r \in Requests, NEW id \in AccountIds, NEW pw \in Passwords,
             Authenticate(r, id, pw)
      PROVE  AccessInv'
  <2> DEFINE next == [pc |-> "create", id |-> id]
  <2>1. /\ next \in Http /\ next.pc = "create" /\ next.id \in Existing
        /\ Moves(r, next) /\ http[r].pc = "none"
        /\ UNCHANGED <<vars, sessions, drawn, clock, faults>>
    BY <1>1 DEF Authenticate, Http, At
  <2> HIDE DEF next
  <2> QED
    BY <1>t, <2>1, Quiet
<1>2. ASSUME NEW r \in Requests, Create(r) PROVE AccessInv'
  <2>1. http[r].pc = "create" /\ http[r].id \in Existing /\ http[r].id \in AccountIds
    BY <1>t, <1>2 DEF Create, At, LiveIds, Behind, Existing
  <2>2. PICK t \in Tokens \ drawn :
          /\ sessions' = [sessions EXCEPT ![t] = [id |-> http[r].id, expires |-> clock + TTL]]
          /\ drawn' = drawn \cup {t}
    BY <1>2 DEF Create
  <2>3. [id |-> http[r].id, expires |-> clock + TTL] \in [id : AccountIds, expires : Nat]
    BY <1>t, <2>1, AccessAssumption
  <2>4. /\ sessions' \in [Tokens -> [id : AccountIds, expires : Nat] \cup {NoSession}]
        /\ drawn' \subseteq Tokens /\ \A u \in Tokens \ drawn' : sessions'[u] = NoSession
        /\ \A u \in Tokens : sessions'[u] # NoSession => sessions'[u].id \in Existing
    BY <1>t, <2>1, <2>2, <2>3
  <2> QED
    BY <1>t, <1>2, <2>1, <2>4, Quiet DEF Create, Ends
<1>3. ASSUME NEW r \in Requests, NEW t \in Tokens, NEW path \in Paths, GetAccountID(r, t, path)
      PROVE  AccessInv'
  <2> DEFINE next == [pc |-> "admit", token |-> t, id |-> sessions[t].id,
                      path |-> path, stale |-> FALSE]
  <2>1. /\ Moves(r, next) /\ http[r].pc = "none" /\ sessions[t] # NoSession
        /\ UNCHANGED <<vars, sessions, drawn, clock, faults>>
    BY <1>3 DEF GetAccountID, At
  <2>2. next \in Http /\ next.pc = "admit" /\ next.id \in Existing
    BY <1>t, <2>1 DEF Http, Visits
  <2> HIDE DEF next
  <2> QED
    BY <1>t, <2>1, <2>2, Quiet
<1>4. ASSUME UNCHANGED <<vars, http, drawn>>, clock' \in Nat, faults' \in Nat,
             \A t \in Tokens : sessions'[t] = sessions[t] \/ sessions'[t] = NoSession,
             sessions' \in [Tokens -> [id : AccountIds, expires : Nat] \cup {NoSession}]
      PROVE  AccessInv'
  <2>1. Inv' /\ AdminKept'
    BY <1>t, NextInv, AdminStays DEF AccessInv
  <2>2. accounts' = accounts /\ req' = req /\ Existing' = Existing
    BY <1>4 DEF vars, Existing
  <2>3. AccessTypeOK'
    BY <1>t, <1>4, <2>1, <2>2 DEF AccessTypeOK, At, Inv
  <2>4. \A t \in Tokens : sessions'[t] # NoSession => sessions'[t].id \in Existing
    BY <1>t, <1>4
  <2> QED
    BY <1>4, <2>1, <2>2, <2>3, <2>4, Keeps
<1>5. ASSUME NEW r \in Requests, NEW t \in Tokens, Expire(r, t) PROVE AccessInv'
  <2>1. /\ UNCHANGED <<vars, http, drawn, clock, faults>>
        /\ sessions' = [sessions EXCEPT ![t] = NoSession]
    BY <1>5 DEF Expire
  <2> QED
    BY <1>t, <1>4, <2>1
<1>6. ASSUME NEW r \in Requests, Admit(r) PROVE AccessInv'
  <2> DEFINE next == [http[r] EXCEPT !.pc = "handler"]
  <2>1. /\ Moves(r, next) /\ http[r].pc = "admit"
        /\ Entitled(accounts[http[r].id], http[r].path)
        /\ UNCHANGED <<vars, sessions, drawn, clock, faults>>
    BY <1>6 DEF Admit, At
  <2>2. http[r] \in Visits /\ http[r].id \in Existing
    BY <1>t, <2>1, HttpFields DEF LiveIds, Behind
  <2>3. /\ next \in Http /\ next.pc = "handler" /\ next.id = http[r].id
        /\ next.path = http[r].path
    BY <2>2 DEF Visits, Http
  <2> HIDE DEF next
  <2> QED
    BY <1>t, <2>1, <2>2, <2>3, Quiet
<1>7. ASSUME NEW r \in Requests, TurnAway(r) \/ Answer(r) PROVE AccessInv'
  BY <1>t, <1>7, Quiet DEF TurnAway, Answer, Ends, At
<1>8. ASSUME NEW r \in Requests, Logout(r) PROVE AccessInv'
  <2>1. /\ Moves(r, None) /\ http[r].pc = "handler"
        /\ sessions' = [sessions EXCEPT ![http[r].token] = NoSession]
        /\ UNCHANGED <<vars, drawn, clock, faults>>
    BY <1>8 DEF Logout, Ends, At
  <2>2. /\ sessions' \in [Tokens -> [id : AccountIds, expires : Nat] \cup {NoSession}]
        /\ \A t \in Tokens \ drawn : sessions'[t] = NoSession
        /\ \A t \in Tokens : sessions'[t] # NoSession => sessions'[t].id \in Existing
    BY <1>t, <2>1
  <2> QED
    BY <1>t, <2>1, <2>2, Quiet
<1>9. ASSUME NEW r \in Requests, NEW current \in Passwords, NEW pw \in Passwords,
             ChangeOwnPassword(r, current, pw)
      PROVE  AccessInv'
  BY <1>t, <1>9, Serves DEF ChangeOwnPassword, ChangePassword, Paths
<1>10. ASSUME NEW r \in Requests, NEW id \in AccountIds, NEW approved \in BOOLEAN,
              AdminSetApproval(r, id, approved)
       PROVE  AccessInv'
  BY <1>t, <1>10, Serves DEF AdminSetApproval, SetApproval, Paths, AdminPaths
<1>11. ASSUME NEW r \in Requests, NEW id \in AccountIds, NEW pw \in Passwords,
              AdminResetPassword(r, id, pw)
       PROVE  AccessInv'
  BY <1>t, <1>11, Serves DEF AdminResetPassword, ResetPasswordByAdmin, Paths, AdminPaths
<1>12. ASSUME NEW r \in Requests, NEW email \in Emails, NEW pw \in Passwords,
              RegisterPage(r, email, pw)
       PROVE  AccessInv'
  <2> DEFINE held == [pc |-> "add", email |-> email, hash |-> Hash(pw)]
             next == [pc |-> "register"]
  <2>1. /\ http[r].pc = "none" /\ http' = [http EXCEPT ![r] = next]
        /\ req' = [req EXCEPT ![r] = held] /\ accounts' = accounts
        /\ UNCHANGED <<sessions, drawn, clock, faults>>
    BY <1>12 DEF RegisterPage, Register, At, Moves
  <2>2. next \in Http /\ next.pc = "register" /\ held.pc = "add"
    BY DEF Http
  <2> HIDE DEF next, held
  <2>3. /\ http' \in [Requests -> Http] /\ http'[r] = next /\ req'[r] = held
        /\ \A s \in Requests \ {r} : http'[s] = http[s] /\ req'[s] = req[s]
    BY <1>t, <2>1, <2>2
  <2>4. Inv' /\ AdminKept' /\ Existing' = Existing
    BY <1>t, <2>1, NextInv, AdminStays DEF AccessInv, Existing
  <2>5. AccessTypeOK'
    BY <1>t, <2>1, <2>2, <2>3, <2>4 DEF AccessTypeOK, At, Inv
  <2> QED
    BY <1>t, <2>1, <2>2, <2>3, <2>4, <2>5, Keeps
<1>13. ASSUME NEW r \in Requests, RegisterEnds(r) PROVE AccessInv'
  <2>1. /\ Ends(r) /\ req' = [req EXCEPT ![r] = Idle]
        /\ UNCHANGED <<sessions, drawn, clock, faults>>
    BY <1>13 DEF RegisterEnds, Add, EmailAlreadyExists
  <2>2. \A id \in Existing : id \in Existing' /\ accounts'[id] = accounts[id]
    <3>1. CASE Add(r)
      <4>1. PICK new \in AccountIds \ Existing : \E row : accounts' = [accounts EXCEPT ![new] = row]
        BY <3>1 DEF Add
      <4> QED
        BY <4>1 DEF AccessInv, Inv, TypeOK, Existing
    <3>2. CASE EmailAlreadyExists(r)
      BY <3>2 DEF EmailAlreadyExists, Existing
    <3> QED
      BY <1>13, <3>1, <3>2 DEF RegisterEnds
  <2> QED
    BY <1>t, <2>1, <2>2, EndsQuietly
<1>14. ASSUME NEW r \in Requests, ServiceEnds(r) PROVE AccessInv'
  BY <1>t, <1>14, ServiceEndsKeeps
<1>15. ASSUME NEW r \in Requests, RequestFails(r) PROVE AccessInv'
  <2>1. faults' \in Nat /\ Ends(r) /\ UNCHANGED <<sessions, drawn, clock>>
    BY <1>t, <1>15 DEF RequestFails, Fault
  <2>2. CASE req[r].pc = "idle"
    <3>1. UNCHANGED vars /\ http[r].pc \notin {"register", "service"}
      BY <1>t, <1>15, <2>2, HttpFields DEF RequestFails
    <3> QED
      BY <1>t, <2>1, <3>1, Quiet DEF Ends
  <2>3. CASE req[r].pc # "idle"
    <3>1. CallFails(r)
      BY <1>15, <2>3 DEF RequestFails
    <3> QED
      BY <1>t, <2>1, <3>1, EndsQuietly DEF CallFails, Existing
  <2> QED
    BY <2>2, <2>3
<1>16. ASSUME Tick PROVE AccessInv'
  BY <1>t, <1>4, <1>16 DEF Tick
<1>17. ASSUME Restart PROVE AccessInv'
  <2>1. /\ http' = [r \in Requests |-> None] /\ req' = [r \in Requests |-> Idle]
        /\ sessions' = [t \in Tokens |-> NoSession] /\ accounts' = accounts
        /\ UNCHANGED <<drawn, clock>> /\ faults' \in Nat
    BY <1>t, <1>17 DEF Restart, Crash, Fault
  <2>2. Inv' /\ AdminKept' /\ Existing' = Existing
    BY <1>t, <2>1, NextInv, AdminStays DEF AccessInv, Existing
  <2>3. AccessTypeOK'
    BY <1>t, <2>1, <2>2 DEF AccessTypeOK, At, Inv, Idle
  <2> QED
    BY <1>t, <2>1, <2>2, <2>3, Keeps
<1>18. CASE UNCHANGED <<vars, web>>
  BY <1>t, <1>4, <1>18 DEF web
<1> QED
  BY <1>1, <1>2, <1>3, <1>5, <1>6, <1>7, <1>8, <1>9, <1>10, <1>11, <1>12, <1>13, <1>14, <1>15,
    <1>16, <1>17, <1>18 DEF AccessNext, Continue

\* AccessInv holds of every reachable state.
THEOREM AccessInvariant == AccessSpec => []AccessInv
BY AccessInitInv, AccessNextInv, PTL DEF AccessSpec

\* The web composed with AuthService is AuthService: what is proved of Spec
\* holds behind the middleware, too.
THEOREM WebImplementsService == AccessSpec => Spec
<1>1. AccessInit => Init
  BY DEF AccessInit
<1>2. AccessInv /\ [AccessNext]_<<vars, web>> => [Next]_vars
  BY WebIsService DEF AccessInv
<1> QED
  BY <1>1, <1>2, AccessInvariant, PTL DEF AccessSpec, Spec

\* Well-formed tables; a service is called exactly by the requests that wait
\* for one.
THEOREM AccessTypes == AccessSpec => []AccessTypeOK
<1>1. AccessInv => AccessTypeOK
  BY DEF AccessInv
<1> QED
  BY <1>1, AccessInvariant, PTL

\* A withdrawn approval and a reset password bind every session.
THEOREM OnlyEntitled == AccessSpec => []AdmittedIsEntitled
<1>1. AccessInv => AdmittedIsEntitled
  BY DEF AccessInv
<1> QED
  BY <1>1, AccessInvariant, PTL

\* Accounts are changed by their owners, but for the approval, or by
\* administrators.
THEOREM OnlyOwnerOrAdmin == AccessSpec => ChangedByOwnerOrAdmin
<1> DEFINE Rightly(id) ==
      (accounts[id] # Nobody /\ accounts'[id] # accounts[id]) =>
        \E r \in Updating(id) :
          \/ accounts[http[r].id].admin
          \/ http[r].id = id /\ accounts'[id].approved = accounts[id].approved
<1>1. ASSUME AccessInv, [AccessNext]_<<vars, web>>, NEW id \in AccountIds \ overlapped,
             accounts[id] # Nobody, accounts'[id] # accounts[id]
      PROVE  \E r \in Updating(id) :
               \/ accounts[http[r].id].admin
               \/ http[r].id = id /\ accounts'[id].approved = accounts[id].approved
  <2>t. TypeOK /\ AccessTypeOK /\ [Next]_vars /\ id \in Existing
    BY <1>1, WebIsService DEF AccessInv, Inv, Existing
  <2>1. PICK r \in Requests : Update(r)
    <3>1. \A r \in Requests : Add(r) => accounts'[id] = accounts[id]
      <4> SUFFICES ASSUME NEW r \in Requests, Add(r) PROVE accounts'[id] = accounts[id]
        OBVIOUS
      <4>1. PICK new \in AccountIds \ Existing : \E row : accounts' = [accounts EXCEPT ![new] = row]
        BY DEF Add
      <4> QED
        BY <2>t, <4>1 DEF TypeOK
    <3> QED
      BY <1>1, <2>t, <3>1 DEF Next, Proceed, Register, RegisterFails, SetApproval,
        ResetPasswordByAdmin, ChangePassword, Holds, EmailAlreadyExists, CallFails, Crash, vars
  <2>2. /\ req[r].pc = "update" /\ accounts' = [accounts EXCEPT ![req[r].id] = req[r].copy]
    BY <2>1 DEF Update
  <2>3. id = req[r].id /\ accounts'[id] = req[r].copy /\ r \in Updating(id)
    BY <1>1, <2>t, <2>2 DEF TypeOK, Updating
  <2>4. r \in Behind({"service"}) /\ r \in Behind({"handler", "service"})
    BY <2>t, <2>2 DEF AccessTypeOK, At, Behind
  <2>5. CASE http[r].path \in AdminPaths
    BY <1>1, <2>3, <2>4, <2>5 DEF AccessInv, AdminPages
  <2>6. CASE req[r].id = http[r].id /\ req[r].fields = {"hash", "mustReset"}
    <3>1. accounts[id] \in Account
      BY <2>t DEF TypeOK, Existing
    <3>2. "approved" \in DOMAIN accounts[id] \ req[r].fields
      BY <2>6, <3>1, AccountFields DEF Fields
    <3>3. req[r].copy["approved"] = accounts[id]["approved"]
      BY <1>1, <2>t, <2>3, <3>2 DEF AccessInv, Inv, LastDecisionKept
    <3> QED
      BY <2>3, <2>6, <3>3
  <2> QED
    BY <1>1, <2>4, <2>5, <2>6 DEF AccessInv, OwnPassword
<1>2. AccessInv /\ [AccessNext]_<<vars, web>> =>
        [\A id \in AccountIds \ overlapped : Rightly(id)]_<<vars, web>>
  BY <1>1
<1> QED
  BY <1>2, AccessInvariant, PTL DEF AccessSpec, ChangedByOwnerOrAdmin
=============================================================================
