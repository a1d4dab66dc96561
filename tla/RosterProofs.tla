------------------------------ MODULE RosterProofs ------------------------------
(***************************************************************************)
(* Whom a name stands for never changes, nobody is created for a name that *)
(* is taken, and what a worker books carries the worker's user, for any    *)
(* number of requests, accounts, names and rows.                           *)
(***************************************************************************)
EXTENDS Roster, SequenceTheorems, WellFoundedInduction, TLAPS

-----------------------------------------------------------------------------
(* The first row of a name.                                                *)

\* A set of numbers has a least one.
LEMMA Least ==
  ASSUME NEW S \in SUBSET Nat, S # {}
  PROVE  \E k \in S : \A j \in S : k <= j
<1> DEFINE Less == OpToRel(<, Nat)
<1>1. PICK k \in S : \A j \in S : ~(<<j, k>> \in Less)
  <2>1. IsWellFoundedOn(Less, Nat)
    BY NatLessThanWellFounded
  <2> HIDE DEF Less
  <2> QED
    BY <2>1, WFMin
<1>2. \A j \in S : ~(j < k)
  BY <1>1 DEF OpToRel
<1> QED
  BY <1>2

\* The positions of a name.
LEMMA Positions ==
  ASSUME users \in Seq(User), NEW n
  PROVE  Named(n) \subseteq 1 .. Len(users) /\ DOMAIN users = 1 .. Len(users) /\ Len(users) \in Nat
BY DEF Named

\* FirstNamed is one of them, before all others, and the only one that is.
LEMMA FirstIsFirst ==
  ASSUME users \in Seq(User), NEW n, Named(n) # {}
  PROVE  /\ FirstNamed(n) \in Named(n) /\ \A j \in Named(n) : FirstNamed(n) <= j
         /\ \A k \in Named(n) : (\A j \in Named(n) : k <= j) => k = FirstNamed(n)
<1>1. \E k \in Named(n) : \A j \in Named(n) : k <= j
  BY Positions, Least
<1>2. FirstNamed(n) \in Named(n) /\ \A j \in Named(n) : FirstNamed(n) <= j
  BY <1>1 DEF FirstNamed
<1>3. Named(n) \subseteq Nat
  BY Positions
<1> QED
  BY <1>2, <1>3

\* A name nobody has stands for nobody, any other for a user.
LEMMA UserOfName ==
  ASSUME users \in Seq(User), NEW n
  PROVE  /\ Named(n) = {} => UserNamed(n) = NoUser
         /\ Named(n) # {} => /\ UserNamed(n) = users[FirstNamed(n)].id
                             /\ UserNamed(n) \in UserIds /\ UserNamed(n) # NoUser
                             /\ HasId(UserNamed(n))
<1>1. ASSUME Named(n) # {}
      PROVE  UserNamed(n) = users[FirstNamed(n)].id /\ UserNamed(n) \in UserIds /\ HasId(UserNamed(n))
  <2>1. FirstNamed(n) \in DOMAIN users
    BY <1>1, FirstIsFirst DEF Named
  <2>2. users[FirstNamed(n)] \in User
    BY <2>1
  <2> QED
    BY <1>1, <2>1, <2>2 DEF UserNamed, HasId, User
<1> QED
  BY <1>1, RosterAssumption DEF UserNamed

\* The empty id is nobody's.
LEMMA NobodyHasNoUser ==
  ASSUME users \in Seq(User)
  PROVE  ~HasId(NoUser)
<1>1. \A k \in DOMAIN users : users[k] \in User
  OBVIOUS
<1>2. \A k \in DOMAIN users : users[k].id \in UserIds
  BY <1>1 DEF User
<1> QED
  BY <1>2, RosterAssumption DEF HasId

-----------------------------------------------------------------------------
(* A row more at the end.                                                  *)

\* What it leaves alone: whom the names stand for, and every earlier row.
LEMMA Longer ==
  ASSUME users \in Seq(User), NEW user \in User, users' = Append(users, user)
  PROVE  /\ users' \in Seq(User)
         /\ DOMAIN users' = DOMAIN users \cup {Len(users) + 1} /\ Len(users) + 1 \notin DOMAIN users
         /\ users'[Len(users) + 1] = user
         /\ \A k \in DOMAIN users : users'[k] = users[k]
BY AppendProperties, LenProperties

\* The positions of each name, and the first of them.
LEMMA LongerNames ==
  ASSUME users \in Seq(User), NEW user \in User, users' = Append(users, user), NEW n
  PROVE  /\ Named(n)' = IF user.name = n THEN Named(n) \cup {Len(users) + 1} ELSE Named(n)
         /\ Named(n) # {} => FirstNamed(n)' = FirstNamed(n) /\ UserNamed(n)' = UserNamed(n)
         /\ (Named(n) = {} /\ user.name = n) =>
              FirstNamed(n)' = Len(users) + 1 /\ UserNamed(n)' = user.id
<1> DEFINE new == Len(users) + 1
<1>1. /\ users' \in Seq(User) /\ DOMAIN users' = DOMAIN users \cup {new}
      /\ users'[new] = user /\ \A k \in DOMAIN users : users'[k] = users[k]
      /\ \A k \in DOMAIN users : k < new
      /\ new \in Nat /\ DOMAIN users \subseteq Nat
  BY Longer, LenProperties
<1> HIDE DEF new
<1>2. Named(n)' = IF user.name = n THEN Named(n) \cup {new} ELSE Named(n)
  BY <1>1 DEF Named
<1>3. ASSUME Named(n) # {}
      PROVE  FirstNamed(n)' = FirstNamed(n) /\ UserNamed(n)' = UserNamed(n)
  <2>1. FirstNamed(n) \in Named(n) /\ \A j \in Named(n) : FirstNamed(n) <= j
    BY <1>3, FirstIsFirst
  <2>2. FirstNamed(n) \in DOMAIN users
    BY <2>1 DEF Named
  <2>3. FirstNamed(n) \in Named(n)' /\ \A j \in Named(n)' : FirstNamed(n) <= j
    BY <1>1, <1>2, <2>1, <2>2
  <2>4. Named(n)' \subseteq Nat
    BY <1>1, <1>2 DEF Named
  <2>5. FirstNamed(n)' = FirstNamed(n)
    <3> DEFINE first == FirstNamed(n)
    <3> HIDE DEF first
    <3>1. \A k \in Named(n)' : (\A j \in Named(n)' : k <= j) => k = first
      BY <2>3, <2>4 DEF first
    <3>2. FirstNamed(n)' \in Named(n)' /\ \A j \in Named(n)' : FirstNamed(n)' <= j
      BY <2>3 DEF FirstNamed
    <3> QED
      BY <3>1, <3>2 DEF first
  <2>6. users'[FirstNamed(n)] = users[FirstNamed(n)]
    BY <1>1, <2>2
  <2> QED
    BY <1>3, <2>3, <2>5, <2>6 DEF UserNamed
<1>4. ASSUME Named(n) = {}, user.name = n
      PROVE  FirstNamed(n)' = new /\ UserNamed(n)' = user.id
  <2>1. Named(n)' = {new}
    BY <1>2, <1>4
  <2>2. FirstNamed(n)' = new
    BY <1>1, <2>1 DEF FirstNamed
  <2> QED
    BY <1>1, <2>1, <2>2 DEF UserNamed
<1> QED
  BY <1>2, <1>3, <1>4 DEF new

-----------------------------------------------------------------------------
(* The inductive invariant.                                                *)

\* The only spelling of "warehouse" in the file is the one the service asks for.
OneSpelling == \A k \in DOMAIN users : users[k].role # "Warehouse"

\* A request that is on its way to the service knows the other person, one
\* that has got there acts for the first user of its name, and one that adds a
\* user has a department to put it in.
Acting(r) ==
  /\ (req[r].pc \in {"lookup", "addUser", "service"} /\ req[r].then = "service") => HasId(req[r].to)
  /\ req[r].pc = "service" =>
       /\ req[r].then = "service"
       /\ HasId(req[r].by) /\ ById(req[r].by).role = "warehouse"
       /\ MyName(r) \notin overlapped => req[r].by = UserNamed(MyName(r))
  /\ req[r].pc \in {"addUser", "addEmployee"} => departments # <<>>

\* Short of two creations that met, there is one, and nobody has its name.
OneCreation ==
  \A n \in Names \ overlapped :
    /\ Creating(n) # {} => Named(n) = {}
    /\ \A r, s \in Creating(n) : r = s

Inv == /\ TypeOK /\ OneSpelling /\ (\A r \in Requests : Acting(r)) /\ OneCreation
       /\ BookedByFirstNamed /\ CreatedOnlyIfMissing /\ SettledHasUser

\* What a request holds, by the call that comes next.
LEMMA HeldFields ==
  ASSUME TypeOK, NEW r \in Requests
  PROVE  /\ req[r].pc \in {"idle", "lookup", "addUser", "service", "ensure", "addEmployee"}
         /\ req[r].pc = "idle" <=> req[r] = Idle
         /\ req[r].pc # "idle" => req[r].account \in Accounts /\ MyName(r) \in Names
         /\ req[r].pc \in {"lookup", "addUser", "service"} => req[r] \in PageCall
         /\ req[r].pc \in {"ensure", "addEmployee"} => req[r] \in ApprovalCall
BY RosterAssumption DEF TypeOK, Idle, PageCall, ApprovalCall, MyName

\* The file and the accounts a server starts with.
LEMMA InitInv == Init => Inv
<1> SUFFICES ASSUME Init PROVE Inv
  OBVIOUS
<1>1. users = SeedUsers /\ \A r \in Requests : req[r] = Idle /\ req[r].pc = "idle"
  BY DEF Init, Idle
<1>2. departments \in Seq(Departments)
  <2>1. ASSUME NEW d \in Departments PROVE <<d>> \in Seq(Departments)
    <3>1. <<d>> \in [1 .. 1 -> Departments]
      OBVIOUS
    <3> QED
      BY <3>1, SeqDef
  <2> QED
    BY <2>1, EmptySeq DEF Init
<1>3. TypeOK
  BY <1>1, <1>2, RosterAssumption DEF Init, TypeOK
<1> QED
  BY <1>1, <1>3, RosterAssumption
  DEF Init, Inv, OneSpelling, Acting, OneCreation, Creating,
      BookedByFirstNamed, CreatedOnlyIfMissing, SettledHasUser

\* The rows of ids that are in the file stay what they are.
LEMMA SameById ==
  ASSUME TypeOK, NEW user \in User, ~HasId(user.id), users' = Append(users, user)
  PROVE  /\ \A j, k \in DOMAIN users' : users'[j].id = users'[k].id => j = k
         /\ \A id : HasId(id) => HasId(id)' /\ ById(id)' = ById(id)
         /\ HasId(user.id)' /\ ById(user.id)' = user
<1> DEFINE new == Len(users) + 1
<1>1. /\ users \in Seq(User) /\ DOMAIN users' = DOMAIN users \cup {new} /\ new \notin DOMAIN users
      /\ users'[new] = user /\ \A k \in DOMAIN users : users'[k] = users[k]
  BY Longer DEF TypeOK
<1> HIDE DEF new
<1>2. \A j, k \in DOMAIN users' : users'[j].id = users'[k].id => j = k
  BY <1>1 DEF TypeOK, HasId
<1>3. ASSUME NEW id, NEW k \in DOMAIN users', users'[k].id = id
      PROVE  HasId(id)' /\ ById(id)' = users'[k]
  <2>1. \A j \in DOMAIN users' : users'[j].id = id => j = k
    BY <1>2, <1>3
  <2>2. (CHOOSE j \in DOMAIN users' : users'[j].id = id) = k
    BY <1>3, <2>1
  <2> QED
    BY <1>3, <2>2 DEF HasId, ById
<1>4. ASSUME NEW id, HasId(id) PROVE HasId(id)' /\ ById(id)' = ById(id)
  <2>1. PICK k \in DOMAIN users : users[k].id = id
    BY <1>4 DEF HasId
  <2>2. (CHOOSE j \in DOMAIN users : users[j].id = id) = k
    BY <2>1 DEF TypeOK
  <2>3. ById(id) = users[k]
    BY <2>2 DEF ById
  <2> QED
    BY <1>1, <1>3, <2>1, <2>3
<1>5. HasId(user.id)' /\ ById(user.id)' = user
  BY <1>1, <1>3
<1> QED
  BY <1>2, <1>4, <1>5

-----------------------------------------------------------------------------
(* What steps have in common.                                              *)

\* No step takes a name from its user, or changes a row that has an id.
Extends ==
  /\ \A n : Named(n) # {} => Named(n)' # {} /\ UserNamed(n)' = UserNamed(n)
  /\ \A id : HasId(id) => HasId(id)' /\ ById(id)' = ById(id)
  /\ overlapped \subseteq overlapped' /\ departments' = departments

\* An invariant step, from the parts that depend on the action.
LEMMA StepInv ==
  ASSUME Inv, TypeOK', OneSpelling', OneCreation', CreatedOnlyIfMissing', Extends,
         \A r \in Requests : req'[r] = req[r] \/ Acting(r)',
         \A move \in moves' \ moves : NameOf[move.account] \notin overlapped' =>
           move.by = UserNamed(NameOf[move.account])',
         \A a \in settled' \ settled : Named(NameOf[a])' # {}
  PROVE  Inv'
<1>1. ASSUME NEW r \in Requests, req'[r] = req[r] PROVE Acting(r)'
  <2>1. Acting(r) /\ MyName(r)' = MyName(r)
    BY <1>1 DEF Inv, MyName
  <2>2. ASSUME req[r].pc = "service", MyName(r) \notin overlapped
        PROVE  req[r].by = UserNamed(MyName(r))'
    <3>1. req[r].by = UserNamed(MyName(r)) /\ HasId(req[r].by)
      BY <2>1, <2>2 DEF Acting
    <3>2. req[r].by # NoUser
      BY <3>1, NobodyHasNoUser DEF Inv, TypeOK
    <3>3. Named(MyName(r)) # {}
      BY <3>1, <3>2, UserOfName DEF Inv, TypeOK
    <3> QED
      BY <3>1, <3>3, <2>1 DEF Extends
  <2> QED
    BY <1>1, <2>1, <2>2 DEF Acting, Extends
<1>2. BookedByFirstNamed'
  <2> SUFFICES ASSUME NEW move \in moves', NameOf[move.account] \notin overlapped'
               PROVE  move.by = UserNamed(NameOf[move.account])'
    BY DEF BookedByFirstNamed
  <2>1. CASE move \in moves
    <3>1. move.by = UserNamed(NameOf[move.account]) /\ move.by \in UserIds
      BY <2>1 DEF Inv, TypeOK, BookedByFirstNamed, Extends
    <3>2. Named(NameOf[move.account]) # {}
      BY <3>1, UserOfName, RosterAssumption DEF Inv, TypeOK
    <3> QED
      BY <3>1, <3>2 DEF Extends
  <2> QED
    BY <2>1
<1>3. SettledHasUser'
  BY DEF SettledHasUser, Inv, Extends
<1> QED
  BY <1>1, <1>2, <1>3 DEF Inv

\* A step that leaves users.csv as it is.
LEMMA Quiet ==
  ASSUME Inv, users' = users, departments' = departments, overlapped \subseteq overlapped'
  PROVE  Extends /\ OneSpelling' /\ CreatedOnlyIfMissing'
<1>1. \A n : Named(n)' = Named(n) /\ FirstNamed(n)' = FirstNamed(n)
  BY DEF Named, FirstNamed
<1>2. \A n : UserNamed(n)' = UserNamed(n)
  BY <1>1 DEF UserNamed
<1>3. \A id : HasId(id)' = HasId(id) /\ ById(id)' = ById(id)
  BY DEF HasId, ById
<1> QED
  BY <1>1, <1>2, <1>3 DEF Extends, Inv, OneSpelling, CreatedOnlyIfMissing

\* A step that starts no creation, adds nobody.
LEMMA NoCreation ==
  ASSUME Inv, users' = users, overlapped \subseteq overlapped',
         \A r \in Requests : req'[r].pc \in {"addUser", "addEmployee"} => req'[r] = req[r]
  PROVE  OneCreation'
<1>1. \A n : Creating(n)' \subseteq Creating(n) /\ Named(n)' = Named(n)
  BY DEF Creating, Named
<1> QED
  BY <1>1 DEF Inv, OneCreation

\* A step that starts one says which names met.
LEMMA Creation ==
  ASSUME Inv, users' = users, NEW r \in Requests, Named(MyName(r)) = {}, MyName(r)' = MyName(r),
         \A s \in Requests \ {r} : req'[s] = req[s], Meets(MyName(r))
  PROVE  OneCreation'
<1>1. \A n : Named(n)' = Named(n)
  BY DEF Named
<1>2. \A n : n # MyName(r) => Creating(n)' \subseteq Creating(n)
  BY DEF Creating, MyName
<1>3. Creating(MyName(r))' \subseteq Creating(MyName(r)) \cup {r}
  BY DEF Creating, MyName
<1> QED
  BY <1>1, <1>2, <1>3 DEF Inv, OneCreation, Meets

\* A step that adds a user.
LEMMA Added ==
  ASSUME Inv, NEW user \in User, ~HasId(user.id), user.role # "Warehouse",
         users' = Append(users, user), departments' = departments,
         overlapped \subseteq overlapped', overlapped' \subseteq Names,
         (user.emp # "form" /\ user.name \notin overlapped') => Named(user.name) = {},
         \A n : Creating(n)' \subseteq Creating(n),
         user.name \in overlapped' \/ Creating(user.name)' = {}
  PROVE  /\ Extends /\ OneSpelling' /\ OneCreation' /\ CreatedOnlyIfMissing'
         /\ users' \in Seq(User)
         /\ \A j, k \in DOMAIN users' : users'[j].id = users'[k].id => j = k
         /\ Named(user.name)' # {}
         /\ HasId(user.id)' /\ ById(user.id)' = user
         /\ Named(user.name) = {} => UserNamed(user.name)' = user.id
<1> DEFINE new == Len(users) + 1
<1>1. /\ users' \in Seq(User) /\ DOMAIN users' = DOMAIN users \cup {new}
      /\ users'[new] = user /\ \A k \in DOMAIN users : users'[k] = users[k]
  BY Longer DEF Inv, TypeOK
<1>2. \A n : /\ Named(n)' = IF user.name = n THEN Named(n) \cup {new} ELSE Named(n)
             /\ Named(n) # {} => FirstNamed(n)' = FirstNamed(n) /\ UserNamed(n)' = UserNamed(n)
             /\ (Named(n) = {} /\ user.name = n) => FirstNamed(n)' = new /\ UserNamed(n)' = user.id
  BY LongerNames DEF Inv, TypeOK
<1>3. /\ \A j, k \in DOMAIN users' : users'[j].id = users'[k].id => j = k
      /\ \A id : HasId(id) => HasId(id)' /\ ById(id)' = ById(id)
      /\ HasId(user.id)' /\ ById(user.id)' = user
  BY SameById DEF Inv
<1> HIDE DEF new
<1>4. Extends
  BY <1>2, <1>3 DEF Extends
<1>5. OneSpelling'
  BY <1>1 DEF Inv, OneSpelling
<1>6. OneCreation'
  BY <1>2 DEF Inv, OneCreation
<1>7. CreatedOnlyIfMissing'
  <2>1. ASSUME NEW k \in DOMAIN users', NEW n, n = users'[k].name,
               users'[k].emp # "form", n \notin overlapped'
        PROVE  k = FirstNamed(n)'
    <3>1. CASE k \in DOMAIN users
      <4>1. users'[k] = users[k] /\ users[k].name = n /\ n \notin overlapped
        BY <1>1, <2>1, <3>1
      <4>2. k = FirstNamed(n) /\ Named(n) # {}
        BY <2>1, <3>1, <4>1 DEF Inv, CreatedOnlyIfMissing, Named
      <4> QED
        BY <1>2, <4>2
    <3>2. CASE k = new
      BY <1>1, <1>2, <2>1, <3>2
    <3> QED
      BY <1>1, <2>1, <3>1, <3>2
  <2> QED
    BY <2>1 DEF CreatedOnlyIfMissing, FirstNamed, Named
<1> QED
  BY <1>1, <1>2, <1>3, <1>4, <1>5, <1>6, <1>7

\* The row AddUser makes.
LEMMA WithUserAppends ==
  ASSUME NEW id \in UserIds, NEW emp \in {"form", "auto", "account"}, NEW n \in Names,
         NEW d \in Departments, NEW role \in Spellings, RoleAllowed(role)
  PROVE  \E user \in User : /\ WithUser(id, emp, n, d, role) = Append(users, user)
                            /\ user.id = id /\ user.emp = emp /\ user.name = n
                            /\ user.role = Lowered(role) /\ user.role # "Warehouse"
<1> DEFINE user == [id |-> id, emp |-> emp, name |-> n, dept |-> d, role |-> StoredRole(role)]
<1>1. StoredRole(role) = Lowered(role) /\ Lowered(role) \in Spellings /\ Lowered(role) # "Warehouse"
  BY DEF StoredRole, Lowered, Spellings, RoleAllowed
<1>2. user \in User
  BY <1>1 DEF User
<1>3. WithUser(id, emp, n, d, role) = Append(users, user)
  BY DEF WithUser
<1> QED
  BY <1>1, <1>2, <1>3

\* What a request holds after currentWarehouseActor.
LEMMA ResolvedCall ==
  ASSUME TypeOK, NEW r \in Requests, req[r].pc \in {"lookup", "addUser"},
         NEW by \in UserIds \cup {NoUser}, Resolved(r, by)
  PROVE  /\ req' \in [Requests -> {Idle} \cup PageCall \cup ApprovalCall]
         /\ \A s \in Requests \ {r} : req'[s] = req[s]
         /\ req'[r].pc \in {"idle", "lookup", "service"}
         /\ req'[r].pc = "lookup" => req'[r].then = "end"
         /\ req'[r].pc = "service" =>
              /\ req[r].then = "service" /\ req'[r].then = "service"
              /\ by # NoUser /\ req'[r].by = by
              /\ req'[r].to = req[r].to /\ req'[r].account = req[r].account
<1>1. req[r] \in PageCall
  BY HeldFields
<1> DEFINE call == [req[r] EXCEPT !.pc = "lookup"]
           next == CASE call.then = "end" -> Idle
                     [] call.then = "service" /\ by # NoUser ->
                          [call EXCEPT !.pc = "service", !.by = by]
                     [] OTHER -> [call EXCEPT !.then = "end"]
<1>2. call \in PageCall /\ call.then = req[r].then /\ call.to = req[r].to
      /\ call.account = req[r].account /\ call.pc = "lookup"
  BY <1>1 DEF PageCall
<1>3. req' = [req EXCEPT ![r] = next]
  BY DEF Resolved
<1>4. req \in [Requests -> {Idle} \cup PageCall \cup ApprovalCall]
  BY DEF TypeOK
<1> HIDE DEF call
<1>5. CASE call.then = "end"
  <2>1. next = Idle
    BY <1>5
  <2> QED
    BY <1>3, <1>4, <2>1 DEF Idle
<1>6. CASE call.then = "service" /\ by # NoUser
  <2> DEFINE served == [call EXCEPT !.pc = "service", !.by = by]
  <2>1. next = served
    BY <1>6
  <2>2. served \in PageCall /\ served.pc = "service" /\ served.by = by /\ served.then = "service"
        /\ served.to = req[r].to /\ served.account = req[r].account
    BY <1>2, <1>6 DEF PageCall
  <2> HIDE DEF served, next
  <2>3. req'[r] = served
    BY <1>3, <1>4, <2>1
  <2> QED
    BY <1>2, <1>3, <1>4, <1>6, <2>1, <2>2, <2>3
<1>7. CASE call.then # "end" /\ ~(call.then = "service" /\ by # NoUser)
  <2> DEFINE shown == [call EXCEPT !.then = "end"]
  <2>1. next = shown
    BY <1>7
  <2>2. shown \in PageCall /\ shown.pc = "lookup" /\ shown.then = "end"
    BY <1>2 DEF PageCall
  <2> HIDE DEF shown, next
  <2>3. req'[r] = shown
    BY <1>3, <1>4, <2>1
  <2> QED
    BY <1>3, <1>4, <2>1, <2>2, <2>3
<1> QED
  BY <1>5, <1>6, <1>7

\* ... and that it acts for the user it was given.
LEMMA ResolvedActs ==
  ASSUME Inv, Extends, NEW r \in Requests, req[r].pc \in {"lookup", "addUser"},
         NEW by \in UserIds \cup {NoUser}, Resolved(r, by), NEW n, n = MyName(r),
         by # NoUser => HasId(by)' /\ ById(by)'.role = "warehouse",
         (by # NoUser /\ n \notin overlapped') => by = UserNamed(n)'
  PROVE  \A s \in Requests : req'[s] = req[s] \/ Acting(s)'
<1>1. /\ \A s \in Requests \ {r} : req'[s] = req[s]
      /\ req'[r].pc \in {"idle", "lookup", "service"}
      /\ req'[r].pc = "lookup" => req'[r].then = "end"
      /\ req'[r].pc = "service" =>
           /\ req[r].then = "service" /\ req'[r].then = "service"
           /\ by # NoUser /\ req'[r].by = by
           /\ req'[r].to = req[r].to /\ req'[r].account = req[r].account
  BY ResolvedCall DEF Inv
<1>2. req[r].then = "service" => HasId(req[r].to)
  BY DEF Inv, Acting
<1>3. ASSUME req'[r].pc = "service" PROVE Acting(r)'
  <2>1. HasId(req[r].to)'
    BY <1>1, <1>2, <1>3 DEF Extends
  <2>2. MyName(r)' = n
    BY <1>1, <1>3 DEF MyName
  <2> QED
    BY <1>1, <1>3, <2>1, <2>2 DEF Acting
<1>4. ASSUME req'[r].pc # "service" PROVE Acting(r)'
  BY <1>1, <1>4 DEF Acting
<1> QED
  BY <1>1, <1>3, <1>4

-----------------------------------------------------------------------------
(* The actions that add a user.                                            *)

LEMMA AddByFormInv ==
  ASSUME Inv, NEW n \in Names, NEW d \in Departments, NEW role \in Spellings, AddByForm(n, d, role)
  PROVE  Inv'
<1>1. PICK id \in UserIds : ~HasId(id) /\ users' = WithUser(id, "form", n, d, role)
  BY DEF AddByForm
<1>2. PICK user \in User : /\ users' = Append(users, user) /\ user.id = id /\ user.emp = "form"
                           /\ user.name = n /\ user.role # "Warehouse"
  BY <1>1, WithUserAppends DEF AddByForm
<1>3. /\ req' = req /\ departments' = departments /\ moves' = moves /\ settled' = settled
      /\ approved' = approved /\ calls' = calls + 1 /\ faults' = faults
      /\ overlapped' = IF Creating(n) = {} THEN overlapped ELSE overlapped \cup {n}
  BY DEF AddByForm
<1>4. \A m : Creating(m)' = Creating(m)
  BY <1>3 DEF Creating
<1>5. overlapped \subseteq overlapped' /\ overlapped' \subseteq Names
      /\ (n \in overlapped' \/ Creating(n)' = {})
  BY <1>3, <1>4 DEF Inv, TypeOK
<1>6. /\ Extends /\ OneSpelling' /\ OneCreation' /\ CreatedOnlyIfMissing'
      /\ users' \in Seq(User)
      /\ \A j, k \in DOMAIN users' : users'[j].id = users'[k].id => j = k
  BY <1>1, <1>2, <1>3, <1>4, <1>5, Added
<1>7. TypeOK'
  BY <1>3, <1>5, <1>6 DEF Inv, TypeOK
<1> QED
  BY <1>3, <1>6, <1>7, StepInv

\* The first department, for a request that has found one.
LEMMA FirstDepartment ==
  ASSUME TypeOK, departments # <<>>
  PROVE  departments[1] \in Departments
BY EmptySeq, LenProperties DEF TypeOK

LEMMA AddUserInv ==
  ASSUME Inv, NEW r \in Requests, AddUser(r)
  PROVE  Inv'
<1>0. PICK n \in Names : n = MyName(r)
  BY HeldFields DEF Inv, AddUser
<1>1. PICK id \in UserIds :
        /\ ~HasId(id) /\ users' = WithUser(id, "auto", n, departments[1], "warehouse")
        /\ Resolved(r, id)
  BY <1>0 DEF AddUser
<1>2. /\ req[r].pc = "addUser" /\ departments' = departments /\ approved' = approved
      /\ moves' = moves /\ settled' = settled /\ overlapped' = overlapped /\ calls' = calls /\ faults' = faults
  BY DEF AddUser
<1>3. n \in Names /\ req[r].account \in Accounts /\ departments[1] \in Departments /\ id # NoUser
  BY <1>2, HeldFields, FirstDepartment, RosterAssumption DEF Inv, Acting
<1>4. PICK user \in User : /\ users' = Append(users, user) /\ user.id = id
                           /\ user.name = n /\ user.role = "warehouse"
  <2>1. RoleAllowed("warehouse") /\ "warehouse" \in Spellings /\ Lowered("warehouse") = "warehouse"
    BY DEF RoleAllowed, Spellings, Lowered
  <2> QED
    BY <1>1, <1>3, <2>1, WithUserAppends
<1>5. /\ req' \in [Requests -> {Idle} \cup PageCall \cup ApprovalCall]
      /\ \A s \in Requests \ {r} : req'[s] = req[s]
      /\ req'[r].pc \in {"idle", "lookup", "service"}
  BY <1>1, <1>2, ResolvedCall DEF Inv
<1>6. \A m : Creating(m)' \subseteq Creating(m) \ {r}
  BY <1>5 DEF Creating
<1>7. r \in Creating(n)
  BY <1>0, <1>2 DEF Creating, MyName
<1>8. n \notin overlapped => Named(n) = {} /\ Creating(n)' = {}
  BY <1>3, <1>6, <1>7 DEF Inv, OneCreation
<1>9. overlapped \subseteq overlapped' /\ overlapped' \subseteq Names
  BY <1>2 DEF Inv, TypeOK
<1>10. user.role # "Warehouse" /\ (user.name \notin overlapped' => Named(user.name) = {})
       /\ (user.name \in overlapped' \/ Creating(user.name)' = {})
  BY <1>2, <1>4, <1>8
<1>11. /\ Extends /\ OneSpelling' /\ OneCreation' /\ CreatedOnlyIfMissing'
       /\ users' \in Seq(User)
       /\ \A j, k \in DOMAIN users' : users'[j].id = users'[k].id => j = k
       /\ Named(user.name)' # {}
       /\ HasId(user.id)' /\ ById(user.id)' = user
       /\ Named(user.name) = {} => UserNamed(user.name)' = user.id
  BY <1>1, <1>2, <1>4, <1>6, <1>9, <1>10, Added
<1>12. TypeOK'
  BY <1>2, <1>3, <1>5, <1>11 DEF Inv, TypeOK
<1>13. \A s \in Requests : req'[s] = req[s] \/ Acting(s)'
  <2>1. HasId(id)' /\ ById(id)'.role = "warehouse"
    BY <1>4, <1>11
  <2>2. n \notin overlapped' => id = UserNamed(n)'
    BY <1>4, <1>10, <1>11
  <2> QED
    BY <1>1, <1>2, <1>0, <1>11, <2>1, <2>2, ResolvedActs DEF Inv, TypeOK
<1> QED
  BY <1>2, <1>11, <1>12, <1>13, StepInv

LEMMA AddEmployeeInv ==
  ASSUME Inv, NEW r \in Requests, AddEmployee(r)
  PROVE  Inv'
<1>0. PICK n \in Names : n = MyName(r)
  BY HeldFields DEF Inv, AddEmployee
<1>1. PICK id \in UserIds :
        ~HasId(id) /\ users' = WithUser(id, "account", n, departments[1], "warehouse")
  BY <1>0 DEF AddEmployee
<1>2. /\ req[r].pc = "addEmployee" /\ departments' = departments /\ approved' = approved
      /\ moves' = moves /\ overlapped' = overlapped /\ calls' = calls /\ faults' = faults
      /\ req' = [req EXCEPT ![r] = Idle] /\ settled' = settled \cup {req[r].account}
  BY DEF AddEmployee
<1>3. n \in Names /\ req[r].account \in Accounts /\ departments[1] \in Departments
  BY <1>2, HeldFields, FirstDepartment DEF Inv, Acting
<1>4. PICK user \in User : /\ users' = Append(users, user) /\ user.id = id
                           /\ user.name = n /\ user.role # "Warehouse"
  <2>1. RoleAllowed("warehouse") /\ "warehouse" \in Spellings
    BY DEF RoleAllowed, Spellings, Lowered
  <2> QED
    BY <1>1, <1>3, <2>1, WithUserAppends
<1>5. /\ req' \in [Requests -> {Idle} \cup PageCall \cup ApprovalCall]
      /\ \A s \in Requests \ {r} : req'[s] = req[s]
      /\ req'[r] = Idle
  BY <1>2 DEF Inv, TypeOK
<1>6. \A m : Creating(m)' \subseteq Creating(m) \ {r}
  BY <1>5 DEF Creating, Idle
<1>7. r \in Creating(n)
  BY <1>0, <1>2 DEF Creating, MyName
<1>8. n \notin overlapped => Named(n) = {} /\ Creating(n)' = {}
  BY <1>3, <1>6, <1>7 DEF Inv, OneCreation
<1>9. overlapped \subseteq overlapped' /\ overlapped' \subseteq Names
  BY <1>2 DEF Inv, TypeOK
<1>10. (user.name \notin overlapped' => Named(user.name) = {})
       /\ (user.name \in overlapped' \/ Creating(user.name)' = {})
  BY <1>2, <1>4, <1>8
<1>11. /\ Extends /\ OneSpelling' /\ OneCreation' /\ CreatedOnlyIfMissing'
       /\ users' \in Seq(User)
       /\ \A j, k \in DOMAIN users' : users'[j].id = users'[k].id => j = k
       /\ Named(user.name)' # {}
  BY <1>1, <1>2, <1>4, <1>6, <1>9, <1>10, Added
<1>12. TypeOK'
  BY <1>2, <1>3, <1>5, <1>11 DEF Inv, TypeOK
<1>13. \A s \in Requests : req'[s] = req[s] \/ Acting(s)'
  BY <1>5 DEF Acting, Idle
<1>14. \A a \in settled' \ settled : Named(NameOf[a])' # {}
  BY <1>0, <1>2, <1>4, <1>11 DEF MyName
<1> QED
  BY <1>2, <1>11, <1>12, <1>13, <1>14, StepInv

-----------------------------------------------------------------------------
(* The actions that leave users.csv as it is.                              *)

\* Those that start no creation, from what the requests hold afterwards.
LEMMA QuietInv ==
  ASSUME Inv, users' = users, departments' = departments, overlapped' = overlapped,
         req' \in [Requests -> {Idle} \cup PageCall \cup ApprovalCall],
         \A r \in Requests : req'[r] = req[r] \/
           (Acting(r)' /\ req'[r].pc \notin {"addUser", "addEmployee"}),
         moves' \subseteq [account : Accounts, by : UserIds],
         \A move \in moves' \ moves : NameOf[move.account] \notin overlapped =>
           move.by = UserNamed(NameOf[move.account]),
         settled' \subseteq Accounts,
         \A a \in settled' \ settled : Named(NameOf[a]) # {},
         approved' \in [Accounts -> BOOLEAN], calls' \in Nat, faults' \in Nat
  PROVE  Inv'
<1>1. Extends /\ OneSpelling' /\ CreatedOnlyIfMissing'
  BY Quiet
<1>2. OneCreation'
  BY NoCreation
<1>3. TypeOK'
  BY DEF Inv, TypeOK
<1>4. \A move \in moves' \ moves : NameOf[move.account] \notin overlapped' =>
        move.by = UserNamed(NameOf[move.account])'
  <2>1. \A n : UserNamed(n)' = UserNamed(n)
    BY ONLY users' = users DEF UserNamed, FirstNamed, Named
  <2> QED
    BY <2>1
<1>5. \A a \in settled' \ settled : Named(NameOf[a])' # {}
  BY DEF Named
<1> QED
  BY <1>1, <1>2, <1>3, <1>4, <1>5, StepInv

\* A request may go back to idle at any time.
LEMMA IdleActs ==
  ASSUME NEW r \in Requests, req'[r] = Idle
  PROVE  Acting(r)' /\ req'[r].pc \notin {"addUser", "addEmployee"}
BY DEF Acting, Idle

LEMMA OpenPageInv ==
  ASSUME Inv, NEW r \in Requests, NEW a \in Accounts, OpenPage(r, a)
  PROVE  Inv'
<1> DEFINE call == [pc |-> "lookup", account |-> a, job |-> "page",
                    to |-> NoUser, by |-> NoUser, then |-> "page"]
<1>1. call \in PageCall /\ call.pc = "lookup" /\ call.then = "page"
  BY DEF PageCall
<1>2. req' = [req EXCEPT ![r] = call] /\ calls' = calls + 1
      /\ UNCHANGED <<users, departments, approved, moves, settled, overlapped, faults>>
  BY DEF OpenPage, Enter
<1> HIDE DEF call
<1>3. req'[r] = call /\ (\A s \in Requests \ {r} : req'[s] = req[s])
      /\ req' \in [Requests -> {Idle} \cup PageCall \cup ApprovalCall]
  BY <1>1, <1>2 DEF Inv, TypeOK
<1>4. Acting(r)' /\ req'[r].pc \notin {"addUser", "addEmployee"}
  BY <1>1, <1>3 DEF Acting
<1> QED
  BY <1>2, <1>3, <1>4, QuietInv DEF Inv, TypeOK

LEMMA PostInv ==
  ASSUME Inv, NEW r \in Requests, NEW a \in Accounts, NEW job \in {"issue", "return"},
         NEW n \in Names, Post(r, a, job, n)
  PROVE  Inv'
<1>1. PICK to \in UserIds \cup {NoUser} : to = UserNamed(n)
  BY UserOfName DEF Inv, TypeOK
<1> DEFINE call == [pc |-> "lookup", account |-> a, job |-> job, to |-> to, by |-> NoUser,
                    then |-> IF to = NoUser THEN "end" ELSE "service"]
<1>2. call \in PageCall /\ call.pc = "lookup" /\ (call.then = "service" => HasId(call.to))
  BY <1>1, UserOfName DEF PageCall, Inv, TypeOK
<1>3. req' = [req EXCEPT ![r] = call] /\ calls' = calls + 1
      /\ UNCHANGED <<users, departments, approved, moves, settled, overlapped, faults>>
  BY <1>1 DEF Post, Enter
<1> HIDE DEF call
<1>4. req'[r] = call /\ (\A s \in Requests \ {r} : req'[s] = req[s])
      /\ req' \in [Requests -> {Idle} \cup PageCall \cup ApprovalCall]
  BY <1>2, <1>3 DEF Inv, TypeOK
<1>5. Acting(r)' /\ req'[r].pc \notin {"addUser", "addEmployee"}
  BY <1>2, <1>3, <1>4 DEF Acting, HasId
<1> QED
  BY <1>3, <1>4, <1>5, QuietInv DEF Inv, TypeOK

LEMMA AdminSetApprovalInv ==
  ASSUME Inv, NEW r \in Requests, NEW a \in Accounts, NEW on \in BOOLEAN, AdminSetApproval(r, a, on)
  PROVE  Inv'
<1> DEFINE call == [pc |-> "ensure", account |-> a]
<1>1. call \in ApprovalCall /\ call.pc = "ensure"
  BY DEF ApprovalCall
<1>2. approved' = [approved EXCEPT ![a] = on] /\ calls' = calls + 1
      /\ req' = (IF on THEN [req EXCEPT ![r] = call] ELSE req)
      /\ UNCHANGED <<users, departments, moves, settled, overlapped, faults>>
  BY DEF AdminSetApproval, Enter
<1> HIDE DEF call
<1>3. (req'[r] = call \/ req'[r] = req[r]) /\ (\A s \in Requests \ {r} : req'[s] = req[s])
      /\ req' \in [Requests -> {Idle} \cup PageCall \cup ApprovalCall]
  BY <1>1, <1>2 DEF Inv, TypeOK
<1>4. req'[r] = req[r] \/ (Acting(r)' /\ req'[r].pc \notin {"addUser", "addEmployee"})
  BY <1>1, <1>3 DEF Acting
<1> QED
  BY <1>2, <1>3, <1>4, QuietInv DEF Inv, TypeOK

\* currentWarehouseActor was given a user or an error.
LEMMA ResolvedInv ==
  ASSUME Inv, NEW r \in Requests, req[r].pc \in {"lookup", "addUser"},
         NEW by \in UserIds \cup {NoUser}, Resolved(r, by),
         by # NoUser => HasId(by) /\ ById(by).role = "warehouse" /\ by = UserNamed(MyName(r)),
         UNCHANGED <<users, departments, approved, moves, settled, overlapped, calls>>,
         faults' \in Nat
  PROVE  Inv'
<1>1. PICK n : n = MyName(r)
  OBVIOUS
<1>2. Extends
  BY Quiet
<1>3. by # NoUser => HasId(by)' /\ ById(by)'.role = "warehouse" /\ by = UserNamed(n)'
  BY <1>1 DEF HasId, ById, UserNamed, FirstNamed, Named
<1>4. \A s \in Requests : req'[s] = req[s] \/ Acting(s)'
  BY <1>1, <1>2, <1>3, ResolvedActs
<1>5. /\ req' \in [Requests -> {Idle} \cup PageCall \cup ApprovalCall]
      /\ \A s \in Requests \ {r} : req'[s] = req[s]
      /\ req'[r].pc \in {"idle", "lookup", "service"}
  BY ResolvedCall DEF Inv
<1>6. \A s \in Requests : req'[s] = req[s] \/
        (Acting(s)' /\ req'[s].pc \notin {"addUser", "addEmployee"})
  BY <1>4, <1>5
<1> QED
  BY <1>5, <1>6, QuietInv DEF Inv, TypeOK

LEMMA FindActorInv ==
  ASSUME Inv, NEW r \in Requests, FindActor(r)
  PROVE  Inv'
<1> DEFINE k == FirstNamed(MyName(r))
           by == IF IsWarehouseUser(users[k]) THEN users[k].id ELSE NoUser
<1>1. /\ req[r].pc = "lookup" /\ Named(MyName(r)) # {}
      /\ Resolved(r, by)
      /\ UNCHANGED <<users, departments, approved, moves, settled, overlapped, calls, faults>>
  BY DEF FindActor, NotListed
<1>2. k \in DOMAIN users /\ users[k] \in User /\ UserNamed(MyName(r)) = users[k].id
      /\ users[k].id \in UserIds /\ HasId(users[k].id)
  <2>1. k \in Named(MyName(r)) /\ UserNamed(MyName(r)) = users[k].id /\ HasId(users[k].id)
        /\ users[k].id \in UserIds
    BY <1>1, FirstIsFirst, UserOfName DEF Inv, TypeOK
  <2>2. k \in DOMAIN users
    BY <2>1 DEF Named
  <2> QED
    BY <2>1, <2>2 DEF Inv, TypeOK
<1>3. ById(users[k].id) = users[k]
  <2>1. (CHOOSE j \in DOMAIN users : users[j].id = users[k].id) = k
    BY <1>2 DEF Inv, TypeOK
  <2> QED
    BY <2>1 DEF ById
<1>4. IsWarehouseUser(users[k]) => users[k].role = "warehouse"
  BY <1>2 DEF IsWarehouseUser, Lowered, Inv, OneSpelling
<1>5. by \in UserIds \cup {NoUser}
      /\ (by # NoUser => HasId(by) /\ ById(by).role = "warehouse" /\ by = UserNamed(MyName(r)))
  BY <1>2, <1>3, <1>4
<1> HIDE DEF by, k
<1> QED
  BY <1>1, <1>5, ResolvedInv DEF Inv, TypeOK

LEMMA NoDepartmentInv ==
  ASSUME Inv, NEW r \in Requests, NoDepartment(r)
  PROVE  Inv'
BY ResolvedInv DEF NoDepartment, Inv, TypeOK

\* A creation begins, of an account's user or of its employee.
LEMMA CreationInv ==
  ASSUME Inv, NEW r \in Requests, NEW pc \in {"addUser", "addEmployee"},
         req[r].pc = (IF pc = "addUser" THEN "lookup" ELSE "ensure"),
         NotListed(r), departments # <<>>, req' = [req EXCEPT ![r].pc = pc], Meets(MyName(r)),
         UNCHANGED <<users, departments, approved, moves, settled, calls, faults>>
  PROVE  Inv'
<1>1. /\ req[r] \in (IF pc = "addUser" THEN PageCall ELSE ApprovalCall)
      /\ MyName(r) \in Names
  BY HeldFields DEF Inv
<1>2. [req[r] EXCEPT !.pc = pc] \in {Idle} \cup PageCall \cup ApprovalCall
  BY <1>1 DEF PageCall, ApprovalCall
<1>3. /\ req'[r] = [req[r] EXCEPT !.pc = pc] /\ \A s \in Requests \ {r} : req'[s] = req[s]
      /\ req' \in [Requests -> {Idle} \cup PageCall \cup ApprovalCall]
  BY <1>2 DEF Inv, TypeOK
<1>4. req'[r].pc = pc /\ req'[r].account = req[r].account
      /\ (pc = "addUser" => req'[r].then = req[r].then /\ req'[r].to = req[r].to)
  BY <1>1, <1>3 DEF PageCall, ApprovalCall
<1>5. overlapped \subseteq overlapped' /\ overlapped' \subseteq Names
  BY <1>1 DEF Meets, Inv, TypeOK
<1>6. Extends /\ OneSpelling' /\ CreatedOnlyIfMissing'
  BY <1>5, Quiet
<1>7. OneCreation'
  BY <1>3, <1>4, <1>5, Creation DEF NotListed, MyName
<1>8. TypeOK'
  BY <1>3, <1>5 DEF Inv, TypeOK
<1>9. Acting(r)'
  BY <1>4 DEF Inv, Acting, HasId
<1> QED
  BY <1>3, <1>6, <1>7, <1>8, <1>9, StepInv

LEMMA RecordInv ==
  ASSUME Inv, NEW r \in Requests, Record(r)
  PROVE  Inv'
<1> DEFINE move == [account |-> req[r].account, by |-> req[r].by]
<1>1. req[r].pc = "service" /\ moves' = moves \cup {move}
      /\ req' = [req EXCEPT ![r].pc = "lookup", ![r].then = "end"]
      /\ UNCHANGED <<users, departments, approved, settled, overlapped, calls, faults>>
  BY DEF Record
<1>2. req[r] \in PageCall
  BY <1>1, HeldFields DEF Inv
<1>3. HasId(req[r].by) /\ (MyName(r) \notin overlapped => req[r].by = UserNamed(MyName(r)))
  BY <1>1 DEF Inv, Acting
<1>4. req[r].by \in UserIds
  BY <1>2, <1>3, NobodyHasNoUser DEF PageCall, Inv, TypeOK
<1>5. move \in [account : Accounts, by : UserIds]
  BY <1>2, <1>4 DEF PageCall
<1>6. [req[r] EXCEPT !.pc = "lookup", !.then = "end"] \in PageCall
  BY <1>2 DEF PageCall
<1>7. /\ req'[r] = [req[r] EXCEPT !.pc = "lookup", !.then = "end"]
      /\ \A s \in Requests \ {r} : req'[s] = req[s]
      /\ req' \in [Requests -> {Idle} \cup PageCall \cup ApprovalCall]
  BY <1>1, <1>6 DEF Inv, TypeOK
<1>8. req'[r].pc = "lookup" /\ req'[r].then = "end"
  BY <1>2, <1>7 DEF PageCall
<1>9. Acting(r)' /\ req'[r].pc \notin {"addUser", "addEmployee"}
  BY <1>8 DEF Acting
<1>10. NameOf[move.account] \notin overlapped => move.by = UserNamed(NameOf[move.account])
  BY <1>3 DEF MyName
<1> HIDE DEF move
<1> QED
  BY <1>1, <1>5, <1>7, <1>9, <1>10, QuietInv DEF Inv, TypeOK

LEMMA RefuseInv ==
  ASSUME Inv, NEW r \in Requests, Refuse(r)
  PROVE  Inv'
<1>1. req[r].pc = "service"
      /\ req' = [req EXCEPT ![r].pc = "lookup", ![r].then = "end"]
      /\ UNCHANGED <<users, departments, approved, moves, settled, overlapped, calls, faults>>
  BY DEF Refuse
<1>2. req[r] \in PageCall
  BY <1>1, HeldFields DEF Inv
<1>3. [req[r] EXCEPT !.pc = "lookup", !.then = "end"] \in PageCall
  BY <1>2 DEF PageCall
<1>4. /\ req'[r] = [req[r] EXCEPT !.pc = "lookup", !.then = "end"]
      /\ \A s \in Requests \ {r} : req'[s] = req[s]
      /\ req' \in [Requests -> {Idle} \cup PageCall \cup ApprovalCall]
  BY <1>1, <1>3 DEF Inv, TypeOK
<1>5. req'[r].pc = "lookup" /\ req'[r].then = "end"
  BY <1>2, <1>4 DEF PageCall
<1>6. Acting(r)' /\ req'[r].pc \notin {"addUser", "addEmployee"}
  BY <1>5 DEF Acting
<1> QED
  BY <1>1, <1>4, <1>6, QuietInv DEF Inv, TypeOK

\* The request ends, and nothing else moves but what was settled.
LEMMA EndInv ==
  ASSUME Inv, NEW r \in Requests, req[r].pc # "idle", req' = [req EXCEPT ![r] = Idle],
         UNCHANGED <<users, departments, approved, moves, overlapped, calls>>,
         settled' \subseteq settled \cup {req[r].account},
         settled' # settled => Named(MyName(r)) # {}, faults' \in Nat
  PROVE  Inv'
<1>1. /\ req'[r] = Idle /\ \A s \in Requests \ {r} : req'[s] = req[s]
      /\ req' \in [Requests -> {Idle} \cup PageCall \cup ApprovalCall]
  BY DEF Inv, TypeOK
<1>2. Acting(r)' /\ req'[r].pc \notin {"addUser", "addEmployee"}
  BY <1>1, IdleActs
<1>3. settled' \subseteq Accounts /\ \A a \in settled' \ settled : Named(NameOf[a]) # {}
  BY HeldFields DEF Inv, TypeOK, MyName
<1> QED
  BY <1>1, <1>2, <1>3, QuietInv DEF Inv, TypeOK

LEMMA CallFailsInv ==
  ASSUME Inv, NEW r \in Requests, CallFails(r)
  PROVE  Inv'
<1>1. UNCHANGED <<users, departments, approved, moves, settled, overlapped, calls>>
      /\ faults' \in Nat
  BY DEF CallFails, Inv, TypeOK
<1>2. CASE req[r].pc \in {"lookup", "addUser"} /\ Resolved(r, NoUser)
  BY <1>1, <1>2, ResolvedInv
<1>3. CASE req[r].pc \in {"ensure", "addEmployee"} /\ req' = [req EXCEPT ![r] = Idle]
  BY <1>1, <1>3, EndInv
<1> QED
  BY <1>2, <1>3 DEF CallFails

LEMMA CrashInv ==
  ASSUME Inv, Crash
  PROVE  Inv'
<1>1. req' = [r \in Requests |-> Idle] /\ faults' = faults + 1
      /\ UNCHANGED <<users, departments, approved, moves, settled, overlapped, calls>>
  BY DEF Crash
<1>2. \A r \in Requests : Acting(r)' /\ req'[r].pc \notin {"addUser", "addEmployee"}
  BY <1>1, IdleActs
<1> QED
  BY <1>1, <1>2, QuietInv DEF Inv, TypeOK

-----------------------------------------------------------------------------
(* The theorems.                                                           *)

\* Every action, and a stutter.
LEMMA NextInv == Inv /\ [Next]_vars => Inv'
<1> SUFFICES ASSUME Inv, [Next]_vars PROVE Inv'
  OBVIOUS
<1>1. ASSUME NEW r \in Requests, Proceed(r) PROVE Inv'
  <2>1. CASE FindActor(r)
    BY <2>1, FindActorInv
  <2>2. CASE NoDepartment(r)
    BY <2>2, NoDepartmentInv
  <2>3. CASE MissActor(r)
    BY <2>3, CreationInv DEF MissActor
  <2>4. CASE AddUser(r)
    BY <2>4, AddUserInv
  <2>5. CASE Record(r)
    BY <2>5, RecordInv
  <2>6. CASE Refuse(r)
    BY <2>6, RefuseInv
  <2>7. CASE EmployeeExists(r)
    BY <2>7, EndInv DEF EmployeeExists, NotListed, Inv, TypeOK
  <2>8. CASE ApprovedWithoutEmployee(r)
    BY <2>8, EndInv DEF ApprovedWithoutEmployee, Inv, TypeOK
  <2>9. CASE EmployeeMissing(r)
    BY <2>9, CreationInv DEF EmployeeMissing
  <2>10. CASE AddEmployee(r)
    BY <2>10, AddEmployeeInv
  <2> QED
    BY <1>1, <2>1, <2>2, <2>3, <2>4, <2>5, <2>6, <2>7, <2>8, <2>9, <2>10 DEF Proceed
<1>2. CASE UNCHANGED vars
  BY <1>2, QuietInv DEF vars, Inv, TypeOK
<1> QED
  BY <1>1, <1>2, AddByFormInv, OpenPageInv, PostInv, AdminSetApprovalInv, CallFailsInv, CrashInv
  DEF Next

\* The inductive invariant holds in every reachable state.
THEOREM RosterInvariant == Spec => []Inv
BY InitInv, NextInv, PTL DEF Spec

\* Every variable keeps its type, and no two rows share an id.
THEOREM RosterTypes == Spec => []TypeOK
<1>1. Inv => TypeOK
  BY DEF Inv
<1> QED
  BY <1>1, RosterInvariant, PTL

\* IssueItem and ReturnItem never refuse the users the handlers hand them.
THEOREM ActorsAccepted == Spec => []ActorAccepted
<1>1. Inv => ActorAccepted
  BY DEF Inv, Acting, ActorAccepted, ServiceAccepts
<1> QED
  BY <1>1, RosterInvariant, PTL

\* All that a worker books carries the first user of the worker's name,
\* unless two creations of that name met.
THEOREM OneUserPerWorker == Spec => []BookedByFirstNamed
<1>1. Inv => BookedByFirstNamed
  BY DEF Inv
<1> QED
  BY <1>1, RosterInvariant, PTL

\* Nobody is created for a name that is taken, unless two creations met.
THEOREM NoNeedlessUser == Spec => []CreatedOnlyIfMissing
<1>1. Inv => CreatedOnlyIfMissing
  BY DEF Inv
<1> QED
  BY <1>1, RosterInvariant, PTL

\* An approval that was answered without an error leaves the account a user
\* for good.
THEOREM SettledForGood == Spec => []SettledHasUser
<1>1. Inv => SettledHasUser
  BY DEF Inv
<1> QED
  BY <1>1, RosterInvariant, PTL

\* A step adds one row at the end, or none.
LEMMA NextAppends ==
  ASSUME Inv, [Next]_vars
  PROVE  users' = users \/ \E user \in User : users' = Append(users, user)
<1>1. ASSUME NEW n \in Names, NEW d \in Departments, NEW role \in Spellings, AddByForm(n, d, role)
      PROVE  \E user \in User : users' = Append(users, user)
  BY <1>1, WithUserAppends DEF AddByForm
<1>2. RoleAllowed("warehouse") /\ "warehouse" \in Spellings
  BY DEF RoleAllowed, Spellings, Lowered
<1>3. ASSUME NEW r \in Requests, AddUser(r)
      PROVE  \E user \in User : users' = Append(users, user)
  <2>1. MyName(r) \in Names /\ departments[1] \in Departments
    BY <1>3, HeldFields, FirstDepartment DEF AddUser, Inv, Acting
  <2> QED
    BY <1>2, <1>3, <2>1, WithUserAppends DEF AddUser
<1>4. ASSUME NEW r \in Requests, AddEmployee(r)
      PROVE  \E user \in User : users' = Append(users, user)
  <2>1. MyName(r) \in Names /\ departments[1] \in Departments
    BY <1>4, HeldFields, FirstDepartment DEF AddEmployee, Inv, Acting
  <2> QED
    BY <1>2, <1>4, <2>1, WithUserAppends DEF AddEmployee
<1>5. ASSUME NEW r \in Requests, Proceed(r), ~AddUser(r), ~AddEmployee(r) PROVE users' = users
  BY <1>5
  DEF Proceed, FindActor, NoDepartment, MissActor, Record, Refuse, EmployeeExists,
      ApprovedWithoutEmployee, EmployeeMissing
<1>6. ASSUME NEW r \in Requests, NEW a \in Accounts,
             \/ OpenPage(r, a)
             \/ \E job \in {"issue", "return"}, n \in Names : Post(r, a, job, n)
             \/ \E on \in BOOLEAN : AdminSetApproval(r, a, on)
      PROVE  users' = users
  BY <1>6 DEF OpenPage, Post, AdminSetApproval
<1>7. \A r \in Requests : CallFails(r) => users' = users
  BY DEF CallFails
<1>8. (Crash \/ UNCHANGED vars) => users' = users
  BY DEF Crash, vars
<1> QED
  BY <1>1, <1>3, <1>4, <1>5, <1>6, <1>7, <1>8 DEF Next

\* Whom a name stands for never changes, whatever is added later.
THEOREM NamesKeepUsers == Spec => NameKeepsUser
<1>1. Inv /\ [Next]_vars => [\A n \in Names : Named(n) # {} => UserNamed(n)' = UserNamed(n)]_vars
  <2> SUFFICES ASSUME Inv, [Next]_vars, NEW n \in Names, Named(n) # {}
               PROVE  UserNamed(n)' = UserNamed(n)
    OBVIOUS
  <2>1. CASE users' = users
    BY <2>1 DEF UserNamed, FirstNamed, Named
  <2>2. ASSUME NEW user \in User, users' = Append(users, user)
        PROVE  UserNamed(n)' = UserNamed(n)
    BY <2>2, LongerNames DEF Inv, TypeOK
  <2> QED
    BY <2>1, <2>2, NextAppends
<1> QED
  BY <1>1, RosterInvariant, PTL DEF NameKeepsUser, Spec
=============================================================================
