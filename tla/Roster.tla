------------------------------- MODULE Roster -------------------------------
(***************************************************************************)
(* Who acts: users.csv and the requests that turn a name into a user.      *)
(*                                                                         *)
(* An account is not a user.  GET and POST of /issue and /return look the  *)
(* account's name up in users.csv and create a warehouse user when nobody  *)
(* has it; an approval by the administrator does so, too; the employee     *)
(* form adds a user without looking.  Each of these is several repository  *)
(* calls, and each repository call is one step.  Reads of departments.csv  *)
(* and of an account's name are folded into the step after them: no route  *)
(* changes either.                                                         *)
(***************************************************************************)
EXTENDS Integers, Sequences

CONSTANTS
  Requests,     \* request goroutines
  UserIds,      \* ids NewID may draw
  Names,        \* names, up to letter case and surrounding blanks
  Accounts,     \* registered accounts
  NameOf,       \* the name of each account
  SeedUsers,    \* users.csv when the server starts
  Departments,  \* ids a form may pass as a department
  NoUser,       \* stands for an empty id
  MaxCalls,     \* bound: requests
  MaxFaults     \* bound: failed repository calls and crashes

\* Roles as they may be spelled in a form.  "Warehouse" stands for every
\* spelling of "warehouse" that differs in letter case or blanks.
Spellings == {"employee", "warehouse", "Warehouse", "driver"}
Lowered(role) == IF role = "Warehouse" THEN "warehouse" ELSE role

\* The employee number tells where a row came from: a form, "AUTO-" and the
\* time, or the id of the account that was approved.
User == [id : UserIds, emp : {"form", "auto", "account"}, name : Names,
         dept : Departments, role : Spellings]

\* The file may hold roles the program would refuse (src/data does), but no
\* other spelling of "warehouse".
ASSUME RosterAssumption ==
  /\ SeedUsers \in Seq(User)
  /\ \A k \in DOMAIN SeedUsers : SeedUsers[k].role # "Warehouse" /\ SeedUsers[k].emp = "form"
  /\ \A j, k \in DOMAIN SeedUsers : SeedUsers[j].id = SeedUsers[k].id => j = k
  /\ NameOf \in [Accounts -> Names]
  /\ NoUser \notin UserIds
  /\ MaxCalls \in Nat /\ MaxFaults \in Nat

VARIABLES
  users,        \* users.csv, in the order of the file
  departments,  \* departments.csv: the ids, in order
  approved,     \* accounts.csv: who is approved
  req,          \* what each request holds between two repository calls
  \* Bookkeeping that is not in the program:
  moves,        \* who booked what: issues and returns that were recorded
  settled,      \* accounts with an approval that was answered without an error
  overlapped,   \* names somebody else added during a creation
  calls, faults

vars == <<users, departments, approved, req, moves, settled, overlapped, calls, faults>>

-----------------------------------------------------------------------------
(* Lookups take the first row that matches.                                *)

Named(n) == {k \in DOMAIN users : users[k].name = n}
FirstNamed(n) == CHOOSE k \in Named(n) : \A j \in Named(n) : k <= j
HasId(id) == \E k \in DOMAIN users : users[k].id = id
ById(id) == users[CHOOSE k \in DOMAIN users : users[k].id = id]

\* tryResolveUserIDByName
UserNamed(n) == IF Named(n) = {} THEN NoUser ELSE users[FirstNamed(n)].id

\* The role check of the handlers, and the one of TransactionsService.
IsWarehouseUser(user) == Lowered(user.role) = "warehouse"
ServiceAccepts(id) == HasId(id) /\ ById(id).role = "warehouse"

\* Requests that found nobody of name n and are about to add a user.
Creating(n) ==
  {r \in Requests : req[r].pc \in {"addUser", "addEmployee"} /\ NameOf[req[r].account] = n}

Idle == [pc |-> "idle"]

Init ==
  /\ users = SeedUsers
  /\ departments \in {<<>>} \cup {<<d>> : d \in Departments}
  /\ approved \in [Accounts -> BOOLEAN]
  /\ req = [r \in Requests |-> Idle]
  /\ moves = {} /\ settled = {} /\ overlapped = {}
  /\ calls = 0 /\ faults = 0

Enter(r) == req[r].pc = "idle" /\ calls < MaxCalls /\ calls' = calls + 1

-----------------------------------------------------------------------------
(* UsersService.AddUser and the repository's Add: a row under a new id.    *)

\* Mutant: the role is stored as it was spelled.
StoredRoleAsSpelled(role) == role

\* AddUser lowers and trims the role before it looks at it.
StoredRole(role) == Lowered(role)

\* Mutant: the row is put in front of the others.
WithUserFirst(id, emp, n, d, role) ==
  <<[id |-> id, emp |-> emp, name |-> n, dept |-> d, role |-> StoredRole(role)]>> \o users

WithUser(id, emp, n, d, role) ==
  Append(users, [id |-> id, emp |-> emp, name |-> n, dept |-> d, role |-> StoredRole(role)])

RoleAllowed(role) == Lowered(role) \in {"employee", "warehouse"}

\* The employee form and one row of an uploaded sheet.  Nobody looks whether
\* the name is taken or the department exists.
AddByForm(n, d, role) ==
  /\ calls < MaxCalls /\ calls' = calls + 1
  /\ RoleAllowed(role)
  /\ \E id \in UserIds : ~HasId(id) /\ users' = WithUser(id, "form", n, d, role)
  /\ overlapped' = IF Creating(n) = {} THEN overlapped ELSE overlapped \cup {n}
  /\ UNCHANGED <<departments, approved, req, moves, settled, faults>>

-----------------------------------------------------------------------------
(* GET and POST of /issue and /return.  "then" is what follows once the    *)
(* account's user is known: the service, the page that shows the outcome   *)
(* (which looks the user up again), or the end of the request.             *)

\* IssuePage, ReturnPage
OpenPage(r, a) ==
  /\ Enter(r)
  /\ approved[a]
  /\ req' = [req EXCEPT ![r] = [pc |-> "lookup", account |-> a, job |-> "page",
                                to |-> NoUser, by |-> NoUser, then |-> "page"]]
  /\ UNCHANGED <<users, departments, approved, moves, settled, overlapped, faults>>

\* Issue, Return: first the other person's name.  A name that is not in the
\* list, or a list that cannot be read, ends in the page with an error.
Post(r, a, job, n) ==
  /\ Enter(r)
  /\ approved[a]
  /\ LET to == UserNamed(n)
     IN  req' = [req EXCEPT ![r] =
           [pc |-> "lookup", account |-> a, job |-> job, to |-> to, by |-> NoUser,
            then |-> IF to = NoUser THEN "end" ELSE "service"]]
  /\ UNCHANGED <<users, departments, approved, moves, settled, overlapped, faults>>

\* What request r does once currentWarehouseActor has given it user "by", or
\* NoUser and an error.  Every outcome is shown on a page, and rendering it
\* looks the account's user up again; IssuePage and ReturnPage, and rendering,
\* ignore the error.
Resolved(r, by) ==
  LET call == [req[r] EXCEPT !.pc = "lookup"]
  IN  req' = [req EXCEPT ![r] =
        CASE call.then = "end" -> Idle
          [] call.then = "service" /\ by # NoUser -> [call EXCEPT !.pc = "service", !.by = by]
          [] OTHER -> [call EXCEPT !.then = "end"]]

MyName(r) == NameOf[req[r].account]

\* Mutant: nobody looks whether the name is there.
NobodyFound(r) == TRUE

\* resolveOrCreateWarehouseUserByName finds nobody.
NotListed(r) == Named(MyName(r)) = {}

\* resolveOrCreateWarehouseUserByName, the first user of that name: an actor
\* if its role is "warehouse" in any spelling.
FindActor(r) ==
  /\ req[r].pc = "lookup"
  /\ ~NotListed(r)
  /\ LET user == users[FirstNamed(MyName(r))]
         by == IF IsWarehouseUser(user) THEN user.id ELSE NoUser
     IN  Resolved(r, by)
  /\ UNCHANGED <<users, departments, approved, moves, settled, overlapped, calls, faults>>

\* ... nobody has the name, and there is no department to put a user in.
NoDepartment(r) ==
  /\ req[r].pc = "lookup"
  /\ NotListed(r)
  /\ departments = <<>>
  /\ Resolved(r, NoUser)
  /\ UNCHANGED <<users, departments, approved, moves, settled, overlapped, calls, faults>>

\* A creation of a user of name n is on its way: do two of them meet?
Meets(n) == overlapped' = IF Creating(n) = {} THEN overlapped ELSE overlapped \cup {n}

\* ... nobody has the name: AddUser is next.
MissActor(r) ==
  /\ req[r].pc = "lookup"
  /\ NotListed(r)
  /\ departments # <<>>
  /\ req' = [req EXCEPT ![r].pc = "addUser"]
  /\ Meets(MyName(r))
  /\ UNCHANGED <<users, departments, approved, moves, settled, calls, faults>>

\* Mutant: the repository does not look whether the id is there.
AddUserAnyId(r) ==
  /\ req[r].pc = "addUser"
  /\ \E id \in UserIds :
       /\ users' = WithUser(id, "auto", MyName(r), departments[1], "warehouse")
       /\ Resolved(r, id)
  /\ UNCHANGED <<departments, approved, moves, settled, overlapped, calls, faults>>

\* Adds the account's user, to the first department.
AddUser(r) ==
  /\ req[r].pc = "addUser"
  /\ \E id \in UserIds :
       /\ ~HasId(id)
       /\ users' = WithUser(id, "auto", MyName(r), departments[1], "warehouse")
       /\ Resolved(r, id)
  /\ UNCHANGED <<departments, approved, moves, settled, overlapped, calls, faults>>

\* IssueItem or ReturnItem accepts the users and records the movement.
Record(r) ==
  /\ req[r].pc = "service"
  /\ ServiceAccepts(req[r].by)
  /\ req[r].job = "issue" => HasId(req[r].to)
  /\ moves' = moves \cup {[account |-> req[r].account, by |-> req[r].by]}
  /\ req' = [req EXCEPT ![r].pc = "lookup", ![r].then = "end"]
  /\ UNCHANGED <<users, departments, approved, settled, overlapped, calls, faults>>

\* ... or refuses it: for its users, the stock or the units still out.
Refuse(r) ==
  /\ req[r].pc = "service"
  /\ req' = [req EXCEPT ![r].pc = "lookup", ![r].then = "end"]
  /\ UNCHANGED <<users, departments, approved, moves, settled, overlapped, calls, faults>>

-----------------------------------------------------------------------------
(* POST /admin/access/approval.                                            *)

\* SetApproval writes a flag whatever it was, so its read and its write are
\* one step; the employee of an approved account comes afterwards.
AdminSetApproval(r, a, on) ==
  /\ Enter(r)
  /\ approved' = [approved EXCEPT ![a] = on]
  /\ req' = IF on THEN [req EXCEPT ![r] = [pc |-> "ensure", account |-> a]] ELSE req
  /\ UNCHANGED <<users, departments, moves, settled, overlapped, faults>>

\* ensureApprovedAccountInEmployees: a user of that name, of any role, will do.
EmployeeExists(r) ==
  /\ req[r].pc = "ensure"
  /\ ~NotListed(r)
  /\ req' = [req EXCEPT ![r] = Idle]
  /\ settled' = settled \cup {req[r].account}
  /\ UNCHANGED <<users, departments, approved, moves, overlapped, calls, faults>>

\* Mutant: an approval without a department is taken for a success.
NoDepartmentIsFine(r) ==
  /\ req[r].pc = "ensure"
  /\ NotListed(r)
  /\ departments = <<>>
  /\ req' = [req EXCEPT ![r] = Idle]
  /\ settled' = settled \cup {req[r].account}
  /\ UNCHANGED <<users, departments, approved, moves, overlapped, calls, faults>>

\* "no departments configured": the page shows it, the approval stays.
ApprovedWithoutEmployee(r) ==
  /\ req[r].pc = "ensure"
  /\ NotListed(r)
  /\ departments = <<>>
  /\ req' = [req EXCEPT ![r] = Idle]
  /\ UNCHANGED <<users, departments, approved, moves, settled, overlapped, calls, faults>>

\* Mutant: only a warehouse user of that name is good enough.
WarehouseEmployeeMissing(r) ==
  /\ req[r].pc = "ensure"
  /\ \A k \in Named(MyName(r)) : users[k].role # "warehouse"
  /\ departments # <<>>
  /\ req' = [req EXCEPT ![r].pc = "addEmployee"]
  /\ Meets(MyName(r))
  /\ UNCHANGED <<users, departments, approved, moves, settled, calls, faults>>

\* Nobody of that name, of any role: AddUser is next.
EmployeeMissing(r) ==
  /\ req[r].pc = "ensure"
  /\ NotListed(r)
  /\ departments # <<>>
  /\ req' = [req EXCEPT ![r].pc = "addEmployee"]
  /\ Meets(MyName(r))
  /\ UNCHANGED <<users, departments, approved, moves, settled, calls, faults>>

AddEmployee(r) ==
  /\ req[r].pc = "addEmployee"
  /\ \E id \in UserIds :
       /\ ~HasId(id)
       /\ users' = WithUser(id, "account", MyName(r), departments[1], "warehouse")
  /\ req' = [req EXCEPT ![r] = Idle]
  /\ settled' = settled \cup {req[r].account}
  /\ UNCHANGED <<departments, approved, moves, overlapped, calls, faults>>

-----------------------------------------------------------------------------
\* A repository call fails, or NewID draws an id that is taken: no actor, or
\* an approval without its employee.
CallFails(r) ==
  /\ faults < MaxFaults
  /\ faults' = faults + 1
  /\ \/ req[r].pc \in {"lookup", "addUser"} /\ Resolved(r, NoUser)
     \/ req[r].pc \in {"ensure", "addEmployee"} /\ req' = [req EXCEPT ![r] = Idle]
  /\ UNCHANGED <<users, departments, approved, moves, settled, overlapped, calls>>

\* The process dies and is started again: the files stay, the requests go.
Crash ==
  /\ faults < MaxFaults
  /\ faults' = faults + 1
  /\ req' = [r \in Requests |-> Idle]
  /\ UNCHANGED <<users, departments, approved, moves, settled, overlapped, calls>>

Proceed(r) ==
  \/ FindActor(r) \/ NoDepartment(r) \/ MissActor(r) \/ AddUser(r)
  \/ Record(r) \/ Refuse(r)
  \/ EmployeeExists(r) \/ ApprovedWithoutEmployee(r) \/ EmployeeMissing(r) \/ AddEmployee(r)

Next ==
  \/ \E n \in Names, d \in Departments, role \in Spellings : AddByForm(n, d, role)
  \/ \E r \in Requests, a \in Accounts :
       \/ OpenPage(r, a)
       \/ \E job \in {"issue", "return"}, n \in Names : Post(r, a, job, n)
       \/ \E on \in BOOLEAN : AdminSetApproval(r, a, on)
  \/ \E r \in Requests : Proceed(r)
  \/ \E r \in Requests : CallFails(r)
  \/ Crash

Spec == Init /\ [][Next]_vars

-----------------------------------------------------------------------------
PageCall == [pc : {"lookup", "addUser", "service"}, account : Accounts,
             job : {"page", "issue", "return"}, to : UserIds \cup {NoUser},
             by : UserIds \cup {NoUser}, then : {"service", "page", "end"}]
ApprovalCall == [pc : {"ensure", "addEmployee"}, account : Accounts]

TypeOK ==
  /\ users \in Seq(User)
  /\ \A j, k \in DOMAIN users : users[j].id = users[k].id => j = k
  /\ departments \in Seq(Departments)
  /\ approved \in [Accounts -> BOOLEAN]
  /\ req \in [Requests -> {Idle} \cup PageCall \cup ApprovalCall]
  /\ moves \subseteq [account : Accounts, by : UserIds]
  /\ settled \subseteq Accounts
  /\ overlapped \subseteq Names
  /\ calls \in Nat /\ faults \in Nat

\* The users the handlers hand to IssueItem and ReturnItem are never refused
\* there: the handlers accept every spelling of "warehouse", the service
\* exactly one, and a row is read by name in one call and by id in a later
\* one.
ActorAccepted ==
  \A r \in Requests : req[r].pc = "service" =>
    /\ ServiceAccepts(req[r].by)
    /\ HasId(req[r].to)

\* Everything a worker books carries one user, the first of the worker's
\* name, now and at any later time; two creations that met are the exception
\* (a request may then go on with the second user).
BookedByFirstNamed ==
  \A move \in moves : NameOf[move.account] \notin overlapped =>
    move.by = UserNamed(NameOf[move.account])

\* The handlers create a user only for a name nobody has, so there is never
\* more than one per name, unless two creations met.
CreatedOnlyIfMissing ==
  \A k \in DOMAIN users :
    (users[k].emp # "form" /\ users[k].name \notin overlapped) => k = FirstNamed(users[k].name)

\* When the approval of an account was answered without an error, the roster
\* has a user of its name from then on, also when an earlier approval had
\* failed half way, or the row was added by a form or a page while the approval
\* was looking.  A page says nothing of the kind: it is shown without an error
\* although no user of the name could be found or made.
SettledHasUser == \A a \in settled : Named(NameOf[a]) # {}

\* Who a name stands for never changes: no later row, whatever its role or
\* its origin, takes a name over.
NameKeepsUser == [][\A n \in Names : Named(n) # {} => UserNamed(n)' = UserNamed(n)]_vars
=============================================================================
