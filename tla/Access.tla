------------------------------- MODULE Access -------------------------------
(***************************************************************************)
(* Who gets to call AuthService: the session table (SessionService), the   *)
(* middleware RequireAuth and RequireAdmin, and the handlers of login,     *)
(* logout, registration, password change and the administrator's page,     *)
(* composed with Accounts.                                                 *)
(*                                                                         *)
(* A protected request looks its token up under the session mutex, reads   *)
(* its account under the store's mutex, and then runs its handler: three   *)
(* steps, between which other requests run.  A request the middleware or a *)
(* handler refuses without changing anything simply ends.                  *)
(***************************************************************************)
EXTENDS Accounts

CONSTANTS
  Tokens,     \* session tokens that may be drawn
  NoSession,  \* the entry of a token that is not in the table
  TTL,        \* lifetime of a session, in ticks of the clock
  MaxClock,   \* bound: ticks of the clock
  MaxFaults   \* bound: failed calls and restarts

ASSUME AccessAssumption ==
  /\ TTL \in Nat /\ MaxClock \in Nat /\ MaxFaults \in Nat

VARIABLES
  sessions,  \* the table: token to account and expiry
  drawn,     \* tokens handed out so far
  clock,
  http,      \* where each request is, between middleware and answer
  faults

web == <<sessions, drawn, clock, http, faults>>

\* "/issue" stands for every page that is open to any user who is logged in.
AdminPaths == {"/admin/access/approval", "/admin/access/reset-password"}
Paths == AdminPaths \cup {"/logout", "/change-password", "/issue"}

\* What a request carries: its token, the account the token stands for and
\* the page it wants; "stale" is bookkeeping: that account was written since
\* the token was looked up.
None == [pc |-> "none"]
Visits == [pc : {"admit", "handler", "service"}, token : Tokens, id : AccountIds,
           path : Paths, stale : BOOLEAN]
Http == {None} \cup [pc : {"create"}, id : AccountIds] \cup [pc : {"register"}] \cup Visits

At(r, pc) == http[r].pc = pc
Behind(pcs) == {r \in Requests : http[r].pc \in pcs}
Moves(r, next) == http' = [http EXCEPT ![r] = next]
Ends(r) == Moves(r, None)

\* RequireAuth, RequireAdmin: may this account have this page now?
Active(account) == account.admin \/ account.approved
Entitled(account, path) ==
  /\ Active(account)
  /\ account.mustReset => path = "/change-password"
  /\ path \in AdminPaths => account.admin

-----------------------------------------------------------------------------
AccessInit ==
  /\ Init
  /\ sessions = [t \in Tokens |-> NoSession] /\ drawn = {}
  /\ clock = 0
  /\ http = [r \in Requests |-> None]
  /\ faults = 0

Tick ==
  /\ clock < MaxClock
  /\ clock' = clock + 1
  /\ UNCHANGED <<vars, sessions, drawn, http, faults>>

\* Login: the password is right and the account active at this moment ...
Authenticate(r, id, pw) ==
  /\ At(r, "none")
  /\ id \in Existing
  /\ Verify(accounts[id].hash, pw)
  /\ Active(accounts[id])
  /\ Moves(r, [pc |-> "create", id |-> id])
  /\ UNCHANGED <<vars, sessions, drawn, clock, faults>>

\* ... and the session starts a little later.
Create(r) ==
  /\ At(r, "create")
  /\ \E t \in Tokens \ drawn :
       /\ sessions' = [sessions EXCEPT ![t] = [id |-> http[r].id, expires |-> clock + TTL]]
       /\ drawn' = drawn \cup {t}
  /\ Ends(r)
  /\ UNCHANGED <<vars, clock, faults>>

\* GetAccountID finds a live session.
GetAccountID(r, t, path) ==
  /\ At(r, "none")
  /\ sessions[t] # NoSession
  /\ clock <= sessions[t].expires
  /\ Moves(r, [pc |-> "admit", token |-> t, id |-> sessions[t].id,
               path |-> path, stale |-> FALSE])
  /\ UNCHANGED <<vars, sessions, drawn, clock, faults>>

\* GetAccountID finds one that has run out, and removes it.
Expire(r, t) ==
  /\ At(r, "none")
  /\ sessions[t] # NoSession
  /\ clock > sessions[t].expires
  /\ sessions' = [sessions EXCEPT ![t] = NoSession]
  /\ UNCHANGED <<vars, drawn, clock, http, faults>>

\* Mutant: a session counts as proof that its account is active.
AdmitOnSession(r) ==
  /\ At(r, "admit")
  /\ http[r].path \in AdminPaths => accounts[http[r].id].admin
  /\ Moves(r, [http[r] EXCEPT !.pc = "handler"])
  /\ UNCHANGED <<vars, sessions, drawn, clock, faults>>

\* Mutant: the administrator's pages are not in the group with RequireAdmin.
AdmitAnybody(r) ==
  /\ At(r, "admit")
  /\ Active(accounts[http[r].id])
  /\ accounts[http[r].id].mustReset => http[r].path = "/change-password"
  /\ Moves(r, [http[r] EXCEPT !.pc = "handler"])
  /\ UNCHANGED <<vars, sessions, drawn, clock, faults>>

\* The middleware reads the account and lets the request through ...
Admit(r) ==
  /\ At(r, "admit")
  /\ Entitled(accounts[http[r].id], http[r].path)
  /\ Moves(r, [http[r] EXCEPT !.pc = "handler"])
  /\ UNCHANGED <<vars, sessions, drawn, clock, faults>>

\* ... or redirects it, or answers 403.
TurnAway(r) ==
  /\ At(r, "admit")
  /\ ~Entitled(accounts[http[r].id], http[r].path)
  /\ Ends(r)
  /\ UNCHANGED <<vars, sessions, drawn, clock, faults>>

-----------------------------------------------------------------------------
(* The handlers.                                                           *)

Logout(r) ==
  /\ At(r, "handler") /\ http[r].path = "/logout"
  /\ sessions' = [sessions EXCEPT ![http[r].token] = NoSession]
  /\ Ends(r)
  /\ UNCHANGED <<vars, drawn, clock, faults>>

\* The page is shown, or its form refused: nothing to write here.
Answer(r) ==
  /\ At(r, "handler") /\ http[r].path # "/logout"
  /\ Ends(r)
  /\ UNCHANGED <<vars, sessions, drawn, clock, faults>>

\* Mutant: the handler lets the service run on and answers at once.
ServeInBackground(r, path) ==
  /\ At(r, "handler") /\ http[r].path = path
  /\ Ends(r)
  /\ UNCHANGED <<sessions, drawn, clock, faults>>

\* A handler has called its service, which holds an account to write back.
Serve(r, path) ==
  /\ At(r, "handler") /\ http[r].path = path
  /\ Moves(r, [http[r] EXCEPT !.pc = "service"])
  /\ UNCHANGED <<sessions, drawn, clock, faults>>

\* The page changes the password of the account it was opened with.
ChangeOwnPassword(r, current, pw) ==
  /\ Serve(r, "/change-password")
  /\ ChangePassword(r, http[r].id, current, pw)

AdminSetApproval(r, id, approved) ==
  /\ Serve(r, "/admin/access/approval")
  /\ SetApproval(r, id, approved)

AdminResetPassword(r, id, pw) ==
  /\ Serve(r, "/admin/access/reset-password")
  /\ ResetPasswordByAdmin(r, id, pw)

\* Registration is open to everybody.
RegisterPage(r, email, pw) ==
  /\ At(r, "none")
  /\ Register(r, email, pw)
  /\ Moves(r, [pc |-> "register"])
  /\ UNCHANGED <<sessions, drawn, clock, faults>>

\* The service makes its last repository call and the handler answers.
RegisterEnds(r) ==
  /\ At(r, "register")
  /\ Add(r) \/ EmailAlreadyExists(r)
  /\ Ends(r)
  /\ UNCHANGED <<sessions, drawn, clock, faults>>

ServiceEnds(r) ==
  /\ At(r, "service")
  /\ Update(r)
  /\ http' = [s \in Requests |->
       IF s = r THEN None
       ELSE IF s \in Behind({"admit", "handler", "service"}) /\ http[s].id = req[r].id
         THEN [http[s] EXCEPT !.stale = TRUE]
       ELSE http[s]]
  /\ UNCHANGED <<sessions, drawn, clock, faults>>

-----------------------------------------------------------------------------
(* Faults.                                                                 *)
Fault == faults < MaxFaults /\ faults' = faults + 1

\* A call of the request fails; middleware or handler answers at once.  The
\* logout handler makes no call that can.
RequestFails(r) ==
  /\ ~At(r, "none")
  /\ At(r, "handler") => http[r].path # "/logout"
  /\ Fault
  /\ IF req[r].pc = "idle" THEN UNCHANGED vars ELSE CallFails(r)
  /\ Ends(r)
  /\ UNCHANGED <<sessions, drawn, clock>>

\* Sessions live in memory only.
Restart ==
  /\ Fault
  /\ Crash
  /\ sessions' = [t \in Tokens |-> NoSession]
  /\ http' = [r \in Requests |-> None]
  /\ UNCHANGED <<drawn, clock>>

\* What a request in flight does without its client.
Continue(r) ==
  \/ Create(r) \/ Admit(r) \/ TurnAway(r) \/ Logout(r) \/ Answer(r)
  \/ RegisterEnds(r) \/ ServiceEnds(r)

AccessNext ==
  \/ \E r \in Requests :
       \/ \E id \in AccountIds, pw \in Passwords :
            Authenticate(r, id, pw) \/ AdminResetPassword(r, id, pw)
       \/ \E t \in Tokens : Expire(r, t) \/ \E path \in Paths : GetAccountID(r, t, path)
       \/ \E email \in Emails, pw \in Passwords : RegisterPage(r, email, pw)
       \/ \E current, pw \in Passwords : ChangeOwnPassword(r, current, pw)
       \/ \E id \in AccountIds, approved \in BOOLEAN : AdminSetApproval(r, id, approved)
       \/ Continue(r)
       \/ RequestFails(r)
  \/ Tick
  \/ Restart

AccessSpec == AccessInit /\ [][AccessNext]_<<vars, web>>

-----------------------------------------------------------------------------
\* The types; a service is in the middle of a call exactly for the requests
\* whose handler has called one, and the table only has tokens handed out.
AccessTypeOK ==
  /\ TypeOK
  /\ sessions \in [Tokens -> [id : AccountIds, expires : Nat] \cup {NoSession}]
  /\ drawn \subseteq Tokens
  /\ \A t \in Tokens \ drawn : sessions[t] = NoSession
  /\ http \in [Requests -> Http]
  /\ \A r \in Requests :
       /\ At(r, "register") <=> req[r].pc = "add"
       /\ At(r, "service") <=> req[r].pc = "update"
  /\ clock \in Nat /\ faults \in Nat

\* A request that has passed the middleware is one its account is entitled
\* to now, unless the account was written while the request was under way:
\* a withdrawn approval or a reset password binds every later request, also
\* those of sessions that were opened before.
AdmittedIsEntitled ==
  \A r \in Behind({"handler", "service"}) :
    ~http[r].stale => Entitled(accounts[http[r].id], http[r].path)

\* An account is changed by its owner, who cannot touch its approval, or by
\* an administrator, whatever tokens are about; an account that two calls
\* held at once is the exception, since the later one writes back fields
\* that it did not mean to change.
ChangedByOwnerOrAdmin ==
  [][\A id \in AccountIds \ overlapped :
       (accounts[id] # Nobody /\ accounts'[id] # accounts[id]) =>
         \E r \in Updating(id) :
           \/ accounts[http[r].id].admin
           \/ http[r].id = id /\ accounts'[id].approved = accounts[id].approved]_<<vars, web>>
=============================================================================
