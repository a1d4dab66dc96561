\* Two requests, the administrator and one more account, two sessions.  The
\* bounds on calls, ticks and faults stop every behaviour in the end.
CONSTANTS
  admin = admin
  fit = fit
  Requests = {r1, r2}
  AccountIds = {ADMIN, x}
  Administrator = ADMIN
  Emails = {adminMail, mail}
  AdminEmail = adminMail
  Passwords = {admin, fit}
  AdminPassword = admin
  Length <- MCLength
  FromOldVersion = FALSE
  Nobody = Nobody
  MaxCalls = 3
  Tokens = {k1, k2}
  NoSession = NoSession
  TTL = 0
  MaxClock = 1
  MaxFaults = 1
SPECIFICATION AccessSpec
SYMMETRY Symmetry
INVARIANTS AccessTypeOK AdmittedIsEntitled
PROPERTY ChangedByOwnerOrAdmin
CHECK_DEADLOCK FALSE
