\* Two requests, the administrator and up to two more accounts.  No symmetry,
\* for liveness.  The bound on calls stops every behaviour in the end.
CONSTANTS
  admin = admin
  short = short
  fit = fit
  long = long
  Requests = {r1, r2}
  AccountIds = {ADMIN, x, y}
  Administrator = ADMIN
  Emails = {adminMail, mail}
  AdminEmail = adminMail
  Passwords = {admin, short, fit, long}
  AdminPassword = admin
  Length <- MCLength
  FromOldVersion = TRUE
  Nobody = Nobody
  MaxCalls = 5
SPECIFICATION FairSpec
INVARIANTS TypeOK EmailsUnique LastDecisionKept
PROPERTIES PasswordChangeVerified CallsAnswered
CHECK_DEADLOCK FALSE
