\* One registration is enough.
CONSTANTS
  admin = admin
  short = short
  fit = fit
  long = long
  Requests = {r1, r2}
  AccountIds = {ADMIN, x, y}
  Administrator = ADMIN
  Emails = {adminMail, mail}
  AdminEmail = adminMail
  Passwords = {admin, short, fit, long}
  AdminPassword = admin
  Length <- MCLength
  FromOldVersion = FALSE
  Nobody = Nobody
  MaxCalls = 2
SPECIFICATION Spec
INVARIANT LongEnoughAccepted
CHECK_DEADLOCK FALSE
