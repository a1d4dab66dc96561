\* Two requests of three accounts, two of which have one name.  The bound on
\* requests stops every behaviour in the end.
CONSTANTS
  u1 = u1
  ann = ann
  bob = bob
  guest = guest
  annAccount = annAccount
  annOther = annOther
  bobAccount = bobAccount
  d1 = d1
  Requests = {r1, r2}
  UserIds = {u1, u2, u3, u4, u5}
  Names = {ann, bob, guest}
  Accounts = {annAccount, annOther, bobAccount}
  NameOf <- MCNameOf
  SeedUsers <- MCSeedUsers
  Departments = {d1}
  NoUser = NoUser
  MaxCalls = 3
  MaxFaults = 1
SPECIFICATION Spec
SYMMETRY Symmetry
INVARIANTS TypeOK ActorAccepted BookedByFirstNamed CreatedOnlyIfMissing SettledHasUser
PROPERTY NameKeepsUser
CHECK_DEADLOCK FALSE
