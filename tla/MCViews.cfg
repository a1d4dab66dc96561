\* One page at a time beside two requests.  One new issue and one return are
\* enough for a return, and its issue, to be recorded between two reads, and for
\* a file to lose either.  The dashboard's figures are compared over the readings
\* of MCReadings.
CONSTANTS
  w = w
  i1 = i1
  i2 = i2
  t0 = t0
  t1 = t1
  Requests = {r1, r2}
  ItemIds = {i1, i2}
  TxIds = {t0, t1}
  RetIds = {v1}
  UserIds = {w}
  Users = {w}
  Warehouse <- MCWarehouse
  Quantities <- MCQuantities
  SeedStock <- MCSeedStock
  SeedTxs <- MCSeedTxs
  NoId = NoId
  MaxIssues = 2
  MaxReturns = 1
  MaxFaults = 1
  MaxReadFaults = 1
  u1 = u1
  u2 = u2
  u3 = u3
  u4 = u4
  d1 = d1
  d2 = d2
  d3 = d3
  glove = glove
  Glove = Glove
  apron = apron
  People = {u1, u2, u3, u4}
  Employees = {u1, u2, u3}
  DeptOf <- MCDeptOf
  Depts = {d2, d3}
  DeptName <- MCDeptName
  ItemNames = {glove, Glove, apron}
  Lowered <- MCLowered
  Threshold = 2
  Empty = Empty
  LastDay = 2
SPECIFICATION ViewsSpec
SYMMETRY Symmetry
INVARIANTS ViewsTypeOK FiguresReconcile NamelessOnlyIfNewer OffersComplete
PROPERTY OffersCurrent
CHECK_DEADLOCK FALSE
