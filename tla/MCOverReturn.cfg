\* Two concurrent returns of one issue, no faults.
CONSTANTS
  w = w
  e = e
  i1 = i1
  i2 = i2
  Requests = {r1, r2}
  ItemIds = {i1, i2}
  TxIds = {t1, t2}
  RetIds = {v1, v2, v3}
  UserIds = {w, e}
  Users <- MCUsers
  Warehouse <- MCWarehouse
  Quantities <- MCQuantities
  SeedStock <- MCSeedStock
  SeedTxs <- MCSeedTxs
  NoId = NoId
  MaxIssues = 2
  MaxReturns = 2
  MaxFaults = 0
SPECIFICATION Spec
INVARIANT ReturnsWithinIssue
CHECK_DEADLOCK FALSE
