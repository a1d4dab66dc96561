\* Two requests over an item on the shelf and one that may be added; either row,
\* or both, may get lost in a write that is cut.  No symmetry, for liveness.  The bounds on issues,
\* returns and faults stop every behaviour in the end.
CONSTANTS
  w = w
  e = e
  i1 = i1
  i2 = i2
  Requests = {r1, r2}
  ItemIds = {i1, i2}
  TxIds = {t1, t2}
  RetIds = {v1, v2}
  UserIds = {w, e}
  Users <- MCUsers
  Warehouse <- MCWarehouse
  Quantities <- MCQuantities
  SeedStock <- MCSeedStock
  SeedTxs <- MCSeedTxs
  NoId = NoId
  MaxIssues = 2
  MaxReturns = 2
  MaxFaults = 1
SPECIFICATION FairSpec
INVARIANTS TypeOK StockNeverNegative BooksBalance ReturnsWithinIssueIfSerial LedgerLinked ShelfWithinSupply
PROPERTY RequestsAnswered
CHECK_DEADLOCK FALSE
