\* Two goroutines, a file of quantities and one of accounts, one fault.  No
\* symmetry, for liveness.  The bounds on calls and faults stop every behaviour
\* in the end.
CONSTANTS
  a = a
  b = b
  Procs = {p1, p2}
  Files = {"items", "accounts"}
  Ids = {a, b}
  Vals = {1}
  SeedFiles <- MCSeedFiles
  Free = Free
  Unreadable = Unreadable
  MaxFaults = 1
  MaxCalls = 3
SPECIFICATION FairSpec
INVARIANTS TypeOK AcknowledgedKept
PROPERTIES ImplementsRepository TornFileKept CallsReturn
CHECK_DEADLOCK FALSE
