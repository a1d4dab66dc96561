\* A hand-edited items.csv, no faults.
CONSTANTS
  a = a
  b = b
  Procs = {p1, p2}
  Files = {"items"}
  Ids = {a, b, c}
  Vals = {1, 2}
  SeedFiles <- MCShortLines
  Free = Free
  Unreadable = Unreadable
  MaxFaults = 0
  MaxCalls = 3
SPECIFICATION FairSpec
PROPERTY ShortLinesTolerated
CHECK_DEADLOCK FALSE
