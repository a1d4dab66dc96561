\* Two clients and a sheet of two rows of every kind the loop tells apart.
\* The bounds on sheets and forms stop every behaviour in the end.
CONSTANTS
  Clients = {c1, c2}
  Size = 2
  Kinds = {"blank", "unsound", "sound"}
  MaxSends = 3
  MaxForms = 1
  MaxFaults = 1
SPECIFICATION Spec
SYMMETRY Symmetry
INVARIANTS TypeOK RowsAccountedFor AnswerTruthful SheetOrderKept
CHECK_DEADLOCK FALSE
