CONSTANTS
  Thread = {t1, t2}
  Destination = {d1}
  None = none
  MaxOps = 3
  SharedWaits = FALSE
SPECIFICATION Spec
INVARIANTS TypeOK FlagsTruthful NothingStranded ReportKept
CHECK_DEADLOCK FALSE
SYMMETRY Symmetric
