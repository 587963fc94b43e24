CONSTANTS
  Thread = {t1, t2}
  MaxOps = 3
  Async = TRUE
SPECIFICATION Spec
INVARIANTS TypeOK InputsPinned FailureSurfaces
CHECK_DEADLOCK FALSE
