CONSTANTS
  Thread = {t1}
  MaxOps = 6
  Async = FALSE
SPECIFICATION Spec
INVARIANTS OwnVerdict
CHECK_DEADLOCK FALSE
