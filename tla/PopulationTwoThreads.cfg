CONSTANTS
  Thread = {t1, t2}
  MaxOps = 3
  Async = FALSE
SPECIFICATION Spec
INVARIANTS NoPayloadOfFailure
CHECK_DEADLOCK FALSE
