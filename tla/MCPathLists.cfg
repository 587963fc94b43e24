CONSTANTS
  Thread = {t1, t2}
  Collector = gc
  PathList = {p1, p2}
  Wrapper = {w1, w2}
  Handle = {h1, h2}
  None = none
  MaxAdded = 1
  MaxPins = 1
  Reuse = "settled"
  StaleCalls = FALSE
  CyclicGC = FALSE
SYMMETRY Symm
SPECIFICATION Spec
INVARIANTS TypeOK BooksMatchCount ClaimIsCurrent NoDeadKeys OthersKeepTheirs NothingLeaks
PROPERTIES FinalizerKeepsAdded ImplementsLedger
CHECK_DEADLOCK FALSE
