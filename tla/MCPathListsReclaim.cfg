CONSTANTS
  Thread = {t1}
  Collector = gc
  PathList = {p1, p2}
  Wrapper = {w1}
  Handle = {h1, h2}
  None = none
  MaxAdded = 1
  MaxPins = 1
  Reuse = "settled"
  StaleCalls = FALSE
  CyclicGC = FALSE
SPECIFICATION FairSpec
PROPERTIES DroppedIsReclaimed
CHECK_DEADLOCK FALSE
