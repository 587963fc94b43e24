CONSTANTS
  Thread = {t1}
  Collector = gc
  PathList = {p1, p2}
  Wrapper = {w1}
  Handle = {h1, h2}
  None = none
  MaxAdded = 1
  MaxPins = 1
  Reuse = "settled"
  StaleCalls = TRUE
  CyclicGC = FALSE
SYMMETRY Symm
SPECIFICATION Spec
PROPERTIES StaleObjectRefused
CHECK_DEADLOCK FALSE
