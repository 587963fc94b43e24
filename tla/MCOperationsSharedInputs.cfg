CONSTANTS
  w1 = w1
  w2 = w2
  c1 = c1
  Thread = {t1, t2}
  Op = {w1, c1}
  Clone = {c1}
  Depends <- MCDepends
  None = none
  Shared = TRUE
SYMMETRY Symm
SPECIFICATION Spec
INVARIANTS InputsPinned
CHECK_DEADLOCK FALSE
