CONSTANTS
  s1 = s1
  s2 = s2
  r1 = r1
  r2 = r2
  m1 = m1
  g1 = g1
  Stage = {s1, s2}
  Policy = {"older", "default"}
  Default = "default"
  Config <- MCConfig
  Thread = {t1, t2}
  Main = s1
  Object = {r1, r2, m1, g1}
  Kind <- MCKind
  Parent <- MCParent
  None = none
SYMMETRY Symm
SPECIFICATION Spec
INVARIANTS TypeOK ClaimMatchesNative LiveGroupsPinned NothingStranded NoReferenceLeft ConfigCaptured
CHECK_DEADLOCK FALSE
