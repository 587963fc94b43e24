SPECIFICATION BoundarySpec
CONSTANTS
  None = None
  Caller = {p, q}
  Trampoline = {a, b, c}
  Serialized = TRUE
  MaxMessages = 3
  MaxLanes = 4
  NativeTensors <- MCNative
  ForeignTensors <- MCForeign
  Arrays <- MCArrays
  Redescriptions <- MCRedescriptions
  MaxSteps = 3
  Capsule = {c1, c2, c3}
  Own = {c1, c2}
  PrimKinds = {"NONE", "AND", "HAS_PROPERTY", "HAS_TYPE"}
  PropertyKinds = {"ALL", "NOT", "HAS_NAME"}
  Strings <- MCStrings
  MaxPredicates = 3
  MaxSelectors = 2
  Modulus = 4
  WordBits = 2
  Counts <- MCCounts
  Maps <- MCMaps
  Masks <- MCMasks
  Tensors = {0, 1, 2, 3, 5}
  Prims = {0, 1, 2, 3, 4, 5}
  Word = 32
  Long = 64
  Values <- MCValues
INVARIANTS
  TrampolinesLive
  StorageRespected
  ReleasedOnce
  SelectorsFaithful
  WritesAsAsked
  ExactOrRefused
  InputsLive
CHECK_DEADLOCK FALSE
