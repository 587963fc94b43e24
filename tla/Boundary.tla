------------------------------ MODULE Boundary ------------------------------
(***************************************************************************)
(* What crosses between Python and the native side, in one specification:  *)
(* log callbacks, tensor descriptors, capsules, population descriptions,   *)
(* write data and the arguments of every call.  They share no state in the *)
(* code, so every behaviour is one of one of them: part says of which, and *)
(* the variables of the others rest.                                       *)
(***************************************************************************)
EXTENDS LogCallbacks, Integers, Sequences

CONSTANTS
  MaxLanes, NativeTensors, ForeignTensors, Arrays, Redescriptions, MaxSteps, \* Tensors
  Capsule, Own,                                                              \* Capsules
  PrimKinds, PropertyKinds, Strings, MaxPredicates, MaxSelectors,            \* Selectors
  Modulus, WordBits, Counts, Maps, Masks, Tensors, Prims,                    \* Writes
  Word, Long, Values                                                         \* Requests

(* What callers pass as counts, maps and masks are integers and sequences  *)
(* of integers or nothing; a map has fewer entries than a count can say,   *)
(* which the code does not check where it takes the count from the map     *)
(* (stage.py 594).                                                         *)
ASSUME WritesAssumption ==
  /\ None \notin Int /\ None \notin Seq(Int)
  /\ Modulus \in Nat \ {0} /\ WordBits \in Nat \ {0} /\ 2 ^ WordBits \in Nat
  /\ Counts \subseteq Int \cup {None}
  /\ Maps \subseteq Seq(Int) \cup {None} /\ Masks \subseteq Seq(Int) \cup {None}
  /\ Tensors \subseteq Nat /\ Prims \subseteq Nat
  /\ \A map \in Maps : map # None => Len(map) < Modulus

(* A 32 bit integer holds every enumerator and device type; a 64 bit one   *)
(* is no narrower.                                                         *)
ASSUME RequestsAssumption ==
  /\ Word \in Nat /\ Word >= 28 /\ Long \in Nat /\ Long >= Word
  /\ Values \subseteq Int

(* Descriptors have integers for shape, strides and the rest, a stride for *)
(* every dimension or none, and know nothing of the size of the storage    *)
(* before they are taken in; the tensors of reads and maps and numpy       *)
(* arrays have no negative dimension, the former one lane, the latter no   *)
(* strides.  Overrides are integers.                                       *)
ASSUME TensorsAssumption ==
  /\ MaxLanes \in Nat
  /\ \A t \in NativeTensors \cup ForeignTensors \cup Arrays :
       /\ t \in [shape : Seq(Int), strides : Seq(Int) \cup {None}, bits : Nat, lanes : Nat,
                 offset : Nat, backing : {None}]
       /\ t.strides # None => Len(t.strides) = Len(t.shape)
  /\ \A t \in NativeTensors \cup Arrays : \A d \in DOMAIN t.shape : t.shape[d] >= 0
  /\ \A t \in NativeTensors : t.lanes = 1
  /\ \A t \in Arrays : t.strides = None
  /\ Redescriptions \subseteq
       [bits : Nat \cup {None}, lanes : Nat, shape : Seq(Int) \cup {None}, ndim : Nat \cup {None},
        strides : Seq(Int) \cup {None}]

(* Names are strings, and None is told from everything it stands beside:   *)
(* types of predicates, and addresses.                                     *)
ASSUME SelectorsAssumption ==
  /\ Strings \subseteq Seq(STRING)
  /\ None \notin {"prim", "property"}
  /\ None \notin {"empty", "strings", "subpredicates", "nested", "paths"} \X Nat

VARIABLES
  part,
  tensor, form, room, positions, steps,
  producer, callback, cleaned, ran, capsule, ctx, frees, holder, uses, raising,
  predicates, selectors, composing, memo, heap, keepalive, roots,
  ask, writing, data, query, written,
  entry, args, calling, received, kept, owned, event

T == INSTANCE Tensors
C == INSTANCE Capsules
S == INSTANCE Selectors WITH phase <- composing
W == INSTANCE Writes WITH phase <- writing
R == INSTANCE Requests WITH phase <- calling

tensorVars == <<tensor, form, room, positions, steps>>
capsuleVars == <<producer, callback, cleaned, ran, capsule, ctx, frees, holder, uses, raising>>
selectorVars == <<predicates, selectors, composing, memo, heap, keepalive, roots>>
writeVars == <<ask, writing, data, query, written>>
requestVars == <<entry, args, calling, received, kept, owned, event>>
others == <<tensorVars, capsuleVars, selectorVars, writeVars, requestVars>>

-----------------------------------------------------------------------------
BoundaryInit ==
  /\ Init
  /\ part \in {"log", "tensors", "capsules", "selectors", "writes", "requests"}
  /\ IF part = "tensors" THEN T!Init
     ELSE tensor = None /\ form = None /\ room = None /\ positions = None /\ steps = None
  /\ IF part = "capsules" THEN C!Init
     ELSE /\ producer = None /\ callback = None /\ cleaned = None /\ ran = None /\ capsule = None
          /\ ctx = None /\ frees = None /\ holder = None /\ uses = None /\ raising = None
  /\ IF part = "selectors" THEN S!Init
     ELSE /\ predicates = None /\ selectors = None /\ composing = None /\ memo = None
          /\ heap = None /\ keepalive = None /\ roots = None
  /\ IF part = "writes" THEN W!Init
     ELSE ask = None /\ writing = None /\ data = None /\ query = None /\ written = None
  /\ IF part = "requests" THEN R!Init
     ELSE /\ entry = None /\ args = None /\ calling = None /\ received = None
          /\ kept = None /\ owned = None /\ event = None

BoundaryNext ==
  /\ UNCHANGED part
  /\ \/ part = "log" /\ Next /\ UNCHANGED others
     \/ part = "tensors" /\ T!Next /\ UNCHANGED <<vars, capsuleVars, selectorVars, writeVars, requestVars>>
     \/ part = "capsules" /\ C!Next /\ UNCHANGED <<vars, tensorVars, selectorVars, writeVars, requestVars>>
     \/ part = "selectors" /\ S!Next /\ UNCHANGED <<vars, tensorVars, capsuleVars, writeVars, requestVars>>
     \/ part = "writes" /\ W!Next /\ UNCHANGED <<vars, tensorVars, capsuleVars, selectorVars, requestVars>>
     \/ part = "requests" /\ R!Next /\ UNCHANGED <<vars, tensorVars, capsuleVars, selectorVars, writeVars>>

BoundarySpec == BoundaryInit /\ [][BoundaryNext]_<<part, vars, others>>

-----------------------------------------------------------------------------
(* Tensors keep speaking of the same bits; views stay inside.              *)
StorageRespected == part = "tensors" => T!StorageRespected

(* A block behind a capsule is freed once, when nobody can look at it.     *)
ReleasedOnce == part = "capsules" => C!ReleasedOnce

(* The native side selects what the description says.                      *)
SelectorsFaithful == part = "selectors" => S!SelectorsFaithful

(* A write that is carried out is the one that was asked for.              *)
WritesAsAsked == part = "writes" => W!WritesAsAsked

(* Integers arrive as they were given, or the call is refused.             *)
ExactOrRefused == part = "requests" => R!ExactOrRefused

(* What the native side may still read is alive.                           *)
InputsLive == part = "requests" => R!InputsLive

=============================================================================
