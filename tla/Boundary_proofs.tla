-------------------------- MODULE Boundary_proofs --------------------------
(***************************************************************************)
(* What crosses between Python and the native side keeps its meaning and   *)
(* its memory, for every value of the constants: trampolines, the tensors  *)
(* and the blocks behind capsules, population descriptions, the data of    *)
(* writes, and the arguments of every call.                                *)
(*                                                                         *)
(* A behaviour of BoundarySpec is one of one part, so the invariant of     *)
(* each part is guarded by its name and proved from the part's own steps.  *)
(*   Capsules: who took a block over is told by the capsule's name, and    *)
(* the binding's tensor is referred to exactly while the binding owns the  *)
(* block; of the producer, that its cleanup is only ever recorded by a run *)
(* of the callback.                                                        *)
(*   Writes: what the checks let through does not wrap, and a mask or map  *)
(* that was accepted is as long as its count needs.                        *)
(*   Selectors: what was built for a predicate is the node of its kind and *)
(* an array kept by the call that holds its names, or copies of the nodes  *)
(* of its children, which were built before; that the trees agree follows  *)
(* by induction on the order in which predicates were made.                *)
(*   Requests: every check of every entry point is no wider than the field *)
(* its value ends in, and what every operation keeps reaches everything    *)
(* that what it was passed points at, directly or not.                     *)
(*   Tensors: by induction over the dimensions, the offset of an element   *)
(* of a compact tensor is its index, whose digits in the mixed radix of    *)
(* the shape the code computes; so where elements are whole bytes, scalars *)
(* lie one after the other, and a fold, an export or a flat view only      *)
(* regroups them.  What is known of the storage's size is never more than  *)
(* there is.                                                               *)
(***************************************************************************)
EXTENDS Boundary, LogCallbacks_proofs, FiniteSetTheorems

-----------------------------------------------------------------------------
(* Capsules                                                                *)

(* The invariant: types, ...                                               *)
CapsuleTypeOK ==
  /\ producer \in {"live", "dropped", "gone"}
  /\ callback \in BOOLEAN /\ cleaned \in BOOLEAN /\ raising \in BOOLEAN
  /\ ran \in Nat
  /\ capsule \in [Capsule -> C!Names \cup {"none", "used", "gone"}]
  /\ ctx \in [Capsule -> BOOLEAN]
  /\ frees \in [Capsule -> Nat]
  /\ holder \in [Capsule -> {"none", "binding", "library"}]
  /\ uses \in [Capsule -> SUBSET C!User]

(* ... one capsule, ...                                                    *)
CapsuleOK(c) ==
  /\ frees[c] = IF capsule[c] = "none" \/ C!InUse(c) THEN 0 ELSE 1
  /\ ctx[c] = TRUE => capsule[c] \in C!Names \cup {"used"}
  /\ holder[c] # "none" => capsule[c] \in {"used", "gone"}
  /\ holder[c] = "binding" <=> uses[c] # {}

(* ... and the producer.                                                   *)
ProducerOK ==
  /\ cleaned = TRUE => ran > 0
  /\ producer = "gone" /\ callback = TRUE => ran > 0

CapsulesOK == CapsuleTypeOK /\ ProducerOK /\ \A c \in Capsule : CapsuleOK(c)

-----------------------------------------------------------------------------
(* What a step does to other capsules than its own: nothing.               *)
Untouched(c) ==
  \A d \in Capsule : d # c =>
    /\ capsule'[d] = capsule[d] /\ ctx'[d] = ctx[d] /\ frees'[d] = frees[d]
    /\ holder'[d] = holder[d] /\ uses'[d] = uses[d]

(* A step about one capsule need only be looked at there.                  *)
LEMMA Elsewhere ==
  ASSUME NEW c \in Capsule, CapsulesOK, Untouched(c), CapsuleOK(c)'
  PROVE  \A d \in Capsule : CapsuleOK(d)'
PROOF
  <1>1. ASSUME NEW d \in Capsule, d # c PROVE CapsuleOK(d)'
    <2>1. CapsuleOK(d)
      BY DEF CapsulesOK
    <2> QED BY <1>1, <2>1 DEF Untouched, CapsuleOK, C!InUse
  <1> QED BY <1>1

StepOf(c) ==
  \/ \E name \in C!Names : C!Export(c, name) \/ C!Produce(c, name)
  \/ C!Import(c) \/ C!Take(c) \/ C!Enqueue(c) \/ C!LibraryFrees(c) \/ C!DestroyCapsule(c)
  \/ \E user \in C!User : C!LetGo(c, user)

ProducerSteps == C!Raise \/ C!Handle \/ C!DropProducer \/ C!FinalizeProducer

(* Steps about one capsule.                                                *)
LEMMA StepKeeps ==
  ASSUME NEW c \in Capsule, CapsulesOK, StepOf(c)
  PROVE  CapsulesOK'
PROOF
  <1>1. /\ capsule \in [Capsule -> C!Names \cup {"none", "used", "gone"}]
        /\ ctx \in [Capsule -> BOOLEAN]
        /\ frees \in [Capsule -> Nat]
        /\ holder \in [Capsule -> {"none", "binding", "library"}]
        /\ uses \in [Capsule -> SUBSET C!User]
    BY DEF CapsulesOK, CapsuleTypeOK
  <1>2. CapsuleOK(c) /\ ProducerOK /\ CapsuleTypeOK
    BY DEF CapsulesOK
  <1>3. ASSUME NEW name \in C!Names, C!Export(c, name) PROVE CapsulesOK'
    <2>1. CapsuleTypeOK' /\ ProducerOK' /\ Untouched(c)
      BY <1>1, <1>2, <1>3 DEF C!Export, CapsuleTypeOK, ProducerOK, Untouched
    <2>2. CapsuleOK(c)'
      BY <1>1, <1>2, <1>3 DEF C!Export, CapsuleOK, C!InUse, C!Names
    <2> QED BY <2>1, <2>2, Elsewhere DEF CapsulesOK
  <1>4. ASSUME NEW name \in C!Names, C!Produce(c, name) PROVE CapsulesOK'
    <2>1. CapsuleTypeOK' /\ ProducerOK' /\ Untouched(c)
      BY <1>1, <1>2, <1>4 DEF C!Produce, CapsuleTypeOK, ProducerOK, Untouched
    <2>2. CapsuleOK(c)'
      BY <1>1, <1>2, <1>4 DEF C!Produce, CapsuleOK, C!InUse, C!Names
    <2> QED BY <2>1, <2>2, Elsewhere DEF CapsulesOK
  <1>5. CASE C!Import(c)
    <2>1. PICK renamed \in BOOLEAN :
            /\ capsule' = [capsule EXCEPT ![c] = IF renamed THEN "used" ELSE @]
            /\ holder' = [holder EXCEPT ![c] = IF renamed THEN "binding" ELSE @]
            /\ uses' = [uses EXCEPT ![c] = IF renamed THEN {"program"} ELSE @]
      BY <1>5 DEF C!Import, C!Owns
    <2>2. /\ capsule[c] = "dltensor" /\ holder[c] = "none"
          /\ UNCHANGED <<producer, callback, cleaned, ran, ctx, frees, raising>>
      BY <1>5 DEF C!Import
    <2>3. CapsuleTypeOK' /\ ProducerOK' /\ Untouched(c)
      BY <1>1, <1>2, <2>1, <2>2 DEF CapsuleTypeOK, ProducerOK, Untouched, C!Names, C!User
    <2>4. CapsuleOK(c)'
      BY <1>1, <1>2, <2>1, <2>2 DEF CapsuleOK, C!InUse, C!Names
    <2> QED BY <2>3, <2>4, Elsewhere DEF CapsulesOK
  <1>6. CASE C!Take(c)
    <2>1. CapsuleTypeOK' /\ ProducerOK' /\ Untouched(c)
      BY <1>1, <1>2, <1>6 DEF C!Take, CapsuleTypeOK, ProducerOK, Untouched
    <2>2. CapsuleOK(c)'
      BY <1>1, <1>2, <1>6 DEF C!Take, CapsuleOK, C!InUse, C!Names
    <2> QED BY <2>1, <2>2, Elsewhere DEF CapsulesOK
  <1>7. CASE C!Enqueue(c)
    <2>1. CapsuleTypeOK' /\ ProducerOK' /\ Untouched(c)
      BY <1>1, <1>2, <1>7 DEF C!Enqueue, CapsuleTypeOK, ProducerOK, Untouched
    <2>2. CapsuleOK(c)'
      BY <1>1, <1>2, <1>7 DEF C!Enqueue, CapsuleOK, C!InUse, C!Names, C!User
    <2> QED BY <2>1, <2>2, Elsewhere DEF CapsulesOK
  <1>8. CASE C!LibraryFrees(c)
    <2>1. CapsuleTypeOK' /\ ProducerOK' /\ Untouched(c)
      BY <1>1, <1>2, <1>8 DEF C!LibraryFrees, CapsuleTypeOK, ProducerOK, Untouched
    <2>2. CapsuleOK(c)'
      BY <1>1, <1>2, <1>8 DEF C!LibraryFrees, CapsuleOK, C!InUse, C!Names
    <2> QED BY <2>1, <2>2, Elsewhere DEF CapsulesOK
  <1>9. CASE C!DestroyCapsule(c)
    <2>1. /\ capsule[c] \in C!Names \cup {"used"}
          /\ capsule' = [capsule EXCEPT ![c] = "gone"]
          /\ ctx' = [ctx EXCEPT ![c] = FALSE]
          /\ frees' = [frees EXCEPT ![c] = IF capsule[c] \in C!Names THEN @ + 1 ELSE @]
          /\ UNCHANGED <<producer, callback, holder, uses>>
          /\ raising' \in BOOLEAN
      BY <1>1, <1>9 DEF C!DestroyCapsule, C!CleansUp
    <2>2. ran' \in Nat /\ cleaned' \in BOOLEAN /\ ProducerOK'
      <3>1. CASE c \in Own /\ callback
        BY <1>2, <1>9, <3>1 DEF C!DestroyCapsule, C!CleansUp, ProducerOK, CapsuleTypeOK
      <3>2. CASE ~(c \in Own /\ callback)
        BY <1>2, <1>9, <3>2 DEF C!DestroyCapsule, C!CleansUp, ProducerOK, CapsuleTypeOK
      <3> QED BY <3>1, <3>2
    <2>3. CapsuleTypeOK' /\ Untouched(c)
      BY <1>1, <1>2, <2>1, <2>2 DEF CapsuleTypeOK, Untouched
    <2>4. CapsuleOK(c)'
      BY <1>1, <1>2, <2>1 DEF CapsuleOK, C!InUse, C!Names
    <2> QED BY <2>2, <2>3, <2>4, Elsewhere DEF CapsulesOK
  <1>10. ASSUME NEW user \in C!User, C!LetGo(c, user) PROVE CapsulesOK'
    <2>1. /\ user \in uses[c] /\ uses' = [uses EXCEPT ![c] = @ \ {user}]
          /\ UNCHANGED <<producer, callback, cleaned, ran, capsule, ctx, raising>>
      BY <1>10 DEF C!LetGo
    <2>2. CASE uses[c] = {user}
      <3>1. /\ frees' = [frees EXCEPT ![c] = @ + 1] /\ holder' = [holder EXCEPT ![c] = "none"]
            /\ uses'[c] = {}
        BY <1>1, <1>10, <2>1, <2>2 DEF C!LetGo
      <3>2. CapsuleTypeOK' /\ ProducerOK' /\ Untouched(c)
        BY <1>1, <1>2, <2>1, <3>1 DEF CapsuleTypeOK, ProducerOK, Untouched
      <3>3. CapsuleOK(c)'
        BY <1>1, <1>2, <2>1, <2>2, <3>1 DEF CapsuleOK, C!InUse, C!Names
      <3> QED BY <3>2, <3>3, Elsewhere DEF CapsulesOK
    <2>3. CASE uses[c] # {user}
      <3>1. UNCHANGED <<frees, holder>> /\ uses'[c] # {} /\ uses[c] # {}
        BY <1>1, <1>10, <2>1, <2>3 DEF C!LetGo
      <3>2. CapsuleTypeOK' /\ ProducerOK' /\ Untouched(c)
        BY <1>1, <1>2, <2>1, <3>1 DEF CapsuleTypeOK, ProducerOK, Untouched
      <3>3. CapsuleOK(c)'
        BY <1>1, <1>2, <2>1, <3>1 DEF CapsuleOK, C!InUse, C!Names
      <3> QED BY <3>2, <3>3, Elsewhere DEF CapsulesOK
    <2> QED BY <2>2, <2>3
  <1> QED
    BY <1>3, <1>4, <1>5, <1>6, <1>7, <1>8, <1>9, <1>10 DEF StepOf

(* Steps of the producer, and of exceptions, touch no capsule.             *)
LEMMA ProducerStepsKeep == CapsulesOK /\ (ProducerSteps \/ UNCHANGED capsuleVars) => CapsulesOK'
PROOF
  <1> SUFFICES ASSUME CapsulesOK, ProducerSteps \/ UNCHANGED capsuleVars PROVE CapsulesOK'
    OBVIOUS
  <1>1. UNCHANGED <<callback, capsule, ctx, frees, holder, uses>>
    BY DEF ProducerSteps, C!Raise, C!Handle, C!DropProducer, C!FinalizeProducer, capsuleVars
  <1>2. \A c \in Capsule : CapsuleOK(c)'
    <2> SUFFICES ASSUME NEW c \in Capsule PROVE CapsuleOK(c)'
      OBVIOUS
    <2>1. CapsuleOK(c)
      BY DEF CapsulesOK
    <2> QED BY <1>1, <2>1 DEF CapsuleOK, C!InUse
  <1>3. CASE C!FinalizeProducer
    <2>1. CapsuleTypeOK' /\ ProducerOK'
      <3>1. CASE callback /\ ~cleaned
        BY <1>1, <1>3, <3>1 DEF C!FinalizeProducer, CapsulesOK, CapsuleTypeOK, ProducerOK
      <3>2. CASE ~(callback /\ ~cleaned)
        BY <1>1, <1>3, <3>2 DEF C!FinalizeProducer, CapsulesOK, CapsuleTypeOK, ProducerOK
      <3> QED BY <3>1, <3>2
    <2> QED BY <1>2, <2>1 DEF CapsulesOK
  <1>4. CASE C!Raise \/ C!Handle \/ C!DropProducer \/ UNCHANGED capsuleVars
    <2>1. CapsuleTypeOK' /\ ProducerOK'
      BY <1>1, <1>4 DEF C!Raise, C!Handle, C!DropProducer, capsuleVars, CapsulesOK, CapsuleTypeOK, ProducerOK
    <2> QED BY <1>2, <2>1 DEF CapsulesOK
  <1> QED BY <1>3, <1>4 DEF ProducerSteps


(* The invariant of capsules holds at the start ...                        *)
LEMMA CapsuleStarts == C!Init => CapsulesOK
PROOF
  <1> SUFFICES ASSUME C!Init PROVE CapsulesOK
    OBVIOUS
  <1>1. uses \in [Capsule -> SUBSET C!User]
    BY DEF C!Init
  <1>2. CapsuleTypeOK /\ ProducerOK
    BY <1>1 DEF C!Init, CapsuleTypeOK, ProducerOK
  <1>3. ASSUME NEW c \in Capsule PROVE CapsuleOK(c)
    BY DEF C!Init, CapsuleOK, C!InUse, C!Names
  <1> QED BY <1>2, <1>3 DEF CapsulesOK

(* ... after every step ...                                                *)
LEMMA CapsuleStep == CapsulesOK /\ [C!Next]_capsuleVars => CapsulesOK'
PROOF
  BY StepKeeps, ProducerStepsKeep DEF C!Next, StepOf, ProducerSteps

(* ... and says what is wanted.                                            *)
LEMMA CapsuleRight == CapsulesOK => C!ReleasedOnce
PROOF
  BY DEF CapsulesOK, CapsuleTypeOK, CapsuleOK, ProducerOK, C!ReleasedOnce

-----------------------------------------------------------------------------
(* Writes                                                                  *)

(* What can be asked for.                                                  *)
Asks == [count : Counts, map : Maps, mask : Masks, rows : Tensors]

(* The invariant: what was accepted is what the native side has.           *)
WriteOK ==
  /\ ask \in Asks
  /\ writing \in {"asked", "refused", "passed", "rejected", "done"}
  /\ writing \in {"passed", "done"} => W!Accepted(ask) /\ data = W!Marshalled(ask)
  /\ writing = "done" =>
       query \in Prims /\ written = [i \in W!Selected(data, query) |-> W!Row(data, i)]

(* A quotient is below what a product is divided by the divisor.           *)
LEMMA QuotientBelow ==
  ASSUME NEW x \in Nat, NEW n \in Nat \ {0}, NEW m \in Nat, x < n * m
  PROVE  x \div n < m /\ x \div n \in Nat
PROOF OBVIOUS

(* A mask of enough bits has as many words as are read of it.              *)
LEMMA WordsNeeded ==
  ASSUME NEW count \in Nat, NEW words \in Nat, NEW bits \in Nat \ {0}, count <= words * bits
  PROVE  (count + bits - 1) \div bits <= words
PROOF
  <1>1. bits * (words + 1) = words * bits + bits /\ count + bits - 1 \in Nat
    OBVIOUS
  <1>2. count + bits - 1 < bits * (words + 1)
    BY <1>1
  <1> QED BY <1>1, <1>2, QuotientBelow

(* What fits a field does not wrap.                                        *)
LEMMA Unwrapped ==
  ASSUME NEW n \in Int, NEW v \in 0 .. (n - 1)
  PROVE  v % n = v
PROOF OBVIOUS

(* An accepted count, map and mask reach the native side as they are.      *)
LEMMA CountGiven ==
  ASSUME NEW a \in Asks, W!Accepted(a)
  PROVE  W!Marshalled(a) =
           [count |-> IF a.map # None THEN W!Resolved(a) ELSE IF a.count = None THEN 0 ELSE a.count,
            map |-> a.map, mask |-> a.mask, rows |-> a.rows]
PROOF
  <1>1. /\ a.count \in Int \cup {None} /\ a.map \in Seq(Int) \cup {None} /\ a.mask \in Seq(Int) \cup {None}
        /\ a.map # None => Len(a.map) < Modulus
        /\ Modulus \in Nat \ {0} /\ 2 ^ WordBits \in Nat
    BY WritesAssumption DEF Asks
  <1>3. a.map # None => [i \in DOMAIN a.map |-> a.map[i] % Modulus] = a.map
    <2> SUFFICES ASSUME a.map # None PROVE \A i \in DOMAIN a.map : a.map[i] % Modulus = a.map[i]
      BY <1>1
    <2> TAKE i \in DOMAIN a.map
    <2>1. a.map[i] \in 0 .. (Modulus - 1)
      BY DEF W!Accepted, W!CheckedMap, W!Fits
    <2>2. Modulus \in Int
      BY <1>1
    <2> QED BY <2>1, <2>2, Unwrapped
  <1>4. a.mask # None => [i \in DOMAIN a.mask |-> a.mask[i] % 2 ^ WordBits] = a.mask
    <2> SUFFICES ASSUME a.mask # None PROVE \A i \in DOMAIN a.mask : a.mask[i] % 2 ^ WordBits = a.mask[i]
      BY <1>1
    <2> TAKE i \in DOMAIN a.mask
    <2>1. a.mask[i] \in 0 .. (2 ^ WordBits - 1)
      BY DEF W!Accepted, W!CheckedMask, W!Fits
    <2>2. 2 ^ WordBits \in Int
      BY <1>1
    <2> QED BY <2>1, <2>2, Unwrapped
  <1> DEFINE n == IF a.map # None THEN W!Resolved(a) ELSE IF a.count = None THEN 0 ELSE a.count
  <1>5. n \in 0 .. (Modulus - 1)
    <2>1. CASE a.map # None
      BY <1>1, <2>1 DEF W!Accepted, W!Resolved
    <2>2. CASE a.map = None /\ a.count = None
      BY <1>1, <2>2
    <2>3. CASE a.map = None /\ a.count # None
      BY <1>1, <2>3 DEF W!Accepted, W!CheckedCount, W!Fits
    <2> QED BY <2>1, <2>2, <2>3
  <1>6. n % Modulus = n
    <2> HIDE DEF n
    <2> QED BY <1>1, <1>5, Unwrapped
  <1> QED BY <1>3, <1>4, <1>6 DEF W!Marshalled

(* Of an accepted map and mask nothing past the end is read.               *)
LEMMA WriteStays ==
  ASSUME NEW a \in Asks, W!Accepted(a)
  PROVE  W!InBounds(W!Marshalled(a))
PROOF
  <1> DEFINE d == W!Marshalled(a)
  <1>1. /\ a.map \in Seq(Int) \cup {None} /\ a.mask \in Seq(Int) \cup {None}
        /\ a.count \in Int \cup {None} /\ WordBits \in Nat \ {0} /\ None \notin Int
    BY WritesAssumption DEF Asks
  <1>2. /\ d.map = a.map /\ d.mask = a.mask
        /\ d.count = IF a.map # None THEN W!Resolved(a) ELSE IF a.count = None THEN 0 ELSE a.count
    BY CountGiven
  <1>3. a.map # None => W!MapReads(d) <= Len(d.map)
    BY <1>1, <1>2 DEF W!Accepted, W!MapReads, W!Resolved
  <1>4. a.mask # None => W!MaskReads(d) <= Len(d.mask)
    <2> SUFFICES ASSUME a.mask # None PROVE W!MaskReads(d) <= Len(d.mask)
      OBVIOUS
    <2>1. a.map = None /\ a.count \in 1 .. (Len(a.mask) * WordBits)
      BY DEF W!Accepted
    <2>2. Len(a.mask) \in Nat
      BY <1>1
    <2>3. d.count = a.count /\ a.count \in Nat /\ a.count <= Len(a.mask) * WordBits
      BY <1>1, <1>2, <2>1, <2>2
    <2> HIDE DEF d
    <2>4. (d.count + WordBits - 1) \div WordBits <= Len(a.mask)
      BY <1>1, <2>2, <2>3, WordsNeeded
    <2> QED BY <1>2, <2>4 DEF W!MaskReads
  <1> QED BY <1>2, <1>3, <1>4 DEF W!InBounds

(* What is carried out is what was asked for.                              *)
LEMMA WriteMeant ==
  ASSUME WriteOK, writing = "done"
  PROVE  written = W!Asked(ask)
PROOF
  <1> DEFINE a == ask  d == W!Marshalled(ask)
  <1>1. /\ a.map \in Seq(Int) \cup {None} /\ a.mask \in Seq(Int) \cup {None}
        /\ a.count \in Int \cup {None} /\ None \notin Int
        /\ query \in Nat
    BY WritesAssumption DEF WriteOK, Asks
  <1>2. W!Accepted(ask) /\ data = d /\ written = [i \in W!Selected(d, query) |-> W!Row(d, i)]
    BY DEF WriteOK
  <1>3. /\ d.map = a.map /\ d.mask = a.mask
        /\ d.count = IF a.map # None THEN W!Resolved(a) ELSE IF a.count = None THEN 0 ELSE a.count
    BY <1>2, CountGiven DEF WriteOK
  <1> HIDE DEF d
  <1> DEFINE S0 == {i \in W!Addressed(a) : a.mask = None \/ W!Bit(a.mask, i)}
  <1>4. /\ W!Selected(d, query) = S0
        /\ \A i \in S0 : W!Row(d, i) = IF a.map = None THEN i ELSE a.map[i + 1]
    <2>1. CASE a.map # None
      <3>1. a.mask = None /\ d.count = W!Resolved(a) /\ W!Resolved(a) \in 1 .. Len(a.map)
        BY <1>2, <1>3, <2>1 DEF W!Accepted
      <3>2. Len(a.map) \in Nat
        BY <1>1, <2>1
      <3>3. W!Addressed(a) = 0 .. (W!Resolved(a) - 1)
        <4>1. CASE a.count = None
          BY <2>1, <4>1 DEF W!Addressed, W!Resolved
        <4>2. CASE a.count # None
          BY <4>2 DEF W!Addressed, W!Resolved
        <4> QED BY <4>1, <4>2
      <3> QED BY <1>3, <2>1, <3>1, <3>2, <3>3 DEF W!Selected, W!Elements, W!Row
    <2>2. CASE a.map = None /\ a.mask # None
      <3>1. Len(a.mask) * WordBits \in Int
        BY <1>1, <2>2, WritesAssumption
      <3>2. a.count # None /\ d.count = a.count /\ a.count # 0
        BY <1>1, <1>2, <1>3, <2>2, <3>1 DEF W!Accepted
      <3> QED BY <1>3, <2>2, <3>2 DEF W!Selected, W!Elements, W!Row, W!Addressed
    <2>3. CASE a.map = None /\ a.mask = None
      <3>1. a.count # 0
        BY <1>2, <2>3 DEF W!Accepted
      <3> QED BY <1>1, <1>3, <2>3, <3>1 DEF W!Selected, W!Elements, W!Row, W!Addressed
    <2> QED BY <2>1, <2>2, <2>3
  <1> QED BY <1>2, <1>4 DEF W!Asked

(* The invariant of writes holds at the start ...                          *)
LEMMA WriteStarts == W!Init => WriteOK
PROOF BY DEF W!Init, WriteOK, Asks

(* ... after every step ...                                                *)
LEMMA WriteStep == WriteOK /\ [W!Next]_writeVars => WriteOK'
PROOF
  <1> SUFFICES ASSUME WriteOK, [W!Next]_writeVars PROVE WriteOK'
    OBVIOUS
  <1>1. CASE W!Build
    BY <1>1 DEF W!Build, WriteOK, W!Accepted, W!Marshalled, W!Resolved, W!CheckedCount, W!CheckedMap, W!CheckedMask
  <1>2. CASE W!Execute
    BY <1>2 DEF W!Execute, WriteOK
  <1>3. CASE UNCHANGED writeVars
    BY <1>3 DEF writeVars, WriteOK
  <1> QED BY <1>1, <1>2, <1>3 DEF W!Next

(* ... and says what is wanted.                                            *)
LEMMA WriteRight == WriteOK => W!WritesAsAsked
PROOF
  <1> SUFFICES ASSUME WriteOK PROVE W!WritesAsAsked
    OBVIOUS
  <1>1. writing = "passed" => W!InBounds(data)
    BY WriteStays DEF WriteOK
  <1> QED BY <1>1, WriteMeant DEF W!WritesAsAsked

-----------------------------------------------------------------------------
(* Selectors                                                               *)

(* Every set of naturals that is not empty has a least element ...         *)
LEMMA LeastNat ==
  ASSUME NEW B \in SUBSET Nat, B # {}
  PROVE  \E x \in B : \A y \in B : x <= y
PROOF
  <1> DEFINE T0 == {0 .. (n - 1) : n \in B}
  <1>1. T0 # {} /\ T0 \subseteq FiniteSubsetsOf(Nat)
    <2>1. \A n \in B : 0 .. (n - 1) \subseteq Nat /\ IsFiniteSet(0 .. (n - 1))
      BY FS_Interval
    <2> QED BY <2>1 DEF FiniteSubsetsOf
  <1>2. PICK s \in T0 : \A r \in T0 : ~(<<r, s>> \in StrictSubsetOrdering(Nat))
    BY <1>1, FS_StrictSubsetOrderingWellFounded, WFMin
  <1>3. PICK x \in B : s = 0 .. (x - 1)
    OBVIOUS
  <1>4. ASSUME NEW y \in B, y < x PROVE FALSE
    <2>1. 0 .. (y - 1) \subseteq 0 .. (x - 1) /\ y \in 0 .. (x - 1) /\ y \notin 0 .. (y - 1)
      BY <1>4
    <2>2. 0 .. (y - 1) \in T0
      OBVIOUS
    <2>3. 0 .. (y - 1) \in SUBSET Nat /\ 0 .. (x - 1) \in SUBSET Nat
      OBVIOUS
    <2> QED BY <1>2, <1>3, <2>1, <2>2, <2>3 DEF StrictSubsetOrdering
  <1> QED BY <1>4

(* ... so what holds of 0 and, with a number, of the next, holds of all.   *)
LEMMA Induction ==
  ASSUME NEW N, 0 \in N, \A n \in Nat : n \in N => n + 1 \in N
  PROVE  Nat \subseteq N
PROOF
  <1> DEFINE B == Nat \ N
  <1>1. SUFFICES ASSUME B # {} PROVE FALSE
    OBVIOUS
  <1>2. PICK x \in B : \A y \in B : x <= y
    BY <1>1, LeastNat
  <1>3. x # 0 /\ x - 1 \in Nat /\ x - 1 \notin B
    BY <1>2
  <1> QED BY <1>3

-----------------------------------------------------------------------------
(* Predicates and selectors as they are kept.                              *)
PredicateRecords ==
  [type : S!Types, kind : PrimKinds \cup PropertyKinds, strings : Seq(STRING),
   subpredicates : Seq(Nat), nested : Nat \cup {None}]

SelectorRecords == [prim : Nat \cup {None}, property : Nat \cup {None}, paths : Seq(STRING)]

(* A predicate is made of earlier ones.                                    *)
PredicateOK(i) ==
  /\ S!Children(i) \subseteq 1 .. (i - 1)
  /\ S!WellFormed(predicates[i])

(* A selector names predicates of the right type.                          *)
SelectorOK(k) ==
  /\ selectors[k].prim \in {None} \cup S!OfType("prim")
  /\ selectors[k].property \in {None} \cup S!OfType("property")

(* Where the array of a predicate is.                                      *)
Owned(i) == <<S!SlotOf(predicates[i]), i>>

(* What was built for a predicate.                                         *)
NodeOK(i) ==
  /\ i \in DOMAIN predicates /\ S!Children(i) \subseteq DOMAIN memo
  /\ memo[i] = S!Node(predicates[i].kind, S!Address(S!SlotOf(predicates[i]), i, S!Content(i)), Len(S!Content(i)))
  /\ S!Content(i) # <<>> => /\ Owned(i) \in keepalive /\ Owned(i) \in DOMAIN heap
                            /\ heap[Owned(i)] = S!Content(i)

(* Where the arrays of paths are.                                          *)
PathsAt == {<<"paths", k>> : k \in DOMAIN selectors}

(* What was handed over.                                                   *)
PassedOK ==
  /\ \A i \in S!Wanted : i \in DOMAIN memo
  /\ roots = [k \in DOMAIN selectors |->
               [prim |-> S!CNode(selectors[k].prim), property |-> S!CNode(selectors[k].property),
                to |-> S!Address("paths", k, selectors[k].paths), count |-> Len(selectors[k].paths)]]
  /\ \A k \in DOMAIN selectors : selectors[k].paths # <<>> =>
       <<"paths", k>> \in keepalive /\ heap[<<"paths", k>>] = selectors[k].paths

(* The invariant.                                                          *)
SelectorsOK ==
  /\ predicates \in Seq(PredicateRecords) /\ selectors \in Seq(SelectorRecords)
  /\ \A i \in DOMAIN predicates : PredicateOK(i)
  /\ \A k \in DOMAIN selectors : SelectorOK(k)
  /\ composing = "composing" => DOMAIN memo = {} /\ DOMAIN heap = {}
  /\ DOMAIN memo \subseteq S!Wanted
  /\ \A i \in DOMAIN memo : NodeOK(i)
  /\ DOMAIN heap \subseteq {Owned(i) : i \in DOMAIN memo} \cup (IF composing = "passed" THEN PathsAt ELSE {})
  /\ composing = "passed" => PassedOK

-----------------------------------------------------------------------------
(* The slot that is filled is the slot of the kind.                        *)
LEMMA SlotIsKinds ==
  ASSUME NEW p, S!SlotMatches(p)
  PROVE  /\ S!SlotOf(p) = S!Slot(p.type, p.kind)
         /\ S!SlotOf(p) \in {"empty", "strings", "subpredicates", "nested"}
         /\ p.strings # <<>> <=> S!SlotOf(p) = "strings"
         /\ p.subpredicates # <<>> <=> S!SlotOf(p) = "subpredicates"
         /\ p.nested # None <=> S!SlotOf(p) = "nested"
PROOF
  <1>1. S!Filled(p) = {S!Slot(p.type, p.kind)} \ {"empty"}
    BY DEF S!SlotMatches
  <1>2. S!Filled(p) \subseteq {"strings", "subpredicates", "nested"}
    BY DEF S!Filled
  <1>3. /\ "strings" \in S!Filled(p) <=> p.strings # <<>>
        /\ "subpredicates" \in S!Filled(p) <=> p.subpredicates # <<>>
        /\ "nested" \in S!Filled(p) <=> p.nested # None
    BY DEF S!Filled
  <1>4. CASE S!Slot(p.type, p.kind) = "empty"
    BY <1>1, <1>3, <1>4 DEF S!SlotOf
  <1>5. CASE S!Slot(p.type, p.kind) # "empty"
    <2>1. S!Filled(p) = {S!Slot(p.type, p.kind)}
      BY <1>1, <1>5
    <2>2. (CHOOSE slot \in S!Filled(p) : TRUE) = S!Slot(p.type, p.kind)
      BY <2>1
    <2>3. S!SlotOf(p) = S!Slot(p.type, p.kind)
      BY <2>1, <2>2 DEF S!SlotOf
    <2> QED BY <1>2, <1>3, <2>1, <2>3
  <1> QED BY <1>4, <1>5

(* The invariant of selectors holds at the start.                          *)
LEMMA SelectorStarts == S!Init => SelectorsOK
PROOF
  BY DEF S!Init, SelectorsOK

(* What a selector names is wanted ...                                     *)
LEMMA NamedAreWanted ==
  ASSUME SelectorsOK, NEW k \in DOMAIN selectors
  PROVE  /\ selectors[k].prim # None => selectors[k].prim \in S!Wanted
         /\ selectors[k].property # None => selectors[k].property \in S!Wanted
PROOF
  <1>1. SelectorOK(k)
    BY DEF SelectorsOK
  <1> DEFINE named == {selectors[m].prim : m \in DOMAIN selectors} \cup {selectors[m].property : m \in DOMAIN selectors}
  <1>2. selectors[k].prim \in named /\ selectors[k].property \in named
    OBVIOUS
  <1>3. \A i \in DOMAIN predicates : i \in named \ {None} => i \in S!Wanted
    BY DEF S!Wanted
  <1> HIDE DEF named
  <1> QED BY <1>1, <1>2, <1>3 DEF SelectorOK, S!OfType

(* ... and what is wanted is a predicate.                                  *)
LEMMA WantedAreBuilt == S!Wanted \subseteq DOMAIN predicates
PROOF
  BY DEF S!Wanted

(* Adding a predicate ...                                                  *)
LEMMA ConstructKeeps ==
  ASSUME SelectorsOK, S!Construct
  PROVE  SelectorsOK'
PROOF
  <1>0. PICK n \in Nat : n = Len(predicates)
    BY DEF SelectorsOK
  <1>1. /\ predicates \in Seq(PredicateRecords) /\ DOMAIN predicates = 1 .. n
        /\ DOMAIN memo = {} /\ DOMAIN heap = {} /\ composing = "composing"
    BY <1>0 DEF SelectorsOK, S!Construct
  <1>2. PICK p \in S!Offered : S!WellFormed(p) /\ predicates' = Append(predicates, p)
    BY DEF S!Construct
  <1>3. UNCHANGED <<selectors, composing, memo, heap, keepalive, roots>>
    BY DEF S!Construct
  <1>4. /\ p \in PredicateRecords
        /\ p.subpredicates \in Seq(1 .. n) /\ p.nested \in {None} \cup 1 .. n
    <2> DEFINE subs == {<<>>} \cup {<<i>> : i \in 1 .. n} \cup {<<i, j>> : i, j \in 1 .. n}
    <2>1. subs \subseteq Seq(1 .. n) /\ subs \subseteq Seq(Nat)
      <3>1. ASSUME NEW i \in 1 .. n, NEW j \in 1 .. n
            PROVE  /\ <<i>> \in Seq(1 .. n) /\ <<i>> \in Seq(Nat)
                   /\ <<i, j>> \in Seq(1 .. n) /\ <<i, j>> \in Seq(Nat)
        OBVIOUS
      <3>2. ASSUME NEW x \in subs PROVE x \in Seq(1 .. n) /\ x \in Seq(Nat)
        <4>1. x = <<>> \/ \E i, j \in 1 .. n : x = <<i>> \/ x = <<i, j>>
          OBVIOUS
        <4>2. <<>> \in Seq(1 .. n) /\ <<>> \in Seq(Nat)
          OBVIOUS
        <4>3. ASSUME NEW i \in 1 .. n, NEW j \in 1 .. n, x = <<i>> \/ x = <<i, j>>
              PROVE  x \in Seq(1 .. n) /\ x \in Seq(Nat)
          <5>1. CASE x = <<i>>
            BY <3>1, <5>1
          <5>2. CASE x = <<i, j>>
            BY <3>1, <5>2
          <5> QED BY <4>3, <5>1, <5>2
        <4> HIDE DEF subs
        <4> QED BY <4>1, <4>2, <4>3
      <3> QED BY <3>2
    <2>2. p \in [type : S!Types, kind : PrimKinds \cup PropertyKinds, strings : Strings,
                 subpredicates : subs, nested : {None} \cup 1 .. n]
      BY <1>1 DEF S!Offered
    <2> HIDE DEF subs
    <2> QED BY <1>1, <2>1, <2>2, SelectorsAssumption DEF PredicateRecords
  <1>5. /\ predicates' \in Seq(PredicateRecords) /\ Len(predicates') = n + 1
        /\ predicates'[n + 1] = p /\ \A i \in 1 .. n : predicates'[i] = predicates[i]
    BY <1>0, <1>1, <1>2, <1>4
  <1>6. ASSUME NEW i \in 1 .. n PROVE PredicateOK(i)'
    <2>1. PredicateOK(i) /\ predicates'[i] = predicates[i]
      BY <1>1, <1>5 DEF SelectorsOK
    <2>2. S!Children(i)' = S!Children(i) /\ S!Children(i) \subseteq 1 .. (i - 1)
      BY <2>1 DEF S!Children, PredicateOK
    <2>3. S!WellFormed(predicates[i])'
      <3> DEFINE q == predicates[i]
      <3>1. \A j \in S!Children(i) : predicates'[j] = predicates[j]
        BY <1>5, <2>2
      <3>2. /\ \A k \in DOMAIN q.subpredicates : q.subpredicates[k] \in S!Children(i)
            /\ q.nested # None => q.nested \in S!Children(i)
        BY DEF S!Children
      <3>3. S!WellFormed(q)
        BY <2>1 DEF PredicateOK
      <3>4. S!SlotMatches(predicates[i])'
        BY <2>1, <3>3 DEF S!WellFormed, S!SlotMatches, S!Filled
      <3> QED BY <2>1, <3>1, <3>2, <3>3, <3>4 DEF S!WellFormed
    <2> QED BY <2>2, <2>3 DEF PredicateOK
  <1>7. PredicateOK(n + 1)'
    <2>1. S!Children(n + 1)' \subseteq 1 .. n
      BY <1>4, <1>5 DEF S!Children
    <2>2. /\ \A k \in DOMAIN p.subpredicates : predicates'[p.subpredicates[k]] = predicates[p.subpredicates[k]]
          /\ p.nested # None => predicates'[p.nested] = predicates[p.nested]
      BY <1>4, <1>5
    <2>3. S!SlotMatches(predicates[n + 1])'
      BY <1>2, <1>5, ZenonT(40) DEF S!WellFormed, S!SlotMatches, S!Filled
    <2>4. S!WellFormed(predicates[n + 1])'
      <3>1. /\ \A k \in DOMAIN p.strings : p.strings[k] # ""
            /\ \A k \in DOMAIN p.subpredicates : predicates'[p.subpredicates[k]].type = p.type
            /\ p.nested # None => p.type = "prim" /\ predicates'[p.nested].type = "property"
        BY <1>2, <2>2 DEF S!WellFormed
      <3> QED BY <1>5, <2>3, <3>1 DEF S!WellFormed
    <2> QED BY <1>1, <2>1, <2>4 DEF PredicateOK
  <1>8. ASSUME NEW k \in DOMAIN selectors PROVE SelectorOK(k)'
    <2>1. SelectorOK(k)
      BY DEF SelectorsOK
    <2> QED BY <1>1, <1>3, <1>5, <2>1 DEF SelectorOK, S!OfType
  <1>9. /\ \A i \in DOMAIN predicates' : PredicateOK(i)'
        /\ \A k \in DOMAIN selectors' : SelectorOK(k)'
        /\ selectors' \in Seq(SelectorRecords)
    BY <1>1, <1>3, <1>5, <1>6, <1>7, <1>8 DEF SelectorsOK
  <1> QED
    BY <1>1, <1>3, <1>5, <1>9 DEF SelectorsOK

(* ... or a selector disturbs nothing, nothing being built yet.            *)
LEMMA SelectKeeps ==
  ASSUME SelectorsOK, S!Select \/ S!BeginBuild
  PROVE  SelectorsOK'
PROOF
  <1>1. UNCHANGED <<predicates, memo, heap, keepalive, roots>> /\ DOMAIN memo = {} /\ DOMAIN heap = {}
    BY DEF S!Select, S!BeginBuild, SelectorsOK
  <1>2. ASSUME NEW i \in DOMAIN predicates PROVE PredicateOK(i)'
    <2>1. PredicateOK(i)
      BY DEF SelectorsOK
    <2> QED BY <1>1, <2>1, ZenonT(40) DEF PredicateOK, S!Children, S!WellFormed, S!SlotMatches, S!Filled
  <1>3. CASE S!Select
    <2>1. PICK prim \in {None} \cup S!OfType("prim"), property \in {None} \cup S!OfType("property"),
               paths \in Strings :
            selectors' = Append(selectors, [prim |-> prim, property |-> property, paths |-> paths])
      BY <1>3 DEF S!Select
    <2> DEFINE selector == [prim |-> prim, property |-> property, paths |-> paths]
    <2>2. selectors \in Seq(SelectorRecords) /\ selector \in SelectorRecords
      BY SelectorsAssumption DEF SelectorsOK, SelectorRecords, S!OfType
    <2>3. /\ selectors' \in Seq(SelectorRecords)
          /\ \A k \in DOMAIN selectors' : selectors'[k] = selector \/ (k \in DOMAIN selectors /\ selectors'[k] = selectors[k])
      BY <2>1, <2>2
    <2>4. S!OfType("prim")' = S!OfType("prim") /\ S!OfType("property")' = S!OfType("property")
      BY <1>1 DEF S!OfType
    <2>5. \A k \in DOMAIN selectors' : SelectorOK(k)'
      BY <2>3, <2>4 DEF SelectorsOK, SelectorOK
    <2>6. composing' = composing /\ composing = "composing"
      BY <1>3 DEF S!Select
    <2> QED BY <1>1, <1>2, <2>3, <2>5, <2>6 DEF SelectorsOK
  <1>4. CASE S!BeginBuild
    <2>1. composing' = "building" /\ UNCHANGED selectors
      BY <1>4 DEF S!BeginBuild
    <2>2. \A k \in DOMAIN selectors : SelectorOK(k)'
      BY <1>1, <2>1 DEF SelectorsOK, SelectorOK, S!OfType
    <2> QED BY <1>1, <1>2, <2>1, <2>2 DEF SelectorsOK
  <1> QED BY <1>3, <1>4

(* What is built stays as it is while other predicates are ...             *)
LEMMA NodeStays ==
  ASSUME SelectorsOK, UNCHANGED predicates, NEW i \in DOMAIN memo,
         DOMAIN memo \subseteq DOMAIN memo', \A j \in DOMAIN memo : memo'[j] = memo[j],
         keepalive \subseteq keepalive', DOMAIN heap \subseteq DOMAIN heap',
         Owned(i) \in DOMAIN heap => heap'[Owned(i)] = heap[Owned(i)]
  PROVE  NodeOK(i)' /\ Owned(i)' = Owned(i)
PROOF
  <1>1. NodeOK(i) /\ PredicateOK(i)
    BY DEF SelectorsOK, NodeOK
  <1> DEFINE p == predicates[i]
  <1>2. S!SlotOf(predicates[i])' = S!SlotOf(predicates[i])
    BY DEF S!SlotOf, S!Filled
  <1>3. S!Children(i)' = S!Children(i) /\ S!Children(i) \subseteq DOMAIN memo
    BY <1>1 DEF S!Children, NodeOK
  <1>4. S!Content(i)' = S!Content(i)
    <2>1. \A k \in DOMAIN p.subpredicates : p.subpredicates[k] \in DOMAIN memo
      BY <1>3 DEF S!Children
    <2>2. S!SlotOf(p) = "nested" => p.nested # None
      BY <1>1, SlotIsKinds DEF PredicateOK, S!WellFormed
    <2>3. p.nested # None => p.nested \in DOMAIN memo
      BY <1>3 DEF S!Children
    <2>4. \A k \in DOMAIN p.subpredicates : S!CNode(p.subpredicates[k])' = S!CNode(p.subpredicates[k])
      BY <2>1 DEF S!CNode, S!Key
    <2>5. p.nested # None => S!CNode(p.nested)' = S!CNode(p.nested)
      BY <2>3 DEF S!CNode, S!Key
    <2> QED BY <1>2, <2>2, <2>4, <2>5 DEF S!Content
  <1> QED BY <1>1, <1>2, <1>3, <1>4 DEF NodeOK, Owned

(* Building a predicate, its children being built, leaves its array and    *)
(* its node.                                                               *)
LEMMA BuildKeeps ==
  ASSUME SelectorsOK, NEW i \in S!Wanted, S!Build(i)
  PROVE  SelectorsOK'
PROOF
  <1> DEFINE content == S!Content(i)
             address == S!Address(S!SlotOf(predicates[i]), i, content)
             node == S!Node(predicates[i].kind, address, Len(content))
  <1>1. /\ composing = "building" /\ i \notin DOMAIN memo /\ S!Children(i) \subseteq DOMAIN memo
        /\ memo' = S!With(memo, i, node)
        /\ heap' = IF address = None THEN heap ELSE S!With(heap, address, content)
        /\ keepalive' = keepalive \cup ({address} \ {None})
        /\ UNCHANGED <<predicates, selectors, composing, roots>>
    BY DEF S!Build, S!Built, S!Key
  <1>2. /\ i \in DOMAIN predicates /\ PredicateOK(i) /\ i \in Nat
        /\ S!SlotOf(predicates[i]) \in {"empty", "strings", "subpredicates", "nested"}
    <2>1. i \in DOMAIN predicates /\ PredicateOK(i) /\ i \in Nat
      BY WantedAreBuilt DEF SelectorsOK
    <2>2. S!SlotMatches(predicates[i])
      BY <2>1 DEF PredicateOK, S!WellFormed
    <2>3. S!SlotOf(predicates[i]) \in {"empty", "strings", "subpredicates", "nested"}
      BY <2>2, SlotIsKinds
    <2> QED BY <2>1, <2>3
  <1>3. /\ content = <<>> => address = None
        /\ content # <<>> => address = Owned(i) /\ address # None
    BY <1>2, SelectorsAssumption DEF S!Address, Owned
  <1>4. /\ DOMAIN memo' = DOMAIN memo \cup {i} /\ memo'[i] = node
        /\ \A j \in DOMAIN memo : memo'[j] = memo[j]
    BY <1>1 DEF S!With
  <1>5. Owned(i) \notin DOMAIN heap
    BY <1>1 DEF SelectorsOK, Owned
  <1>6. /\ DOMAIN heap \subseteq DOMAIN heap' /\ DOMAIN heap' \subseteq DOMAIN heap \cup {Owned(i)}
        /\ \A a \in DOMAIN heap : heap'[a] = heap[a]
        /\ content # <<>> => Owned(i) \in DOMAIN heap' /\ heap'[Owned(i)] = content /\ Owned(i) \in keepalive'
    BY <1>1, <1>3, <1>5 DEF S!With
  <1>7. ASSUME NEW j \in DOMAIN memo PROVE NodeOK(j)' /\ Owned(j)' = Owned(j)
    BY <1>1, <1>4, <1>6, NodeStays
  <1>8. NodeOK(i)' /\ Owned(i)' = Owned(i)
    <2> DEFINE p == predicates[i]
    <2>1. S!SlotOf(predicates[i])' = S!SlotOf(predicates[i]) /\ S!Children(i)' = S!Children(i)
      BY <1>1 DEF S!SlotOf, S!Filled, S!Children
    <2>2. \A k \in DOMAIN p.subpredicates : S!CNode(p.subpredicates[k])' = S!CNode(p.subpredicates[k])
      BY <1>1, <1>4 DEF S!CNode, S!Key, S!Children
    <2>3. p.nested # None => S!CNode(p.nested)' = S!CNode(p.nested)
      BY <1>1, <1>4 DEF S!CNode, S!Key, S!Children
    <2>4. S!SlotOf(p) = "nested" => p.nested # None
      BY <1>2, SlotIsKinds DEF PredicateOK, S!WellFormed
    <2>5. S!Content(i)' = content
      BY <1>1, <2>1, <2>2, <2>3, <2>4 DEF S!Content
    <2>6. Owned(i)' = Owned(i)
      BY <2>1 DEF Owned
    <2>7. memo'[i] = node /\ predicates' = predicates
      BY <1>1, <1>4
    <2> HIDE DEF content
    <2> QED BY <1>1, <1>2, <1>4, <1>6, <2>1, <2>5, <2>6, <2>7 DEF NodeOK
  <1>9. ASSUME NEW j \in DOMAIN predicates PROVE PredicateOK(j)'
    <2>1. PredicateOK(j)
      BY DEF SelectorsOK
    <2> QED BY <1>1, <2>1, ZenonT(40) DEF PredicateOK, S!Children, S!WellFormed, S!SlotMatches, S!Filled
  <1>10. \A k \in DOMAIN selectors : SelectorOK(k)'
    BY <1>1 DEF SelectorsOK, SelectorOK, S!OfType
  <1>11. S!Wanted' = S!Wanted
    BY <1>1 DEF S!Wanted, S!Children
  <1>12. DOMAIN heap' \subseteq {Owned(j)' : j \in DOMAIN memo'}
    <2>1. \A j \in DOMAIN memo' : Owned(j)' = Owned(j)
      BY <1>4, <1>7, <1>8
    <2>2. DOMAIN heap \subseteq {Owned(j) : j \in DOMAIN memo}
      BY <1>1 DEF SelectorsOK
    <2> QED BY <1>4, <1>6, <2>1, <2>2
  <1> QED BY <1>1, <1>4, <1>7, <1>8, <1>9, <1>10, <1>11, <1>12 DEF SelectorsOK

(* The call is handed what was built.                                      *)
LEMMA PassKeeps ==
  ASSUME SelectorsOK, S!Pass
  PROVE  SelectorsOK'
PROOF
  <1> DEFINE To(k) == S!Address("paths", k, selectors[k].paths)
             paths == {To(k) : k \in DOMAIN selectors} \ {None}
  <1>1. /\ composing = "building" /\ composing' = "passed"
        /\ \A i \in S!Wanted : i \in DOMAIN memo
        /\ roots' = [k \in DOMAIN selectors |->
                       [prim |-> S!CNode(selectors[k].prim), property |-> S!CNode(selectors[k].property),
                        to |-> To(k), count |-> Len(selectors[k].paths)]]
        /\ heap' = [a \in DOMAIN heap \cup paths |-> IF a \in paths THEN selectors[a[2]].paths ELSE heap[a]]
        /\ keepalive' = keepalive \cup paths
        /\ UNCHANGED <<predicates, selectors, memo>>
    BY DEF S!Pass, S!Built, S!Key
  <1>2. ASSUME NEW k \in DOMAIN selectors
        PROVE  /\ selectors[k].paths # <<>> => To(k) = <<"paths", k>> /\ To(k) # None
               /\ selectors[k].paths = <<>> => To(k) = None
    <2>1. k \in Nat
      BY DEF SelectorsOK
    <2>2. <<"paths", k>> # None
      BY <2>1, SelectorsAssumption
    <2> QED BY <2>2 DEF S!Address
  <1>3. paths \subseteq PathsAt
    BY <1>2 DEF PathsAt
  <1>4. ASSUME NEW i \in DOMAIN memo PROVE NodeOK(i)' /\ Owned(i)' = Owned(i)
    <2>1. PredicateOK(i)
      BY DEF SelectorsOK, NodeOK
    <2>2. S!SlotMatches(predicates[i])
      BY <2>1 DEF PredicateOK, S!WellFormed
    <2>3. S!SlotOf(predicates[i]) \in {"empty", "strings", "subpredicates", "nested"}
      BY <2>2, SlotIsKinds
    <2>4. Owned(i) \notin paths
      BY <1>3, <2>3 DEF Owned, PathsAt
    <2> HIDE DEF paths
    <2> QED BY <1>1, <2>4, NodeStays
  <1>5. ASSUME NEW j \in DOMAIN predicates PROVE PredicateOK(j)'
    <2>1. PredicateOK(j)
      BY DEF SelectorsOK
    <2> QED BY <1>1, <2>1, ZenonT(40) DEF PredicateOK, S!Children, S!WellFormed, S!SlotMatches, S!Filled
  <1>6. \A k \in DOMAIN selectors : SelectorOK(k)'
    BY <1>1 DEF SelectorsOK, SelectorOK, S!OfType
  <1>7. S!Wanted' = S!Wanted
    BY <1>1 DEF S!Wanted, S!Children
  <1>8. DOMAIN heap' \subseteq {Owned(j)' : j \in DOMAIN memo'} \cup PathsAt'
    <2>1. PathsAt' = PathsAt
      BY <1>1 DEF PathsAt
    <2>2. DOMAIN heap \subseteq {Owned(j) : j \in DOMAIN memo}
      BY <1>1 DEF SelectorsOK
    <2> HIDE DEF paths
    <2> QED BY <1>1, <1>3, <1>4, <2>1, <2>2
  <1>9. PassedOK'
    <2>1. \A i \in S!Wanted' : i \in DOMAIN memo'
      BY <1>1, <1>7
    <2>2. \A k \in DOMAIN selectors : /\ S!CNode(selectors[k].prim)' = S!CNode(selectors[k].prim)
                                      /\ S!CNode(selectors[k].property)' = S!CNode(selectors[k].property)
      BY <1>1 DEF S!CNode, S!Key
    <2>3. ASSUME NEW k \in DOMAIN selectors, selectors[k].paths # <<>>
          PROVE  <<"paths", k>> \in keepalive' /\ heap'[<<"paths", k>>] = selectors[k].paths
      <3>1. <<"paths", k>> \in paths
        BY <1>2, <2>3
      <3> HIDE DEF paths
      <3> QED BY <1>1, <3>1
    <2>4. roots' = [k \in DOMAIN selectors' |->
                      [prim |-> S!CNode(selectors[k].prim)', property |-> S!CNode(selectors[k].property)',
                       to |-> S!Address("paths", k, selectors'[k].paths), count |-> Len(selectors'[k].paths)]]
      BY <1>1, <2>2
    <2> QED BY <1>1, <2>1, <2>3, <2>4 DEF PassedOK
  <1> QED BY <1>1, <1>4, <1>5, <1>6, <1>7, <1>8, <1>9 DEF SelectorsOK

(* The invariant of selectors holds after every step.                      *)
LEMMA SelectorStep == SelectorsOK /\ [S!Next]_selectorVars => SelectorsOK'
PROOF
  <1> SUFFICES ASSUME SelectorsOK, [S!Next]_selectorVars PROVE SelectorsOK'
    OBVIOUS
  <1>1. CASE UNCHANGED selectorVars
    <2>1. UNCHANGED <<predicates, selectors, composing, memo, heap, keepalive, roots>>
      BY <1>1 DEF selectorVars
    <2>2. ASSUME NEW j \in DOMAIN predicates PROVE PredicateOK(j)'
      <3>1. PredicateOK(j)
        BY DEF SelectorsOK
      <3> QED BY <2>1, <3>1, ZenonT(40) DEF PredicateOK, S!Children, S!WellFormed, S!SlotMatches, S!Filled
    <2>3. \A k \in DOMAIN selectors : SelectorOK(k)'
      BY <2>1 DEF SelectorsOK, SelectorOK, S!OfType
    <2>4. \A i \in DOMAIN memo : NodeOK(i)' /\ Owned(i)' = Owned(i)
      BY <2>1, NodeStays
    <2>5. S!Wanted' = S!Wanted /\ PathsAt' = PathsAt
      BY <2>1 DEF S!Wanted, S!Children, PathsAt
    <2>6. PassedOK => PassedOK'
      BY <2>1, <2>5 DEF PassedOK, S!CNode, S!Key
    <2>7. {Owned(i)' : i \in DOMAIN memo'} = {Owned(i) : i \in DOMAIN memo}
      BY <2>1, <2>4
    <2> QED BY <2>1, <2>2, <2>3, <2>4, <2>5, <2>6, <2>7 DEF SelectorsOK
  <1> QED BY <1>1, ConstructKeeps, SelectKeeps, BuildKeeps, PassKeeps DEF S!Next

-----------------------------------------------------------------------------
(* The trees                                                               *)

(* What one level of reading makes of the level below.                     *)
ReadAt(read, d) ==
  [type \in S!Types |-> [node \in S!Nodes |->
     IF d = 0 THEN <<type, node.kind, S!ValuesOf(type, node)>> ELSE S!ReadNode(type, node, read[d - 1])]]

(* Reading goes down level by level: the recursive function is what it     *)
(* says it is.                                                             *)
LEMMA ReadIs ==
  ASSUME SelectorsOK
  PROVE  \A d \in 0 .. Len(predicates) : S!Read[d] = ReadAt(S!Read, d)
PROOF
  <1>0. PICK n \in Nat : n = Len(predicates)
    BY DEF SelectorsOK
  <1> DEFINE Upto(m, read) == read = [d \in 0 .. n |-> IF d <= m THEN ReadAt(read, d) ELSE 0]
             N == {m \in Nat : \E read : Upto(m, read)}
  <1>1. \A read, other : \A d \in Nat : (d > 0 => read[d - 1] = other[d - 1]) => ReadAt(read, d) = ReadAt(other, d)
    BY DEF ReadAt
  <1>2. 0 \in N
    <2> DEFINE read == [d \in 0 .. n |-> IF d <= 0 THEN ReadAt(<<>>, 0) ELSE 0]
    <2>1. ReadAt(read, 0) = ReadAt(<<>>, 0)
      BY <1>1
    <2>2. read = [d \in 0 .. n |-> IF d <= 0 THEN ReadAt(read, d) ELSE 0]
      <3>1. \A d \in 0 .. n : d <= 0 => d = 0
        OBVIOUS
      <3> QED BY <2>1, <3>1
    <2> QED BY <2>2
  <1>3. ASSUME NEW m \in Nat, m \in N PROVE m + 1 \in N
    <2>1. PICK read : Upto(m, read)
      BY <1>3
    <2> DEFINE more == [d \in 0 .. n |-> IF d <= m THEN read[d] ELSE IF d = m + 1 THEN ReadAt(read, d) ELSE 0]
    <2>2. \A d \in 0 .. n : d <= m => more[d] = read[d]
      OBVIOUS
    <2>3. \A d \in 0 .. n : d <= m + 1 => ReadAt(more, d) = ReadAt(read, d)
      <3> TAKE d \in 0 .. n
      <3> HAVE d <= m + 1
      <3>1. d > 0 => more[d - 1] = read[d - 1]
        BY <2>2
      <3> HIDE DEF more
      <3> QED BY <1>1, <3>1
    <2>4. \A d \in 0 .. n : more[d] = IF d <= m + 1 THEN ReadAt(more, d) ELSE 0
      BY <2>1, <2>3, SMTT(30)
    <2>5. Upto(m + 1, more)
      <3>1. more = [d \in 0 .. n |-> more[d]]
        OBVIOUS
      <3> HIDE DEF more
      <3> QED BY <2>4, <3>1
    <2> HIDE DEF more, Upto
    <2> QED BY <2>5
  <1>4. n \in N
    <2> HIDE DEF N
    <2> QED BY <1>2, <1>3, Induction
  <1>5. \E read : read = [d \in 0 .. n |-> ReadAt(read, d)]
    BY <1>4
  <1>6. S!Read = CHOOSE read : read = [d \in 0 .. n |-> ReadAt(read, d)]
    BY <1>0 DEF S!Read, ReadAt
  <1>7. S!Read = [d \in 0 .. n |-> ReadAt(S!Read, d)]
    BY <1>5, <1>6
  <1> QED BY <1>0, <1>7

(* What is below a predicate was there before it.                          *)
Under(i) == IF predicates[i].nested # None THEN <<predicates[i].nested>> ELSE predicates[i].subpredicates

(* What is below a predicate is a child of it, and was there before it.    *)
LEMMA UnderIsEarlier ==
  ASSUME SelectorsOK, NEW i \in DOMAIN predicates, NEW k \in DOMAIN Under(i)
  PROVE  Under(i)[k] \in S!Children(i) /\ Under(i)[k] \in 1 .. (i - 1)
PROOF
  <1>1. S!Children(i) \subseteq 1 .. (i - 1)
    BY DEF SelectorsOK, PredicateOK
  <1> QED BY <1>1 DEF Under, S!Children

(* What one predicate makes of those below it.                             *)
MeantAt(meant, i) ==
  <<predicates[i].type, predicates[i].kind,
    IF Under(i) = <<>> THEN predicates[i].strings ELSE [k \in DOMAIN Under(i) |-> meant[Under(i)[k]]]>>

(* The tree a predicate means is made of those of its children.            *)
LEMMA MeantIs ==
  ASSUME SelectorsOK
  PROVE  \A i \in DOMAIN predicates : S!Meant[i] = MeantAt(S!Meant, i)
PROOF
  <1>0. PICK n \in Nat : n = Len(predicates) /\ DOMAIN predicates = 1 .. n
    BY DEF SelectorsOK
  <1> DEFINE Upto(m, meant) == meant = [i \in 1 .. n |-> IF i <= m THEN MeantAt(meant, i) ELSE 0]
             N == {m \in Nat : \E meant : Upto(m, meant)}
  <1>1. ASSUME NEW meant, NEW other, NEW i \in 1 .. n, \A j \in 1 .. (i - 1) : meant[j] = other[j]
        PROVE  MeantAt(meant, i) = MeantAt(other, i)
    <2>1. \A k \in DOMAIN Under(i) : meant[Under(i)[k]] = other[Under(i)[k]]
      BY <1>0, <1>1, UnderIsEarlier
    <2> QED BY <2>1 DEF MeantAt
  <1>2. 0 \in N
    <2>1. \A i \in 1 .. n : ~(i <= 0)
      OBVIOUS
    <2>2. [i \in 1 .. n |-> 0] = [i \in 1 .. n |-> IF i <= 0 THEN MeantAt([j \in 1 .. n |-> 0], i) ELSE 0]
      BY <2>1
    <2>3. Upto(0, [i \in 1 .. n |-> 0])
      BY <2>2
    <2> HIDE DEF Upto
    <2> QED BY <2>3
  <1>3. ASSUME NEW m \in Nat, m \in N PROVE m + 1 \in N
    <2>1. PICK meant : Upto(m, meant)
      BY <1>3
    <2> DEFINE more == [i \in 1 .. n |-> IF i <= m THEN meant[i] ELSE IF i = m + 1 THEN MeantAt(meant, i) ELSE 0]
    <2>2. \A i \in 1 .. n : i <= m => more[i] = meant[i]
      OBVIOUS
    <2>3. ASSUME NEW i \in 1 .. n, i <= m + 1 PROVE MeantAt(more, i) = MeantAt(meant, i)
      <3>1. \A j \in 1 .. (i - 1) : more[j] = meant[j]
        BY <2>2, <2>3
      <3> HIDE DEF more
      <3> QED BY <1>1, <3>1
    <2>4. ASSUME NEW i \in 1 .. n PROVE more[i] = IF i <= m + 1 THEN MeantAt(more, i) ELSE 0
      <3>1. meant[i] = IF i <= m THEN MeantAt(meant, i) ELSE 0
        BY <2>1
      <3>2. more[i] = IF i <= m THEN meant[i] ELSE IF i = m + 1 THEN MeantAt(meant, i) ELSE 0
        OBVIOUS
      <3> HIDE DEF more
      <3> QED BY <2>3, <3>1, <3>2
    <2>5. Upto(m + 1, more)
      <3>1. more = [i \in 1 .. n |-> more[i]]
        OBVIOUS
      <3> HIDE DEF more
      <3> QED BY <2>4, <3>1
    <2> HIDE DEF more, Upto
    <2> QED BY <2>5
  <1>4. n \in N
    <2> HIDE DEF N
    <2> QED BY <1>2, <1>3, Induction
  <1>5. \E meant : meant = [i \in 1 .. n |-> MeantAt(meant, i)]
    BY <1>4
  <1>6. S!Meant = CHOOSE meant : meant = [i \in 1 .. n |-> MeantAt(meant, i)]
    BY <1>0 DEF S!Meant, MeantAt, Under
  <1>7. S!Meant = [i \in 1 .. n |-> MeantAt(S!Meant, i)]
    BY <1>5, <1>6
  <1> QED BY <1>0, <1>7

(* What the native side finds at a node that was built.                    *)
LEMMA FoundAtNode ==
  ASSUME SelectorsOK, NEW i \in DOMAIN memo
  PROVE  /\ memo[i] \in S!Nodes /\ memo[i].kind = predicates[i].kind
         /\ S!ValuesOf(predicates[i].type, memo[i]) = S!Content(i)
PROOF
  <1> DEFINE p == predicates[i]
  <1>1. NodeOK(i) /\ PredicateOK(i) /\ i \in DOMAIN predicates /\ p \in PredicateRecords
    BY DEF SelectorsOK, NodeOK
  <1>2. S!SlotMatches(p)
    BY <1>1 DEF PredicateOK, S!WellFormed
  <1>3. /\ S!SlotOf(p) = S!Slot(p.type, p.kind)
        /\ S!SlotOf(p) \in {"empty", "strings", "subpredicates", "nested"}
        /\ p.strings # <<>> <=> S!SlotOf(p) = "strings"
    BY <1>2, SlotIsKinds
  <1>4. /\ memo[i].kind = p.kind /\ memo[i].count = Len(S!Content(i))
        /\ memo[i].to = S!Address(S!SlotOf(p), i, S!Content(i))
    BY <1>1 DEF NodeOK, S!Node
  <1>5. \E values : S!Content(i) \in Seq(values)
    <2>1. CASE S!SlotOf(p) = "subpredicates"
      <3>1. S!Content(i) = [k \in 1 .. Len(p.subpredicates) |-> S!CNode(p.subpredicates[k])]
        BY <1>1, <2>1 DEF S!Content, PredicateRecords
      <3>2. Len(p.subpredicates) \in Nat
        BY <1>1 DEF PredicateRecords
      <3>3. S!Content(i) \in Seq({S!CNode(p.subpredicates[k]) : k \in 1 .. Len(p.subpredicates)})
        BY <3>1, <3>2
      <3> QED BY <3>3
    <2>2. CASE S!SlotOf(p) = "nested"
      <3>1. S!Content(i) = <<S!CNode(p.nested)>>
        BY <2>2 DEF S!Content
      <3>2. <<S!CNode(p.nested)>> \in Seq({S!CNode(p.nested)})
        OBVIOUS
      <3> QED BY <3>1, <3>2
    <2>3. CASE S!SlotOf(p) \notin {"subpredicates", "nested"}
      BY <1>1, <2>3 DEF S!Content, PredicateRecords
    <2> QED BY <2>1, <2>2, <2>3
  <1>6. S!SlotOf(p) = "empty" => S!Content(i) = <<>>
    BY <1>3 DEF S!Content
  <1>7. CASE S!Content(i) = <<>>
    <2>1. memo[i].count = 0
      BY <1>4, <1>7
    <2> QED BY <1>4, <1>7, <2>1 DEF S!ValuesOf, S!Find, S!Nodes
  <1>8. CASE S!Content(i) # <<>>
    <2>1. /\ memo[i].to = Owned(i) /\ Owned(i) \in keepalive /\ heap[Owned(i)] = S!Content(i)
          /\ Owned(i)[1] = S!SlotOf(p)
      BY <1>1, <1>4, <1>8 DEF NodeOK, S!Address, Owned
    <2>2. Len(S!Content(i)) # 0 /\ SubSeq(S!Content(i), 1, Len(S!Content(i))) = S!Content(i)
      BY <1>5, <1>8
    <2>3. S!Slot(p.type, memo[i].kind) # "empty"
      BY <1>3, <1>4, <1>6, <1>8
    <2> QED BY <1>3, <1>4, <2>1, <2>2, <2>3 DEF S!ValuesOf, S!Find, S!Nodes
  <1> QED BY <1>7, <1>8

(* The kind of a predicate tells what is below it.                         *)
LEMMA BelowIsUnder ==
  ASSUME SelectorsOK, NEW i \in DOMAIN memo
  PROVE  LET type == predicates[i].type
             below == S!Below(type, memo[i])
         IN  /\ Under(i) = <<>> => below = None /\ S!Content(i) = predicates[i].strings
             /\ Under(i) # <<>> =>
                  /\ below \in S!Types /\ below # None
                  /\ S!Content(i) = [k \in DOMAIN Under(i) |-> memo[Under(i)[k]]]
                  /\ \A k \in DOMAIN Under(i) : predicates[Under(i)[k]].type = below
PROOF
  <1> DEFINE p == predicates[i]
             type == predicates[i].type
             below == S!Below(type, memo[i])
  <1>1. NodeOK(i) /\ PredicateOK(i) /\ i \in DOMAIN predicates /\ p \in PredicateRecords
    BY DEF SelectorsOK, NodeOK
  <1>2. S!SlotMatches(p) /\ S!WellFormed(p)
    BY <1>1 DEF PredicateOK, S!WellFormed
  <1>3. /\ S!SlotOf(p) = S!Slot(p.type, p.kind)
        /\ S!SlotOf(p) \in {"empty", "strings", "subpredicates", "nested"}
        /\ p.subpredicates # <<>> <=> S!SlotOf(p) = "subpredicates"
        /\ p.nested # None <=> S!SlotOf(p) = "nested"
    BY <1>2, SlotIsKinds
  <1>4. S!Slot(type, memo[i].kind) = S!SlotOf(p)
    BY <1>3, FoundAtNode
  <1>5. type \in S!Types /\ None \notin S!Types
    BY <1>1, SelectorsAssumption DEF PredicateRecords, S!Types
  <1>6. CASE S!SlotOf(p) \in {"empty", "strings"}
    BY <1>3, <1>4, <1>6 DEF Under, S!Below, S!Content
  <1>7. CASE S!SlotOf(p) = "subpredicates"
    <2>1. Under(i) = p.subpredicates /\ Under(i) # <<>> /\ below = type
      BY <1>3, <1>4, <1>7 DEF Under, S!Below
    <2>2. \A k \in DOMAIN p.subpredicates : S!CNode(p.subpredicates[k]) = memo[p.subpredicates[k]]
      <3>1. \A k \in DOMAIN Under(i) : Under(i)[k] \in Nat
        BY <1>1, UnderIsEarlier
      <3> QED BY <2>1, <3>1, WritesAssumption DEF S!CNode, S!Key
    <2>3. S!Content(i) = [k \in DOMAIN Under(i) |-> memo[Under(i)[k]]]
      BY <1>7, <2>1, <2>2 DEF S!Content
    <2>4. \A k \in DOMAIN Under(i) : predicates[Under(i)[k]].type = below
      BY <1>2, <2>1 DEF S!WellFormed
    <2> QED BY <1>5, <2>1, <2>3, <2>4
  <1>8. CASE S!SlotOf(p) = "nested"
    <2>1. Under(i) = <<p.nested>> /\ Under(i) # <<>> /\ below = "property" /\ p.nested # None
      BY <1>3, <1>4, <1>8 DEF Under, S!Below
    <2>2. S!CNode(p.nested) = memo[p.nested]
      BY <2>1 DEF S!CNode, S!Key
    <2>3. S!Content(i) = [k \in DOMAIN Under(i) |-> memo[Under(i)[k]]]
      <3>1. S!Content(i) = <<memo[p.nested]>>
        BY <1>8, <2>2 DEF S!Content
      <3>2. DOMAIN Under(i) = {1} /\ Under(i)[1] = p.nested
        BY <2>1
      <3>3. <<memo[p.nested]>> = [k \in {1} |-> memo[p.nested]]
        OBVIOUS
      <3>4. [k \in DOMAIN Under(i) |-> memo[Under(i)[k]]] = [k \in {1} |-> memo[p.nested]]
        BY <3>2
      <3> QED BY <3>1, <3>3, <3>4
    <2>4. predicates[p.nested].type = "property"
      BY <1>2, <2>1 DEF S!WellFormed
    <2>5. \A k \in DOMAIN Under(i) : predicates[Under(i)[k]].type = below
      BY <2>1, <2>4
    <2> QED BY <1>5, <2>1, <2>3, <2>5 DEF S!Types
  <1> QED BY <1>3, <1>6, <1>7, <1>8

(* A node that was built is read as the tree its predicate means.          *)
LEMMA TreesAgree ==
  ASSUME SelectorsOK, NEW i \in DOMAIN memo
  PROVE  S!ReadTree(predicates[i].type, memo[i]) = S!Meant[i]
PROOF
  <1>0. PICK n \in Nat : n = Len(predicates) /\ DOMAIN predicates = 1 .. n
    BY DEF SelectorsOK
  <1> DEFINE N == {m \in Nat : \A j \in DOMAIN memo : j <= m =>
                     \A d \in j .. n : S!Read[d][predicates[j].type][memo[j]] = S!Meant[j]}
  <1>1. 0 \in N
    BY <1>0 DEF SelectorsOK, NodeOK
  <1>2. ASSUME NEW m \in Nat, m \in N PROVE m + 1 \in N
    <2>1. SUFFICES ASSUME NEW j \in DOMAIN memo, j = m + 1, NEW d \in j .. n
                   PROVE  S!Read[d][predicates[j].type][memo[j]] = S!Meant[j]
      <3>1. \A j \in DOMAIN memo : j \in Nat
        BY <1>0 DEF SelectorsOK, NodeOK
      <3> QED BY <1>2, <3>1
    <2> DEFINE type == predicates[j].type
               below == S!Below(type, memo[j])
    <2>2. j \in 1 .. n /\ type \in S!Types /\ d \in Nat /\ d # 0 /\ d - 1 \in m .. n
      <3>1. NodeOK(j) /\ predicates \in Seq(PredicateRecords)
        BY DEF SelectorsOK
      <3>2. j \in 1 .. n /\ predicates[j] \in PredicateRecords
        BY <1>0, <3>1 DEF NodeOK
      <3> QED BY <1>0, <2>1, <3>2 DEF PredicateRecords
    <2>3. S!Read[d] = ReadAt(S!Read, d)
      BY <1>0, <2>2, ReadIs
    <2>4. memo[j] \in S!Nodes /\ memo[j].kind = predicates[j].kind /\ S!ValuesOf(type, memo[j]) = S!Content(j)
      BY FoundAtNode
    <2>5. S!Read[d][type][memo[j]] = S!ReadNode(type, memo[j], S!Read[d - 1])
      BY <2>2, <2>3, <2>4 DEF ReadAt
    <2>6. S!Meant[j] = MeantAt(S!Meant, j)
      BY <1>0, <2>2, MeantIs
    <2>7. CASE Under(j) = <<>>
      <3>1. below = None /\ S!Content(j) = predicates[j].strings
        BY <2>7, BelowIsUnder
      <3> QED BY <2>4, <2>5, <2>6, <2>7, <3>1 DEF S!ReadNode, MeantAt
    <2>8. CASE Under(j) # <<>>
      <3>1. /\ below \in S!Types /\ below # None
            /\ S!Content(j) = [k \in DOMAIN Under(j) |-> memo[Under(j)[k]]]
            /\ \A k \in DOMAIN Under(j) : predicates[Under(j)[k]].type = below
        BY <2>8, BelowIsUnder
      <3>2. ASSUME NEW k \in DOMAIN Under(j)
            PROVE  S!Read[d - 1][below][S!Content(j)[k]] = S!Meant[Under(j)[k]]
        <4>1. Under(j)[k] \in S!Children(j) /\ Under(j)[k] \in 1 .. (j - 1)
          BY <1>0, <2>2, UnderIsEarlier
        <4>2. Under(j)[k] \in DOMAIN memo
          BY <4>1 DEF SelectorsOK, NodeOK
        <4>3. Under(j)[k] <= m /\ d - 1 \in Under(j)[k] .. n
          BY <2>1, <2>2, <4>1
        <4>4. S!Read[d - 1][predicates[Under(j)[k]].type][memo[Under(j)[k]]] = S!Meant[Under(j)[k]]
          BY <1>2, <4>2, <4>3
        <4> QED BY <3>1, <4>4
      <3>3. [k \in DOMAIN S!Content(j) |-> S!Read[d - 1][below][S!Content(j)[k]]]
              = [k \in DOMAIN Under(j) |-> S!Meant[Under(j)[k]]]
        BY <3>1, <3>2
      <3> HIDE DEF below
      <3>4. S!ReadNode(type, memo[j], S!Read[d - 1])
              = <<type, memo[j].kind, [k \in DOMAIN S!Content(j) |-> S!Read[d - 1][below][S!Content(j)[k]]]>>
        BY <2>4, <3>1 DEF S!ReadNode, below
      <3> QED BY <2>4, <2>5, <2>6, <2>8, <3>3, <3>4 DEF MeantAt
    <2> QED BY <2>7, <2>8
  <1>3. n \in N
    <2> HIDE DEF N
    <2> QED BY <1>1, <1>2, Induction
  <1>4. i \in 1 .. n
    BY <1>0 DEF SelectorsOK, NodeOK
  <1>5. S!Read[n][predicates[i].type][memo[i]] = S!Meant[i]
    BY <1>3, <1>4
  <1> QED BY <1>0, <1>5 DEF S!ReadTree

(* A predicate left out is read as one that matches nothing.               *)
LEMMA NoneAgrees ==
  ASSUME SelectorsOK, NEW type \in S!Types
  PROVE  S!ReadTree(type, S!NoNode) = <<type, "NONE", <<>>>>
PROOF
  <1>0. PICK n \in Nat : n = Len(predicates)
    BY DEF SelectorsOK
  <1>1. S!NoNode \in S!Nodes /\ S!NoNode.kind = "NONE"
    BY DEF S!NoNode, S!Nodes, S!Node
  <1>2. S!Slot(type, "NONE") = "empty"
    BY DEF S!Slot, S!PrimSlot, S!PropertySlot
  <1>3. S!ValuesOf(type, S!NoNode) = <<>> /\ S!Below(type, S!NoNode) = None
    BY <1>1, <1>2 DEF S!ValuesOf, S!Below
  <1>4. S!Read[n] = ReadAt(S!Read, n)
    BY <1>0, ReadIs
  <1>5. S!Read[n][type][S!NoNode] = <<type, "NONE", <<>>>>
    BY <1>1, <1>3, <1>4 DEF ReadAt, S!ReadNode
  <1> QED BY <1>0, <1>5 DEF S!ReadTree

(* A selector's predicate is read as it is meant.                          *)
LEMMA RootAgrees ==
  ASSUME SelectorsOK, composing = "passed", NEW type \in S!Types, NEW i \in {None} \cup S!OfType(type),
         i # None => i \in S!Wanted
  PROVE  S!ReadTree(type, S!CNode(i)) = S!MeantOr(type, i)
PROOF
  <1>1. CASE i = None
    BY <1>1, NoneAgrees DEF S!CNode, S!MeantOr
  <1>2. CASE i # None
    <2>1. i \in DOMAIN memo /\ predicates[i].type = type
      BY <1>2 DEF SelectorsOK, PassedOK, S!OfType
    <2> QED BY <1>2, <2>1, TreesAgree DEF S!CNode, S!Key, S!MeantOr
  <1> QED BY <1>1, <1>2

(* A set of one image of each of finitely many things is no larger.        *)
LEMMA ImagesAreFew ==
  ASSUME NEW A, NEW f, IsFiniteSet(A)
  PROVE  IsFiniteSet({f[x] : x \in A}) /\ Cardinality({f[x] : x \in A}) <= Cardinality(A)
PROOF
  <1> DEFINE g == [x \in A |-> f[x]]  B == {f[x] : x \in A}
  <1>1. g \in Surjection(A, B)
    BY DEF Surjection
  <1> HIDE DEF g
  <1> QED BY <1>1, FS_Surjection

(* As many arrays are made as predicates and selectors are converted.      *)
LEMMA ArraysAreFew ==
  ASSUME SelectorsOK, composing = "passed"
  PROVE  Cardinality(DOMAIN heap) <= Cardinality(S!Wanted) + Len(selectors)
PROOF
  <1> DEFINE nodes == {Owned(i) : i \in S!Wanted}
  <1>1. Len(selectors) \in Nat /\ DOMAIN selectors = 1 .. Len(selectors)
    BY DEF SelectorsOK
  <1>2. IsFiniteSet(S!Wanted)
    <2>1. PICK n \in Nat : DOMAIN predicates = 1 .. n
      BY DEF SelectorsOK
    <2> QED BY <2>1, WantedAreBuilt, FS_Interval, FS_Subset
  <1>3. IsFiniteSet(nodes) /\ Cardinality(nodes) <= Cardinality(S!Wanted)
    <2> DEFINE f == [i \in S!Wanted |-> Owned(i)]
    <2>1. {f[i] : i \in S!Wanted} = nodes
      OBVIOUS
    <2> HIDE DEF f
    <2> QED BY <1>2, <2>1, ImagesAreFew
  <1>4. IsFiniteSet(PathsAt) /\ Cardinality(PathsAt) <= Len(selectors)
    <2>1. IsFiniteSet(1 .. Len(selectors)) /\ Cardinality(1 .. Len(selectors)) = Len(selectors)
      <3>1. PICK n \in Nat : n = Len(selectors)
        BY <1>1
      <3>2. IsFiniteSet(1 .. n) /\ Cardinality(1 .. n) = (IF 1 > n THEN 0 ELSE n - 1 + 1)
        BY FS_Interval
      <3> QED BY <3>1, <3>2
    <2> DEFINE f == [k \in 1 .. Len(selectors) |-> <<"paths", k>>]
    <2>2. {f[k] : k \in 1 .. Len(selectors)} = PathsAt
      BY <1>1 DEF PathsAt
    <2> HIDE DEF f
    <2> QED BY <2>1, <2>2, ImagesAreFew
  <1>5. DOMAIN heap \subseteq nodes \cup PathsAt
    BY DEF SelectorsOK
  <1> HIDE DEF nodes
  <1>6. /\ IsFiniteSet(nodes \cup PathsAt)
        /\ Cardinality(nodes \cup PathsAt) = Cardinality(nodes) + Cardinality(PathsAt) - Cardinality(nodes \cap PathsAt)
    BY <1>3, <1>4, FS_Union
  <1>7. Cardinality(nodes \cap PathsAt) \in Nat /\ Cardinality(nodes) \in Nat /\ Cardinality(PathsAt) \in Nat
        /\ Cardinality(S!Wanted) \in Nat
    BY <1>2, <1>3, <1>4, FS_Intersection, FS_CardinalityType
  <1>8. Cardinality(DOMAIN heap) <= Cardinality(nodes \cup PathsAt) /\ Cardinality(DOMAIN heap) \in Nat
    BY <1>5, <1>6, FS_Subset, FS_CardinalityType
  <1> QED BY <1>1, <1>3, <1>4, <1>6, <1>7, <1>8

(* The invariant says what is wanted.                                      *)
LEMMA SelectorRight == SelectorsOK => S!SelectorsFaithful
PROOF
  <1> SUFFICES ASSUME SelectorsOK, composing = "passed" PROVE S!SelectorsFaithful
    BY DEF S!SelectorsFaithful
  <1>1. ASSUME NEW k \in DOMAIN selectors
        PROVE  /\ S!ReadTree("prim", roots[k].prim) = S!MeantOr("prim", selectors[k].prim)
               /\ S!ReadTree("property", roots[k].property) = S!MeantOr("property", selectors[k].property)
               /\ S!Find("paths", roots[k].to, roots[k].count) = selectors[k].paths
    <2>1. /\ roots[k].prim = S!CNode(selectors[k].prim) /\ roots[k].property = S!CNode(selectors[k].property)
          /\ roots[k].to = S!Address("paths", k, selectors[k].paths) /\ roots[k].count = Len(selectors[k].paths)
      BY DEF SelectorsOK, PassedOK
    <2>2. SelectorOK(k)
      BY DEF SelectorsOK
    <2>3. S!ReadTree("prim", roots[k].prim) = S!MeantOr("prim", selectors[k].prim)
      BY <2>1, <2>2, NamedAreWanted, RootAgrees DEF SelectorOK, S!Types
    <2>4. S!ReadTree("property", roots[k].property) = S!MeantOr("property", selectors[k].property)
      BY <2>1, <2>2, NamedAreWanted, RootAgrees DEF SelectorOK, S!Types
    <2>5. S!Find("paths", roots[k].to, roots[k].count) = selectors[k].paths
      <3>1. selectors[k].paths \in Seq(STRING)
        <4>1. selectors \in Seq(SelectorRecords)
          BY DEF SelectorsOK
        <4>2. selectors[k] \in SelectorRecords
          BY <4>1
        <4> QED BY <4>2 DEF SelectorRecords
      <3>2. CASE selectors[k].paths = <<>>
        BY <2>1, <3>2 DEF S!Find
      <3>3. CASE selectors[k].paths # <<>>
        <4>1. /\ roots[k].to = <<"paths", k>> /\ <<"paths", k>> \in keepalive
              /\ heap[<<"paths", k>>] = selectors[k].paths
          BY <2>1, <3>3 DEF SelectorsOK, PassedOK, S!Address
        <4>2. Len(selectors[k].paths) # 0 /\ SubSeq(selectors[k].paths, 1, Len(selectors[k].paths)) = selectors[k].paths
          BY <3>1, <3>3
        <4>3. <<"paths", k>>[1] = "paths"
          OBVIOUS
        <4>4. S!Find("paths", <<"paths", k>>, Len(selectors[k].paths))
                = SubSeq(heap[<<"paths", k>>], 1, Len(selectors[k].paths))
          BY <4>1, <4>2, <4>3 DEF S!Find
        <4> QED BY <2>1, <4>1, <4>2, <4>4
      <3> QED BY <3>2, <3>3
    <2> QED BY <2>3, <2>4, <2>5
  <1>2. S!Cardinality(DOMAIN heap) <= S!Cardinality(S!Wanted) + Len(selectors)
    <2>1. S!Cardinality(DOMAIN heap) = Cardinality(DOMAIN heap) /\ S!Cardinality(S!Wanted) = Cardinality(S!Wanted)
      BY DEF S!Cardinality, Cardinality
    <2> QED BY <2>1, ArraysAreFew
  <1> QED BY <1>1, <1>2 DEF S!SelectorsFaithful

-----------------------------------------------------------------------------
(* Requests                                                                *)

(* An integer that passes its check is stored as it is.                    *)
ArgFits(x) == x.field # "opaque" => \A v \in x.accepts : R!Stored(x.field, v) = v
ArgsFit(a) == \A n \in DOMAIN a : ArgFits(a[n])

(* A field holds every integer of its width (ctypes neither wraps nor      *)
(* fails).                                                                 *)
LEMMA FieldsHold ==
  /\ \A v \in R!Longs : R!Stored("long", v) = v
  /\ \A v \in R!Words : R!Stored("word", v) = v
  /\ \A v \in R!Ints : R!Stored("int", v) = v
PROOF
  <1>1. Word \in Nat /\ Word >= 28 /\ Long \in Nat
    BY RequestsAssumption
  <1>2. \A v \in R!Longs : R!Stored("long", v) = v
    BY <1>1 DEF R!Longs, R!Stored
  <1>3. \A v \in R!Words : R!Stored("word", v) = v
    BY <1>1 DEF R!Words, R!Stored
  <1>4. \A v \in R!Ints : R!Stored("int", v) = v
    <2> TAKE v \in R!Ints
    <2>1. v + Word \div 2 \in 0 .. (Word - 1)
      BY <1>1 DEF R!Ints
    <2>2. (v + Word \div 2) % Word = v + Word \div 2
      BY <1>1, <2>1
    <2> QED BY <1>1, <2>2 DEF R!Ints, R!Stored
  <1> QED BY <1>2, <1>3, <1>4

(* Every check but that of an enumerator lets through only what its field  *)
(* holds.                                                                  *)
LEMMA ChecksFit ==
  /\ ArgFits(R!Ordinal) /\ ArgFits(R!Token) /\ ArgFits(R!Handle) /\ ArgFits(R!Uint64)
  /\ ArgFits(R!Timeout) /\ ArgFits(R!ElementSize)
  /\ ArgFits(R!Uint32) /\ ArgFits(R!Domains) /\ ArgFits(R!Open) /\ ArgFits(R!Opaque)
PROOF
  BY FieldsHold DEF ArgFits, R!Ordinal, R!Token, R!Handle, R!Uint64, R!Timeout, R!ElementSize,
     R!Uint32, R!Unsigned, R!Domains, R!Open, R!Opaque, R!Arg

(* So does that of a closed set of enumerators as small as those in use.   *)
LEMMA MembersFit ==
  ASSUME NEW members, members \subseteq (-14) .. 13
  PROVE  ArgFits(R!Closed(members))
PROOF
  <1>1. members \subseteq R!Ints
    BY RequestsAssumption DEF R!Ints
  <1> QED BY <1>1, FieldsHold DEF ArgFits, R!Closed, R!Arg

(* Two sets of arguments that fit, fit together.                           *)
LEMMA JoinedFit ==
  ASSUME NEW a, NEW b, ArgsFit(a), ArgsFit(b)
  PROVE  ArgsFit(R!++(a, b))
PROOF
  BY DEF ArgsFit, R!++

(* What every buffer points at and refers to.                              *)
LEMMA GraphsAre ==
  /\ \A n \in {"list", "text", "name", "tokens", "sizes", "shape", "payload", "map", "mask", "placement"} :
       R!Points[n] = {} /\ R!Refers[n] = {}
  /\ R!Points["texts"] = {"text"} /\ R!Refers["texts"] = {"text"}
  /\ R!Points["names"] = {"name"} /\ R!Refers["names"] = {"name"}
  /\ R!Points["tensor"] = {"shape", "payload"} /\ R!Refers["tensor"] = {"shape", "payload"}
  /\ R!Points["tensors"] = {"shape", "payload"} /\ R!Refers["tensors"] = {"shape"}
  /\ R!Points["writes"] = {"name", "tensors", "map", "mask"} /\ R!Refers["writes"] = {"name", "tensors", "map", "mask"}
  /\ R!Points["filter"] = {"name", "texts"} /\ R!Refers["filter"] = {"name", "texts"}
  /\ R!Points["mapping"] = {"name"} /\ R!Refers["mapping"] = {"name"}
  /\ R!Points["floor"] = {"tokens"} /\ R!Refers["floor"] = {"tokens"}
  /\ R!Points["descs"] = {"texts"} /\ R!Refers["descs"] = {"texts"}
  /\ R!Points["export"] = {"texts"} /\ R!Refers["export"] = {"texts"}
PROOF
  BY DEF R!Points, R!Refers

(* Nothing outside a set closed under a graph is reached from inside it.   *)
LEMMA ReachedIn ==
  ASSUME NEW graph, NEW from, NEW all, from \subseteq all, \A n \in all : graph[n] \subseteq all
  PROVE  R!Closure(graph, from) \subseteq all
PROOF
  <1> DEFINE One(s) == s \cup UNION {graph[n] : n \in s}
  <1>1. ASSUME NEW s, s \subseteq all PROVE One(s) \subseteq all
    BY <1>1
  <1>2. R!Closure(graph, from) = One(One(One(from)))
    BY DEF R!Closure
  <1> HIDE DEF One
  <1> QED BY <1>1, <1>2

(* What is two steps away is reached.                                      *)
LEMMA ReachedAtLeast ==
  ASSUME NEW graph, NEW from
  PROVE  /\ from \subseteq R!Closure(graph, from)
         /\ \A n \in from : graph[n] \subseteq R!Closure(graph, from)
         /\ \A n \in from : \A m \in graph[n] : graph[m] \subseteq R!Closure(graph, from)
PROOF
  <1> DEFINE One(s) == s \cup UNION {graph[n] : n \in s}
  <1>1. \A s : s \subseteq One(s) /\ \A n \in s : graph[n] \subseteq One(s)
    OBVIOUS
  <1>2. R!Closure(graph, from) = One(One(One(from)))
    BY DEF R!Closure
  <1> HIDE DEF One
  <1> QED BY <1>1, <1>2

(* From more, more is reached.                                             *)
LEMMA ReachedMore ==
  ASSUME NEW graph, NEW from, NEW more
  PROVE  R!Closure(graph, from) \subseteq R!Closure(graph, from \cup more)
PROOF
  <1> DEFINE One(s) == s \cup UNION {graph[n] : n \in s}
  <1>1. \A s, t : s \subseteq t => One(s) \subseteq One(t)
    OBVIOUS
  <1>2. \A s : R!Closure(graph, s) = One(One(One(s)))
    BY DEF R!Closure
  <1> HIDE DEF One
  <1>3. One(from) \subseteq One(from \cup more)
    BY <1>1
  <1>4. One(One(from)) \subseteq One(One(from \cup more))
    BY <1>1, <1>3, Zenon
  <1>5. One(One(One(from))) \subseteq One(One(One(from \cup more)))
    BY <1>1, <1>4, Zenon
  <1> QED BY <1>2, <1>5, Zenon

(* What is passed, and not read at once, is reached from what is kept.     *)
Covered(passed, copied, keep) == R!Closure(R!Points, passed) \ copied \subseteq R!Closure(R!Refers, keep)

(* A set that shows it: it is closed, and all of it is one or two          *)
(* references away.                                                        *)
Spans(all, passed, copied, keep) ==
  /\ passed \subseteq all
  /\ \A n \in all : R!Points[n] \subseteq all
  /\ \A n \in all \ (copied \cup keep) :
       \E m \in keep : n \in R!Refers[m] \/ \E k \in R!Refers[m] : n \in R!Refers[k]

(* A set that spans what was passed shows that what is kept covers it.     *)
LEMMA SpanCovers ==
  ASSUME NEW all, NEW passed, NEW copied, NEW keep, Spans(all, passed, copied, keep)
  PROVE  Covered(passed, copied, keep)
PROOF
  BY ReachedIn, ReachedAtLeast DEF Covered, Spans

(* What every kind of operation keeps covers what it was passed.           *)
LEMMA Covers ==
  /\ Covered({}, {}, {})
  /\ Covered({"filter", "tokens"}, {}, {"filter", "name", "texts", "tokens"})
  /\ Covered({"list"}, {}, {"list"})
  /\ Covered({"tokens"}, {}, {"tokens"})
  /\ Covered({"name", "tensors", "map", "mask"}, {}, R!WriteKept \cup {"name"})
  /\ Covered({"writes"}, {}, R!WriteKept \cup {"writes", "name"})
  /\ Covered({"names"}, {}, {"name", "names"})
  /\ Covered({"text", "texts"}, {}, {"text", "texts"})
  /\ Covered({"mapping", "sizes"}, {}, {"mapping", "name", "sizes"})
  /\ Covered({"floor"}, {"floor"}, {"tokens"})
  /\ Covered({"name"}, {"name"}, {})
  /\ Covered({"text"}, {}, {"text"})
  /\ Covered({"text", "descs"}, {}, {"text", "descs"})
  /\ Covered({"descs"}, {}, {"descs"})
  /\ Covered({"text", "export"}, {"text", "texts", "export"}, {})
  /\ Covered({"export"}, {"texts", "text", "export"}, {})
PROOF
  <1>1. Spans({}, {}, {}, {})
    BY GraphsAre DEF R!WriteKept, Spans
  <1>2. Spans({"filter", "tokens", "name", "texts", "text"}, {"filter", "tokens"}, {}, {"filter", "name", "texts", "tokens"})
    BY GraphsAre DEF R!WriteKept, Spans
  <1>3. Spans({"list"}, {"list"}, {}, {"list"})
    BY GraphsAre DEF R!WriteKept, Spans
  <1>4. Spans({"tokens"}, {"tokens"}, {}, {"tokens"})
    BY GraphsAre DEF R!WriteKept, Spans
  <1>5. Spans({"name", "tensors", "map", "mask", "shape", "payload"}, {"name", "tensors", "map", "mask"}, {}, R!WriteKept \cup {"name"})
    BY GraphsAre DEF R!WriteKept, Spans
  <1>6. Spans({"writes", "name", "tensors", "map", "mask", "shape", "payload"}, {"writes"}, {}, R!WriteKept \cup {"writes", "name"})
    BY GraphsAre DEF R!WriteKept, Spans
  <1>7. Spans({"names", "name"}, {"names"}, {}, {"name", "names"})
    BY GraphsAre DEF R!WriteKept, Spans
  <1>8. Spans({"text", "texts"}, {"text", "texts"}, {}, {"text", "texts"})
    BY GraphsAre DEF R!WriteKept, Spans
  <1>9. Spans({"mapping", "sizes", "name"}, {"mapping", "sizes"}, {}, {"mapping", "name", "sizes"})
    BY GraphsAre DEF R!WriteKept, Spans
  <1>10. Spans({"floor", "tokens"}, {"floor"}, {"floor"}, {"tokens"})
    BY GraphsAre DEF R!WriteKept, Spans
  <1>11. Spans({"name"}, {"name"}, {"name"}, {})
    BY GraphsAre DEF R!WriteKept, Spans
  <1>12. Spans({"text"}, {"text"}, {}, {"text"})
    BY GraphsAre DEF R!WriteKept, Spans
  <1>13. Spans({"text", "descs", "texts"}, {"text", "descs"}, {}, {"text", "descs"})
    BY GraphsAre DEF R!WriteKept, Spans
  <1>14. Spans({"text", "descs", "texts"}, {"descs"}, {}, {"descs"})
    BY GraphsAre DEF R!WriteKept, Spans
  <1>15. Spans({"text", "texts", "export"}, {"text", "export"}, {"text", "texts", "export"}, {})
    BY GraphsAre DEF R!WriteKept, Spans
  <1>16. Spans({"text", "texts", "export"}, {"export"}, {"texts", "text", "export"}, {})
    BY GraphsAre DEF R!WriteKept, Spans
  <1> QED
    BY <1>1, <1>2, <1>3, <1>4, <1>5, <1>6, <1>7, <1>8, <1>9, <1>10, <1>11, <1>12, <1>13, <1>14, <1>15, <1>16, SpanCovers

-----------------------------------------------------------------------------
(* Entry points                                                            *)

(* An entry point as it should be.                                         *)
EntryFits(e) ==
  /\ ArgsFit(e.args)
  /\ e.writes \in BOOLEAN /\ e.pends \in BOOLEAN
  /\ e.pends = TRUE => Covered(e.passed, e.copied, e.kept)

(* A call is as it should be if its integers and its buffers are ...       *)
LEMMA CallFits ==
  ASSUME NEW a, NEW p, NEW c, NEW k, NEW w \in BOOLEAN, NEW d \in BOOLEAN,
         ArgsFit(a), d = TRUE => Covered(p, c, k)
  PROVE  EntryFits(R!Call(a, p, c, k, w, d))
PROOF
  BY DEF EntryFits, R!Call

(* ... so is one that returns no operation, if its integers are ...        *)
LEMMA SyncFits ==
  ASSUME NEW a, NEW p, ArgsFit(a)
  PROVE  EntryFits(R!Sync(a, p))
PROOF
  BY CallFits DEF R!Sync

(* ... one that returns an operation ...                                   *)
LEMMA AsyncFits ==
  ASSUME NEW a, NEW p, NEW k, ArgsFit(a), Covered(p, {}, k)
  PROVE  EntryFits(R!Async(a, p, k)) /\ EntryFits(R!Write(a, p, k))
PROOF
  BY CallFits DEF R!Async, R!Write

(* ... one of whose inputs the native side has read some ...               *)
LEMMA CopiedFits ==
  ASSUME NEW a, NEW p, NEW c, NEW k, ArgsFit(a), Covered(p, c, k)
  PROVE  EntryFits(R!Copied(a, p, c, k))
PROOF
  BY CallFits DEF R!Copied

(* A placement that is kept is covered too ...                             *)
LEMMA PlacementCovered ==
  ASSUME NEW p, NEW c, NEW k, Covered(p, c, k)
  PROVE  Covered(p \cup {"placement"}, c, k \cup {"placement"})
PROOF
  <1> DEFINE One(s) == s \cup UNION {R!Points[n] : n \in s}
  <1>1. \A s : One(s \cup {"placement"}) = One(s) \cup {"placement"}
    BY GraphsAre
  <1>2. \A s : R!Closure(R!Points, s) = One(One(One(s)))
    BY DEF R!Closure
  <1>3. R!Closure(R!Points, p \cup {"placement"}) = R!Closure(R!Points, p) \cup {"placement"}
    <2> HIDE DEF One
    <2> QED BY <1>1, <1>2, SMTT(30)
  <1>4. k \cup {"placement"} \subseteq R!Closure(R!Refers, k \cup {"placement"})
    BY ReachedAtLeast
  <1>5. R!Closure(R!Refers, k) \subseteq R!Closure(R!Refers, k \cup {"placement"})
    BY ReachedMore
  <1> QED BY <1>3, <1>4, <1>5 DEF Covered

(* ... so a call with a placement is as it should be ...                   *)
LEMMA OnDeviceFits ==
  ASSUME NEW e, EntryFits(e)
  PROVE  EntryFits(R!OnDevice(e))
PROOF
  <1>1. ArgsFit(R!Placement)
    <2>1. ArgFits(R!Arg({0, 1, 2, 13}, "int"))
      BY MembersFit DEF R!Closed
    <2>2. ArgFits(R!Arg(R!Ints \cap Nat, "int"))
      BY FieldsHold DEF ArgFits, R!Arg
    <2> QED BY <2>1, <2>2, ChecksFit DEF ArgsFit, R!Placement
  <1>2. ArgsFit(R!++(e.args, R!Placement))
    BY <1>1, JoinedFit DEF EntryFits
  <1>3. e.pends = TRUE => Covered(e.passed \cup {"placement"}, e.copied, e.kept \cup {"placement"})
    BY PlacementCovered DEF EntryFits
  <1> QED BY <1>2, <1>3, CallFits, ZenonT(40) DEF EntryFits, R!OnDevice

(* ... and one with fewer integers.                                        *)
LEMMA TypedFits ==
  ASSUME NEW e, EntryFits(e), {"ordinal", "transform_policy", "unknown_metadata_policy"} \subseteq DOMAIN e.args
  PROVE  EntryFits(R!Typed(e))
PROOF
  <1> DEFINE less == [a \in {"ordinal", "transform_policy", "unknown_metadata_policy"} |-> e.args[a]]
  <1>1. ArgsFit(less)
    BY DEF EntryFits, ArgsFit
  <1>2. R!Typed(e) = R!Call(less, e.passed, e.copied, e.kept, e.writes, e.pends)
    BY DEF R!Typed
  <1>3. /\ e.writes \in BOOLEAN /\ e.pends \in BOOLEAN
        /\ e.pends = TRUE => Covered(e.passed, e.copied, e.kept)
    BY DEF EntryFits
  <1> HIDE DEF less
  <1>4. EntryFits(R!Call(less, e.passed, e.copied, e.kept, e.writes, e.pends))
    BY <1>1, <1>3, CallFits
  <1> QED BY <1>2, <1>4

-----------------------------------------------------------------------------
(* The integers several calls share fit.                                   *)
LEMMA GroupsFit ==
  /\ ArgsFit(R!Filtered) /\ ArgsFit(R!Range) /\ ArgsFit(R!WriteData) /\ ArgsFit(R!Target)
  /\ ArgsFit(R!AttributeRules) /\ ArgsFit(R!PropertyRules) /\ ArgsFit(R!PrimRules)
  /\ ArgsFit(R!ApiSchemaRules) /\ ArgsFit(R!MetadataRules)
PROOF
  <1>1. /\ ArgFits(R!Closed(0 .. 7)) /\ ArgFits(R!Closed(R!Binary)) /\ ArgFits(R!Closed(1 .. 3))
        /\ ArgFits(R!Closed(0 .. 3)) 
    BY MembersFit DEF R!Binary
  <1>2. ArgsFit(R!Filtered) /\ ArgsFit(R!Range) /\ ArgsFit(R!WriteData) /\ ArgsFit(R!Target)
    BY <1>1, ChecksFit DEF ArgsFit, R!Filtered, R!Range, R!WriteData, R!Target
  <1>3. /\ ArgsFit(R!AttributeRules) /\ ArgsFit(R!PropertyRules) /\ ArgsFit(R!PrimRules)
        /\ ArgsFit(R!ApiSchemaRules) /\ ArgsFit(R!MetadataRules)
    BY <1>1, ChecksFit DEF ArgsFit, R!AttributeRules, R!PropertyRules, R!PrimRules, R!ApiSchemaRules, R!MetadataRules
  <1> QED BY <1>2, <1>3

(* The integers of an export description fit.                              *)
LEMMA ExportDescFits == ArgsFit(R!ExportDesc)
PROOF
  <1> DEFINE rest == [ordinal |-> R!Ordinal, since_ordinal |-> R!Uint64, selection |-> R!Closed(R!Binary),
                      layer_mode |-> R!Closed(R!Binary), transform_policy |-> R!Closed(0 .. 2),
                      unknown_metadata_policy |-> R!Closed(0 .. 2),
                      source_api_schema_policy |-> R!Closed(R!Binary), projection |-> R!Closed(R!Binary)]
  <1>1. ArgFits(R!Closed(0 .. 2)) /\ ArgFits(R!Closed(R!Binary))
    BY MembersFit DEF R!Binary
  <1>2. ArgsFit(rest)
    BY <1>1, ChecksFit DEF ArgsFit
  <1> HIDE DEF rest
  <1>3. R!ExportDesc = R!++(R!++(R!++(R!++(R!++(R!AttributeRules, R!PropertyRules), R!PrimRules),
                                       R!ApiSchemaRules), R!MetadataRules), rest)
    BY DEF R!ExportDesc, rest
  <1>4. ArgsFit(R!++(R!++(R!AttributeRules, R!PropertyRules), R!PrimRules))
    BY GroupsFit, JoinedFit
  <1>5. ArgsFit(R!++(R!++(R!++(R!++(R!AttributeRules, R!PropertyRules), R!PrimRules),
                                       R!ApiSchemaRules), R!MetadataRules))
    BY <1>4, GroupsFit, JoinedFit
  <1> QED BY <1>2, <1>3, <1>5, JoinedFit

(* A call without integers has none that do not fit.                       *)
LEMMA NoArgsFit == ArgsFit(<<>>)
PROOF
  BY DEF ArgsFit

(* Entry points of queries and reads (stage.py).                           *)
LEMMA QueriesFit ==
  /\ EntryFits(R!Config) /\ EntryFits(R!Query) /\ EntryFits(R!QueryFromPathList) /\ EntryFits(R!FetchQueryResult)
  /\ EntryFits(R!ReleaseQuery) /\ EntryFits(R!ReadAttributes) /\ EntryFits(R!FetchReadNext)
PROOF
  <1>1. EntryFits(R!Config)
    <2>1. ArgFits(R!Arg(1 .. 4, "long")) /\ ArgFits(R!Arg(0 .. 3, "long"))
      BY FieldsHold, RequestsAssumption DEF ArgFits, R!Arg, R!Longs
    <2> QED BY <2>1, SyncFits DEF ArgsFit, R!Config
  <1>2. EntryFits(R!Query)
    BY GroupsFit, ChecksFit, JoinedFit, AsyncFits, Covers DEF ArgsFit, R!Query
  <1>3. EntryFits(R!QueryFromPathList) /\ EntryFits(R!FetchQueryResult) /\ EntryFits(R!FetchReadNext)
    BY ChecksFit, SyncFits DEF ArgsFit, R!QueryFromPathList, R!FetchQueryResult, R!FetchReadNext
  <1>4. EntryFits(R!ReleaseQuery)
    BY ChecksFit, AsyncFits, Covers DEF ArgsFit, R!ReleaseQuery
  <1>5. EntryFits(R!ReadAttributes)
    BY GroupsFit, ChecksFit, JoinedFit, AsyncFits, Covers DEF ArgsFit, R!ReadAttributes
  <1> QED BY <1>1, <1>2, <1>3, <1>4, <1>5

(* Entry points of writes, clones and hierarchies (stage.py).              *)
LEMMA WritesFit ==
  /\ EntryFits(R!WriteAttribute) /\ EntryFits(R!WriteAttributes) /\ EntryFits(R!DeleteAttributes)
  /\ EntryFits(R!Clone) /\ EntryFits(R!FetchCloneResult) /\ EntryFits(R!ComputeHierarchy) /\ EntryFits(R!GetHierarchy)
  /\ EntryFits(R!FetchHierarchyResult) /\ EntryFits(R!ReleaseHierarchy)
PROOF
  <1>1. ArgsFit(R!++(R!WriteData, R!Target))
    BY GroupsFit, JoinedFit
  <1>2. EntryFits(R!WriteAttribute) /\ EntryFits(R!WriteAttributes)
    BY <1>1, AsyncFits, Covers DEF R!WriteAttribute, R!WriteAttributes
  <1>3. EntryFits(R!DeleteAttributes) /\ EntryFits(R!Clone)
    BY ChecksFit, AsyncFits, Covers DEF ArgsFit, R!DeleteAttributes, R!Clone
  <1>4. EntryFits(R!FetchCloneResult) /\ EntryFits(R!FetchHierarchyResult)
    BY ChecksFit, SyncFits DEF ArgsFit, R!FetchCloneResult, R!FetchHierarchyResult
  <1>5. EntryFits(R!ComputeHierarchy) /\ EntryFits(R!GetHierarchy) /\ EntryFits(R!ReleaseHierarchy)
    BY ChecksFit, AsyncFits, Covers DEF ArgsFit, R!ComputeHierarchy, R!GetHierarchy, R!ReleaseHierarchy
  <1> QED BY <1>2, <1>3, <1>4, <1>5

(* Entry points of maps and write floors (stage.py).                       *)
LEMMA MapsFit ==
  /\ EntryFits(R!MapAttribute) /\ EntryFits(R!FetchMapNext) /\ EntryFits(R!AdvanceWriteFloor)
  /\ EntryFits(R!GetOldestPreservedOrdinal) /\ EntryFits(R!GetAttributeWriteFloor)
  /\ EntryFits(R!FetchOrdinal) /\ EntryFits(R!ReleaseOrdinalQuery)
PROOF
  <1>1. ArgFits(R!Closed(R!Binary)) /\ ArgFits(R!Closed(0 .. 2))
    BY MembersFit DEF R!Binary
  <1>2. EntryFits(R!MapAttribute)
    <2> DEFINE own == [semantic |-> R!Open, attribute_mode |-> R!Closed(R!Binary), element_sizes |-> R!ElementSize]
    <2>1. ArgsFit(R!++(R!Target, own))
      BY <1>1, GroupsFit, ChecksFit, JoinedFit DEF ArgsFit
    <2> QED BY <2>1, AsyncFits, Covers DEF R!MapAttribute
  <1>3. EntryFits(R!FetchMapNext) /\ EntryFits(R!FetchOrdinal)
    BY ChecksFit, SyncFits DEF ArgsFit, R!FetchMapNext, R!FetchOrdinal
  <1>4. EntryFits(R!AdvanceWriteFloor) /\ EntryFits(R!GetAttributeWriteFloor)
    BY <1>1, ChecksFit, CopiedFits, Covers DEF ArgsFit, R!AdvanceWriteFloor, R!GetAttributeWriteFloor
  <1>5. EntryFits(R!GetOldestPreservedOrdinal) /\ EntryFits(R!ReleaseOrdinalQuery)
    BY ChecksFit, NoArgsFit, AsyncFits, Covers DEF ArgsFit, R!GetOldestPreservedOrdinal, R!ReleaseOrdinalQuery
  <1> QED BY <1>2, <1>3, <1>4, <1>5

(* Entry points of population (population.py).                             *)
LEMMA PopulationFit ==
  /\ EntryFits(R!OpenUsd) /\ EntryFits(R!OpenUsdFromString) /\ EntryFits(R!OpenUsdWithDesc)
  /\ EntryFits(R!OpenUsdFromStringWithDesc) /\ EntryFits(R!RepopulateUsdWithDesc)
  /\ EntryFits(R!AddUsdReference) /\ EntryFits(R!AddUsdReferenceFromString) /\ EntryFits(R!RemoveUsd)
  /\ EntryFits(R!ResetUsd) /\ EntryFits(R!UpdateFromUsdTime) /\ EntryFits(R!ApplyUsdChanges)
  /\ EntryFits(R!RegisterUsdSchemas)
PROOF
  <1>1. EntryFits(R!OpenUsd) /\ EntryFits(R!OpenUsdWithDesc) /\ EntryFits(R!RepopulateUsdWithDesc)
    BY ChecksFit, AsyncFits, Covers DEF ArgsFit, R!OpenUsd, R!OpenUsdWithDesc, R!RepopulateUsdWithDesc
  <1>2. EntryFits(R!AddUsdReference) /\ EntryFits(R!ResetUsd) /\ EntryFits(R!RegisterUsdSchemas)
    BY NoArgsFit, SyncFits, AsyncFits, Covers DEF R!AddUsdReference, R!ResetUsd, R!RegisterUsdSchemas
  <1>3. EntryFits(R!RemoveUsd) /\ EntryFits(R!UpdateFromUsdTime)
    BY ChecksFit, AsyncFits, Covers DEF ArgsFit, R!RemoveUsd, R!UpdateFromUsdTime
  <1> QED BY <1>1, <1>2, <1>3
          DEF R!OpenUsdFromString, R!OpenUsdFromStringWithDesc, R!AddUsdReferenceFromString, R!ApplyUsdChanges

(* Entry points of exports (population_export.py).                         *)
LEMMA ExportsFit ==
  /\ EntryFits(R!ExportToIdentifier) /\ EntryFits(R!EnqueueToIdentifier)
  /\ EntryFits(R!ExportToDestination) /\ EntryFits(R!ExportToDestinationAsync)
  /\ EntryFits(R!Typed(R!ExportToIdentifier)) /\ EntryFits(R!Typed(R!EnqueueToIdentifier))
  /\ EntryFits(R!CreateExportDestination) /\ EntryFits(R!CreateExportDestinationAsync)
PROOF
  <1> DEFINE typed == {"ordinal", "transform_policy", "unknown_metadata_policy"}
  <1>1. typed \subseteq DOMAIN R!ExportDesc
    BY DEF R!ExportDesc, R!++
  <1>2. EntryFits(R!ExportToIdentifier) /\ EntryFits(R!EnqueueToIdentifier)
    BY ExportDescFits, SyncFits, CopiedFits, Covers DEF R!ExportToIdentifier, R!EnqueueToIdentifier
  <1>3. R!ExportToIdentifier.args = R!ExportDesc /\ R!EnqueueToIdentifier.args = R!ExportDesc
    BY DEF R!ExportToIdentifier, R!EnqueueToIdentifier, R!Sync, R!Copied, R!Call
  <1>4. EntryFits(R!Typed(R!ExportToIdentifier)) /\ EntryFits(R!Typed(R!EnqueueToIdentifier))
    BY <1>1, <1>2, <1>3, TypedFits
  <1>5. ArgsFit(R!++([destination |-> R!Handle], R!ExportDesc))
    BY ExportDescFits, ChecksFit, JoinedFit DEF ArgsFit
  <1>6. EntryFits(R!ExportToDestination) /\ EntryFits(R!ExportToDestinationAsync)
    BY <1>5, SyncFits, CopiedFits, Covers DEF R!ExportToDestination, R!ExportToDestinationAsync
  <1>7. ArgFits(R!Closed(R!Binary))
    BY MembersFit DEF R!Binary
  <1>8. EntryFits(R!CreateExportDestination) /\ EntryFits(R!CreateExportDestinationAsync)
    BY <1>7, SyncFits, AsyncFits, Covers DEF ArgsFit, R!CreateExportDestination, R!CreateExportDestinationAsync
  <1> QED BY <1>2, <1>4, <1>6, <1>8

(* Entry points of the path dictionary and of logging.                     *)
LEMMA PathsAndLogFit ==
  /\ EntryFits(R!InternToken) /\ EntryFits(R!TokenToString) /\ EntryFits(R!InternPath) /\ EntryFits(R!PathToString)
  /\ EntryFits(R!PathListCount) /\ EntryFits(R!GetPaths) /\ EntryFits(R!SetLogCallback) /\ EntryFits(R!FlushLog)
PROOF
  <1>1. EntryFits(R!InternToken) /\ EntryFits(R!InternPath)
    BY NoArgsFit, SyncFits DEF R!InternToken, R!InternPath
  <1>2. /\ EntryFits(R!TokenToString) /\ EntryFits(R!PathToString) /\ EntryFits(R!PathListCount)
        /\ EntryFits(R!GetPaths) /\ EntryFits(R!FlushLog)
    BY ChecksFit, SyncFits DEF ArgsFit, R!TokenToString, R!PathToString, R!PathListCount, R!GetPaths, R!FlushLog
  <1>3. EntryFits(R!SetLogCallback)
    <2>1. ArgFits(R!Closed({-2, -1, 0, 1, 3}))
      BY MembersFit
    <2> QED BY <2>1, SyncFits DEF ArgsFit, R!SetLogCallback
  <1> QED BY <1>1, <1>2, <1>3

(* Every entry point is as it should be.                                   *)
LEMMA EntriesFit ==
  ASSUME NEW e \in R!Entries
  PROVE  EntryFits(e)
PROOF
  <1>1. EntryFits(R!OnDevice(R!ReadAttributes)) /\ EntryFits(R!OnDevice(R!MapAttribute))
    BY QueriesFit, MapsFit, OnDeviceFits
  <1>2. EntryFits(R!OnDevice(R!WriteAttribute)) /\ EntryFits(R!OnDevice(R!WriteAttributes))
    BY WritesFit, OnDeviceFits
  <1> QED
    BY <1>1, <1>2, QueriesFit, WritesFit, MapsFit, PopulationFit, ExportsFit, PathsAndLogFit
    DEF R!Entries, R!ExportToUsdLayer, R!ExportToUsdStage, R!ExportToUsdFile,
        R!ExportToUsdLayerAsync, R!ExportToUsdStageAsync, R!ExportToUsdFileAsync

-----------------------------------------------------------------------------
(* The machine                                                             *)

(* The invariant: what is kept is what the entry point keeps, and the      *)
(* data of a write is there until its event, if any, has fired.            *)
RequestOK ==
  /\ EntryFits(entry)
  /\ DOMAIN args = DOMAIN entry.args
  /\ R!ExactOrRefused
  /\ calling = "pending" => entry.pends = TRUE /\ kept = entry.kept
  /\ calling \in {"asked", "called"} => event = "none" /\ (entry.writes = TRUE => "payload" \in owned)
  /\ event = "due" => "payload" \in owned

(* The invariant of requests holds at the start ...                        *)
LEMMA RequestStarts == R!Init => RequestOK
PROOF
  <1> SUFFICES ASSUME R!Init PROVE RequestOK
    OBVIOUS
  <1>1. EntryFits(entry)
    BY EntriesFit DEF R!Init
  <1>2. DOMAIN args = DOMAIN entry.args
    BY DEF R!Init, R!Usual
  <1>3. R!ExactOrRefused
    BY DEF R!Init, R!ExactOrRefused
  <1>4. calling = "asked" /\ event = "none" /\ (entry.writes = TRUE => "payload" \in owned)
    BY DEF R!Init
  <1> QED BY <1>1, <1>2, <1>3, <1>4 DEF RequestOK

(* ... after every step ...                                                *)
LEMMA RequestStep == RequestOK /\ [R!Next]_requestVars => RequestOK'
PROOF
  <1> SUFFICES ASSUME RequestOK, [R!Next]_requestVars PROVE RequestOK'
    OBVIOUS
  <1>1. CASE UNCHANGED requestVars
    BY <1>1 DEF RequestOK, requestVars, R!ExactOrRefused
  <1>2. CASE R!Marshal
    <2>1. EntryFits(entry)' /\ (DOMAIN args = DOMAIN entry.args)'
      BY <1>2 DEF RequestOK, R!Marshal
    <2>2. R!ExactOrRefused'
      <3>1. CASE ~R!Accepted(entry, args)
        BY <1>2, <3>1 DEF RequestOK, R!Marshal, R!ExactOrRefused
      <3>2. CASE R!Accepted(entry, args)
        <4>1. received' = [n \in DOMAIN args |-> R!Stored(entry.args[n].field, args[n])]
          BY <1>2, <3>2 DEF R!Marshal
        <4>2. ASSUME NEW n \in DOMAIN args, entry.args[n].field # "opaque"
              PROVE  R!Stored(entry.args[n].field, args[n]) = args[n]
          BY <3>2, <4>2 DEF R!Accepted, RequestOK, EntryFits, ArgsFit, ArgFits
        <4>3. entry' = entry /\ args' = args
          BY <1>2 DEF R!Marshal
        <4> QED BY <4>1, <4>2, <4>3 DEF R!ExactOrRefused
      <3> QED BY <3>1, <3>2
    <2>3. calling' \in {"called", "refused"} /\ event' = "none" /\ (entry.writes = TRUE => "payload" \in owned)'
      BY <1>2 DEF R!Marshal, RequestOK
    <2> QED BY <2>1, <2>2, <2>3 DEF RequestOK
  <1>3. CASE R!Answer
    BY <1>3 DEF RequestOK, R!Answer, R!ExactOrRefused
  <1>4. CASE R!Enqueued
    <2>1. EntryFits(entry)' /\ (DOMAIN args = DOMAIN entry.args)' /\ R!ExactOrRefused'
      BY <1>4 DEF RequestOK, R!Enqueued, R!ExactOrRefused
    <2>2. (calling' = "pending") /\ entry'.pends = TRUE /\ kept' = entry'.kept
      BY <1>4 DEF RequestOK, EntryFits, R!Enqueued
    <2>3. event' = "due" => "payload" \in owned'
      BY <1>4 DEF RequestOK, EntryFits, R!Enqueued
    <2> QED BY <2>1, <2>2, <2>3 DEF RequestOK
  <1>5. CASE R!Complete
    BY <1>5 DEF RequestOK, R!Complete, R!ExactOrRefused
  <1>6. CASE R!Fire
    BY <1>6 DEF RequestOK, R!Fire, R!ExactOrRefused
  <1>7. CASE R!Wait
    BY <1>7 DEF RequestOK, R!Wait, R!ExactOrRefused
  <1>8. CASE R!Forget
    BY <1>8 DEF RequestOK, R!Forget, R!ExactOrRefused
  <1> QED BY <1>1, <1>2, <1>3, <1>4, <1>5, <1>6, <1>7, <1>8 DEF R!Next

(* ... and says what is wanted.                                            *)
LEMMA RequestRight == RequestOK => R!ExactOrRefused /\ R!InputsLive
PROOF
  <1> SUFFICES ASSUME RequestOK PROVE R!InputsLive
    BY DEF RequestOK
  <1>1. kept \cup owned \subseteq R!Closure(R!Refers, kept \cup owned)
    BY ReachedAtLeast
  <1>2. CASE calling = "pending"
    <2>1. R!Closure(R!Points, entry.passed) \ entry.copied \subseteq R!Closure(R!Refers, kept)
      BY <1>2 DEF RequestOK, EntryFits, Covered
    <2>2. R!Closure(R!Refers, kept) \subseteq R!Closure(R!Refers, kept \cup owned)
      BY ReachedMore
    <2> QED BY <1>1, <2>1, <2>2 DEF R!InputsLive, R!StillRead, RequestOK
  <1>3. CASE calling # "pending"
    BY <1>1, <1>3 DEF R!InputsLive, R!StillRead, RequestOK
  <1> QED BY <1>2, <1>3

-----------------------------------------------------------------------------
(* Tensors: numbers                                                        *)

(* Division by what goes in u times with a rest.                           *)
LEMMA DividesOnce ==
  ASSUME NEW c \in Nat \ {0}, NEW u \in Nat, NEW r \in Nat, r < c
  PROVE  (c * u + r) \div c = u /\ (c * u + r) % c = r
PROOF OBVIOUS

(* Division with rest.                                                     *)
LEMMA DividesUp ==
  ASSUME NEW c \in Nat \ {0}, NEW k \in Nat
  PROVE  /\ k \div c \in Nat /\ k % c \in Nat /\ k % c < c
         /\ k = c * (k \div c) + (k % c)
PROOF OBVIOUS

(* What is less is its own rest.                                           *)
LEMMA RestOfLess ==
  ASSUME NEW x \in Nat, NEW y \in Nat, x < y
  PROVE  x % y = x
PROOF OBVIOUS

(* Digits of mixed radix.                                                  *)
LEMMA Digits ==
  ASSUME NEW k \in Nat, NEW a \in Nat \ {0}, NEW b \in Nat \ {0}
  PROVE  /\ k % (a * b) = ((k \div b) % a) * b + (k % b)
         /\ k \div (a * b) = (k \div b) \div a
PROOF
  <1>1. PICK q \in Nat, r \in Nat : r < b /\ k = b * q + r /\ k \div b = q /\ k % b = r
    BY DividesUp
  <1>2. PICK u \in Nat, v \in Nat : v < a /\ q = a * u + v /\ q \div a = u /\ q % a = v
    BY DividesUp
  <1>3. a * b \in Nat \ {0} /\ v * b + r \in Nat
    OBVIOUS
  <1>4. k = (a * b) * u + (v * b + r)
    <2>1. b * (a * u + v) + r = (a * b) * u + (v * b + r)
      OBVIOUS
    <2> QED BY <1>1, <1>2, <2>1
  <1>5. v * b + r < a * b
    <2>1. (v + 1) * b <= a * b
      BY <1>2
    <2>2. (v + 1) * b = v * b + b
      OBVIOUS
    <2> QED BY <1>1, <2>1, <2>2
  <1>6. k \div (a * b) = u /\ k % (a * b) = v * b + r
    BY <1>3, <1>4, <1>5, DividesOnce
  <1> QED BY <1>1, <1>2, <1>6

(* A function that goes up from 0 by steps is there ...                    *)
LEMMA StepsUp ==
  ASSUME NEW n \in Nat, NEW base \in Int, NEW G \in [1 .. n -> [Int -> Int]]
  PROVE  \E f \in [0 .. n -> Int] : f[0] = base /\ \A k \in 1 .. n : f[k] = G[k][f[k - 1]]
PROOF
  <1> DEFINE Upto(m, f) == f[0] = base /\ \A k \in 1 .. n : k <= m => f[k] = G[k][f[k - 1]]
  <1> HIDE DEF Upto
  <1> DEFINE N == {m \in Nat : \E f \in [0 .. n -> Int] : Upto(m, f)}
  <1>1. 0 \in N
    <2> DEFINE f == [k \in 0 .. n |-> base]
    <2>1. f \in [0 .. n -> Int] /\ f[0] = base
      OBVIOUS
    <2> HIDE DEF f
    <2>2. Upto(0, f)
      BY <2>1 DEF Upto
    <2> QED BY <2>1, <2>2
  <1>2. ASSUME NEW m \in Nat, m \in N PROVE m + 1 \in N
    <2>1. PICK f \in [0 .. n -> Int] : Upto(m, f)
      BY <1>2
    <2> DEFINE more == [k \in 0 .. n |-> IF k = m + 1 THEN G[k][f[k - 1]] ELSE f[k]]
    <2>2. \A k \in 1 .. n : G[k][f[k - 1]] \in Int
      <3> TAKE k \in 1 .. n
      <3>1. f[k - 1] \in Int /\ G[k] \in [Int -> Int]
        OBVIOUS
      <3> QED BY <3>1
    <2>3. more \in [0 .. n -> Int]
      <3>1. \A k \in 0 .. n : k = m + 1 => k \in 1 .. n
        OBVIOUS
      <3> QED BY <2>2, <3>1
    <2>4. ASSUME NEW k \in 1 .. n, k <= m + 1 PROVE more[k] = G[k][more[k - 1]]
      <3>1. more[k - 1] = f[k - 1] /\ k \in 0 .. n
        BY <2>4
      <3>2. CASE k = m + 1
        BY <3>1, <3>2
      <3>3. CASE k <= m
        <4>1. more[k] = f[k] /\ f[k] = G[k][f[k - 1]]
          BY <2>1, <3>1, <3>3 DEF Upto
        <4> QED BY <3>1, <4>1
      <3> QED BY <2>4, <3>2, <3>3
    <2>5. more[0] = base
      BY <2>1 DEF Upto
    <2> HIDE DEF more
    <2>6. Upto(m + 1, more)
      BY <2>4, <2>5 DEF Upto
    <2> QED BY <2>3, <2>6
  <1>3. n \in N
    <2> HIDE DEF N
    <2> QED BY <1>1, <1>2, Induction
  <1>4. PICK f \in [0 .. n -> Int] : Upto(n, f)
    BY <1>3
  <1>5. f[0] = base /\ \A k \in 1 .. n : f[k] = G[k][f[k - 1]]
    BY <1>4 DEF Upto
  <1> QED BY <1>5

(* ... and what holds at 0 and, with a number up to n, of the next, holds  *)
(* of all of them.                                                         *)
LEMMA InductionUpTo ==
  ASSUME NEW n \in Nat, NEW N, 0 \in N, \A m \in 0 .. (n - 1) : m \in N => m + 1 \in N
  PROVE  0 .. n \subseteq N
PROOF
  <1> DEFINE M == {m \in Nat : m <= n => m \in N}
  <1>1. 0 \in M
    OBVIOUS
  <1>2. ASSUME NEW m \in Nat, m \in M PROVE m + 1 \in M
    <2>1. m + 1 <= n => m \in 0 .. (n - 1) /\ m <= n
      OBVIOUS
    <2> QED BY <1>2, <2>1
  <1>3. Nat \subseteq M
    <2> HIDE DEF M
    <2> QED BY <1>1, <1>2, Induction
  <1> QED BY <1>3

(* What the product of the last dimensions is made of.                     *)
LEMMA SpansAre ==
  ASSUME NEW s \in Seq(Int)
  PROVE  /\ T!Spans(s) \in [0 .. Len(s) -> Int]
         /\ T!Spans(s)[0] = 1
         /\ \A m \in 1 .. Len(s) : T!Spans(s)[m] = s[Len(s) - m + 1] * T!Spans(s)[m - 1]
PROOF
  <1>1. PICK n \in Nat : n = Len(s)
    OBVIOUS
  <1> DEFINE G == [m \in 1 .. n |-> [x \in Int |-> s[n - m + 1] * x]]
             Body(f) == [m \in 0 .. n |-> IF m = 0 THEN 1 ELSE s[n - m + 1] * f[m - 1]]
             P == T!Spans(s)
  <1>2. \A m \in 1 .. n : s[n - m + 1] \in Int
    BY <1>1
  <1>3. G \in [1 .. n -> [Int -> Int]]
    BY <1>2
  <1>4. \E f : f = Body(f)
    <2>1. PICK f \in [0 .. n -> Int] : f[0] = 1 /\ \A k \in 1 .. n : f[k] = G[k][f[k - 1]]
      <3>1. 1 \in Int
        OBVIOUS
      <3> HIDE DEF G
      <3> QED BY <1>3, <3>1, StepsUp, Zenon
    <2>2. \A k \in 1 .. n : G[k][f[k - 1]] = s[n - k + 1] * f[k - 1]
      <3> TAKE k \in 1 .. n
      <3>1. f[k - 1] \in Int
        OBVIOUS
      <3> QED BY <3>1
    <2> HIDE DEF G
    <2>3. \A m \in 0 .. n : f[m] = IF m = 0 THEN 1 ELSE s[n - m + 1] * f[m - 1]
      BY <2>1, <2>2
    <2>4. f = [m \in 0 .. n |-> f[m]]
      OBVIOUS
    <2> QED BY <2>3, <2>4
  <1>5. P = CHOOSE f : f = Body(f)
    BY <1>1 DEF T!Spans
  <1> HIDE DEF P
  <1>6. P = Body(P)
    BY <1>4, <1>5
  <1> DEFINE N == {m \in 0 .. n : P[m] \in Int}
  <1>7. \A m \in 0 .. n : P[m] = IF m = 0 THEN 1 ELSE s[n - m + 1] * P[m - 1]
    BY <1>6
  <1>8. 0 \in N
    BY <1>7
  <1>9. \A m \in 0 .. (n - 1) : m \in N => m + 1 \in N
    <2> TAKE m \in 0 .. (n - 1)
    <2>1. P[m + 1] = s[n - m] * P[m] /\ s[n - m] \in Int
      BY <1>1, <1>7
    <2>2. \A x, y \in Int : x * y \in Int
      OBVIOUS
    <2> QED BY <2>1, <2>2
  <1>10. 0 .. n \subseteq N
    <2> HIDE DEF N
    <2> QED BY <1>8, <1>9, InductionUpTo
  <1>11. P \in [0 .. n -> Int]
    BY <1>6, <1>10
  <1> QED BY <1>1, <1>7, <1>11 DEF P

(* What a sum is made of.                                                  *)
LEMMA TotalIs ==
  ASSUME NEW s \in Seq(Int)
  PROVE  \E sums \in [0 .. Len(s) -> Int] :
           /\ T!Total(s) = sums[Len(s)] /\ sums[0] = 0
           /\ \A m \in 1 .. Len(s) : sums[m] = s[Len(s) - m + 1] + sums[m - 1]
PROOF
  <1>1. PICK n \in Nat : n = Len(s)
    OBVIOUS
  <1> DEFINE G == [m \in 1 .. n |-> [x \in Int |-> s[n - m + 1] + x]]
             Body(f) == [m \in 0 .. n |-> IF m = 0 THEN 0 ELSE s[n - m + 1] + f[m - 1]]
  <1>2. \A m \in 1 .. n : s[n - m + 1] \in Int
    BY <1>1
  <1>3. G \in [1 .. n -> [Int -> Int]]
    BY <1>2
  <1>4. \E f : f = Body(f)
    <2>1. PICK f \in [0 .. n -> Int] : f[0] = 0 /\ \A k \in 1 .. n : f[k] = G[k][f[k - 1]]
      <3>1. 0 \in Int
        OBVIOUS
      <3> HIDE DEF G
      <3> QED BY <1>3, <3>1, StepsUp, Zenon
    <2>2. \A k \in 1 .. n : G[k][f[k - 1]] = s[n - k + 1] + f[k - 1]
      <3> TAKE k \in 1 .. n
      <3>1. f[k - 1] \in Int
        OBVIOUS
      <3> QED BY <3>1
    <2> HIDE DEF G
    <2>3. \A m \in 0 .. n : f[m] = IF m = 0 THEN 0 ELSE s[n - m + 1] + f[m - 1]
      BY <2>1, <2>2
    <2>4. f = [m \in 0 .. n |-> f[m]]
      OBVIOUS
    <2> QED BY <2>3, <2>4
  <1> DEFINE sums == CHOOSE f : f = Body(f)
  <1>5. T!Total(s) = sums[n]
    BY <1>1 DEF T!Total
  <1>6. sums = Body(sums)
    BY <1>4
  <1> HIDE DEF sums
  <1> DEFINE N == {m \in 0 .. n : sums[m] \in Int}
  <1>7. \A m \in 0 .. n : sums[m] = IF m = 0 THEN 0 ELSE s[n - m + 1] + sums[m - 1]
    BY <1>6
  <1>8. 0 \in N
    BY <1>7
  <1>9. \A m \in 0 .. (n - 1) : m \in N => m + 1 \in N
    <2> TAKE m \in 0 .. (n - 1)
    <2>1. sums[m + 1] = s[n - m] + sums[m] /\ s[n - m] \in Int
      BY <1>1, <1>7
    <2> QED BY <2>1
  <1>10. 0 .. n \subseteq N
    <2> HIDE DEF N
    <2> QED BY <1>8, <1>9, InductionUpTo
  <1>11. sums \in [0 .. n -> Int]
    BY <1>6, <1>10
  <1>12. \A m \in 1 .. n : sums[m] = s[n - m + 1] + sums[m - 1]
    BY <1>7
  <1>13. sums[0] = 0
    BY <1>7
  <1> QED BY <1>1, <1>5, <1>11, <1>12, <1>13

(* Spans of dimensions none of which is negative are naturals, and if one  *)
(* is not 0, none of those inside it is.                                   *)
LEMMA SpansNatural ==
  ASSUME NEW s \in Seq(Int), NEW h \in 0 .. Len(s), \A m \in 1 .. h : s[Len(s) - m + 1] >= 0
  PROVE  /\ \A m \in 0 .. h : T!Spans(s)[m] \in Nat
         /\ T!Spans(s)[h] # 0 =>
              /\ \A m \in 0 .. h : T!Spans(s)[m] \in Nat \ {0}
              /\ \A m \in 1 .. h : s[Len(s) - m + 1] \in Nat \ {0}
PROOF
  <1>1. PICK n \in Nat : n = Len(s)
    OBVIOUS
  <1>0. h \in Nat /\ h \in 0 .. n
    BY <1>1
  <1> DEFINE P == T!Spans(s)
  <1> HIDE DEF P
  <1>2. P \in [0 .. n -> Int] /\ P[0] = 1 /\ \A m \in 1 .. n : P[m] = s[n - m + 1] * P[m - 1]
    BY <1>1, SpansAre DEF P
  <1>3. \A m \in 0 .. (h - 1) : P[m + 1] = s[n - m] * P[m] /\ s[n - m] \in Nat /\ P[m] \in Int
    <2> TAKE m \in 0 .. (h - 1)
    <2>1. m + 1 \in 1 .. n /\ n - (m + 1) + 1 = n - m /\ (m + 1) - 1 = m /\ n - m \in 1 .. n /\ m + 1 \in 1 .. h
            /\ m \in 0 .. n
      BY <1>0
    <2>2. s[n - m] \in Int /\ s[n - m] >= 0
      BY <1>1, <2>1
    <2>3. P[m + 1] = s[n - (m + 1) + 1] * P[(m + 1) - 1]
      BY <1>2, <2>1
    <2>4. P[m] \in Int
      BY <1>2, <2>1
    <2> QED BY <2>1, <2>2, <2>3, <2>4
  <1>4. 0 .. h \subseteq {m \in 0 .. h : P[m] \in Nat}
    <2> DEFINE N == {m \in 0 .. h : P[m] \in Nat}
    <2>1. 0 \in N
      BY <1>2
    <2>2. \A m \in 0 .. (h - 1) : m \in N => m + 1 \in N
      <3> TAKE m \in 0 .. (h - 1)
      <3> HAVE m \in N
      <3>1. \A x, y \in Nat : x * y \in Nat
        OBVIOUS
      <3>2. P[m] \in Nat /\ m + 1 \in 0 .. h
        OBVIOUS
      <3>3. P[m + 1] \in Nat
        BY <1>3, <3>1, <3>2
      <3> QED BY <3>2, <3>3
    <2> HIDE DEF N
    <2>3. 0 .. h \subseteq N
      BY <1>0, <2>1, <2>2, InductionUpTo
    <2> QED BY <2>3 DEF N
  <1>5. ASSUME NEW m \in 0 .. h, P[m] = 0 PROVE P[h] = 0
    <2> DEFINE N == {k \in 0 .. h : k >= m => P[k] = 0}
    <2>1. 0 \in N
      BY <1>2, <1>5
    <2>2. \A k \in 0 .. (h - 1) : k \in N => k + 1 \in N
      <3> TAKE k \in 0 .. (h - 1)
      <3>1. k >= m => (P[k] = 0 => P[k + 1] = 0)
        <4>1. \A x \in Int : x * 0 = 0
          OBVIOUS
        <4>2. P[k + 1] = s[n - k] * P[k] /\ s[n - k] \in Nat
          BY <1>3, Zenon
        <4> QED BY <4>1, <4>2
      <3>2. k + 1 >= m => k >= m \/ k + 1 = m
        OBVIOUS
      <3> QED BY <1>5, <3>1, <3>2
    <2>3. 0 .. h \subseteq N
      <3> HIDE DEF N
      <3> QED BY <1>0, <2>1, <2>2, InductionUpTo
    <2> QED BY <2>3
  <1>6. ASSUME P[h] # 0, NEW m \in 1 .. h PROVE s[n - m + 1] \in Nat \ {0}
    <2>1. m - 1 \in 0 .. (h - 1) /\ n - (m - 1) = n - m + 1 /\ (m - 1) + 1 = m /\ m \in 0 .. h
      OBVIOUS
    <2>2. P[m] = s[n - m + 1] * P[m - 1] /\ s[n - m + 1] \in Nat /\ P[m - 1] \in Int
      BY <1>3, <2>1
    <2>3. P[m] # 0
      BY <1>5, <1>6, <2>1
    <2> QED BY <2>2, <2>3
  <1> QED BY <1>1, <1>4, <1>5, <1>6 DEF P

(* The last h dimensions are not empty.                                    *)
Within(s, h) ==
  /\ \A m \in 1 .. h : s[Len(s) - m + 1] \in Nat \ {0}
  /\ \A m \in 0 .. h : T!Spans(s)[m] \in Nat \ {0}

(* The sums, from the last up, of each dimension's index times its stride. *)
Sums(s, X, k, sums, h) ==
  \A m \in 1 .. h :
    sums[m] = ((k \div T!Spans(s)[m - 1]) % s[Len(s) - m + 1]) * X[Len(s) - m + 1] + sums[m - 1]

(* The strides of the last h dimensions are compact.                       *)
CompactWithin(s, X, h) == \A m \in 1 .. h : X[Len(s) - m + 1] = T!Spans(s)[m - 1]

(* Where strides are compact, the sum over the last dimensions is the      *)
(* index within them: its digits, of mixed radix, put together again.      *)
LEMMA MixedRadix ==
  ASSUME NEW s \in Seq(Int), NEW h \in 0 .. Len(s), NEW X, NEW k \in Nat, NEW sums, sums[0] = 0,
         Within(s, h), CompactWithin(s, X, h), Sums(s, X, k, sums, h)
  PROVE  sums[h] = k % T!Spans(s)[h]
PROOF
  <1>1. PICK n \in Nat : n = Len(s)
    OBVIOUS
  <1>0. h \in Nat /\ h \in 0 .. n
    BY <1>1
  <1> DEFINE P == T!Spans(s)
  <1> HIDE DEF P
  <1>2. /\ P[0] = 1 /\ \A m \in 1 .. n : P[m] = s[n - m + 1] * P[m - 1]
        /\ \A m \in 0 .. h : P[m] \in Nat \ {0}
    BY <1>1, SpansAre DEF P, Within
  <1> DEFINE N == {m \in 0 .. h : sums[m] = k % P[m]}
  <1>3. 0 \in N
    <2>1. k % 1 = 0
      OBVIOUS
    <2> QED BY <1>2, <2>1
  <1>4. \A m \in 0 .. (h - 1) : m \in N => m + 1 \in N
    <2> TAKE m \in 0 .. (h - 1)
    <2> HAVE m \in N
    <2>1. /\ m + 1 \in 1 .. h /\ m + 1 \in 1 .. n /\ m \in 0 .. h
          /\ n - (m + 1) + 1 = n - m /\ (m + 1) - 1 = m
      BY <1>0
    <2>2. s[n - m] \in Nat \ {0} /\ P[m] \in Nat \ {0}
      BY <1>1, <1>2, <2>1 DEF Within
    <2>3. k % (s[n - m] * P[m]) = ((k \div P[m]) % s[n - m]) * P[m] + (k % P[m])
      <3>1. \A a, b \in Nat \ {0} : k % (a * b) = ((k \div b) % a) * b + (k % b)
        BY Digits
      <3> QED BY <2>2, <3>1
    <2>4. sums[m + 1] = ((k \div P[m]) % s[n - m]) * P[m] + sums[m]
      <3>1. sums[m + 1] = ((k \div P[m]) % s[n - m]) * X[n - m] + sums[m]
        BY <1>1, <2>1 DEF P, Sums
      <3>2. X[n - m] = P[m]
        BY <1>1, <2>1 DEF P, CompactWithin
      <3> QED BY <3>1, <3>2
    <2>5. P[m + 1] = s[n - m] * P[m]
      BY <1>2, <2>1
    <2> QED BY <2>1, <2>3, <2>4, <2>5
  <1>5. h \in N
    <2> HIDE DEF N
    <2>1. 0 .. h \subseteq N
      BY <1>0, <1>3, <1>4, InductionUpTo
    <2> QED BY <2>1
  <1> QED BY <1>5 DEF P

-----------------------------------------------------------------------------
(* Tensors: where elements are                                             *)

(* The offset of an element, dimension by dimension.                       *)
LEMMA ElementIs ==
  ASSUME NEW t, NEW k \in Nat, NEW h \in 0 .. Len(t.shape), t.shape \in Seq(Int), T!Nonnegative(t),
         T!Strides(t) \in Seq(Int), Len(T!Strides(t)) = Len(t.shape), k < T!Count(t),
         CompactWithin(t.shape, T!Strides(t), h)
  PROVE  /\ Within(t.shape, Len(t.shape))
         /\ \E sums : /\ T!Element(t, k) = sums[Len(t.shape)]
                      /\ sums[h] = k % T!Spans(t.shape)[h]
                      /\ Sums(t.shape, T!Strides(t), k, sums, Len(t.shape))
PROOF
  <1> DEFINE s == t.shape
             P == T!Spans(s)
             X == T!Strides(t)
             digits == [d \in DOMAIN s |-> ((k \div T!Compact(s)[d]) % s[d]) * X[d]]
  <1>1. PICK n \in Nat : n = Len(s) /\ DOMAIN s = 1 .. n
    OBVIOUS
  <1>0. h \in Nat /\ h \in 0 .. n
    BY <1>1
  <1>2. X \in Seq(Int) /\ Len(X) = n
    BY <1>1
  <1>3. T!Element(t, k) = T!Total(digits)
    BY DEF T!Element
  <1>4. \A d \in 1 .. n : s[d] \in Int /\ s[d] >= 0
    <2>1. \A d \in 1 .. n : s[d] >= 0
      BY <1>1 DEF T!Nonnegative
    <2>2. \A d \in 1 .. n : s[d] \in Int
      <3>1. s \in Seq(Int)
        OBVIOUS
      <3> HIDE DEF s
      <3> QED BY <1>1, <3>1
    <2> QED BY <2>1, <2>2
  <1>5. /\ \A m \in 0 .. n : P[m] \in Nat \ {0}
        /\ \A d \in 1 .. n : s[d] \in Nat \ {0}
        /\ Within(s, n)
    <2>1. \A m \in 1 .. n : s[n - m + 1] >= 0
      <3> TAKE m \in 1 .. n
      <3>1. n - m + 1 \in 1 .. n
        OBVIOUS
      <3> QED BY <1>4, <3>1
    <2>2. n \in 0 .. n /\ s \in Seq(Int)
      OBVIOUS
    <2>3. P[n] \in Nat /\ (P[n] # 0 =>
              /\ \A m \in 0 .. n : P[m] \in Nat \ {0}
              /\ \A m \in 1 .. n : s[n - m + 1] \in Nat \ {0})
      <3> HIDE DEF s
      <3> QED BY <1>1, <2>1, <2>2, SpansNatural
    <2>4. P[n] # 0
      <3>1. T!Count(t) = P[n]
        BY <1>1 DEF T!Count, T!Product
      <3> QED BY <2>3, <3>1
    <2>5. ASSUME NEW d \in 1 .. n PROVE s[d] \in Nat \ {0}
      <3>1. n - d + 1 \in 1 .. n /\ n - (n - d + 1) + 1 = d
        OBVIOUS
      <3> QED BY <2>3, <2>4, <3>1
    <2> QED BY <1>1, <2>3, <2>4, <2>5 DEF Within
  <1> HIDE DEF s, P, X
  <1>6. ASSUME NEW d \in 1 .. n
        PROVE  digits[d] = ((k \div P[n - d]) % s[d]) * X[d] /\ digits[d] \in Int
    <2>1. n - d \in 0 .. n /\ T!Compact(s)[d] = P[n - d]
      BY <1>1 DEF T!Compact, P
    <2>2. P[n - d] \in Nat \ {0} /\ s[d] \in Nat \ {0} /\ X[d] \in Int
      BY <1>2, <1>5, <2>1
    <2>3. k \div P[n - d] \in Nat
      BY <2>2, DividesUp
    <2>4. (k \div P[n - d]) % s[d] \in Nat
      BY <2>2, <2>3, DividesUp
    <2>5. \A x, y \in Int : x * y \in Int
      OBVIOUS
    <2> QED BY <1>1, <2>1, <2>2, <2>4, <2>5
  <1>7. digits \in Seq(Int) /\ Len(digits) = n
    <2>1. digits = [d \in 1 .. n |-> digits[d]]
      BY <1>1
    <2> HIDE DEF digits
    <2>2. \A d \in 1 .. n : digits[d] \in Int
      BY <1>6
    <2> QED BY <2>1, <2>2
  <1> HIDE DEF digits
  <1>8. PICK sums \in [0 .. n -> Int] :
          /\ T!Total(digits) = sums[n] /\ sums[0] = 0
          /\ \A m \in 1 .. n : sums[m] = digits[n - m + 1] + sums[m - 1]
    BY <1>7, TotalIs
  <1>9. ASSUME NEW m \in 1 .. n
        PROVE  sums[m] = ((k \div P[m - 1]) % s[n - m + 1]) * X[n - m + 1] + sums[m - 1]
    <2>1. n - m + 1 \in 1 .. n /\ n - (n - m + 1) = m - 1
      OBVIOUS
    <2>2. sums[m] = digits[n - m + 1] + sums[m - 1]
      BY <1>8
    <2>3. digits[n - m + 1] = ((k \div P[n - (n - m + 1)]) % s[n - m + 1]) * X[n - m + 1]
      BY <1>6, <2>1
    <2> QED BY <2>1, <2>2, <2>3
  <1>10. Sums(s, X, k, sums, n)
    BY <1>1, <1>9 DEF Sums, P
  <1>11. sums[h] = k % P[h]
    <2>1. s \in Seq(Int) /\ h \in 0 .. Len(s) /\ CompactWithin(s, X, h)
      BY DEF s, X
    <2>2. Within(s, h)
      <3>1. \A m \in 1 .. h : m \in 1 .. n
        BY <1>0
      <3>2. \A m \in 0 .. h : m \in 0 .. n
        BY <1>0
      <3> QED BY <1>5, <3>1, <3>2 DEF Within
    <2>3. Sums(s, X, k, sums, h)
      <3>1. \A m \in 1 .. h : m \in 1 .. n
        BY <1>0
      <3> QED BY <1>10, <3>1 DEF Sums
    <2> HIDE DEF s
    <2>4. k \in Nat /\ sums[0] = 0
      BY <1>8
    <2>5. \A h0 \in 0 .. Len(s) : Within(s, h0) /\ CompactWithin(s, X, h0) /\ Sums(s, X, k, sums, h0)
            => sums[h0] = k % T!Spans(s)[h0]
      <3> HIDE DEF P, X, s
      <3> QED BY <2>1, <2>4, MixedRadix, SMTT(30)
    <2> QED BY <2>1, <2>2, <2>3, <2>5 DEF P
  <1> QED BY <1>1, <1>3, <1>5, <1>8, <1>10, <1>11 DEF s, P, X

(* A compact tensor counts its elements one by one ...                     *)
LEMMA CompactElement ==
  ASSUME NEW t, NEW k \in Nat, t.shape \in Seq(Int), T!Nonnegative(t), T!IsCompact(t),
         k < T!Count(t)
  PROVE  T!Element(t, k) = k
PROOF
  <1> DEFINE s == t.shape
             P == T!Spans(s)
             X == T!Strides(t)
  <1>1. PICK n \in Nat : n = Len(s) /\ DOMAIN s = 1 .. n
    OBVIOUS
  <1>2. P \in [0 .. n -> Int]
    BY <1>1, SpansAre
  <1>3. X = [d \in 1 .. n |-> P[n - d]]
    BY <1>1 DEF T!Strides, T!IsCompact, T!Compact
  <1>4. X \in Seq(Int) /\ Len(X) = Len(t.shape)
    <2>1. \A d \in 1 .. n : P[n - d] \in Int
      BY <1>2
    <2> HIDE DEF P, X
    <2> QED BY <1>1, <1>3, <2>1
  <1>5. \A m \in 1 .. n : X[n - m + 1] = P[m - 1]
    <2> TAKE m \in 1 .. n
    <2>1. n - m + 1 \in 1 .. n /\ n - (n - m + 1) = m - 1
      OBVIOUS
    <2> HIDE DEF P, X
    <2> QED BY <1>3, <2>1
  <1>6. n \in 0 .. n /\ n \in 0 .. Len(t.shape)
    BY <1>1
  <1>7. T!Element(t, k) = k % P[n] /\ P[n] \in Nat \ {0}
    <2>1. CompactWithin(s, X, n)
      BY <1>1, <1>5 DEF CompactWithin
    <2>2. Within(s, n) /\ \E sums : T!Element(t, k) = sums[n] /\ sums[n] = k % P[n]
      BY <1>1, <1>4, <1>6, <2>1, ElementIs, SMTT(30)
    <2> QED BY <1>6, <2>2 DEF Within
  <1>8. T!Count(t) = P[n]
    BY <1>1 DEF T!Count, T!Product
  <1> HIDE DEF P
  <1> QED BY <1>7, <1>8, RestOfLess

(* ... and one whose rows are compact, row by row.                         *)
LEMMA RowElement ==
  ASSUME NEW t, NEW k \in Nat, t.shape \in Seq(Int), Len(t.shape) > 0, T!Nonnegative(t),
         T!Strides(t) \in Seq(Int), Len(T!Strides(t)) = Len(t.shape),
         \A d \in 2 .. Len(t.shape) : T!Strides(t)[d] = T!Compact(t.shape)[d],
         k < T!Count(t)
  PROVE  /\ T!Components(t) \in Nat \ {0} /\ T!Count(t) = t.shape[1] * T!Components(t)
         /\ k \div T!Components(t) < t.shape[1]
         /\ T!Element(t, k) =
              (k \div T!Components(t)) * T!Strides(t)[1] + (k % T!Components(t))
PROOF
  <1> DEFINE s == t.shape
             P == T!Spans(s)
             X == T!Strides(t)
  <1>1. PICK n \in Nat : n = Len(s) /\ DOMAIN s = 1 .. n
    OBVIOUS
  <1>2. n - 1 \in 0 .. Len(s) /\ n \in 1 .. n
    BY <1>1
  <1>3. ASSUME NEW m \in 1 .. (n - 1) PROVE X[n - m + 1] = P[m - 1]
    <2>1. n - m + 1 \in 2 .. n /\ n - m + 1 \in 1 .. n /\ n - (n - m + 1) = m - 1
      OBVIOUS
    <2>2. T!Compact(s)[n - m + 1] = P[n - (n - m + 1)]
      BY <1>1, <2>1 DEF T!Compact
    <2> HIDE DEF P, X
    <2>3. X[n - m + 1] = T!Compact(s)[n - m + 1]
      BY <1>1, <2>1 DEF X
    <2> QED BY <2>1, <2>2, <2>3
  <1>4. Within(s, n) /\ \E sums : /\ T!Element(t, k) = sums[n] /\ sums[n - 1] = k % P[n - 1]
                                 /\ Sums(s, X, k, sums, n)
    <2>1. CompactWithin(s, X, n - 1)
      BY <1>1, <1>3 DEF CompactWithin
    <2> QED BY <1>1, <1>2, <2>1, ElementIs
  <1>5. P[n] = s[n - n + 1] * P[n - 1]
    BY <1>1, <1>2, SpansAre
  <1>6. T!Components(t) = P[n - 1] /\ T!Count(t) = P[n]
    BY <1>1 DEF T!Components, T!Count, T!Product
  <1> DEFINE c == P[n - 1]
  <1>7. c \in Nat \ {0} /\ s[1] \in Nat \ {0} /\ X[1] \in Int
    <2>1. n - n + 1 = 1 /\ n - 1 \in 0 .. n
      BY <1>2
    <2>2. X[1] \in Int
      <3>1. X \in Seq(Int) /\ Len(X) = n /\ n > 0
        BY <1>1
      <3> HIDE DEF X
      <3> QED BY <3>1
    <2> HIDE DEF P, X, s
    <2> QED BY <1>1, <1>2, <1>4, <2>1, <2>2 DEF Within, P
  <1>8. T!Count(t) = s[1] * c
    <2>1. n - n + 1 = 1
      OBVIOUS
    <2> HIDE DEF P
    <2> QED BY <1>5, <1>6, <2>1
  <1>9. T!Element(t, k) = ((k \div c) % s[1]) * X[1] + (k % c)
    <2>1. n - n + 1 = 1
      OBVIOUS
    <2> HIDE DEF P, X, s
    <2>2. PICK sums : T!Element(t, k) = sums[n] /\ sums[n - 1] = k % P[n - 1] /\ Sums(s, X, k, sums, n)
      BY <1>4
    <2>3. sums[n] = ((k \div P[n - 1]) % s[n - n + 1]) * X[n - n + 1] + sums[n - 1]
      BY <1>1, <1>2, <2>2 DEF Sums, P
    <2> QED BY <2>1, <2>2, <2>3
  <1> HIDE DEF c, P, X, s
  <1>10. k \div c \in Nat /\ k \div c < s[1]
    <2>1. s[1] * c = c * s[1]
      BY <1>7
    <2> QED BY <1>7, <1>8, <2>1, QuotientBelow
  <1>11. (k \div c) % s[1] = k \div c
    BY <1>7, <1>10, RestOfLess
  <1> QED BY <1>6, <1>7, <1>8, <1>9, <1>10, <1>11 DEF c, P, X, s

(* A descriptor, with a stride for every dimension or none.                *)
Descriptors ==
  {t \in [shape : Seq(Int), strides : Seq(Int) \cup {None}, bits : Nat, lanes : Nat,
          offset : Nat, backing : Int \cup {None}] :
     t.strides # None => Len(t.strides) = Len(t.shape)}

(* How many elements there are ...                                         *)
LEMMA CountNatural ==
  ASSUME NEW t \in Descriptors, T!Nonnegative(t)
  PROVE  T!Count(t) \in Nat
PROOF
  <1> DEFINE s == t.shape
  <1>1. PICK n \in Nat : n = Len(s) /\ DOMAIN s = 1 .. n /\ s \in Seq(Int)
    BY DEF Descriptors
  <1>2. \A m \in 1 .. n : s[n - m + 1] >= 0
    <2> TAKE m \in 1 .. n
    <2>1. n - m + 1 \in 1 .. n
      OBVIOUS
    <2> QED BY <1>1, <2>1 DEF T!Nonnegative
  <1>3. n \in 0 .. n
    OBVIOUS
  <1> HIDE DEF s
  <1>4. T!Spans(s)[n] \in Nat
    BY <1>1, <1>2, <1>3, SpansNatural
  <1> QED BY <1>1, <1>4 DEF s, T!Count, T!Product

(* ... and a stride for every dimension.                                   *)
LEMMA CompactAre ==
  ASSUME NEW s \in Seq(Int)
  PROVE  T!Compact(s) \in Seq(Int) /\ Len(T!Compact(s)) = Len(s)
PROOF
  <1>1. PICK n \in Nat : n = Len(s) /\ DOMAIN s = 1 .. n
    OBVIOUS
  <1>2. T!Spans(s) \in [0 .. n -> Int]
    BY <1>1, SpansAre
  <1>3. T!Compact(s) = [d \in 1 .. n |-> T!Spans(s)[n - d]]
    BY <1>1 DEF T!Compact
  <1>4. \A d \in 1 .. n : T!Spans(s)[n - d] \in Int
    BY <1>2
  <1>5. T!Compact(s) \in Seq(Int) /\ Len(T!Compact(s)) = n
    BY <1>3, <1>4
  <1> QED BY <1>1, <1>5

(* Likewise where strides are given.                                       *)
LEMMA StridesAre ==
  ASSUME NEW t \in Descriptors
  PROVE  T!Strides(t) \in Seq(Int) /\ Len(T!Strides(t)) = Len(t.shape)
PROOF
  <1>1. t.shape \in Seq(Int)
    BY DEF Descriptors
  <1>2. T!Compact(t.shape) \in Seq(Int) /\ Len(T!Compact(t.shape)) = Len(t.shape)
    BY <1>1, CompactAre
  <1> QED BY <1>2 DEF T!Strides, Descriptors

(* A compact tensor's positions go element by element ...                  *)
LEMMA CompactPositions ==
  ASSUME NEW t \in Descriptors, T!Nonnegative(t), T!IsCompact(t), t.lanes # 0
  PROVE  T!Positions(t) =
           [k \in 0 .. (T!Count(t) * t.lanes - 1) |->
              8 * (t.offset + (k \div t.lanes) * T!ItemBytes(t)) + (k % t.lanes) * t.bits]
PROOF
  <1>1. T!Count(t) \in Nat /\ t.lanes \in Nat \ {0} /\ t.shape \in Seq(Int)
    BY CountNatural DEF Descriptors
  <1> DEFINE ks == 0 .. (T!Count(t) * t.lanes - 1)
  <1>2. T!Positions(t) =
          [k \in ks |-> 8 * (t.offset + T!Element(t, k \div t.lanes) * T!ItemBytes(t))
                          + (k % t.lanes) * t.bits]
    <2>1. {n \in ks : T!Nonnegative(t)} = ks
      OBVIOUS
    <2> QED BY <2>1 DEF T!Positions
  <1>3. ASSUME NEW k \in ks PROVE T!Element(t, k \div t.lanes) = k \div t.lanes
    <2>1. T!Count(t) * t.lanes \in Nat /\ T!Count(t) * t.lanes = t.lanes * T!Count(t)
      BY <1>1
    <2>2. k \in Nat /\ k < t.lanes * T!Count(t)
      BY <2>1
    <2>3. k \div t.lanes \in Nat /\ k \div t.lanes < T!Count(t)
      BY <1>1, <2>2, QuotientBelow
    <2> QED BY <1>1, <2>3, CompactElement
  <1> HIDE DEF ks
  <1> QED BY <1>2, <1>3 DEF ks

(* ... and if its elements are whole bytes, scalar by scalar.              *)
LEMMA AlignedPositions ==
  ASSUME NEW t \in Descriptors, T!Nonnegative(t), T!IsCompact(t), t.lanes # 0,
         (t.bits * t.lanes) % 8 = 0
  PROVE  /\ T!Positions(t) = [k \in 0 .. (T!Count(t) * t.lanes - 1) |-> 8 * t.offset + k * t.bits]
         /\ T!ItemBytes(t) \in Nat /\ 8 * T!ItemBytes(t) = t.bits * t.lanes
PROOF
  <1> DEFINE b == t.bits
             l == t.lanes
             o == t.offset
             B == T!ItemBytes(t)
  <1>1. b \in Nat /\ l \in Nat \ {0} /\ o \in Nat
    BY DEF Descriptors
  <1>2. B \in Nat /\ 8 * B = b * l
    <2> DEFINE x == b * l
    <2>1. x \in Nat /\ x % 8 = 0 /\ B = (x + 7) \div 8
      BY <1>1 DEF T!ItemBytes
    <2> HIDE DEF x, B
    <2>2. (x + 7) \div 8 \in Nat /\ 8 * ((x + 7) \div 8) = x
      BY <2>1
    <2> QED BY <2>1, <2>2 DEF x
  <1> HIDE DEF b, l, o, B
  <1>3. ASSUME NEW k \in Nat PROVE 8 * (o + (k \div l) * B) + (k % l) * b = 8 * o + k * b
    <2>1. PICK q \in Nat, r \in Nat : k \div l = q /\ k % l = r /\ k = l * q + r
      BY <1>1, DividesUp, SMTT(30)
    <2>2. 8 * (o + q * B) = 8 * o + q * (8 * B)
      BY <1>1, <1>2
    <2>3. q * (b * l) + r * b = (l * q + r) * b
      BY <1>1
    <2>4. 8 * o + q * (b * l) + r * b = 8 * o + (q * (b * l) + r * b)
      BY <1>1
    <2>5. 8 * (o + (k \div l) * B) + (k % l) * b = 8 * o + q * (b * l) + r * b
      BY <1>2, <2>1, <2>2
    <2> QED BY <2>1, <2>3, <2>4, <2>5
  <1>4. T!Positions(t) = [k \in 0 .. (T!Count(t) * l - 1) |-> 8 * (o + (k \div l) * B) + (k % l) * b]
    BY CompactPositions DEF b, l, o, B
  <1>5. \A k \in 0 .. (T!Count(t) * l - 1) : k \in Nat
    OBVIOUS
  <1>6. T!Positions(t) = [k \in 0 .. (T!Count(t) * l - 1) |-> 8 * o + k * b]
    BY <1>3, <1>4, <1>5
  <1> QED BY <1>2, <1>6 DEF b, l, o, B

-----------------------------------------------------------------------------
(* Tensors: what conversions keep                                          *)

(* What tensors of one and two dimensions are made of.                     *)
LEMMA Single ==
  ASSUME NEW s \in Seq(Int), Len(s) = 1
  PROVE  s[1] \in Int /\ s = <<s[1]>>
PROOF OBVIOUS

(* How many elements those have.                                           *)
LEMMA Products ==
  ASSUME NEW n \in Int, NEW c \in Int
  PROVE  T!Product(<<n>>) = n /\ T!Product(<<n, c>>) = n * c
PROOF
  <1>1. <<n>> \in Seq(Int) /\ Len(<<n>>) = 1 /\ <<n>>[1] = n
    OBVIOUS
  <1>2. <<n, c>> \in Seq(Int) /\ Len(<<n, c>>) = 2 /\ <<n, c>>[1] = n /\ <<n, c>>[2] = c
    OBVIOUS
  <1>3. T!Spans(<<n>>)[0] = 1 /\ T!Spans(<<n>>)[1] = n * 1
    <2>1. \A m \in 1 .. 1 : T!Spans(<<n>>)[m] = <<n>>[1 - m + 1] * T!Spans(<<n>>)[m - 1]
      BY <1>1, SpansAre
    <2>2. T!Spans(<<n>>)[0] = 1
      BY <1>1, SpansAre
    <2> QED BY <1>1, <2>1, <2>2
  <1>4. T!Spans(<<n, c>>)[1] = c * 1 /\ T!Spans(<<n, c>>)[2] = n * T!Spans(<<n, c>>)[1]
    <2>1. \A m \in 1 .. 2 : T!Spans(<<n, c>>)[m] = <<n, c>>[2 - m + 1] * T!Spans(<<n, c>>)[m - 1]
      BY <1>2, SpansAre
    <2>2. T!Spans(<<n, c>>)[0] = 1
      BY <1>2, SpansAre
    <2> QED BY <1>2, <2>1, <2>2
  <1> QED BY <1>1, <1>2, <1>3, <1>4 DEF T!Product

(* A view starts at the offset and goes scalar by scalar.                  *)
LEMMA ViewPositions ==
  ASSUME NEW t \in Descriptors, T!CanView(t)
  PROVE  /\ T!View(t) \in Descriptors
         /\ T!Count(t) * t.lanes \in Nat
         /\ T!Positions(T!View(t)) = [k \in 0 .. (T!Count(t) * t.lanes - 1) |-> 8 * t.offset + k * t.bits]
PROOF
  <1> DEFINE v == T!View(t)
             n == T!Count(t) * t.lanes
  <1>1. n \in Nat
    <2>1. T!Count(t) \in Int
      <3>1. PICK m \in Nat : m = Len(t.shape) /\ t.shape \in Seq(Int)
        BY DEF Descriptors
      <3>2. T!Spans(t.shape) \in [0 .. m -> Int] /\ m \in 0 .. m
        BY <3>1, SpansAre
      <3> QED BY <3>1, <3>2 DEF T!Count, T!Product
    <2>2. T!Count(t) \in Nat /\ t.lanes \in Nat
      BY <2>1 DEF T!CanView, Descriptors
    <2> QED BY <2>2
  <1>2. /\ v.shape = <<n>> /\ v.strides = None /\ v.bits = t.bits /\ v.lanes = 1
        /\ v.offset = t.offset /\ v.backing = t.backing
    BY DEF T!View, T!Descriptor
  <1> HIDE DEF n
  <1>3. v \in Descriptors
    <2>1. <<n>> \in Seq(Int)
      BY <1>1
    <2>2. v = [shape |-> <<n>>, strides |-> None, bits |-> t.bits, lanes |-> 1,
               offset |-> t.offset, backing |-> t.backing]
      BY DEF T!View, T!Descriptor, n
    <2> HIDE DEF v
    <2> QED BY <1>2, <2>1, <2>2 DEF Descriptors
  <1>4. T!Nonnegative(v) /\ T!IsCompact(v)
    BY <1>1, <1>2 DEF T!Nonnegative, T!IsCompact
  <1>5. T!Count(v) = n
    <2>1. 0 \in Int /\ n \in Int
      BY <1>1
    <2>2. T!Product(<<n>>) = n
      BY <2>1, Products
    <2> QED BY <1>2, <2>2 DEF T!Count
  <1>6. (v.bits * v.lanes) % 8 = 0
    BY <1>2 DEF T!CanView
  <1> HIDE DEF v
  <1>7. T!Positions(v) = [k \in 0 .. (n * 1 - 1) |-> 8 * t.offset + k * t.bits]
    BY <1>2, <1>3, <1>4, <1>5, <1>6, AlignedPositions
  <1>8. n * 1 = n
    BY <1>1
  <1> QED BY <1>1, <1>3, <1>7, <1>8 DEF v, n

(* The flat view of a compact tensor speaks of the same bits.              *)
LEMMA ViewKeeps ==
  ASSUME NEW t \in Descriptors, T!CanView(t), T!Nonnegative(t), T!IsCompact(t)
  PROVE  T!Positions(T!View(t)) = T!Positions(t)
PROOF
  <1>1. t.lanes \in Nat \ {0} /\ t.bits \in {8, 16, 32, 64}
    BY DEF T!CanView, T!LanesOK, Descriptors
  <1>2. (t.bits * t.lanes) % 8 = 0
    <2>1. PICK u \in {1, 2, 4, 8} : t.bits = 8 * u
      <3>1. 8 * 1 = 8 /\ 8 * 2 = 16 /\ 8 * 4 = 32 /\ 8 * 8 = 64
        OBVIOUS
      <3> QED BY <1>1, <3>1
    <2>2. t.bits * t.lanes = 8 * (u * t.lanes) /\ u * t.lanes \in Nat
      BY <1>1, <2>1
    <2>3. \A x \in Nat : (8 * x) % 8 = 0
      OBVIOUS
    <2> QED BY <2>2, <2>3
  <1> QED BY <1>1, <1>2, ViewPositions, AlignedPositions

(* A capsule of a compact tensor speaks of the same bits, ...              *)
LEMMA ExportKeeps ==
  ASSUME NEW t \in Descriptors, T!Nonnegative(t), T!IsCompact(t), t.lanes # 0,
         t.lanes # 1 => Len(t.shape) = 1
  PROVE  /\ T!Exported(t) \in Descriptors
         /\ ~T!Moves(t, t.lanes) => T!Positions(T!Exported(t)) = T!Positions(t)
PROOF
  <1> DEFINE e == T!Exported(t)
  <1>0. /\ t.shape \in Seq(Int) /\ t.lanes \in Nat \ {0} /\ t.bits \in Nat /\ t.offset \in Nat
        /\ t.backing \in Int \cup {None}
    BY DEF Descriptors
  <1>1. CASE t.lanes = 1
    <2>1. e = [shape |-> t.shape, strides |-> None, bits |-> t.bits, lanes |-> 1,
               offset |-> t.offset, backing |-> t.backing]
      BY <1>1 DEF T!Exported, T!Descriptor
    <2> HIDE DEF e
    <2>2. e \in Descriptors /\ T!Nonnegative(e) /\ T!IsCompact(e) /\ e.lanes # 0
      BY <1>0, <2>1 DEF Descriptors, T!Nonnegative, T!IsCompact
    <2>3. T!Count(e) = T!Count(t) /\ T!ItemBytes(e) = T!ItemBytes(t)
      BY <1>1, <2>1 DEF T!Count, T!ItemBytes
    <2>4. e.offset = t.offset /\ e.lanes = t.lanes /\ e.bits = t.bits
      BY <1>1, <2>1
    <2> QED BY <2>2, <2>3, <2>4, CompactPositions DEF e
  <1>2. CASE t.lanes # 1
    <2>1. PICK n \in Int : t.shape = <<n>>
      BY <1>0, <1>2, Single
    <2>2. n >= 0
      BY <2>1 DEF T!Nonnegative
    <2>3. e = [shape |-> <<n, t.lanes>>, strides |-> None, bits |-> t.bits, lanes |-> 1,
               offset |-> t.offset, backing |-> t.backing]
      BY <1>0, <1>2, <2>1 DEF T!Exported, T!Descriptor
    <2> HIDE DEF e
    <2>4. e \in Descriptors
      <3>1. <<n, t.lanes>> \in Seq(Int)
        BY <1>0
      <3> QED BY <1>0, <2>3, <3>1 DEF Descriptors
    <2>5. T!Nonnegative(e) /\ T!IsCompact(e) /\ e.lanes = 1
      BY <1>0, <2>2, <2>3 DEF T!Nonnegative, T!IsCompact
    <2>6. T!Count(e) = n * t.lanes /\ T!Count(t) = n
      BY <1>0, <2>1, <2>3, Products DEF T!Count
    <2>7. ASSUME ~T!Moves(t, t.lanes)
          PROVE  (t.bits * t.lanes) % 8 = 0 /\ (e.bits * e.lanes) % 8 = 0
      <3>0. t.bits % 8 = 0
        BY <1>0, <1>2, <2>7 DEF T!Moves
      <3>1. PICK u \in Nat : t.bits = 8 * u
        BY <1>0, <3>0
      <3>2. t.bits * t.lanes = 8 * (u * t.lanes) /\ u * t.lanes \in Nat
        BY <1>0, <3>1
      <3>3. \A x \in Nat : (8 * x) % 8 = 0
        OBVIOUS
      <3>4. e.bits * e.lanes = 8 * u
        BY <2>3, <3>1
      <3> QED BY <3>1, <3>2, <3>3, <3>4
    <2>8. ASSUME ~T!Moves(t, t.lanes)
          PROVE  T!Positions(t) = [k \in 0 .. (n * t.lanes - 1) |-> 8 * t.offset + k * t.bits]
      BY <1>0, <2>6, <2>7, <2>8, AlignedPositions
    <2>9. ASSUME ~T!Moves(t, t.lanes)
          PROVE  T!Positions(e) = [k \in 0 .. (n * t.lanes * 1 - 1) |-> 8 * t.offset + k * t.bits]
      <3>1. e.offset = t.offset /\ e.bits = t.bits
        BY <2>3
      <3> QED BY <2>4, <2>5, <2>6, <2>7, <2>9, <3>1, AlignedPositions
    <2>10. n * t.lanes * 1 = n * t.lanes
      BY <1>0
    <2> QED BY <2>4, <2>8, <2>9, <2>10 DEF e
  <1> QED BY <1>1, <1>2

(* ... read and map tensors as write input, ...                            *)
LEMMA TypeKeeps ==
  ASSUME NEW t \in Descriptors, T!CanType(t)
  PROVE  /\ T!Typed(t) \in Descriptors /\ T!Nonnegative(T!Typed(t))
         /\ Len(T!Typed(t).shape) = 1 /\ T!Typed(t).lanes # 0 /\ T!Typed(t).bits = t.bits
         /\ T!Typed(t).backing = None
         /\ ~T!Moves(t, T!Components(t)) => T!Positions(T!Typed(t)) = T!Positions(t)
PROOF
  <1> DEFINE c == T!Components(t)
             n == t.shape[1]
             stride == T!Strides(t)[1]
             w == T!Typed(t)
             s == t.shape
             P == T!Spans(s)
  <1>1. PICK h \in Nat : Len(s) = h /\ DOMAIN s = 1 .. h /\ s \in Seq(Int)
    BY DEF Descriptors
  <1>2. /\ h \in 1 .. 3 /\ n \in Nat /\ t.lanes = 1
        /\ \A d \in 2 .. h : s[d] \in Nat \ {0}
    <2>1. h \in 1 .. 3 /\ t.lanes = 1 /\ s[1] >= 0 /\ \A d \in 2 .. h : s[d] > 0
      BY <1>1 DEF T!CanType
    <2>2. \A d \in 1 .. h : s[d] \in Int
      <3> HIDE DEF s
      <3> QED BY <1>1
    <2> QED BY <2>1, <2>2
  <1>3. t.bits \in Nat /\ t.offset \in Nat
    BY DEF Descriptors
  <1>4. c = P[h - 1] /\ c \in Nat \ {0}
    <2>1. P[0] = 1 /\ \A m \in 1 .. h : P[m] = s[h - m + 1] * P[m - 1]
      BY <1>1, SpansAre
    <2> HIDE DEF P, s
    <2>2. h = 1 => P[h - 1] \in Nat \ {0}
      BY <2>1
    <2>3. ASSUME h = 2 PROVE P[h - 1] \in Nat \ {0}
      <3>1. P[1] = s[2] * P[0]
        BY <2>1, <2>3
      <3>2. s[2] \in Nat \ {0}
        BY <1>2, <2>3
      <3> QED BY <2>1, <2>3, <3>1, <3>2
    <2>4. ASSUME h = 3 PROVE P[h - 1] \in Nat \ {0}
      <3>1. P[1] = s[3] * P[0] /\ P[2] = s[2] * P[1]
        BY <2>1, <2>4
      <3>2. s[2] \in Nat \ {0} /\ s[3] \in Nat \ {0}
        BY <1>2, <2>4
      <3>3. P[1] = s[3]
        BY <2>1, <3>1, <3>2
      <3>4. \A x, y \in Nat \ {0} : x * y \in Nat \ {0}
        OBVIOUS
      <3>5. P[2] \in Nat \ {0}
        BY <3>1, <3>2, <3>3, <3>4
      <3> QED BY <2>4, <3>5
    <2>5. T!Components(t) = P[h - 1]
      BY <1>1 DEF T!Components, P, s
    <2> QED BY <1>2, <2>2, <2>3, <2>4, <2>5
  <1>5. /\ stride \in Nat /\ stride % c = 0
        /\ \A d \in 2 .. h : T!Strides(t)[d] = T!Compact(s)[d]
    <2>1. CASE t.strides = None
      <3>1. T!Strides(t) = T!Compact(s) /\ 1 \in DOMAIN s
        BY <1>1, <1>2, <2>1 DEF T!Strides
      <3>2. stride = c
        BY <1>1, <1>4, <3>1 DEF T!Compact
      <3>3. c % c = 0
        BY <1>4
      <3> QED BY <1>4, <3>1, <3>2, <3>3
    <2>2. CASE t.strides # None
      <3>1. T!Strides(t) = t.strides
        BY <2>2 DEF T!Strides
      <3>2. /\ \A d \in 2 .. h : t.strides[d] = T!Compact(s)[d]
            /\ t.strides[1] >= 0 /\ t.strides[1] % c = 0
        BY <1>1, <2>2 DEF T!CanType
      <3>3. stride \in Int
        BY <1>1, <1>2, StridesAre
      <3> QED BY <3>1, <3>2, <3>3
    <2> QED BY <2>1, <2>2
  <1>6. w = [shape |-> <<n>>, strides |-> <<stride \div c>>, bits |-> t.bits, lanes |-> c,
             offset |-> t.offset, backing |-> None]
    <2>1. CASE t.strides = None
      <3>1. T!Strides(t) = T!Compact(s) /\ 1 \in DOMAIN s
        BY <1>1, <1>2, <2>1 DEF T!Strides
      <3>2. stride = c
        BY <1>1, <1>4, <3>1 DEF T!Compact
      <3> QED BY <2>1, <3>2 DEF T!Typed, T!Descriptor
    <2>2. CASE t.strides # None
      BY <2>2 DEF T!Typed, T!Descriptor, T!Strides
    <2> QED BY <2>1, <2>2
  <1>7. PICK u \in Nat : stride = c * u /\ stride \div c = u
    <2> HIDE DEF stride, c
    <2>1. stride \div c \in Nat /\ stride = c * (stride \div c) + (stride % c)
      BY <1>4, <1>5, DividesUp
    <2>2. stride = c * (stride \div c)
      BY <1>4, <1>5, <2>1
    <2> QED BY <2>1, <2>2
  <1> HIDE DEF c, n, stride, w
  <1>8. w \in Descriptors /\ T!Nonnegative(w) /\ Len(w.shape) = 1
    <2>1. <<n>> \in Seq(Int) /\ <<u>> \in Seq(Int) /\ Len(<<n>>) = 1 /\ Len(<<u>>) = 1
      BY <1>2
    <2> QED BY <1>2, <1>3, <1>4, <1>6, <1>7, <2>1, SMTT(30) DEF Descriptors, T!Nonnegative
  <1>9. n * c \in Nat /\ T!Count(w) = n /\ n \in Int
    <2>1. T!Product(<<n>>) = n
      <3>1. n \in Int /\ c \in Int
        BY <1>2, <1>4
      <3> QED BY <3>1, Products
    <2>2. n * c \in Nat /\ n \in Int
      BY <1>2, <1>4
    <2> QED BY <1>6, <2>1, <2>2 DEF T!Count
  <1>10. T!Nonnegative(t)
    <2>1. \A d \in 1 .. h : s[d] >= 0
      <3>1. \A d \in 1 .. h : d = 1 \/ d \in 2 .. h
        OBVIOUS
      <3> QED BY <1>2, <3>1 DEF n
    <2> QED BY <1>1, <2>1 DEF T!Nonnegative
  <1>11. ASSUME ~T!Moves(t, c)
         PROVE  /\ T!ItemBytes(t) \in Nat /\ T!ItemBytes(w) = T!ItemBytes(t) * c
                /\ 8 * T!ItemBytes(t) = t.bits \/ c = 1
    <2> DEFINE b == t.bits
    <2>1. w.bits = b /\ w.lanes = c
      BY <1>6
    <2>2. CASE b % 8 = 0
      <3>1. PICK y \in Nat : b = 8 * y
        BY <1>3, <2>2
      <3>2. b * 1 = 8 * y /\ b * c = 8 * (y * c) /\ y * c \in Nat
        BY <1>4, <3>1
      <3>3. \A x \in Nat : (8 * x + 7) \div 8 = x
        OBVIOUS
      <3>4. T!ItemBytes(t) = y
        BY <1>2, <3>1, <3>2, <3>3 DEF T!ItemBytes
      <3>5. T!ItemBytes(w) = y * c
        BY <2>1, <3>2, <3>3 DEF T!ItemBytes
      <3> QED BY <3>1, <3>4, <3>5
    <2>3. CASE b % 8 # 0
      <3>1. c = 1
        BY <1>4, <1>11, <2>3 DEF T!Moves
      <3>2. T!ItemBytes(w) = T!ItemBytes(t)
        BY <1>2, <2>1, <3>1 DEF T!ItemBytes
      <3>3. T!ItemBytes(t) \in Nat
        BY <1>2, <1>3 DEF T!ItemBytes
      <3> QED BY <3>1, <3>2, <3>3
    <2> QED BY <2>2, <2>3
  <1>12. T!Count(t) = n * c
    <2>1. P[h] = s[1] * P[h - 1]
      <3>1. \A m \in 1 .. h : P[m] = s[h - m + 1] * P[m - 1]
        BY <1>1, SpansAre
      <3>2. h \in 1 .. h /\ h - h + 1 = 1
        BY <1>2
      <3> HIDE DEF P, s
      <3> QED BY <3>1, <3>2
    <2>2. T!Count(t) = P[h]
      BY <1>1 DEF T!Count, T!Product
    <2> QED BY <1>4, <2>1, <2>2 DEF n
  <1> DEFINE ks == 0 .. (n * c - 1)
  <1>13. T!Positions(t) =
           [k \in ks |-> 8 * (t.offset + T!Element(t, k \div 1) * T!ItemBytes(t)) + (k % 1) * t.bits]
    <2>1. {k \in ks : T!Nonnegative(t)} = ks /\ n * c * 1 = n * c
      BY <1>9, <1>10
    <2> QED BY <1>2, <1>12, <2>1 DEF T!Positions
  <1>14. T!Positions(w) =
           [k \in ks |-> 8 * (t.offset + T!Element(w, k \div c) * T!ItemBytes(w)) + (k % c) * t.bits]
    <2>1. {k \in ks : T!Nonnegative(w)} = ks
      BY <1>8
    <2>2. w.offset = t.offset /\ w.bits = t.bits /\ w.lanes = c
      BY <1>6
    <2> QED BY <1>9, <2>1, <2>2 DEF T!Positions
  <1>15. ASSUME NEW k \in ks, ~T!Moves(t, c)
         PROVE  8 * (t.offset + T!Element(t, k \div 1) * T!ItemBytes(t)) + (k % 1) * t.bits
                  = 8 * (t.offset + T!Element(w, k \div c) * T!ItemBytes(w)) + (k % c) * t.bits
    <2>1. k \in Nat /\ k < n * c /\ k \div 1 = k /\ k % 1 = 0
      BY <1>9
    <2>2. /\ k \div c < n
          /\ T!Element(t, k) = (k \div c) * stride + (k % c)
      <3>1. t.shape \in Seq(Int) /\ Len(t.shape) > 0 /\ T!Nonnegative(t) /\ k < T!Count(t)
        BY <1>1, <1>2, <1>10, <1>12, <2>1
      <3>2. /\ T!Strides(t) \in Seq(Int) /\ Len(T!Strides(t)) = Len(t.shape)
            /\ \A d \in 2 .. Len(t.shape) : T!Strides(t)[d] = T!Compact(t.shape)[d]
        BY <1>1, <1>5, StridesAre
      <3>3. /\ k \div T!Components(t) < t.shape[1]
            /\ T!Element(t, k) = (k \div T!Components(t)) * T!Strides(t)[1] + (k % T!Components(t))
        BY <2>1, <3>1, <3>2, RowElement
      <3> QED BY <3>3 DEF c, n, stride
    <2>3. PICK q \in Nat, r \in Nat : k \div c = q /\ k % c = r
      BY <1>4, <2>1, DividesUp
    <2>4. T!Element(w, q) = q * u
      <3>1. /\ w.shape \in Seq(Int) /\ T!Strides(w) \in Seq(Int)
            /\ Len(T!Strides(w)) = Len(w.shape) /\ Len(w.shape) = 1
        BY <1>8, StridesAre DEF Descriptors
      <3>2. q < T!Count(w)
        BY <1>9, <2>2, <2>3
      <3>3. \A d \in 2 .. Len(w.shape) : T!Strides(w)[d] = T!Compact(w.shape)[d]
        BY <3>1
      <3>4. /\ T!Components(w) \in Nat \ {0} /\ T!Count(w) = w.shape[1] * T!Components(w)
            /\ T!Element(w, q) = (q \div T!Components(w)) * T!Strides(w)[1] + (q % T!Components(w))
        <4>1. T!Nonnegative(w) /\ Len(w.shape) > 0
          BY <1>8
        <4> QED BY <3>1, <3>2, <3>3, <4>1, RowElement
      <3>5. T!Components(w) = 1
        <4>1. T!Spans(w.shape)[0] = 1
          BY <3>1, SpansAre
        <4> QED BY <3>1, <4>1 DEF T!Components
      <3>6. T!Strides(w)[1] = u
        <4>1. <<u>> \in Seq(Int) /\ None \notin Seq(Int)
          BY WritesAssumption
        <4> QED BY <1>6, <1>7, <4>1 DEF T!Strides
      <3>7. q \div 1 = q /\ q % 1 = 0
        OBVIOUS
      <3> QED BY <3>4, <3>5, <3>6, <3>7
    <2>5. PICK y \in Nat : /\ T!ItemBytes(t) = y /\ T!ItemBytes(w) = y * c
                           /\ t.bits = 8 * y \/ c = 1
      BY <1>11, <1>15
    <2>6. r * t.bits = r * (8 * y)
      <3>1. CASE t.bits = 8 * y
        BY <3>1
      <3>2. CASE c = 1
        <4>1. r = 0
          BY <2>1, <2>3, <3>2
        <4> QED BY <1>3, <4>1
      <3> QED BY <2>5, <3>1, <3>2
    <2>7. 8 * (t.offset + (q * (c * u) + r) * y) = 8 * (t.offset + (q * u) * (y * c)) + r * (8 * y)
      <3>1. (q * (c * u) + r) * y = (q * u) * (y * c) + r * y
        BY <1>4
      <3>2. (q * u) * (y * c) \in Nat /\ r * y \in Nat /\ r * (8 * y) = 8 * (r * y)
        BY <1>4
      <3> QED BY <1>3, <3>1, <3>2
    <2>8. 0 * t.bits = 0
      BY <1>3
    <2>9. 8 * (t.offset + (q * (c * u) + r) * y) \in Nat
      BY <1>3, <1>4
    <2> QED BY <1>7, <2>1, <2>2, <2>3, <2>4, <2>5, <2>6, <2>7, <2>8, <2>9
  <1>16. ASSUME ~T!Moves(t, c) PROVE T!Positions(w) = T!Positions(t)
    <2> HIDE DEF ks
    <2> QED BY <1>13, <1>14, <1>15, <1>16
  <1>17. w.lanes # 0 /\ w.bits = t.bits /\ w.backing = None
    BY <1>4, <1>6
  <1> QED BY <1>8, <1>16, <1>17 DEF w, c

(* ... and one whose trailing dimensions are folded into its lanes.        *)
LEMMA FoldKeeps ==
  ASSUME NEW t \in Descriptors, NEW o \in Redescriptions, t.lanes # 0, T!CanFold(t, o)
  PROVE  /\ T!Folded(t, o) \in Descriptors /\ T!Folded(t, o).lanes # 0
         /\ T!Folded(t, o).backing = t.backing
         /\ T!Positions(T!Folded(t, o)) = T!Positions(t)
PROOF
  <1> DEFINE s == t.shape
             l == t.lanes
             F == T!Factor(t, o.lanes)
             fits == T!Foldable(t, o.lanes)
             m == CHOOSE m \in fits : \A n \in fits : m <= n
             shape == T!FoldedShape(t, o.lanes)
             f == T!Folded(t, o)
  <1>1. /\ s \in Seq(Int) /\ l \in Nat \ {0} /\ t.bits \in Nat \ {0} /\ t.offset \in Nat
        /\ o.lanes \in Nat \ {0} /\ o.lanes >= l /\ o.lanes % l = 0
        /\ T!Nonnegative(t) /\ T!IsCompact(t)
    <2>1. o.bits \in Nat /\ o.bits > 0 /\ o.bits = t.bits
      BY TensorsAssumption DEF T!CanFold
    <2> QED BY <2>1, TensorsAssumption DEF T!CanFold, T!LanesOK, Descriptors
  <1>2. F \in Nat \ {0} /\ o.lanes = l * F
    <2>1. o.lanes \div l \in Nat /\ o.lanes = l * (o.lanes \div l) + (o.lanes % l)
      BY <1>1, DividesUp
    <2>2. o.lanes = l * (o.lanes \div l)
      BY <1>1, <2>1
    <2>3. o.lanes \div l # 0
      BY <1>1, <2>2
    <2> QED BY <2>1, <2>2, <2>3 DEF T!Factor
  <1>3. PICK h \in Nat : h = Len(s) /\ DOMAIN s = 1 .. h
    BY <1>1
  <1>4. m \in fits /\ (\A n \in fits : m <= n) /\ m \in 0 .. h
    <2>1. fits \in SUBSET Nat /\ fits # {} /\ fits \subseteq 0 .. h
      BY <1>3 DEF T!CanFold, T!Foldable
    <2>2. \E x \in fits : \A y \in fits : x <= y
      BY <2>1, LeastNat
    <2> HIDE DEF fits
    <2> QED BY <2>1, <2>2
  <1>5. shape = IF F > 1 /\ m = h THEN <<1>> ELSE SubSeq(s, 1, h - m)
    BY <1>3 DEF T!FoldedShape
  <1>6. f = [shape |-> shape, strides |-> o.strides, bits |-> t.bits, lanes |-> o.lanes,
             offset |-> t.offset, backing |-> t.backing]
    BY DEF T!Folded, T!Descriptor
  <1>7. o.strides \in {None, T!Compact(shape)}
    BY DEF T!CanFold
  <1>8. T!Aligned(t, o.lanes) /\ T!Count(t) * T!ItemBytes(t) = T!Count(f) * T!ItemBytes(f)
    BY DEF T!CanFold
  <1>9. F = 1 => m = 0
    <2>1. ASSUME F = 1 PROVE 0 \in fits
      <3>1. T!Spans(s)[0] = 1 /\ 0 \in 0 .. h
        BY <1>1, SpansAre
      <3> QED BY <1>3, <2>1, <3>1 DEF T!Foldable
    <2> HIDE DEF fits, m
    <2> QED BY <1>4, <2>1
  <1> HIDE DEF F, fits, m, f
  <1>10. shape \in Seq(Int) /\ \A d \in DOMAIN shape : shape[d] >= 0
    <2>1. CASE F > 1 /\ m = h
      <3>1. shape = <<1>>
        BY <1>5, <2>1
      <3> HIDE DEF shape
      <3> QED BY <3>1
    <2>2. CASE ~(F > 1 /\ m = h)
      <3>1. shape = SubSeq(s, 1, h - m)
        BY <1>5, <2>2
      <3>2. h - m \in 0 .. h
        BY <1>4
      <3>3. \A d \in 1 .. h : s[d] \in Int /\ s[d] >= 0
        <4>1. \A d \in 1 .. h : s[d] >= 0
          BY <1>1, <1>3 DEF T!Nonnegative
        <4> HIDE DEF s
        <4>2. \A d \in 1 .. h : s[d] \in Int
          BY <1>1, <1>3
        <4> QED BY <4>1, <4>2
      <3> HIDE DEF s, shape
      <3>4. shape = [d \in 1 .. (h - m) |-> s[d]]
        BY <1>1, <1>3, <3>1, <3>2
      <3>5. \A d \in 1 .. (h - m) : d \in 1 .. h
        BY <3>2
      <3> QED BY <3>2, <3>3, <3>4, <3>5
    <2> QED BY <2>1, <2>2
  <1>11. T!Compact(shape) \in Seq(Int) /\ Len(T!Compact(shape)) = Len(shape)
    BY <1>10, CompactAre
  <1>12. f \in Descriptors /\ T!Nonnegative(f) /\ T!IsCompact(f) /\ f.lanes = o.lanes /\ f.bits = t.bits
         /\ f.offset = t.offset /\ f.backing = t.backing /\ f.shape = shape
    <2>1. t.backing \in Int \cup {None}
      BY DEF Descriptors
    <2> HIDE DEF shape
    <2> QED BY <1>1, <1>6, <1>7, <1>10, <1>11, <2>1 DEF Descriptors, T!Nonnegative, T!IsCompact
  <1>13. CASE F = 1
    <2>1. shape = s /\ o.lanes = l
      <3>1. h - m = h /\ ~(F > 1 /\ m = h)
        BY <1>9, <1>13
      <3>2. SubSeq(s, 1, h) = s
        BY <1>1, <1>3
      <3>3. shape = SubSeq(s, 1, h)
        <4> HIDE DEF shape, s
        <4> QED BY <1>5, <3>1
      <3>4. l * 1 = l
        BY <1>1
      <3> QED BY <1>2, <1>13, <3>2, <3>3, <3>4
    <2>2. T!Count(f) = T!Count(t) /\ T!ItemBytes(f) = T!ItemBytes(t)
      BY <1>12, <2>1 DEF T!Count, T!ItemBytes
    <2>3. T!Positions(f) = T!Positions(t)
      <3>1. T!Positions(t) =
              [k \in 0 .. (T!Count(t) * l - 1) |->
                 8 * (t.offset + (k \div l) * T!ItemBytes(t)) + (k % l) * t.bits]
        BY <1>1, CompactPositions
      <3>2. T!Positions(f) =
              [k \in 0 .. (T!Count(f) * f.lanes - 1) |->
                 8 * (f.offset + (k \div f.lanes) * T!ItemBytes(f)) + (k % f.lanes) * f.bits]
        BY <1>1, <1>12, CompactPositions
      <3>3. f.offset = t.offset /\ f.bits = t.bits /\ f.lanes = l
        BY <1>12, <2>1
      <3> HIDE DEF l
      <3> QED BY <2>2, <3>1, <3>2, <3>3
    <2> QED BY <1>1, <1>12, <2>3 DEF f
  <1>14. CASE F # 1
    <2>1. (t.bits * l) % 8 = 0
      BY <1>2, <1>8, <1>14 DEF T!Aligned, F
    <2> DEFINE b == t.bits
    <2>2. (f.bits * f.lanes) % 8 = 0
      <3>1. b * (l * F) = (b * l) * F
        BY <1>1, <1>2
      <3>2. PICK y \in Nat : b * l = 8 * y
        BY <1>1, <2>1
      <3>3. b * (l * F) = 8 * (y * F) /\ y * F \in Nat
        BY <1>1, <1>2, <3>1, <3>2
      <3>4. \A x \in Nat : (8 * x) % 8 = 0
        OBVIOUS
      <3> QED BY <1>2, <1>12, <3>3, <3>4
    <2>3. /\ T!Positions(t) = [k \in 0 .. (T!Count(t) * l - 1) |-> 8 * t.offset + k * t.bits]
          /\ T!ItemBytes(t) \in Nat /\ 8 * T!ItemBytes(t) = b * l
      BY <1>1, <2>1, AlignedPositions
    <2>4. /\ T!Positions(f) = [k \in 0 .. (T!Count(f) * o.lanes - 1) |-> 8 * t.offset + k * t.bits]
          /\ T!ItemBytes(f) \in Nat /\ 8 * T!ItemBytes(f) = b * o.lanes
      BY <1>1, <1>12, <2>2, AlignedPositions, SMTT(30)
    <2>5. T!Count(t) \in Nat /\ T!Count(f) \in Nat
      BY <1>1, <1>12, CountNatural
    <2>6. T!Count(t) * l = T!Count(f) * o.lanes
      <3>1. PICK x \in Nat, y \in Nat, w \in Nat, z \in Nat :
              T!Count(t) = x /\ T!Count(f) = y /\ T!ItemBytes(t) = w /\ T!ItemBytes(f) = z
        BY <2>3, <2>4, <2>5
      <3>2. x * w = y * z /\ 8 * w = b * l /\ 8 * z = b * o.lanes
        BY <1>8, <2>3, <2>4, <3>1
      <3>3. b * (x * l) = b * (y * o.lanes)
        <4>1. x * (8 * w) = y * (8 * z)
          BY <3>2
        <4>2. x * (b * l) = b * (x * l) /\ y * (b * o.lanes) = b * (y * o.lanes)
          BY <1>1
        <4> QED BY <3>2, <4>1, <4>2
      <3>4. x * l = y * o.lanes
        <4>1. x * l \in Nat /\ y * o.lanes \in Nat
          BY <1>1
        <4>2. \A p, q \in Nat, n \in Nat \ {0} : n * p = n * q => p = q
          OBVIOUS
        <4> QED BY <1>1, <3>3, <4>1, <4>2
      <3> QED BY <3>1, <3>4
    <2> QED BY <1>1, <1>12, <2>3, <2>4, <2>6 DEF f
  <1> QED BY <1>13, <1>14

-----------------------------------------------------------------------------
(* Tensors: the invariant                                                  *)

(* The invariant: what is described is a descriptor of the bits it spoke   *)
(* of at first, whatever is known of the storage's size is true, and what  *)
(* may be passed on is what an export keeps.                               *)
TensorOK ==
  /\ room \in Int
  /\ form # "none" =>
       /\ tensor \in Descriptors
       /\ tensor.backing # None => tensor.backing <= room
       /\ T!StorageRespected
       /\ form = "foreign" => tensor.lanes # 0
       /\ form \in {"native", "typed"} =>
            /\ T!Nonnegative(tensor) /\ tensor.lanes # 0
            /\ tensor.lanes # 1 => Len(tensor.shape) = 1

(* How much a producer says there is, if it says it.                       *)
LEMMA CountInteger ==
  ASSUME NEW t \in Descriptors
  PROVE  T!Count(t) \in Int
PROOF
  <1>1. PICK n \in Nat : n = Len(t.shape) /\ t.shape \in Seq(Int)
    BY DEF Descriptors
  <1>2. T!Spans(t.shape) \in [0 .. n -> Int] /\ n \in 0 .. n
    BY <1>1, SpansAre
  <1> QED BY <1>1, <1>2 DEF T!Count, T!Product

(* An item is a number of bytes.                                           *)
LEMMA ItemBytesNatural ==
  ASSUME NEW t \in Descriptors
  PROVE  T!ItemBytes(t) \in Nat
PROOF
  <1>1. t.bits \in Nat /\ t.lanes \in Nat
    BY DEF Descriptors
  <1>2. \A x, y \in Nat : x * y \in Nat
    OBVIOUS
  <1>3. \A x \in Nat : (x + 7) \div 8 \in Nat
    OBVIOUS
  <1> QED BY <1>1, <1>2, <1>3 DEF T!ItemBytes

(* An extent is a number, or is not known.                                 *)
LEMMA ExtentInteger ==
  ASSUME NEW t \in Descriptors
  PROVE  T!DescribedExtent(t) \in Int \cup {None}
PROOF
  <1> DEFINE ends == [d \in DOMAIN t.shape |-> (t.shape[d] - 1) * t.strides[d]]
             size == IF t.strides = None THEN T!Count(t)
                     ELSE IF \E d \in DOMAIN t.shape : t.shape[d] = 0 THEN 0
                     ELSE 1 + T!Total(ends)
  <1>1. T!DescribedExtent(t) \in {None, t.offset + T!ItemBytes(t) * size}
    BY DEF T!DescribedExtent
  <1>2. t.offset \in Nat /\ T!ItemBytes(t) \in Nat
    BY ItemBytesNatural DEF Descriptors
  <1>3. size \in Int
    <2>1. CASE t.strides = None
      BY <2>1, CountInteger
    <2>2. CASE t.strides # None
      <3>1. PICK n \in Nat : DOMAIN t.shape = 1 .. n /\ t.shape \in Seq(Int)
                             /\ DOMAIN t.strides = 1 .. n /\ t.strides \in Seq(Int)
        BY <2>2 DEF Descriptors
      <3>2. \A d \in 1 .. n : (t.shape[d] - 1) * t.strides[d] \in Int
        <4> TAKE d \in 1 .. n
        <4>1. t.shape[d] \in Int /\ t.strides[d] \in Int
          BY <3>1
        <4> QED BY <4>1
      <3>3. ends \in Seq(Int)
        BY <3>1, <3>2
      <3> HIDE DEF ends
      <3>4. T!Total(ends) \in Int
        <4>1. PICK sums \in [0 .. Len(ends) -> Int] : T!Total(ends) = sums[Len(ends)]
          BY <3>3, TotalIs
        <4>2. PICK m \in Nat : m = Len(ends)
          BY <3>3
        <4> QED BY <4>1, <4>2
      <3> QED BY <2>2, <3>4
    <2> QED BY <2>1, <2>2
  <1> HIDE DEF size
  <1>4. t.offset + T!ItemBytes(t) * size \in Int
    BY <1>2, <1>3
  <1> QED BY <1>1, <1>4

(* Saying how large the storage is changes nothing else.                   *)
LEMMA BackedKeeps ==
  ASSUME NEW t \in Descriptors, NEW size \in Int \cup {None}
  PROVE  /\ T!Backed(t, size) \in Descriptors
         /\ T!Backed(t, size).backing = size /\ T!Backed(t, size).lanes = t.lanes
         /\ T!Positions(T!Backed(t, size)) = T!Positions(t)
PROOF
  <1> DEFINE b == T!Backed(t, size)
  <1>1. b = [shape |-> t.shape, strides |-> t.strides, bits |-> t.bits, lanes |-> t.lanes,
             offset |-> t.offset, backing |-> size]
    BY DEF T!Backed, T!Descriptor
  <1> HIDE DEF b
  <1>2. b \in Descriptors
    BY <1>1 DEF Descriptors
  <1>3. /\ b.shape = t.shape /\ b.strides = t.strides /\ b.bits = t.bits /\ b.lanes = t.lanes
        /\ b.offset = t.offset /\ b.backing = size
    BY <1>1
  <1>4. /\ T!Count(b) = T!Count(t) /\ T!ItemBytes(b) = T!ItemBytes(t) /\ T!Strides(b) = T!Strides(t)
        /\ T!Nonnegative(b) = T!Nonnegative(t)
    BY <1>3 DEF T!Count, T!ItemBytes, T!Strides, T!Nonnegative
  <1>5. \A k : T!Element(b, k) = T!Element(t, k)
    BY <1>3, <1>4 DEF T!Element
  <1>6. T!Positions(b) = T!Positions(t)
    BY <1>3, <1>4, <1>5 DEF T!Positions
  <1> QED BY <1>2, <1>3, <1>6 DEF b

(* What comes in is a descriptor.                                          *)
LEMMA GivenAre ==
  /\ NativeTensors \cup ForeignTensors \cup Arrays \subseteq Descriptors
  /\ \A t \in NativeTensors : t.backing = None
  /\ \A t \in NativeTensors \cup Arrays : T!Nonnegative(t)
PROOF
  <1>1. ASSUME NEW t \in NativeTensors \cup ForeignTensors \cup Arrays
        PROVE  t \in Descriptors /\ t.backing = None
    BY <1>1, TensorsAssumption DEF Descriptors
  <1> QED BY <1>1, TensorsAssumption DEF T!Nonnegative

(* The invariant holds at first ...                                        *)
LEMMA TensorStarts == T!Init => TensorOK
PROOF
  <1> SUFFICES ASSUME T!Init PROVE TensorOK
    OBVIOUS
  <1>1. ASSUME NEW t \in NativeTensors,
               T!Start(t, "native", t.offset + T!Count(t) * T!ItemBytes(t))
        PROVE  TensorOK
    <2>1. t \in Descriptors /\ t.backing = None /\ T!Nonnegative(t) /\ t.lanes = 1
      BY GivenAre, TensorsAssumption
    <2>2. t.offset + T!Count(t) * T!ItemBytes(t) \in Int
      <3>1. t.offset \in Nat /\ T!Count(t) \in Int /\ T!ItemBytes(t) \in Nat
        BY <2>1, CountInteger, ItemBytesNatural DEF Descriptors
      <3> QED BY <3>1
    <2> QED BY <1>1, <2>1, <2>2
          DEF TensorOK, T!Start, T!StorageRespected, T!PositionsKept, T!ViewInside
  <1>2. ASSUME NEW t \in Arrays, NEW size, size = T!Count(t) * T!ItemBytes(t),
               T!Start(T!Backed(t, size), "array", size)
        PROVE  TensorOK
    <2>1. t \in Descriptors
      BY GivenAre
    <2>2. size \in Int
      <3>1. T!Count(t) \in Int /\ T!ItemBytes(t) \in Nat
        BY <2>1, CountInteger, ItemBytesNatural
      <3> QED BY <1>2, <3>1
    <2>3. T!Backed(t, size) \in Descriptors /\ T!Backed(t, size).backing = size
      BY <2>1, <2>2, BackedKeeps
    <2> QED BY <1>2, <2>2, <2>3
          DEF TensorOK, T!Start, T!StorageRespected, T!PositionsKept, T!ViewInside
  <1>3. ASSUME NEW t \in ForeignTensors, T!LanesOK(t.lanes), NEW size,
               size = IF T!DescribedExtent(t) = None THEN 0 ELSE T!DescribedExtent(t),
               T!Start(T!Ingested(t), "foreign", size)
        PROVE  TensorOK
    <2>1. t \in Descriptors
      BY GivenAre
    <2>2. T!DescribedExtent(t) \in Int \cup {None}
      BY <2>1, ExtentInteger
    <2>3. /\ T!Ingested(t) \in Descriptors /\ T!Ingested(t).backing = T!DescribedExtent(t)
          /\ T!Ingested(t).lanes = t.lanes
      BY <2>1, <2>2, BackedKeeps DEF T!Ingested
    <2>4. t.lanes # 0
      BY <1>3 DEF T!LanesOK
    <2> QED BY <1>3, <2>2, <2>3, <2>4
          DEF TensorOK, T!Start, T!StorageRespected, T!PositionsKept, T!ViewInside
  <1>4. ASSUME NEW t, T!Start(t, "none", 0) PROVE TensorOK
    BY <1>4 DEF TensorOK, T!Start
  <1> QED BY <1>1, <1>2, <1>3, <1>4 DEF T!Init

(* A redescribed array is described by a descriptor.                       *)
LEMMA DescribedIs ==
  ASSUME NEW a \in Descriptors, NEW o \in Redescriptions, T!CanDescribe(a, o)
  PROVE  T!Described(a, o) \in Descriptors /\ T!Described(a, o).backing = a.backing
PROOF
  <1> DEFINE shape == IF o.shape = None THEN a.shape ELSE o.shape
             ndim == IF o.ndim = None THEN Len(shape) ELSE o.ndim
             strides == IF o.strides = None THEN None ELSE SubSeq(o.strides, 1, ndim)
             bits == IF o.bits = None THEN a.bits ELSE o.bits
             lanes == IF o.bits = None THEN 1 ELSE o.lanes
             d == T!Described(a, o)
  <1>1. d = [shape |-> SubSeq(shape, 1, ndim), strides |-> strides, bits |-> bits, lanes |-> lanes,
             offset |-> a.offset, backing |-> a.backing]
    BY DEF T!Described, T!Descriptor
  <1>2. /\ o.shape \in Seq(Int) \cup {None} /\ o.strides \in Seq(Int) \cup {None}
        /\ o.ndim \in Nat \cup {None} /\ o.bits \in Nat \cup {None} /\ o.lanes \in Nat
    BY TensorsAssumption
  <1>3. /\ a.shape \in Seq(Int) /\ a.bits \in Nat /\ a.offset \in Nat /\ a.backing \in Int \cup {None}
    BY DEF Descriptors
  <1>4. shape \in Seq(Int)
    BY <1>2, <1>3
  <1>5. ndim <= Len(shape) /\ (o.strides # None => Len(o.strides) >= ndim)
    BY DEF T!CanDescribe
  <1>6. bits \in Nat /\ lanes \in Nat
    BY <1>2, <1>3
  <1> HIDE DEF shape, bits, lanes, d
  <1>7. ndim \in Nat
    BY <1>2, <1>4
  <1> HIDE DEF ndim
  <1>8. \A s \in Seq(Int) : ndim <= Len(s) => SubSeq(s, 1, ndim) \in Seq(Int) /\ Len(SubSeq(s, 1, ndim)) = ndim
    <2> TAKE s \in Seq(Int)
    <2> HAVE ndim <= Len(s)
    <2>1. PICK n \in Nat : n = Len(s) /\ DOMAIN s = 1 .. n
      OBVIOUS
    <2>2. SubSeq(s, 1, ndim) = [k \in 1 .. ndim |-> s[k]]
      BY <1>7, <2>1
    <2>3. \A k \in 1 .. ndim : s[k] \in Int
      BY <1>7, <2>1
    <2> QED BY <1>7, <2>2, <2>3
  <1>9. SubSeq(shape, 1, ndim) \in Seq(Int) /\ Len(SubSeq(shape, 1, ndim)) = ndim
    BY <1>4, <1>5, <1>8
  <1>10. strides # None => strides \in Seq(Int) /\ Len(strides) = ndim
    BY <1>2, <1>5, <1>8
  <1> HIDE DEF strides
  <1> QED BY <1>1, <1>3, <1>6, <1>9, <1>10 DEF d, Descriptors

(* The flat view of storage whose size is known stays inside it.           *)
LEMMA ViewStaysInside ==
  ASSUME NEW t \in Descriptors, NEW size \in Int, T!CanView(t), t.backing # None, t.backing <= size,
         NEW k \in DOMAIN T!Positions(T!View(t))
  PROVE  T!Positions(T!View(t))[k] \in 0 .. (8 * size - t.bits)
PROOF
  <1> DEFINE n == T!Count(t) * t.lanes
  <1>1. /\ t.offset \in Nat /\ t.bits \in {8, 16, 32, 64} /\ n \in Nat /\ t.backing \in Int
        /\ T!Positions(T!View(t)) = [j \in 0 .. (n - 1) |-> 8 * t.offset + j * t.bits]
    BY ViewPositions DEF T!CanView, Descriptors
  <1>2. T!Count(t) # 0
    <2>1. ASSUME T!Count(t) = 0 PROVE n = 0
      <3>1. t.lanes \in Nat
        BY DEF Descriptors
      <3> QED BY <2>1, <3>1
    <2> HIDE DEF n
    <2>2. ASSUME n = 0 PROVE FALSE
      BY <1>1, <2>2
    <2> QED BY <2>1, <2>2
  <1>3. t.offset + (n * t.bits) \div 8 <= t.backing
    BY <1>2 DEF T!CanView, T!Fits, T!ViewBytes
  <1> HIDE DEF n
  <1>4. k \in Nat /\ k + 1 <= n /\ T!Positions(T!View(t))[k] = 8 * t.offset + k * t.bits
    BY <1>1
  <1>5. 8 * t.offset + k * t.bits \in 0 .. (8 * size - t.bits)
    <2>1. CASE t.bits = 8
      BY <1>1, <1>3, <1>4, <2>1
    <2>2. CASE t.bits = 16
      BY <1>1, <1>3, <1>4, <2>2
    <2>3. CASE t.bits = 32
      BY <1>1, <1>3, <1>4, <2>3
    <2>4. CASE t.bits = 64
      BY <1>1, <1>3, <1>4, <2>4, SMTT(30)
    <2> QED BY <1>1, <2>1, <2>2, <2>3, <2>4
  <1> QED BY <1>4, <1>5

(* A refused descriptor is gone; nothing else is said of it.               *)
LEMMA RefusedKeeps == TensorOK /\ T!Refused => TensorOK'
PROOF BY DEF TensorOK, T!Refused

(* What a conversion of a producer's or the binding's descriptor keeps.    *)
LEMMA BecomesKeeps ==
  ASSUME TensorOK, form # "none", NEW t \in Descriptors, NEW f \in {"foreign", "typed"},
         NEW moved \in BOOLEAN, T!Becomes(t, f, moved), moved \/ T!Positions(t) = T!Positions(tensor),
         t.backing # None => t.backing <= room, t.lanes # 0,
         f = "typed" => T!Nonnegative(t) /\ (t.lanes # 1 => Len(t.shape) = 1)
  PROVE  TensorOK'
PROOF
  <1>1. /\ tensor' = t /\ form' = f /\ room' = room
        /\ positions' = IF moved THEN T!Positions(t) ELSE positions
    BY DEF T!Becomes
  <1>2. T!Positions(tensor)' = positions'
    <2>1. T!Positions(tensor)' = T!Positions(t)
      BY <1>1
    <2> QED BY <1>1, <2>1 DEF TensorOK, T!StorageRespected, T!PositionsKept
  <1>3. T!StorageRespected'
    BY <1>1, <1>2 DEF T!StorageRespected, T!PositionsKept, T!ViewInside
  <1>4. T!Nonnegative(tensor)' <=> T!Nonnegative(t)
    BY <1>1 DEF T!Nonnegative
  <1> QED BY <1>1, <1>3, <1>4 DEF TensorOK

(* An array redescribed by its caller keeps the invariant.                 *)
LEMMA RedescribeKeeps ==
  ASSUME NEW o \in Redescriptions, TensorOK, T!Redescribe(o)
  PROVE  TensorOK'
PROOF
  <1>1. CASE T!CanDescribe(tensor, o)
    <2>1. /\ tensor' = T!Described(tensor, o) /\ positions' = T!Positions(T!Described(tensor, o))
          /\ form' = "described" /\ room' = room /\ form = "array"
      BY <1>1 DEF T!Redescribe
    <2>2. T!Described(tensor, o) \in Descriptors /\ T!Described(tensor, o).backing = tensor.backing
      BY <1>1, <2>1, DescribedIs DEF TensorOK
    <2>3. T!Positions(tensor)' = positions'
      BY <2>1
    <2>4. T!StorageRespected'
      BY <2>1, <2>3 DEF T!StorageRespected, T!PositionsKept, T!ViewInside
    <2> QED BY <2>1, <2>2, <2>4 DEF TensorOK
  <1>2. CASE ~T!CanDescribe(tensor, o)
    BY <1>2, RefusedKeeps DEF T!Redescribe
  <1> QED BY <1>1, <1>2

(* A fold of a producer's layout keeps the invariant, ...                  *)
LEMMA FoldStepKeeps ==
  ASSUME NEW o \in Redescriptions, TensorOK, T!Fold(o)
  PROVE  TensorOK'
PROOF
  <1>1. CASE T!CanFold(tensor, o)
    <2>1. form = "foreign" /\ tensor \in Descriptors /\ tensor.lanes # 0
      BY DEF T!Fold, TensorOK
    <2>2. T!Becomes(T!Folded(tensor, o), "foreign", FALSE)
      BY <1>1 DEF T!Fold
    <2>3. /\ T!Folded(tensor, o) \in Descriptors /\ T!Folded(tensor, o).lanes # 0
          /\ T!Folded(tensor, o).backing = tensor.backing
          /\ T!Positions(T!Folded(tensor, o)) = T!Positions(tensor)
      BY <1>1, <2>1, FoldKeeps
    <2>4. tensor.backing # None => tensor.backing <= room
      BY <2>1 DEF TensorOK
    <2> QED BY <2>1, <2>2, <2>3, <2>4, BecomesKeeps
  <1>2. CASE ~T!CanFold(tensor, o)
    BY <1>2, RefusedKeeps DEF T!Fold
  <1> QED BY <1>1, <1>2

(* ... and so do a tensor made write input, ...                            *)
LEMMA TypeStepKeeps == TensorOK /\ T!TypeForWrite => TensorOK'
PROOF
  <1> SUFFICES ASSUME TensorOK, T!TypeForWrite PROVE TensorOK'
    OBVIOUS
  <1>1. CASE T!CanType(tensor)
    <2>1. form # "none" /\ tensor \in Descriptors
      BY DEF T!TypeForWrite, TensorOK
    <2>2. T!Becomes(T!Typed(tensor), "typed", T!Moves(tensor, T!Components(tensor)))
      BY <1>1 DEF T!TypeForWrite
    <2>3. /\ T!Typed(tensor) \in Descriptors /\ T!Nonnegative(T!Typed(tensor))
          /\ Len(T!Typed(tensor).shape) = 1 /\ T!Typed(tensor).lanes # 0
          /\ T!Typed(tensor).backing = None
          /\ \/ T!Moves(tensor, T!Components(tensor))
             \/ T!Positions(T!Typed(tensor)) = T!Positions(tensor)
      BY <1>1, <2>1, TypeKeeps
    <2>4. T!Moves(tensor, T!Components(tensor)) \in BOOLEAN
      BY DEF T!Moves
    <2> QED BY <2>1, <2>2, <2>3, <2>4, BecomesKeeps
  <1>2. CASE ~T!CanType(tensor)
    BY <1>2, RefusedKeeps DEF T!TypeForWrite
  <1> QED BY <1>1, <1>2

(* ... one passed on as a capsule, ...                                     *)
LEMMA PassOnKeeps == TensorOK /\ T!PassOn => TensorOK'
PROOF
  <1> SUFFICES ASSUME TensorOK, T!PassOn PROVE TensorOK'
    OBVIOUS
  <1> DEFINE e == T!Exported(tensor)
             i == T!Ingested(e)
  <1>1. /\ form # "none" /\ tensor \in Descriptors /\ T!Nonnegative(tensor) /\ tensor.lanes # 0
        /\ tensor.lanes # 1 => Len(tensor.shape) = 1
        /\ T!IsCompact(tensor) /\ T!DescribedExtent(e) <= room
        /\ T!Becomes(i, "foreign", T!Moves(tensor, tensor.lanes))
    BY DEF T!PassOn, TensorOK
  <1>2. e \in Descriptors /\ (T!Moves(tensor, tensor.lanes) \/ T!Positions(e) = T!Positions(tensor))
    BY <1>1, ExportKeeps
  <1>3. T!DescribedExtent(e) \in Int \cup {None}
    BY <1>2, ExtentInteger
  <1>4. e.lanes = 1
    BY DEF T!Exported, T!Descriptor
  <1> HIDE DEF e
  <1>5. /\ i \in Descriptors /\ i.backing = T!DescribedExtent(e) /\ i.lanes = 1
        /\ T!Positions(i) = T!Positions(e)
    BY <1>2, <1>3, <1>4, BackedKeeps DEF T!Ingested
  <1> HIDE DEF i
  <1>6. T!Moves(tensor, tensor.lanes) \in BOOLEAN
    BY DEF T!Moves
  <1> QED BY <1>1, <1>2, <1>5, <1>6, BecomesKeeps

(* ... a flat view, ...                                                    *)
LEMMA ViewStepKeeps == TensorOK /\ T!ViewFlat => TensorOK'
PROOF
  <1> SUFFICES ASSUME TensorOK, T!ViewFlat PROVE TensorOK'
    OBVIOUS
  <1> DEFINE v == T!View(tensor)
  <1>1. CASE T!CanView(tensor)
    <2>1. /\ tensor \in Descriptors /\ form # "none" /\ room \in Int
          /\ T!Positions(tensor) = positions
          /\ tensor.backing # None => tensor.backing <= room
      BY DEF T!ViewFlat, TensorOK, T!StorageRespected, T!PositionsKept
    <2>2. /\ tensor' = v /\ form' = "view" /\ room' = room
          /\ positions' = IF T!IsCompact(tensor) /\ T!Nonnegative(tensor)
                          THEN positions ELSE T!Positions(v)
      BY <1>1 DEF T!ViewFlat
    <2>3. v \in Descriptors
      BY <1>1, <2>1, ViewPositions
    <2>4. v.backing = tensor.backing /\ v.bits = tensor.bits
      BY DEF T!View, T!Descriptor
    <2>5. T!Positions(v) = positions'
      BY <1>1, <2>1, <2>2, ViewKeeps
    <2>6. \A k \in DOMAIN T!Positions(v) : v.backing # None =>
            T!Positions(v)[k] \in 0 .. (8 * room - v.bits)
      BY <1>1, <2>1, <2>4, ViewStaysInside
    <2> HIDE DEF v
    <2>7. T!Positions(tensor)' = T!Positions(v)
      BY <2>2
    <2>8. T!StorageRespected'
      BY <2>2, <2>5, <2>6, <2>7 DEF T!StorageRespected, T!PositionsKept, T!ViewInside
    <2> QED BY <2>1, <2>2, <2>3, <2>4, <2>8 DEF TensorOK
  <1>2. CASE ~T!CanView(tensor)
    BY <1>2, RefusedKeeps DEF T!ViewFlat
  <1> QED BY <1>1, <1>2

(* ... and every step.                                                     *)
LEMMA TensorStep == TensorOK /\ [T!Next]_tensorVars => TensorOK'
PROOF
  <1> SUFFICES ASSUME TensorOK, [T!Next]_tensorVars PROVE TensorOK'
    OBVIOUS
  <1>1. CASE UNCHANGED tensorVars
    BY <1>1 DEF TensorOK, tensorVars, T!StorageRespected, T!PositionsKept, T!ViewInside
  <1>2. CASE T!Next
    BY <1>2, RedescribeKeeps, FoldStepKeeps, TypeStepKeeps, PassOnKeeps, ViewStepKeeps DEF T!Next
  <1> QED BY <1>1, <1>2

(* ... and says what is wanted.                                            *)
LEMMA TensorRight == TensorOK => T!StorageRespected
PROOF
  <1>1. form = "none" => T!StorageRespected
    BY DEF T!StorageRespected, T!PositionsKept, T!ViewInside
  <1> QED BY <1>1 DEF TensorOK

-----------------------------------------------------------------------------
(* The parts together                                                      *)

(* While one part steps the others rest.                                   *)
LEMMA PartSteps ==
  ASSUME [BoundaryNext]_<<part, vars, others>>
  PROVE  /\ UNCHANGED part
         /\ [Next]_vars
         /\ part = "tensors" => [T!Next]_tensorVars
         /\ part = "capsules" => [C!Next]_capsuleVars
         /\ part = "selectors" => [S!Next]_selectorVars
         /\ part = "writes" => [W!Next]_writeVars
         /\ part = "requests" => [R!Next]_requestVars
PROOF
  BY DEF BoundaryNext, others

(* Every trampoline the dispatcher calls, or will call for the next        *)
(* message, is held by the binding, when calls are made one at a time      *)
(* (bindings.py 1633-1643, set_log_callback, flush_log).                   *)
THEOREM TrampolinesLiveAtBoundary ==
  ASSUME Serialized = TRUE
  PROVE  BoundarySpec => []TrampolinesLive
PROOF
  <1>1. BoundaryInit => IInv
    BY Inductive DEF BoundaryInit
  <1>2. IInv /\ [BoundaryNext]_<<part, vars, others>> => IInv'
    BY Inductive, PartSteps
  <1>3. IInv => TrampolinesLive
    BY InvariantSuffices
  <1> QED BY <1>1, <1>2, <1>3, PTL DEF BoundarySpec

(* However descriptors are copied, folded, typed, passed on and viewed,    *)
(* they speak of the bits they spoke of when they came in, in the same     *)
(* order, and a numpy view of storage whose size is known stays inside it  *)
(* (_fold_dlpack_producer_layout 789-922, typed_tensor_to_write 1006-1046, *)
(* dltensor_to_numpy 1099-1113): for tensors of every rank and shape.  A   *)
(* fold keeps the bits for elements of every width; typed_tensor_to_write  *)
(* and the capsule for all but several scalars of a fraction of a byte,    *)
(* whose bits they change and the theorem does not cover.                  *)
THEOREM StorageStaysRespected == BoundarySpec => []StorageRespected
PROOF
  <1> DEFINE Inv == part = "tensors" => TensorOK
  <1>1. BoundaryInit => Inv
    BY TensorStarts DEF BoundaryInit
  <1>2. Inv /\ [BoundaryNext]_<<part, vars, others>> => Inv'
    BY TensorStep, PartSteps
  <1>3. Inv => StorageRespected
    BY TensorRight DEF StorageRespected
  <1> QED BY <1>1, <1>2, <1>3, PTL DEF BoundarySpec

(* Every block is there while somebody may look at it and is freed once    *)
(* after; no context outlives its capsule; no producer goes without its    *)
(* callback having run (from_dlpack 240-289, capsule_destructor 525-551,   *)
(* ManagedDLTensor.__del__ 697-703).                                       *)
THEOREM BlocksReleasedOnce == BoundarySpec => []ReleasedOnce
PROOF
  <1> DEFINE Inv == part = "capsules" => CapsulesOK
  <1>1. BoundaryInit => Inv
    BY CapsuleStarts DEF BoundaryInit
  <1>2. Inv /\ [BoundaryNext]_<<part, vars, others>> => Inv'
    BY CapsuleStep, PartSteps
  <1>3. Inv => ReleasedOnce
    BY CapsuleRight DEF ReleasedOnce
  <1> QED BY <1>1, <1>2, <1>3, PTL DEF BoundarySpec

(* However predicates are shared between subtrees and selectors, the       *)
(* native side reads the trees and paths the caller composed, all of it    *)
(* from storage the call keeps, and every predicate was converted once     *)
(* (_check_kind_slot 123-136, _build_prim_predicate 487-516, build_descs   *)
(* 542-584): for descriptions of every size.                               *)
THEOREM SelectorsReadAsMeant == BoundarySpec => []SelectorsFaithful
PROOF
  <1> DEFINE Inv == part = "selectors" => SelectorsOK
  <1>1. BoundaryInit => Inv
    BY SelectorStarts DEF BoundaryInit
  <1>2. Inv /\ [BoundaryNext]_<<part, vars, others>> => Inv'
    BY SelectorStep, PartSteps
  <1>3. Inv => SelectorsFaithful
    BY SelectorRight DEF SelectorsFaithful
  <1> QED BY <1>1, <1>2, <1>3, PTL DEF BoundarySpec

(* A write that is carried out puts at every prim the row the caller asked *)
(* for and leaves the others alone, and the native side never reads past   *)
(* the end of a map or a mask (_build_write_data 556-649,                  *)
(* check_write_count 108-130).                                             *)
THEOREM WritesCarriedOutAsAsked == BoundarySpec => []WritesAsAsked
PROOF
  <1> DEFINE Inv == part = "writes" => WriteOK
  <1>1. BoundaryInit => Inv
    BY WriteStarts DEF BoundaryInit
  <1>2. Inv /\ [BoundaryNext]_<<part, vars, others>> => Inv'
    BY WriteStep, PartSteps
  <1>3. Inv => WritesAsAsked
    BY WriteRight DEF WritesAsAsked
  <1> QED BY <1>1, <1>2, <1>3, PTL DEF BoundarySpec

(* The invariant of requests.                                              *)
LEMMA RequestInvariant == BoundarySpec => [](part = "requests" => RequestOK)
PROOF
  <1> DEFINE Inv == part = "requests" => RequestOK
  <1>1. BoundaryInit => Inv
    BY RequestStarts DEF BoundaryInit
  <1>2. Inv /\ [BoundaryNext]_<<part, vars, others>> => Inv'
    BY RequestStep, PartSteps
  <1> QED BY <1>1, <1>2, PTL DEF BoundarySpec

(* In every call of every entry point, every integer that reaches the      *)
(* native side is the one that was given (_check_unsigned 89-105: "ctypes  *)
(* never raises on an out-of-range int"), streams and events of writes     *)
(* excepted.                                                               *)
THEOREM IntegersArriveIntact == BoundarySpec => []ExactOrRefused
PROOF
  <1>1. (part = "requests" => RequestOK) => ExactOrRefused
    BY RequestRight DEF ExactOrRefused
  <1> QED BY <1>1, RequestInvariant, PTL

(* Whatever the native side may still read of an operation's inputs is     *)
(* alive, in every call of every entry point (the keepalive every enqueue  *)
(* hands to its Operation, types.py 1173-1181, population.py 310-314).     *)
THEOREM InputsStayAlive == BoundarySpec => []InputsLive
PROOF
  <1>1. (part = "requests" => RequestOK) => InputsLive
    BY RequestRight DEF InputsLive
  <1> QED BY <1>1, RequestInvariant, PTL

=============================================================================
