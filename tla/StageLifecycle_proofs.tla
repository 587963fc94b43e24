------------------------ MODULE StageLifecycle_proofs ------------------------
(* The balance of process references, for any set of Stages (StageLifecycle). *)
EXTENDS StageLifecycle, FiniteSetTheorems, TLAPS

(* The sets of Stages that hold references are finite, so that they can be *)
(* counted.                                                                *)
LEMMA Countable ==
  ASSUME LifecycleAssumption, TypeOK
  PROVE  /\ IsFiniteSet(inst) /\ Cardinality(inst) \in Nat
         /\ IsFiniteSet(holds) /\ Cardinality(holds) \in Nat
BY FS_Subset, FS_CardinalityType DEF LifecycleAssumption, TypeOK

LEMMA Initially ==
  ASSUME LifecycleAssumption, Init
  PROVE  IInv
<1>1. TypeOK
  BY DEF LifecycleAssumption, Init, TypeOK, Lives
<1>2. Balanced
  BY FS_EmptySet DEF Init, Balanced
<1> QED
  BY <1>1, <1>2 DEF LifecycleAssumption, Init, LivesKnown, IInv, ConfigCaptured

-----------------------------------------------------------------------------
(* One lemma per step.                                                     *)

LEMMA InitializeKeeps ==
  ASSUME LifecycleAssumption, IInv, NEW s \in Stage, Initialize(s)
  PROVE  IInv'
<1> USE DEF IInv
<1>1. s \notin holds /\ s \notin inst /\ Config[s] \in Policy /\ Config[s] # None
  BY DEF LifecycleAssumption, Initialize, LivesKnown
<1>2. TypeOK'
  BY <1>1 DEF TypeOK, Initialize, Acquire, Lives
<1>3. Balanced'
  <2>1. Cardinality(holds') = Cardinality(holds) + 1
    BY <1>1, Countable, FS_AddElement DEF Initialize
  <2> QED
    BY <2>1, Countable DEF Initialize, Acquire, Balanced
<1>4. settings' = Config[s] /\ refs' # 0
  BY DEF Initialize, Acquire, TypeOK
<1>5. LivesKnown'
  <2> SUFFICES ASSUME NEW u \in Stage
               PROVE  /\ u \in inst' <=> life'[u] \in {"alive", "lost"}
                      /\ u \in holds' <=> Config[u] # None /\ life'[u] \in {"initialized", "unwinding", "alive", "lost", "detached"}
                      /\ u \in holds' => settings' = Config[u]
                      /\ life'[u] \in {"initialized", "unwinding", "detached"} => Config[u] # None
    BY DEF LivesKnown
  <2>1. u \in holds => refs # 0
    BY DEF LivesKnown, TypeOK, LifecycleAssumption
  <2>2. CASE u = s
    BY <2>2, <1>1, <1>4 DEF Initialize, TypeOK, LivesKnown
  <2>3. CASE u # s
    <3>1. life'[u] = life[u] /\ inst' = inst /\ (u \in holds' <=> u \in holds)
      BY <2>3 DEF Initialize, TypeOK
    <3> QED
      BY <3>1, <2>1, <1>4 DEF Initialize, LivesKnown
  <2> QED
    BY <2>2, <2>3
<1>6. ConfigCaptured'
  BY DEF Initialize, ConfigCaptured, TypeOK, Lives
<1>7. (refs = 0 <=> settings = None)'
  BY <1>1, <1>4
<1> QED
  BY <1>2, <1>3, <1>5, <1>6, <1>7

(* A step that changes nothing but the life of a Stage which neither had   *)
(* nor gets a reference.                                                   *)
LEMMA OnlyLifeKeeps ==
  ASSUME IInv, NEW s \in Stage, NEW l \in Lives,
         life' = [life EXCEPT ![s] = l],
         UNCHANGED <<process, inst, holds>>,
         l \in {"alive", "lost"} <=> life[s] \in {"alive", "lost"},
         l \in {"failed", "unwinding", "lost"}, l = "unwinding" => Config[s] # None,
         s \in holds <=> Config[s] # None /\ l \in {"initialized", "unwinding", "alive", "lost", "detached"}
  PROVE  IInv'
<1> USE DEF IInv, process
<1>1. TypeOK'
  BY DEF TypeOK
<1>2. LivesKnown'
  BY DEF LivesKnown, TypeOK
<1>3. ConfigCaptured'
  BY DEF ConfigCaptured, TypeOK
<1>4. Balanced'
  BY DEF Balanced
<1> QED
  BY <1>1, <1>2, <1>3, <1>4

LEMMA CreateInstanceKeeps ==
  ASSUME LifecycleAssumption, IInv, NEW s \in Stage, CreateInstance(s)
  PROVE  IInv'
<1> USE DEF IInv, CanCreate
<1>1. s \notin inst /\ Default \in Policy /\ Default # None
  BY DEF LifecycleAssumption, CreateInstance, LivesKnown
<1>2. settings' \in Policy /\ settings' # None /\ refs' = refs + 1 /\ refs' # 0
  BY <1>1 DEF TypeOK, CreateInstance, Acquire, LifecycleAssumption
<1>3. TypeOK'
  BY <1>2 DEF TypeOK, CreateInstance, Lives
<1>4. Balanced'
  <2>1. Cardinality(inst') = Cardinality(inst) + 1
    BY <1>1, Countable, FS_AddElement DEF CreateInstance
  <2> QED
    BY <2>1, <1>2, Countable DEF CreateInstance, Balanced
<1>5. \A u \in holds : refs # 0 /\ settings' = Config[u]
  BY DEF LivesKnown, TypeOK, LifecycleAssumption, CreateInstance, Acquire
<1>6. LivesKnown'
  BY <1>5 DEF LivesKnown, CreateInstance, TypeOK
<1>7. ConfigCaptured'
  <2> SUFFICES ASSUME NEW u \in Stage, life'[u] = "alive", Config[u] # None
               PROVE  captured'[u] = Config[u]
    BY DEF ConfigCaptured
  <2>1. CASE u = s
    <3>1. s \in holds
      BY <2>1 DEF CreateInstance, LivesKnown
    <3> QED
      BY <2>1, <3>1, <1>5 DEF CreateInstance, TypeOK
  <2>2. CASE u # s
    BY <2>2 DEF CreateInstance, TypeOK, ConfigCaptured
  <2> QED
    BY <2>1, <2>2
<1> QED
  BY <1>2, <1>3, <1>4, <1>6, <1>7

(* Unwind and ShutDown: the Stage gives back its own reference.            *)
LEMMA GiveBackOwnKeeps ==
  ASSUME LifecycleAssumption, IInv, NEW s \in Stage, NEW l \in {"failed", "destroyed"},
         life[s] \in {"unwinding", "detached"}, s \in holds,
         GiveBack,
         holds' = holds \ {s},
         life' = [life EXCEPT ![s] = l],
         UNCHANGED <<captured, inst>>
  PROVE  IInv'
<1> USE DEF IInv
<1>1. Cardinality(holds') = Cardinality(holds) - 1 /\ Cardinality(holds) # 0
  BY Countable, FS_RemoveElement, FS_EmptySet
<1>2. refs \in Nat /\ refs # 0 /\ refs' = refs - 1 /\ refs' \in Nat
  BY <1>1, Countable DEF Balanced, GiveBack, TypeOK
<1>3. Balanced'
  BY <1>1, <1>2, Countable DEF Balanced
<1>4. TypeOK'
  BY <1>2 DEF TypeOK, GiveBack, Lives
<1>5. \A u \in holds' : settings' = settings
  <2> SUFFICES ASSUME NEW u \in holds'
               PROVE  refs # 1
    BY DEF GiveBack
  <2>1. IsFiniteSet(holds') /\ Cardinality(holds') # 0 /\ Cardinality(holds') \in Nat
    BY Countable, FS_RemoveElement, FS_EmptySet, FS_CardinalityType
  <2> QED
    BY <2>1, <1>1, <1>2, Countable DEF Balanced
<1>6. LivesKnown'
  BY <1>5 DEF LivesKnown, TypeOK
<1>7. ConfigCaptured'
  BY DEF ConfigCaptured, TypeOK
<1>8. (refs = 0 <=> settings = None)'
  BY <1>2 DEF GiveBack
<1> QED
  BY <1>3, <1>4, <1>6, <1>7, <1>8

LEMMA DestroyInstanceKeeps ==
  ASSUME LifecycleAssumption, IInv, NEW s \in Stage, DestroyInstance(s)
  PROVE  IInv'
<1> USE DEF IInv
<1>1. s \in inst
  BY DEF DestroyInstance, LivesKnown
<1>2. Cardinality(inst') = Cardinality(inst) - 1 /\ Cardinality(inst) # 0
  BY <1>1, Countable, FS_RemoveElement, FS_EmptySet DEF DestroyInstance
<1>3. refs \in Nat /\ refs # 0 /\ refs' = refs - 1 /\ refs' \in Nat
  BY <1>2, Countable DEF Balanced, DestroyInstance, GiveBack, TypeOK
<1>4. Balanced'
  BY <1>2, <1>3, Countable DEF Balanced, DestroyInstance
<1>5. TypeOK'
  BY <1>3 DEF TypeOK, DestroyInstance, GiveBack, Lives
<1>6. \A u \in holds : settings' = settings
  <2> SUFFICES ASSUME NEW u \in holds
               PROVE  refs # 1
    BY DEF DestroyInstance, GiveBack
  <2>1. Cardinality(holds) # 0
    BY Countable, FS_EmptySet
  <2> QED
    BY <2>1, <1>2, <1>3, Countable DEF Balanced
<1>7. LivesKnown'
  BY <1>6 DEF LivesKnown, TypeOK, DestroyInstance
<1>8. ConfigCaptured'
  BY DEF ConfigCaptured, TypeOK, DestroyInstance
<1>9. (refs = 0 <=> settings = None)'
  BY <1>3 DEF DestroyInstance, GiveBack
<1> QED
  BY <1>4, <1>5, <1>7, <1>8, <1>9

-----------------------------------------------------------------------------
(* Every step of any Stage.                                                *)
LEMMA Stepwise ==
  ASSUME LifecycleAssumption, IInv, [Next]_vars
  PROVE  IInv'
<1>1. CASE UNCHANGED vars
  BY <1>1 DEF IInv, TypeOK, Balanced, LivesKnown, ConfigCaptured, vars, process
<1>2. ASSUME NEW s \in Stage, Construct(s) \/ DestroyInstance(s) \/ ShutDown(s) \/ Lose(s)
      PROVE  IInv'
  <2>1. CASE Initialize(s)
    BY <2>1, InitializeKeeps
  <2>2. CASE InitializeFails(s)
    <3>1. s \notin holds
      BY <2>2 DEF InitializeFails, IInv, LivesKnown
    <3> QED
      BY <2>2, <3>1, OnlyLifeKeeps DEF InitializeFails, Lives
  <2>3. CASE CreateInstance(s)
    BY <2>3, CreateInstanceKeeps
  <2>4. CASE CreateFails(s)
    <3>1. s \in holds <=> Config[s] # None
      BY <2>4 DEF CreateFails, CanCreate, IInv, LivesKnown
    <3>2. CASE s \in holds
      BY <2>4, <3>1, <3>2, OnlyLifeKeeps DEF CreateFails, CanCreate, Lives
    <3>3. CASE s \notin holds
      BY <2>4, <3>1, <3>3, OnlyLifeKeeps DEF CreateFails, CanCreate, Lives
    <3> QED
      BY <3>2, <3>3
  <2>5. CASE Unwind(s)
    <3>1. s \in holds
      BY <2>5 DEF Unwind, IInv, LivesKnown
    <3> QED
      BY <2>5, <3>1, GiveBackOwnKeeps DEF Unwind
  <2>6. CASE DestroyInstance(s)
    BY <2>6, DestroyInstanceKeeps
  <2>7. CASE ShutDown(s)
    <3>1. s \in holds
      BY <2>7 DEF ShutDown, IInv, LivesKnown
    <3> QED
      BY <2>7, <3>1, GiveBackOwnKeeps DEF ShutDown
  <2>8. CASE Lose(s)
    <3>1. s \in holds <=> Config[s] # None
      BY <2>8 DEF Lose, IInv, LivesKnown
    <3> QED
      BY <2>8, <3>1, OnlyLifeKeeps DEF Lose, Lives
  <2> QED
    BY <1>2, <2>1, <2>2, <2>3, <2>4, <2>5, <2>6, <2>7, <2>8 DEF Construct
<1> QED
  BY <1>1, <1>2 DEF Next

(* When every Stage has ended there is nobody left to hold a reference.    *)
LEMMA NobodyHolds ==
  ASSUME LifecycleAssumption, IInv
  PROVE  NoReferenceLeft
<1> SUFFICES ASSUME \A s \in Stage : life[s] \in {"unborn", "failed", "destroyed"}
             PROVE  refs = 0
  BY DEF NoReferenceLeft, IInv
<1>1. inst = {} /\ holds = {}
  BY DEF IInv, LivesKnown, TypeOK
<1> QED
  BY <1>1, FS_EmptySet DEF IInv, Balanced

-----------------------------------------------------------------------------
(* The count of process references is the number of references the Stages  *)
(* know they have, whichever native call fails and however construction    *)
(* and destruction of Stages overlap.                                      *)
THEOREM InvariantHolds ==
  ASSUME LifecycleAssumption
  PROVE  Spec => []IInv
<1>1. Init => IInv
  BY Initially
<1>2. IInv /\ [Next]_vars => IInv'
  BY Stepwise
<1> QED
  BY <1>1, <1>2, PTL DEF Spec

=============================================================================
