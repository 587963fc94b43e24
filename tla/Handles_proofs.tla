---------------------------- MODULE Handles_proofs ----------------------------
(* Theorems about native reservations and their wrappers (Handles), for any *)
(* number of threads, wrappers and Stages.                                  *)
EXTENDS Handles, TLAPS

L == INSTANCE StageLifecycle_proofs

USE HandlesAssumption

-----------------------------------------------------------------------------
(* The invariant, one wrapper at a time.                                   *)

Matches(o) == ~InCall(o) => (claimed[o] <=> Accepted(o))

Kept(o) ==
  Up => (obj[o] = "gone" /\ ~InCall(o) /\ Kind[o] # "mapGroup" => native[o] # "held")

OwnTypes ==
  /\ native \in [Object -> Reservations]
  /\ claimed \in [Object -> BOOLEAN]
  /\ obj \in [Object -> Lives]
  /\ call \in [Thread -> Calls]

(* What this module adds to the invariant of the Stages.                   *)
Own ==
  /\ OwnTypes
  /\ \A t \in Thread : CallKnown(t)
  /\ OneCall
  /\ \A o \in Object : ObjectKnown(o) /\ Matches(o) /\ Kept(o)

LEMMA OwnAndStages == IInv <=> Own /\ Lifecycle!IInv
BY DEF IInv, Own, OwnTypes, Matches, Kept, TypeOK, ClaimMatchesNative, NothingStranded, Accepted,
       Lifecycle!IInv

-----------------------------------------------------------------------------
(* The Stages                                                              *)

LEMMA StagesMove ==
  ASSUME Next
  PROVE  [L!Next]_(L!vars)
<1>1. CASE \E s \in Stage : StageStep(s)
  BY <1>1 DEF StageStep, L!Next, L!Construct, L!Initialize, L!InitializeFails, L!CreateInstance,
     L!CreateFails, L!Unwind, L!DestroyInstance, L!ShutDown, L!Lose, L!Acquire, L!GiveBack,
     L!CanCreate, L!process, Lifecycle!Construct, Lifecycle!Initialize, Lifecycle!InitializeFails,
     Lifecycle!CreateInstance, Lifecycle!CreateFails, Lifecycle!Unwind, Lifecycle!DestroyInstance,
     Lifecycle!ShutDown, Lifecycle!Lose, Lifecycle!Acquire, Lifecycle!GiveBack,
     Lifecycle!CanCreate, Lifecycle!process
<1>2. CASE UNCHANGED stage
  BY <1>2 DEF stage, L!vars, L!process
<1>3. CASE \E t \in Thread : ThreadStep(t)
  BY <1>3, <1>2 DEF ThreadStep, Acquire, BeginFetch, Fetch, Release, Exit, Drop, Accept, Refuse,
     Rollback, Await, Leave
<1>4. CASE \E o \in Object : Execute(o)
  BY <1>4, <1>2 DEF Execute
<1> QED
  BY <1>1, <1>3, <1>4 DEF Next

LEMMA SameAssumption == L!LifecycleAssumption
BY DEF L!LifecycleAssumption, Lifecycle!LifecycleAssumption, L!IsFiniteSet, Lifecycle!IsFiniteSet

LEMMA SameInvariant == L!IInv <=> Lifecycle!IInv
<1>1. L!Balanced <=> Lifecycle!Balanced
  BY DEF L!Balanced, Lifecycle!Balanced, L!Cardinality, Lifecycle!Cardinality
<1> QED
  BY <1>1 DEF L!IInv, L!TypeOK, L!LivesKnown, L!ConfigCaptured, L!Lives, Lifecycle!IInv,
     Lifecycle!TypeOK, Lifecycle!LivesKnown, Lifecycle!ConfigCaptured, Lifecycle!Lives

LEMMA StagesKept ==
  ASSUME Lifecycle!IInv, Next
  PROVE  Lifecycle!IInv'
<1>1. L!IInv'
  BY StagesMove, SameAssumption, SameInvariant, L!Stepwise
<1> QED
  BY <1>1, SameInvariant, PTL

(* A Stage that was lost or destroyed never has an instance again, and one *)
(* that is alive was not being built.                                      *)
LEMMA MainMoves ==
  ASSUME Lifecycle!IInv, NEW s \in Stage, StageStep(s),
         life[Main] \in {"alive", "lost", "detached", "destroyed"}
  PROVE  /\ life'[Main] \in {"alive", "lost", "detached", "destroyed"}
         /\ Up' => Up
<1> USE DEF Up, Lifecycle!IInv, Lifecycle!TypeOK, Lifecycle!LivesKnown
<1>1. life[Main] \in {"alive", "lost"} <=> Main \in inst
  OBVIOUS
<1>2. CASE Lifecycle!Construct(s)
  <2>1. s # Main
    BY <1>2 DEF Lifecycle!Construct, Lifecycle!Initialize, Lifecycle!InitializeFails,
       Lifecycle!CreateInstance, Lifecycle!CreateFails, Lifecycle!CanCreate, Lifecycle!Unwind
  <2>2. life'[Main] = life[Main]
    BY <1>2, <2>1 DEF Lifecycle!Construct, Lifecycle!Initialize, Lifecycle!InitializeFails,
       Lifecycle!CreateInstance, Lifecycle!CreateFails, Lifecycle!Unwind
  <2>3. Main \in inst' => Main \in inst
    BY <1>2, <2>1 DEF Lifecycle!Construct, Lifecycle!Initialize, Lifecycle!InitializeFails,
       Lifecycle!CreateInstance, Lifecycle!CreateFails, Lifecycle!Unwind
  <2> QED
    BY <2>2, <2>3
<1>3. CASE Lifecycle!DestroyInstance(s)
  BY <1>3 DEF Lifecycle!DestroyInstance
<1>4. CASE Lifecycle!ShutDown(s)
  BY <1>4 DEF Lifecycle!ShutDown
<1>5. CASE Lifecycle!Lose(s)
  BY <1>5 DEF Lifecycle!Lose, Lifecycle!process
<1> QED
  BY <1>2, <1>3, <1>4, <1>5 DEF StageStep

LEMMA StageStepKeepsOwn ==
  ASSUME IInv, NEW s \in Stage, StageStep(s)
  PROVE  Own'
<1>1. UNCHANGED <<native, claimed, obj, call>>
  BY DEF StageStep
<1>2. OwnTypes' /\ OneCall'
  BY <1>1, OwnAndStages DEF Own, OwnTypes, OneCall
<1>3. \A t \in Thread : CallKnown(t)'
  BY <1>1, OwnAndStages DEF Own, CallKnown, Releasing, Accepted
<1>4. ASSUME NEW o \in Object
      PROVE  (ObjectKnown(o) /\ Matches(o) /\ Kept(o))'
  <2>1. ObjectKnown(o) /\ Matches(o) /\ Kept(o)
    BY OwnAndStages DEF Own
  <2>2. Lifecycle!IInv
    BY OwnAndStages
  <2>3. CASE obj[o] = "unborn"
    BY <1>1, <2>1, <2>3 DEF ObjectKnown, Matches, Kept, Accepted, InCall
  <2>4. CASE obj[o] # "unborn"
    <3>1. life[Main] \in {"alive", "lost", "detached", "destroyed"}
      BY <2>1, <2>4 DEF ObjectKnown
    <3>2. life'[Main] \in {"alive", "lost", "detached", "destroyed"} /\ (Up' => Up)
      BY <3>1, <2>2, MainMoves
    <3> QED
      BY <1>1, <2>1, <3>2 DEF ObjectKnown, Matches, Kept, Accepted, InCall
  <2> QED
    BY <2>3, <2>4
<1> QED
  BY <1>2, <1>3, <1>4 DEF Own

-----------------------------------------------------------------------------
(* Steps of one thread on one wrapper leave the others alone.              *)
LEMMA OneWrapper ==
  ASSUME IInv, NEW t \in Thread, NEW o \in Object,
         UNCHANGED stage,
         OwnTypes',
         \A u \in Thread \ {t} : call'[u] = call[u] /\ call[u].on # o,
         call[t].on \in {o, None}, call'[t].on \in {o, None},
         \A x \in Object \ {o} :
           native'[x] = native[x] /\ claimed'[x] = claimed[x] /\ obj'[x] = obj[x],
         native[o] \in {"held", "closing", "closed"} => native'[o] \in {"held", "closing", "closed"},
         CallKnown(t)', ObjectKnown(o)', Matches(o)', Kept(o)'
  PROVE  Own'
<1> USE OwnAndStages DEF Own
<1>1. OneCall'
  <2> SUFFICES ASSUME NEW u \in Thread, NEW v \in Thread,
                      call'[u].on = call'[v].on, call'[u].on # None
               PROVE  u = v
    BY DEF OneCall
  <2>1. CASE u = t \/ v = t
    BY <2>1
  <2>2. CASE u # t /\ v # t
    BY <2>2 DEF OneCall
  <2> QED
    BY <2>1, <2>2
<1>2. ASSUME NEW u \in Thread, u # t
      PROVE  CallKnown(u)'
  <2> DEFINE c == call[u]
  <2>1. call'[u] = c /\ c.on # o /\ CallKnown(u)
    BY <1>2
  <2>2. CASE c.pc = "idle"
    BY <2>1, <2>2 DEF CallKnown, Releasing, NoCall
  <2>3. CASE c.pc # "idle"
    <3>1. c.on \in Object \ {o}
      BY <2>1, <2>3 DEF CallKnown
    <3>2. /\ native'[c.on] = native[c.on]
          /\ claimed'[c.on] = claimed[c.on]
          /\ obj'[c.on] = obj[c.on]
      BY <3>1
    <3>3. (Releasing(u))' <=> Releasing(u)
      BY <2>1 DEF Releasing
    <3> QED
      BY <2>1, <2>3, <3>2, <3>3 DEF CallKnown, Accepted
  <2> QED
    BY <2>2, <2>3
<1>3. ASSUME NEW x \in Object, x # o
      PROVE  (ObjectKnown(x) /\ Matches(x) /\ Kept(x))'
  <2>1. ObjectKnown(x) /\ Matches(x) /\ Kept(x)
    OBVIOUS
  <2>2. native'[x] = native[x] /\ claimed'[x] = claimed[x] /\ obj'[x] = obj[x]
    BY <1>3
  <2>3. x # None
    BY DEF Lifecycle!LifecycleAssumption
  <2>4. InCall(x)' <=> InCall(x)
    <3>1. \A u \in Thread : call'[u].on = x <=> call[u].on = x
      BY <1>3, <2>3
    <3> QED
      BY <3>1 DEF InCall
  <2>5. native[Parent[x]] \in {"held", "closing", "closed"} /\ Parent[x] # None
          => native'[Parent[x]] \in {"held", "closing", "closed"}
    <3>1. CASE Parent[x] = o
      BY <3>1
    <3>2. CASE Parent[x] # o
      BY <3>2
    <3> QED
      BY <3>1, <3>2
  <2>6. ObjectKnown(x)'
    BY <2>1, <2>2, <2>5 DEF ObjectKnown, Accepted, stage
  <2>7. Matches(x)'
    BY <2>1, <2>2, <2>4 DEF Matches, Accepted
  <2>8. Kept(x)'
    BY <2>1, <2>2, <2>4 DEF Kept, Up, stage
  <2> QED
    BY <2>6, <2>7, <2>8
<1> QED
  BY <1>1, <1>2, <1>3

(* The wrapper a thread is in a call on is in no other call; one that is   *)
(* in no call is in none.                                                  *)
LEMMA Alone ==
  ASSUME IInv, NEW t \in Thread, NEW o \in Object, call[t].on = o
  PROVE  \A u \in Thread \ {t} : call[u].on # o
BY DEF IInv, OneCall

LEMMA InCallOn ==
  ASSUME IInv, NEW t \in Thread, call[t].pc # "idle"
  PROVE  call[t].on \in Object /\ call[t].on # None
BY DEF IInv, CallKnown

LEMMA IdleOn ==
  ASSUME IInv, NEW t \in Thread, call[t].pc = "idle"
  PROVE  call[t].on = None
BY DEF IInv, CallKnown, NoCall

(* Entering a call, and going on with one.                                 *)
LEMMA EnterMoves ==
  ASSUME IInv, NEW t \in Thread, NEW form \in Forms, NEW o \in Object, Enter(t, form, o)
  PROVE  /\ call'[t] = [pc |-> "native", form |-> form, on |-> o, err |-> "none"]
         /\ \A u \in Thread \ {t} : call'[u] = call[u]
         /\ call' \in [Thread -> Calls]
         /\ call[t].on = None
BY OwnAndStages, IdleOn DEF Own, OwnTypes, Enter, Calls

LEMMA ToMoves ==
  ASSUME IInv, NEW t \in Thread, NEW pc \in {"rollback", "await", "leave"},
         NEW err \in {"none", "status", "exception"}, To(t, pc, err)
  PROVE  /\ call'[t] = [pc |-> pc, form |-> call[t].form, on |-> call[t].on, err |-> err]
         /\ \A u \in Thread \ {t} : call'[u] = call[u]
         /\ call' \in [Thread -> Calls]
BY OwnAndStages DEF Own, OwnTypes, To, Calls

LEMMA UpIsKnown ==
  ASSUME IInv, Up
  PROVE  life[Main] \in {"alive", "lost", "detached", "destroyed"}
BY OwnAndStages DEF Up, Lifecycle!IInv, Lifecycle!LivesKnown

-----------------------------------------------------------------------------
(* One lemma per step.                                                     *)

LEMMA AcquireKeeps ==
  ASSUME IInv, NEW t \in Thread, NEW o \in Object, Acquire(t, o)
  PROVE  Own'
<1> USE OwnAndStages DEF Own, Acquire
<1>1. \A u \in Thread : call[u].on # o
  <2> SUFFICES ASSUME NEW u \in Thread, call[u].on = o
               PROVE  FALSE
    OBVIOUS
  <2>1. call[u].pc # "idle"
    BY IdleOn DEF Lifecycle!LifecycleAssumption
  <2> QED
    BY <2>1 DEF CallKnown
<1>2. OwnTypes'
  BY DEF OwnTypes, Reservations, Lives
<1>3. native'[o] \in {"held", "refused"} /\ obj'[o] = "live" /\ ~claimed'[o]
  BY DEF OwnTypes, ObjectKnown
<1>4. ObjectKnown(o)'
  BY <1>3, UpIsKnown DEF ObjectKnown, Accepted, stage
<1>5. Matches(o)' /\ Kept(o)'
  BY <1>3 DEF Matches, Kept, Accepted
<1>6. CallKnown(t)'
  BY IdleOn DEF CallKnown, Releasing, NoCall
<1>7. native[o] = "none"
  BY DEF ObjectKnown
<1>8. \A x \in Object \ {o} :
        native'[x] = native[x] /\ claimed'[x] = claimed[x] /\ obj'[x] = obj[x]
  BY DEF OwnTypes
<1> QED
  BY <1>1, <1>2, <1>4, <1>5, <1>6, <1>7, <1>8, IdleOn, OneWrapper

LEMMA BeginFetchKeeps ==
  ASSUME IInv, NEW t \in Thread, NEW g \in Object, BeginFetch(t, g)
  PROVE  Own'
<1> USE OwnAndStages DEF Own, BeginFetch
<1>1. /\ call'[t] = [pc |-> "native", form |-> "fetch", on |-> g, err |-> "none"]
      /\ \A u \in Thread \ {t} : call'[u] = call[u] /\ call[u].on # g
      /\ call' \in [Thread -> Calls]
      /\ call[t].on = None
  BY EnterMoves DEF Forms, InCall
<1>2. OwnTypes'
  BY <1>1 DEF OwnTypes
<1>3. CallKnown(t)'
  BY <1>1 DEF CallKnown, Releasing
<1>4. (ObjectKnown(g) /\ Matches(g) /\ Kept(g))'
  BY <1>1 DEF ObjectKnown, Matches, Kept, Accepted, InCall, stage
<1> QED
  BY <1>1, <1>2, <1>3, <1>4, OneWrapper

LEMMA FetchKeeps ==
  ASSUME IInv, NEW t \in Thread, Fetch(t)
  PROVE  Own'
<1> USE OwnAndStages DEF Own, Fetch
<1>1. PICK g \in Object : call[t].on = g
  BY InCallOn
<1>2. /\ obj[g] = "unborn" /\ Parent[g] # None
      /\ native[g] = "none" /\ ~claimed[g]
      /\ \A u \in Thread \ {t} : call[u].on # g
  BY <1>1, Alone DEF CallKnown, ObjectKnown
<1>3. /\ call'[t] = NoCall
      /\ \A u \in Thread \ {t} : call'[u] = call[u]
      /\ call' \in [Thread -> Calls]
  BY DEF OwnTypes, NoCall, Calls, Forms
<1>4. CallKnown(t)' /\ call'[t].on = None
  BY <1>3 DEF CallKnown, Releasing, NoCall
<1>5. CASE Up /\ native[Parent[g]] = "held"
  <2>1. native' = [native EXCEPT ![g] = "held"] /\ obj' = [obj EXCEPT ![g] = "live"]
    BY <1>1, <1>5
  <2>2. OwnTypes'
    BY <1>3, <2>1 DEF OwnTypes, Reservations, Lives
  <2>3. ObjectKnown(g)'
    <3>1. Parent[g] \in Object
      BY <1>2
    <3>2. native'[Parent[g]] = "held" /\ native'[g] = "held" /\ obj'[g] = "live"
      BY <1>5, <2>1, <3>1 DEF OwnTypes
    <3> QED
      BY <1>2, <1>5, <3>2, UpIsKnown DEF ObjectKnown, Accepted, stage
  <2>4. Matches(g)' /\ Kept(g)'
    BY <1>2, <2>1 DEF OwnTypes, Matches, Kept, Accepted
  <2>5. \A x \in Object \ {g} :
          native'[x] = native[x] /\ claimed'[x] = claimed[x] /\ obj'[x] = obj[x]
    BY <2>1 DEF OwnTypes
  <2> QED
    BY <1>1, <1>2, <1>3, <1>4, <2>2, <2>3, <2>4, <2>5, OneWrapper
<1>6. CASE ~(Up /\ native[Parent[g]] = "held")
  <2>1. UNCHANGED <<native, obj>>
    BY <1>1, <1>6
  <2>2. OwnTypes'
    BY <1>3, <2>1 DEF OwnTypes
  <2>3. (ObjectKnown(g) /\ Matches(g) /\ Kept(g))'
    BY <1>2, <2>1 DEF ObjectKnown, Matches, Kept, Accepted, stage
  <2> QED
    BY <1>1, <1>2, <1>3, <1>4, <2>1, <2>2, <2>3, OneWrapper
<1> QED
  BY <1>5, <1>6

(* Release, Exit and Drop: a wrapper is claimed and its call begins.       *)
LEMMA ClaimKeeps ==
  ASSUME IInv, NEW t \in Thread, NEW o \in Object, NEW form \in Forms \ {"fetch"},
         ~InCall(o), ~claimed[o], obj[o] = "live",
         Enter(t, form, o), Claim(o), UNCHANGED <<stage, native>>,
         obj' = [obj EXCEPT ![o] = IF form = "finalize" THEN "gone" ELSE "live"]
  PROVE  Own'
<1> USE OwnAndStages DEF Own
<1>1. /\ call'[t] = [pc |-> "native", form |-> form, on |-> o, err |-> "none"]
      /\ \A u \in Thread \ {t} : call'[u] = call[u] /\ call[u].on # o
      /\ call' \in [Thread -> Calls]
      /\ call[t].on = None
  BY EnterMoves DEF InCall
<1>2. /\ claimed'[o] /\ ~Accepted(o)
      /\ obj'[o] = IF form = "finalize" THEN "gone" ELSE "live"
  BY DEF Claim, OwnTypes, Matches
<1>3. OwnTypes'
  BY <1>1 DEF OwnTypes, Claim, Lives
<1>4. CallKnown(t)'
  BY <1>1, <1>2 DEF CallKnown, Releasing, Accepted
<1>5. ObjectKnown(o)'
  BY <1>2 DEF ObjectKnown, Accepted, stage
<1>6. Matches(o)' /\ Kept(o)'
  BY <1>1 DEF Matches, Kept, InCall
<1>7. \A x \in Object \ {o} :
        native'[x] = native[x] /\ claimed'[x] = claimed[x] /\ obj'[x] = obj[x]
  BY DEF OwnTypes, Claim
<1> QED
  BY <1>1, <1>3, <1>4, <1>5, <1>6, <1>7, OneWrapper

LEMMA ReleaseKeeps ==
  ASSUME IInv, NEW t \in Thread, NEW o \in Object, Release(t, o)
  PROVE  Own'
<1>1. obj' = [obj EXCEPT ![o] = "live"]
  BY OwnAndStages DEF Own, OwnTypes, Release
<1> QED
  BY <1>1, ClaimKeeps DEF Release, Active, Forms

LEMMA ExitKeeps ==
  ASSUME IInv, NEW t \in Thread, NEW o \in Object, Exit(t, o)
  PROVE  Own'
<1>1. obj' = [obj EXCEPT ![o] = "live"]
  BY OwnAndStages DEF Own, OwnTypes, Exit
<1> QED
  BY <1>1, ClaimKeeps DEF Exit, Active, Forms

(* What is known of a wrapper whose release is under way.                  *)
LEMMA ReleaseUnderWay ==
  ASSUME IInv, NEW t \in Thread, call[t].pc \in {"native", "rollback", "await", "leave"},
         call[t].form # "fetch"
  PROVE  \E o \in Object :
           /\ call[t].on = o
           /\ \A u \in Thread \ {t} : call[u].on # o
           /\ obj[o] = IF call[t].form = "finalize" THEN "gone" ELSE "live"
           /\ native[o] # "none"
           /\ call[t].pc \in {"native", "rollback"} => claimed[o] /\ ~Accepted(o)
<1>1. PICK o \in Object : call[t].on = o
  BY InCallOn
<1>2. CallKnown(t) /\ ObjectKnown(o)
  BY OwnAndStages DEF Own
<1> QED
  BY <1>1, <1>2, Alone DEF CallKnown, ObjectKnown, Releasing

LEMMA AcceptKeeps ==
  ASSUME IInv, NEW t \in Thread, Accept(t)
  PROVE  Own'
<1> USE OwnAndStages DEF Own, Accept
<1>1. PICK o \in Object :
        /\ call[t].on = o
        /\ \A u \in Thread \ {t} : call[u].on # o
        /\ obj[o] = IF call[t].form = "finalize" THEN "gone" ELSE "live"
        /\ claimed[o]
  BY ReleaseUnderWay DEF Releasing
<1> DEFINE pc == IF call[t].form \in {"exit", "raise"} THEN "await" ELSE "leave"
<1>2. /\ call'[t] = [pc |-> pc, form |-> call[t].form, on |-> o, err |-> "none"]
      /\ \A u \in Thread \ {t} : call'[u] = call[u]
      /\ call' \in [Thread -> Calls]
  BY <1>1, ToMoves
<1>3. native' = [native EXCEPT ![o] = IF Kind[o] = "readGroup" THEN "closed" ELSE "closing"]
  BY <1>1
<1>4. OwnTypes'
  BY <1>2, <1>3 DEF OwnTypes, Reservations
<1>5. Accepted(o)' /\ claimed'[o] /\ obj'[o] = obj[o] /\ native'[o] \in {"closing", "closed"}
  BY <1>1, <1>3 DEF OwnTypes, Accepted
<1>6. CallKnown(t)'
  BY <1>1, <1>2, <1>5 DEF CallKnown, Releasing
<1>7. ObjectKnown(o)'
  <2>1. Parent[o] \in Object /\ native[Parent[o]] \in {"held", "closing", "closed"}
        => native'[Parent[o]] \in {"held", "closing", "closed"}
    BY <1>3 DEF OwnTypes
  <2>2. ObjectKnown(o) /\ obj[o] # "unborn"
    BY <1>1
  <2> QED
    BY <1>5, <2>1, <2>2 DEF ObjectKnown, stage
<1>8. Matches(o)' /\ Kept(o)'
  BY <1>5 DEF Matches, Kept, Accepted
<1>9. \A x \in Object \ {o} :
        native'[x] = native[x] /\ claimed'[x] = claimed[x] /\ obj'[x] = obj[x]
  BY <1>3 DEF OwnTypes
<1> QED
  BY <1>1, <1>2, <1>4, <1>5, <1>6, <1>7, <1>8, <1>9, OneWrapper

LEMMA RefuseKeeps ==
  ASSUME IInv, NEW t \in Thread, Refuse(t)
  PROVE  Own'
<1> USE OwnAndStages DEF Own, Refuse
<1>1. PICK o \in Object :
        /\ call[t].on = o
        /\ \A u \in Thread \ {t} : call[u].on # o
        /\ obj[o] = IF call[t].form = "finalize" THEN "gone" ELSE "live"
        /\ claimed[o] /\ ~Accepted(o)
  BY ReleaseUnderWay DEF Releasing
<1>2. /\ call'[t] = [pc |-> "rollback", form |-> call[t].form, on |-> o, err |-> Refusal(o)]
      /\ \A u \in Thread \ {t} : call'[u] = call[u]
      /\ call' \in [Thread -> Calls]
      /\ Refusal(o) # "none"
  BY <1>1, ToMoves DEF Refusal
<1>3. OwnTypes'
  BY <1>2 DEF OwnTypes
<1>4. CallKnown(t)'
  BY <1>1, <1>2 DEF CallKnown, Releasing, Accepted
<1>5. (ObjectKnown(o) /\ Matches(o) /\ Kept(o))'
  BY <1>2 DEF ObjectKnown, Matches, Kept, Accepted, InCall, stage
<1> QED
  BY <1>1, <1>2, <1>3, <1>4, <1>5, OneWrapper

LEMMA RollbackKeeps ==
  ASSUME IInv, NEW t \in Thread, Rollback(t)
  PROVE  Own'
<1> USE OwnAndStages DEF Own, Rollback
<1>1. call[t].form # "fetch" /\ call[t].err # "none"
  BY DEF CallKnown
<1>2. PICK o \in Object :
        /\ call[t].on = o
        /\ \A u \in Thread \ {t} : call[u].on # o
        /\ obj[o] = IF call[t].form = "finalize" THEN "gone" ELSE "live"
        /\ ~Accepted(o)
  BY <1>1, ReleaseUnderWay
<1>3. call[t].err \in {"none", "status", "exception"}
  BY DEF OwnTypes, Calls
<1>4. /\ call'[t] = [pc |-> "leave", form |-> call[t].form, on |-> o, err |-> call[t].err]
      /\ \A u \in Thread \ {t} : call'[u] = call[u]
      /\ call' \in [Thread -> Calls]
  BY <1>2, <1>3, ToMoves
<1>5. claimed' = [claimed EXCEPT ![o] = FALSE]
  BY <1>2
<1>6. OwnTypes'
  BY <1>4, <1>5 DEF OwnTypes
<1>7. ~claimed'[o]
  BY <1>5 DEF OwnTypes
<1>8. CallKnown(t)'
  BY <1>1, <1>2, <1>4, <1>7 DEF CallKnown, Releasing, Accepted
<1>9. (ObjectKnown(o) /\ Matches(o) /\ Kept(o))'
  BY <1>2, <1>4, <1>7 DEF ObjectKnown, Matches, Kept, Accepted, InCall, stage
<1>10. \A x \in Object \ {o} :
         native'[x] = native[x] /\ claimed'[x] = claimed[x] /\ obj'[x] = obj[x]
  BY <1>5 DEF OwnTypes
<1>11. UNCHANGED <<stage, native>> /\ call'[t].on = o
  BY <1>4
<1> HIDE DEF Rollback
<1> QED
  BY <1>2, <1>4, <1>6, <1>8, <1>9, <1>10, <1>11, OneWrapper

LEMMA AwaitKeeps ==
  ASSUME IInv, NEW t \in Thread, Await(t)
  PROVE  Own'
<1> USE OwnAndStages DEF Own, Await
<1>1. call[t].form # "fetch"
  BY DEF CallKnown
<1>2. PICK o \in Object :
        /\ call[t].on = o
        /\ \A u \in Thread \ {t} : call[u].on # o
        /\ obj[o] = IF call[t].form = "finalize" THEN "gone" ELSE "live"
  BY <1>1, ReleaseUnderWay
<1>3. claimed[o] /\ Accepted(o)
  BY <1>2 DEF CallKnown
<1>4. /\ call'[t] = [pc |-> "leave", form |-> call[t].form, on |-> o, err |-> "none"]
      /\ \A u \in Thread \ {t} : call'[u] = call[u]
      /\ call' \in [Thread -> Calls]
  BY <1>2, ToMoves
<1>5. OwnTypes'
  BY <1>4 DEF OwnTypes
<1>6. CallKnown(t)'
  BY <1>1, <1>2, <1>3, <1>4 DEF CallKnown, Releasing, Accepted
<1>7. (ObjectKnown(o) /\ Matches(o) /\ Kept(o))'
  BY <1>4 DEF ObjectKnown, Matches, Kept, Accepted, InCall, stage
<1> QED
  BY <1>2, <1>4, <1>5, <1>6, <1>7, OneWrapper

LEMMA LeaveKeeps ==
  ASSUME IInv, NEW t \in Thread, Leave(t)
  PROVE  Own'
<1> USE OwnAndStages DEF Own, Leave
<1>1. call[t].form # "fetch"
  BY DEF CallKnown
<1>2. PICK o \in Object :
        /\ call[t].on = o
        /\ \A u \in Thread \ {t} : call[u].on # o
        /\ obj[o] = IF call[t].form = "finalize" THEN "gone" ELSE "live"
        /\ native[o] # "none"
  BY <1>1, ReleaseUnderWay
<1>3. claimed[o] <=> Accepted(o)
  BY <1>2 DEF CallKnown
<1>4. /\ call'[t] = NoCall
      /\ \A u \in Thread \ {t} : call'[u] = call[u]
      /\ call' \in [Thread -> Calls]
  BY DEF OwnTypes, NoCall, Calls, Forms
<1>5. OwnTypes' /\ obj'[o] \in {"live", "gone", "lost"}
  BY <1>2, <1>4 DEF OwnTypes, Lives
<1>6. CallKnown(t)' /\ call'[t].on = None
  BY <1>4 DEF CallKnown, Releasing, NoCall
<1>7. ObjectKnown(o)'
  BY <1>2, <1>5 DEF ObjectKnown, Accepted, stage
<1>8. Matches(o)'
  BY <1>3 DEF Matches, Accepted
<1>9. Kept(o)'
  <2>1. obj'[o] = "gone" => call[t].err = "none"
    BY <1>2 DEF OwnTypes
  <2>2. call[t].err = "none" => native[o] # "held"
    BY <1>2 DEF CallKnown, Accepted
  <2> QED
    BY <2>1, <2>2 DEF Kept
<1>10. \A x \in Object \ {o} :
         native'[x] = native[x] /\ claimed'[x] = claimed[x] /\ obj'[x] = obj[x]
  BY <1>2 DEF OwnTypes
<1> QED
  BY <1>2, <1>4, <1>5, <1>6, <1>7, <1>8, <1>9, <1>10, OneWrapper

LEMMA DropKeeps ==
  ASSUME IInv, NEW t \in Thread, NEW o \in Object, Drop(t, o)
  PROVE  Own'
<1> USE OwnAndStages DEF Own, Drop
<1>1. CASE Kind[o] = "mapGroup" \/ NothingToGiveBack(o)
  <2>1. UNCHANGED <<claimed, call>>
    BY <1>1
  <2>2. OwnTypes' /\ obj'[o] = "gone"
    BY <2>1 DEF OwnTypes, Lives
  <2>3. CallKnown(t)' /\ call[t].on = None
    BY <2>1, IdleOn DEF CallKnown, Releasing, NoCall
  <2>4. ObjectKnown(o)'
    BY <2>1, <2>2 DEF ObjectKnown, Accepted, stage
  <2>5. Matches(o)'
    BY <2>1 DEF Matches, Accepted, InCall
  <2>6. Kept(o)'
    BY <1>1, <2>1 DEF Kept, NothingToGiveBack, Matches, Accepted, Up, stage
  <2>7. \A u \in Thread \ {t} : call[u].on # o
    BY DEF InCall
  <2>8. \A x \in Object \ {o} : obj'[x] = obj[x]
    BY DEF OwnTypes
  <2> QED
    BY <2>1, <2>2, <2>3, <2>4, <2>5, <2>6, <2>7, <2>8, OneWrapper
<1>2. CASE ~(Kind[o] = "mapGroup" \/ NothingToGiveBack(o))
  BY <1>2, ClaimKeeps DEF NothingToGiveBack, Forms
<1> QED
  BY <1>1, <1>2

(* No thread moves; the reservation stays accepted.                        *)
LEMMA ExecuteKeeps ==
  ASSUME IInv, NEW o \in Object, Execute(o)
  PROVE  Own'
<1> USE OwnAndStages DEF Own, Execute
<1>1. \A x \in Object : Accepted(x)' <=> Accepted(x)
  BY DEF OwnTypes, Accepted
<1>2. ASSUME NEW x \in Object
      PROVE  native'[x] = native[x] \/ (native[x] = "closing" /\ native'[x] = "closed")
  <2>1. CASE x = o
    BY <2>1 DEF OwnTypes
  <2>2. CASE x # o
    BY <2>2 DEF OwnTypes
  <2> QED
    BY <2>1, <2>2
<1>3. OwnTypes' /\ OneCall'
  BY DEF OwnTypes, OneCall, Reservations
<1>4. ASSUME NEW t \in Thread
      PROVE  CallKnown(t)'
  <2>1. CASE call[t].pc = "idle"
    BY <2>1 DEF CallKnown, Releasing
  <2>2. CASE call[t].pc # "idle"
    BY <2>2, <1>1 DEF CallKnown, Releasing
  <2> QED
    BY <2>1, <2>2
<1>5. ASSUME NEW x \in Object
      PROVE  (ObjectKnown(x) /\ Matches(x) /\ Kept(x))'
  <2>1. ObjectKnown(x)'
    BY <1>1, <1>2 DEF ObjectKnown, stage
  <2>2. Matches(x)' /\ Kept(x)'
    BY <1>1, <1>2 DEF Matches, Kept, InCall, Up, stage
  <2> QED
    BY <2>1, <2>2
<1> QED
  BY <1>3, <1>4, <1>5

-----------------------------------------------------------------------------
LEMMA Initially ==
  ASSUME Init
  PROVE  IInv
<1>1. Lifecycle!IInv
  <2>1. L!Init
    BY DEF Init, L!Init, Lifecycle!Init
  <2> QED
    BY <2>1, SameAssumption, SameInvariant, L!Initially
<1>2. Own
  BY DEF Init, Own, OwnTypes, OneCall, CallKnown, ObjectKnown, Matches, Kept, Accepted, Releasing,
     Reservations, Lives, Calls, Forms, NoCall
<1> QED
  BY <1>1, <1>2, OwnAndStages

LEMMA Stepwise ==
  ASSUME IInv, [Next]_vars
  PROVE  IInv'
<1>1. CASE UNCHANGED vars
  BY <1>1 DEF vars, stage, IInv, TypeOK, Lifecycle!IInv, Lifecycle!TypeOK, Lifecycle!Balanced,
     Lifecycle!LivesKnown, Lifecycle!ConfigCaptured, CallKnown, Releasing, OneCall, ObjectKnown,
     ClaimMatchesNative, NothingStranded, Accepted, InCall, Up
<1>2. CASE Next
  <2>1. Lifecycle!IInv'
    BY <1>2, StagesKept DEF IInv
  <2>2. Own'
    <3>1. ASSUME NEW t \in Thread, ThreadStep(t)
          PROVE  Own'
      BY <3>1, AcquireKeeps, BeginFetchKeeps, FetchKeeps, ReleaseKeeps, ExitKeeps, DropKeeps,
         AcceptKeeps, RefuseKeeps, RollbackKeeps, AwaitKeeps, LeaveKeeps DEF ThreadStep
    <3>2. ASSUME NEW o \in Object, Execute(o)
          PROVE  Own'
      BY <3>2, ExecuteKeeps
    <3>3. ASSUME NEW s \in Stage, StageStep(s)
          PROVE  Own'
      BY <3>3, StageStepKeepsOwn
    <3> QED
      BY <1>2, <3>1, <3>2, <3>3 DEF Next
  <2> QED
    BY <2>1, <2>2, OwnAndStages, PTL
<1> QED
  BY <1>1, <1>2

-----------------------------------------------------------------------------
(* A Python wrapper, its reservation and the calls on it always fit        *)
(* together, for any number of each.                                       *)
THEOREM InvariantHolds == Spec => []IInv
<1>1. Init => IInv
  BY Initially
<1>2. IInv /\ [Next]_vars => IInv'
  BY Stepwise
<1> QED
  BY <1>1, <1>2, PTL DEF Spec

(* No variable leaves its type; the process count never goes below zero.   *)
THEOREM TypeCorrect == Spec => []TypeOK
BY InvariantHolds, PTL DEF IInv

(* A refused or raising release leaves the wrapper releasable, an accepted *)
(* one cannot be made again (the claim and its roll-back in stage.py).     *)
THEOREM ClaimsTrue == Spec => []ClaimMatchesNative
BY InvariantHolds, PTL DEF IInv

(* Groups whose accessors do not raise have their storage (_check_live).   *)
THEOREM ViewsSafe == Spec => []LiveGroupsPinned
<1>1. IInv => LiveGroupsPinned
  <2> SUFFICES ASSUME IInv, NEW g \in Object, obj[g] = "live", Parent[g] # None, Active(g)
               PROVE  Held(g)
    BY DEF LiveGroupsPinned
  <2>1. native[g] = "held"
    BY DEF IInv, TypeOK, Reservations, ObjectKnown, Accepted, Active
  <2>2. CASE Kind[g] = "mapGroup"
    <3>1. Parent[g] \in Object /\ ~claimed[Parent[g]]
      BY <2>2 DEF Active
    <3>2. native[Parent[g]] \in {"held", "closing", "closed"} /\ ~Accepted(Parent[g])
      BY <3>1 DEF IInv, ObjectKnown
    <3> QED
      BY <2>1, <3>2 DEF Held, Accepted
  <2> QED
    BY <2>1, <2>2 DEF Held
<1> QED
  BY <1>1, InvariantHolds, PTL

(* Finalizers give back what their wrappers reserved (__del__).            *)
THEOREM NothingIsStranded == Spec => []NothingStranded
BY InvariantHolds, PTL DEF IInv

(* Once every Stage has failed or was destroyed no process reference is    *)
(* left (Stage.__init__, destroy).                                         *)
THEOREM ReferencesBalanced == Spec => []NoReferenceLeft
<1>1. IInv => NoReferenceLeft
  <2>1. L!LifecycleAssumption /\ L!IInv => L!NoReferenceLeft
    BY L!NobodyHolds
  <2> QED
    BY <2>1, SameAssumption, SameInvariant
    DEF IInv, NoReferenceLeft, Lifecycle!NoReferenceLeft, L!NoReferenceLeft
<1> QED
  BY <1>1, InvariantHolds, PTL

(* A Stage built with a configuration works with it.                       *)
THEOREM ConfigIsCaptured == Spec => []ConfigCaptured
<1>1. IInv => ConfigCaptured
  BY DEF IInv, Lifecycle!IInv, ConfigCaptured
<1> QED
  BY <1>1, InvariantHolds, PTL

=============================================================================
