------------------------------- MODULE Handles -------------------------------
(***************************************************************************)
(* Python wrappers of native reservations: Query, Read, OrdinalQuery and   *)
(* Hierarchy (here "handle"), ReadGroup, Map and MapGroup (stage.py,       *)
(* types.py).                                                              *)
(*                                                                         *)
(* Each wrapper gives its reservation back once: release claims the        *)
(* wrapper, calls the native side, and takes the claim back when the call  *)
(* was refused.  The call runs without the interpreter lock, so the claim, *)
(* the call and the roll-back are steps of their own, between which other  *)
(* threads use other wrappers, of the same map session too.  A dropped     *)
(* wrapper is given back by its finalizer, in the thread that dropped it.  *)
(***************************************************************************)
EXTENDS Naturals, FiniteSets

CONSTANTS
  Stage, Policy, Default, Config,   \* see StageLifecycle
  Thread,
  Main,      \* the Stage the wrappers belong to
  Object,    \* wrappers
  Kind,      \* wrapper -> "handle", "readGroup", "map" or "mapGroup"
  Parent,    \* group -> the Read or Map it is fetched from; otherwise None
  None

VARIABLES
  refs, settings, captured, life, inst, holds,   \* see StageLifecycle
  native,    \* wrapper -> its reservation on the native side
  claimed,   \* wrapper -> _released or _unmapped
  obj,       \* wrapper -> the life of the Python object
  call       \* thread -> the call it is in

stage == <<refs, settings, captured, life, inst, holds>>
vars  == <<stage, native, claimed, obj, call>>

Lifecycle == INSTANCE StageLifecycle

Groups(k) == {o \in Object : Kind[o] = k}

ASSUME HandlesAssumption ==
  /\ Lifecycle!LifecycleAssumption
  /\ Main \in Stage
  /\ Kind \in [Object -> {"handle", "readGroup", "map", "mapGroup"}]
  /\ Parent \in [Object -> Object \cup {None}]
  /\ None \notin Object \cup Stage
  /\ \A o \in Object :
       /\ Kind[o] = "readGroup" => Parent[o] \in Groups("handle")
       /\ Kind[o] = "mapGroup" => Parent[o] \in Groups("map")
       /\ Kind[o] \in {"handle", "map"} => Parent[o] = None

-----------------------------------------------------------------------------
(* Reservations: "none" until acquired; "refused": the native side gave no *)
(* handle; "held"; "closing": it accepted to end it; "closed": it has.     *)
Reservations == {"none", "refused", "held", "closing", "closed"}

(* An object is "lost" when its finalizer was refused.                     *)
Lives == {"unborn", "live", "gone", "lost"}

Forms == {"none", "fetch", "release", "exit", "raise", "finalize"}

NoCall == [pc |-> "idle", form |-> "none", on |-> None, err |-> "none"]

Calls ==
  [pc : {"idle", "native", "rollback", "await", "leave"}, form : Forms,
   on : Object \cup {None}, err : {"none", "status", "exception"}]

Up == Main \in inst

InCall(o) == \E t \in Thread : call[t].on = o

Enter(t, form, o) ==
  /\ call[t].pc = "idle"
  /\ call' = [call EXCEPT ![t] = [pc |-> "native", form |-> form, on |-> o, err |-> "none"]]

To(t, pc, err) ==
  call' = [call EXCEPT ![t] = [pc |-> pc, form |-> @.form, on |-> @.on, err |-> err]]

-----------------------------------------------------------------------------
(* Slips the code is one edit away from.  None is part of the              *)
(* specification; each takes the place of the definition it names in one   *)
(* model-checking run, which must then fail.                               *)

(* Rollback, without the flag                                              *)
RollbackForgets(t) ==
  /\ call[t].pc = "rollback"
  /\ To(t, "leave", call[t].err)
  /\ UNCHANGED <<stage, native, claimed, obj>>

(* Active, if a map group did not ask its session                          *)
ActiveAlone(o) == ~claimed[o]

(* NothingToGiveBack, if a group trusted its Read or Map to do it          *)
NothingOnceParentReleased(o) ==
  \/ claimed[o] \/ native[o] = "refused" \/ ~Up
  \/ Kind[o] = "readGroup" /\ claimed[Parent[o]]

-----------------------------------------------------------------------------
Init ==
  /\ Lifecycle!Init
  /\ native = [o \in Object |-> "none"]
  /\ claimed = [o \in Object |-> FALSE]
  /\ obj = [o \in Object |-> "unborn"]
  /\ call = [t \in Thread |-> NoCall]

-----------------------------------------------------------------------------
(* _ensure_active and _check_live: a map group also asks its session.      *)
Active(o) == ~claimed[o] /\ (Kind[o] = "mapGroup" => ~claimed[Parent[o]])

(* What the native side can still end: a commit needs its session.         *)
Held(o) == native[o] = "held" /\ (Kind[o] = "mapGroup" => native[Parent[o]] = "held")

-----------------------------------------------------------------------------
(* Acquiring                                                               *)

(* A query, read, ordinal query, hierarchy or map: a wrapper is built even *)
(* when the native side rejects the call, over handle 0.                   *)
Acquire(t, o) ==
  /\ Up /\ call[t].pc = "idle"
  /\ obj[o] = "unborn" /\ Kind[o] \in {"handle", "map"}
  /\ \E r \in {"held", "refused"} : native' = [native EXCEPT ![o] = r]
  /\ obj' = [obj EXCEPT ![o] = "live"]
  /\ UNCHANGED <<stage, claimed, call>>

(* fetch_read_next and fetch_map_next: the parent is looked at first, the  *)
(* native side fetches if it still knows it.                               *)
BeginFetch(t, g) ==
  /\ obj[g] = "unborn" /\ Parent[g] # None /\ ~InCall(g)
  /\ obj[Parent[g]] = "live" /\ Active(Parent[g])
  /\ Enter(t, "fetch", g)
  /\ UNCHANGED <<stage, native, claimed, obj>>

Fetch(t) ==
  LET g == call[t].on
  IN  /\ call[t].pc = "native" /\ call[t].form = "fetch"
      /\ IF Up /\ native[Parent[g]] = "held"
         THEN /\ native' = [native EXCEPT ![g] = "held"]
              /\ obj' = [obj EXCEPT ![g] = "live"]
         ELSE UNCHANGED <<native, obj>>
      /\ call' = [call EXCEPT ![t] = NoCall]
      /\ UNCHANGED <<stage, claimed>>

-----------------------------------------------------------------------------
(* Giving back: release_query, release_read, release_ordinal_query,        *)
(* release_hierarchy, release_group, unmap_group and unmap_attribute       *)

Claim(o) == claimed' = [claimed EXCEPT ![o] = TRUE]

Release(t, o) ==
  /\ obj[o] = "live" /\ ~InCall(o) /\ Active(o)
  /\ Enter(t, "release", o)
  /\ Claim(o)
  /\ UNCHANGED <<stage, native, obj>>

(* The end of a with block, normal or by an exception; a map group is not  *)
(* a context manager, and a wrapper over handle 0 has nothing to do.       *)
Exit(t, o) ==
  /\ obj[o] = "live" /\ ~InCall(o) /\ Kind[o] # "mapGroup"
  /\ Active(o) /\ native[o] # "refused"
  /\ \E form \in {"exit", "raise"} : Enter(t, form, o)
  /\ Claim(o)
  /\ UNCHANGED <<stage, native, obj>>

Releasing(t) == call[t].pc = "native" /\ call[t].form # "fetch"

(* Accepted: the groups and the session are the native side's from here.   *)
Accept(t) ==
  LET o == call[t].on
  IN  /\ Releasing(t) /\ Up /\ Held(o)
      /\ native' = [native EXCEPT ![o] = IF Kind[o] = "readGroup" THEN "closed" ELSE "closing"]
      /\ To(t, IF call[t].form \in {"exit", "raise"} THEN "await" ELSE "leave", "none")
      /\ UNCHANGED <<stage, claimed, obj>>

(* Refused: an exception when the Stage is gone, or for a read group; a    *)
(* status in the returned Operation otherwise.                             *)
Refusal(o) == IF Up /\ Kind[o] # "readGroup" THEN "status" ELSE "exception"

Refuse(t) ==
  /\ Releasing(t)
  /\ To(t, "rollback", Refusal(call[t].on))
  /\ UNCHANGED <<stage, native, claimed, obj>>

Rollback(t) ==
  /\ call[t].pc = "rollback"
  /\ claimed' = [claimed EXCEPT ![call[t].on] = FALSE]
  /\ To(t, "leave", call[t].err)
  /\ UNCHANGED <<stage, native, obj>>

(* A with exit waits for the Operation it was given.                       *)
Await(t) ==
  /\ call[t].pc = "await"
  /\ native[call[t].on] = "closed"
  /\ To(t, "leave", "none")
  /\ UNCHANGED <<stage, native, claimed, obj>>

(* What leaves __exit__ when an exception is propagating.  A read group    *)
(* releases inside the try; the others only wait there.                    *)
Masks(c) == c.form = "raise" /\ c.err = "exception" /\ Kind[c.on] # "readGroup"

Leave(t) ==
  LET c == call[t]
  IN  /\ c.pc = "leave"
      /\ obj' = IF c.form = "finalize" /\ c.err # "none"
                THEN [obj EXCEPT ![c.on] = "lost"] ELSE obj
      /\ call' = [call EXCEPT ![t] = NoCall]
      /\ UNCHANGED <<stage, native, claimed>>

(* The native side runs what it accepted, the commits of a session before  *)
(* its end.                                                                *)
Execute(o) ==
  /\ native[o] = "closing"
  /\ Kind[o] = "map" => \A g \in Object : Parent[g] = o => native[g] # "closing"
  /\ native' = [native EXCEPT ![o] = "closed"]
  /\ UNCHANGED <<stage, claimed, obj, call>>

-----------------------------------------------------------------------------
(* Garbage collection.  A map group keeps its session.                     *)

(* __del__ does nothing for what was released or never reserved, or when   *)
(* the Stage is gone; a map group has no __del__.                          *)
NothingToGiveBack(o) == claimed[o] \/ native[o] = "refused" \/ ~Up

Drop(t, o) ==
  /\ obj[o] = "live" /\ ~InCall(o) /\ call[t].pc = "idle"
  /\ \A g \in Object : Parent[g] = o /\ Kind[g] = "mapGroup" => obj[g] # "live" /\ ~InCall(g)
  /\ obj' = [obj EXCEPT ![o] = "gone"]
  /\ IF Kind[o] = "mapGroup" \/ NothingToGiveBack(o)
     THEN UNCHANGED <<claimed, call>>
     ELSE Enter(t, "finalize", o) /\ Claim(o)
  /\ UNCHANGED <<stage, native>>

-----------------------------------------------------------------------------
(* The Stage.  Programs do not destroy it under a call, and its wrappers   *)
(* keep it from being collected.                                           *)

StageStep(s) ==
  /\ \/ Lifecycle!Construct(s) \/ Lifecycle!ShutDown(s)
     \/ Lifecycle!DestroyInstance(s) /\ (s = Main => \A t \in Thread : call[t].pc = "idle")
     \/ Lifecycle!Lose(s) /\ (s = Main => \A o \in Object : obj[o] # "live" /\ ~InCall(o))
  /\ UNCHANGED <<native, claimed, obj, call>>

ThreadStep(t) ==
  \/ \E o \in Object : Acquire(t, o) \/ BeginFetch(t, o)
  \/ \E o \in Object : Release(t, o) \/ Exit(t, o) \/ Drop(t, o)
  \/ Fetch(t) \/ Accept(t) \/ Refuse(t) \/ Rollback(t) \/ Await(t) \/ Leave(t)

Next ==
  \/ \E t \in Thread : ThreadStep(t)
  \/ \E o \in Object : Execute(o)
  \/ \E s \in Stage : StageStep(s)

Spec == Init /\ [][Next]_vars

-----------------------------------------------------------------------------
(* Correctness                                                             *)

(* Every variable keeps to its type.                                       *)
TypeOK ==
  /\ Lifecycle!TypeOK
  /\ native \in [Object -> Reservations]
  /\ claimed \in [Object -> BOOLEAN]
  /\ obj \in [Object -> Lives]
  /\ call \in [Thread -> Calls]

(* Between calls a wrapper says released exactly when the native side      *)
(* accepted its release: a refused or raising call leaves it releasable,   *)
(* an accepted one cannot be made again, by hand, by with or by __del__.   *)
ClaimMatchesNative ==
  \A o \in Object : ~InCall(o) => (claimed[o] <=> native[o] \in {"closing", "closed"})

(* A group whose accessors do not raise still has its storage, while       *)
(* another thread is committing it or ending its session.                  *)
LiveGroupsPinned ==
  Up => \A g \in Object : obj[g] = "live" /\ Parent[g] # None /\ Active(g) => Held(g)

(* A reservation whose wrapper is gone is given back, unless its finalizer *)
(* was refused.                                                            *)
NothingStranded ==
  Up => \A o \in Object : obj[o] = "gone" /\ ~InCall(o) /\ Kind[o] # "mapGroup" => native[o] # "held"

(* "release best-effort so it does not mask the original error": a with    *)
(* exit under an exception raises no other.                                *)
ExitNeverMasks == \A t \in Thread : call[t].pc = "leave" => ~Masks(call[t])

NoReferenceLeft == Lifecycle!NoReferenceLeft
ConfigCaptured == Lifecycle!ConfigCaptured

-----------------------------------------------------------------------------
(* The inductive invariant.                                                *)

Accepted(o) == native[o] \in {"closing", "closed"}

(* What a thread knows at each point of its call.                          *)
CallKnown(t) ==
  LET c == call[t]
  IN  /\ IF c.pc = "idle" THEN c = NoCall ELSE c.on \in Object
      /\ c.pc # "idle" /\ c.form = "fetch" =>
           c.pc = "native" /\ obj[c.on] = "unborn" /\ Parent[c.on] # None
      /\ c.pc # "idle" /\ c.form # "fetch" =>
           obj[c.on] = IF c.form = "finalize" THEN "gone" ELSE "live"
      /\ Releasing(t) \/ c.pc = "rollback" => claimed[c.on] /\ ~Accepted(c.on)
      /\ c.pc = "await" => claimed[c.on] /\ Accepted(c.on)
      /\ c.pc = "rollback" => c.err # "none"
      /\ c.pc = "leave" /\ c.err = "none" => claimed[c.on] /\ Accepted(c.on)
      /\ c.pc = "leave" /\ c.err # "none" => ~claimed[c.on] /\ ~Accepted(c.on)

(* Exclusive use: no wrapper is in two calls.                              *)
OneCall ==
  \A t, u \in Thread : call[t].on = call[u].on /\ call[t].on # None => t = u

(* How the Python object, its reservation and its Stage go together.       *)
ObjectKnown(o) ==
  /\ obj[o] = "unborn" => native[o] = "none" /\ ~claimed[o]
  /\ obj[o] # "unborn" =>
       native[o] # "none" /\ life[Main] \in {"alive", "lost", "detached", "destroyed"}
  /\ Accepted(o) => claimed[o]
  /\ Parent[o] # None => native[o] # "refused"
  /\ Parent[o] # None /\ obj[o] # "unborn" =>
       native[Parent[o]] \in {"held", "closing", "closed"}

IInv ==
  /\ TypeOK
  /\ Lifecycle!IInv
  /\ \A t \in Thread : CallKnown(t)
  /\ OneCall
  /\ \A o \in Object : ObjectKnown(o)
  /\ ClaimMatchesNative
  /\ NothingStranded

=============================================================================
