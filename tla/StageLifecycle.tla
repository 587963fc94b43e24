---------------------------- MODULE StageLifecycle ----------------------------
(***************************************************************************)
(* Construction and destruction of Stage objects (stage.py), and the       *)
(* process references they take.                                           *)
(*                                                                         *)
(* The native process state is reference counted: a Stage with a           *)
(* configuration takes one reference of its own, and every native instance *)
(* holds one.  The first reference fixes the settings, the last one        *)
(* forgets them.  Each native call may fail, and other Stages may be built *)
(* or destroyed between any two calls.                                     *)
(***************************************************************************)
EXTENDS Naturals, FiniteSets

CONSTANTS
  Stage,     \* Stage objects
  Policy,    \* process settings a configuration can ask for
  Default,   \* the settings a process gets when nobody asks
  Config,    \* Stage -> the settings its StageConfig asks for, or None: no config
  None

(* Assumed by the modules that instantiate this one.                       *)
LifecycleAssumption ==
  /\ IsFiniteSet(Stage)
  /\ Default \in Policy
  /\ None \notin Policy
  /\ Config \in [Stage -> Policy \cup {None}]

VARIABLES
  refs,      \* native: outstanding process references
  settings,  \* native: the settings in force, None without a reference
  captured,  \* native: Stage -> the settings its instance works with
  life,      \* Stage -> how far its construction or destruction has come
  inst,      \* Stages with a native instance (Stage._inst)
  holds      \* Stages with a process reference of their own (_holds_process_ref)

process == <<refs, settings, captured>>
vars    == <<process, life, inst, holds>>

Lives ==
  {"unborn", "initialized", "unwinding", "failed", "alive", "detached", "destroyed", "lost"}

-----------------------------------------------------------------------------
(* Slips the code is one edit away from.  None is part of the              *)
(* specification; each takes the place of the definition it names in one   *)
(* model-checking run, which must then fail.                               *)

(* CanCreate, with the instance made first                                 *)
CreatesAtOnce(s) == life[s] \in {"unborn", "initialized"}

(* CreateFails, without giving back what Initialize took                   *)
CreateFailsKeeping(s) ==
  /\ CreatesAtOnce(s)
  /\ life' = [life EXCEPT ![s] = "failed"]
  /\ UNCHANGED <<process, inst, holds>>

(* CreateFails, shutting down whether or not there is something to undo    *)
CreateFailsShuttingDown(s) ==
  /\ CreatesAtOnce(s)
  /\ life' = [life EXCEPT ![s] = "failed"]
  /\ refs' = refs - 1
  /\ settings' = IF refs = 1 THEN None ELSE settings
  /\ holds' = holds \ {s}
  /\ UNCHANGED <<captured, inst>>

-----------------------------------------------------------------------------
Init ==
  /\ refs = 0
  /\ settings = None
  /\ captured = [s \in Stage |-> None]
  /\ life = [s \in Stage |-> "unborn"]
  /\ inst = {}
  /\ holds = {}

(* The native count.                                                       *)
Acquire(p) ==
  /\ refs' = refs + 1
  /\ settings' = IF refs = 0 THEN p ELSE settings

GiveBack ==
  /\ refs' = refs - 1
  /\ settings' = IF refs = 1 THEN None ELSE settings

-----------------------------------------------------------------------------
(* Stage.__init__                                                          *)

(* ovstage_initialize, for a Stage with a configuration: refused when the  *)
(* settings conflict with those in force, or when the runtime cannot start.*)
Initialize(s) ==
  /\ life[s] = "unborn" /\ Config[s] # None
  /\ refs = 0 \/ settings = Config[s]
  /\ Acquire(Config[s])
  /\ holds' = holds \cup {s}
  /\ life' = [life EXCEPT ![s] = "initialized"]
  /\ UNCHANGED <<captured, inst>>

InitializeFails(s) ==
  /\ life[s] = "unborn" /\ Config[s] # None
  /\ life' = [life EXCEPT ![s] = "failed"]
  /\ UNCHANGED <<process, inst, holds>>

CanCreate(s) == life[s] = IF Config[s] = None THEN "unborn" ELSE "initialized"

CreateInstance(s) ==
  /\ CanCreate(s)
  /\ Acquire(Default)
  /\ captured' = [captured EXCEPT ![s] = settings']
  /\ inst' = inst \cup {s}
  /\ life' = [life EXCEPT ![s] = "alive"]
  /\ UNCHANGED holds

(* The error message is fetched before the reference is given back.        *)
CreateFails(s) ==
  /\ CanCreate(s)
  /\ life' = [life EXCEPT ![s] = IF s \in holds THEN "unwinding" ELSE "failed"]
  /\ UNCHANGED <<process, inst, holds>>

Unwind(s) ==
  /\ life[s] = "unwinding"
  /\ GiveBack
  /\ holds' = holds \ {s}
  /\ life' = [life EXCEPT ![s] = "failed"]
  /\ UNCHANGED <<captured, inst>>

-----------------------------------------------------------------------------
(* Stage.destroy, also from __exit__ and __del__.  A refused destruction   *)
(* leaves the Stage as it was, to be destroyed again.                      *)

DestroyInstance(s) ==
  /\ life[s] = "alive"
  /\ GiveBack
  /\ captured' = [captured EXCEPT ![s] = None]
  /\ inst' = inst \ {s}
  /\ life' = [life EXCEPT ![s] = IF s \in holds THEN "detached" ELSE "destroyed"]
  /\ UNCHANGED holds

ShutDown(s) ==
  /\ life[s] = "detached"
  /\ GiveBack
  /\ holds' = holds \ {s}
  /\ life' = [life EXCEPT ![s] = "destroyed"]
  /\ UNCHANGED <<captured, inst>>

(* __del__ has only one try: when it is refused the instance stays.        *)
Lose(s) ==
  /\ life[s] = "alive"
  /\ life' = [life EXCEPT ![s] = "lost"]
  /\ UNCHANGED <<process, inst, holds>>

-----------------------------------------------------------------------------
Construct(s) ==
  Initialize(s) \/ InitializeFails(s) \/ CreateInstance(s) \/ CreateFails(s) \/ Unwind(s)

Next == \E s \in Stage : Construct(s) \/ DestroyInstance(s) \/ ShutDown(s) \/ Lose(s)

Spec == Init /\ [][Next]_vars

-----------------------------------------------------------------------------
(* Correctness                                                             *)

(* Every variable keeps to its type; the count never goes below zero.      *)
TypeOK ==
  /\ refs \in Nat
  /\ settings \in Policy \cup {None}
  /\ captured \in [Stage -> Policy \cup {None}]
  /\ life \in [Stage -> Lives]
  /\ inst \subseteq Stage
  /\ holds \subseteq Stage

(* "Balance every successful call with one ovstage_shutdown()": once every *)
(* Stage that was begun has failed or was destroyed, whichever call it     *)
(* failed at, no process reference is left and new settings are possible.  *)
NoReferenceLeft ==
  (\A s \in Stage : life[s] \in {"unborn", "failed", "destroyed"})
    => refs = 0 /\ settings = None

(* "Both are captured by this instance": a Stage that was constructed with *)
(* a configuration works with it, whatever Stages came and went meanwhile. *)
ConfigCaptured ==
  \A s \in Stage : life[s] = "alive" /\ Config[s] # None => captured[s] = Config[s]

-----------------------------------------------------------------------------
(* The inductive invariant: the count is the number of references the      *)
(* Stage objects know they have.                                           *)

Balanced == refs = Cardinality(inst) + Cardinality(holds)

LivesKnown ==
  \A s \in Stage :
    /\ s \in inst <=> life[s] \in {"alive", "lost"}
    /\ s \in holds <=> Config[s] # None /\ life[s] \in {"initialized", "unwinding", "alive", "lost", "detached"}
    /\ s \in holds => settings = Config[s]
    /\ life[s] \in {"initialized", "unwinding", "detached"} => Config[s] # None

IInv ==
  /\ TypeOK
  /\ Balanced
  /\ LivesKnown
  /\ refs = 0 <=> settings = None
  /\ ConfigCaptured

=============================================================================
