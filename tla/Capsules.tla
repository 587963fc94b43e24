------------------------------ MODULE Capsules ------------------------------
(***************************************************************************)
(* Ownership of the tensors that pass through DLPack capsules (dlpack.py). *)
(*                                                                         *)
(* A capsule carries a block, the managed tensor, which has to be freed    *)
(* once: by the capsule's destructor while the capsule has the name it was *)
(* made with, and by whoever took it over, and renamed it, from then on.   *)
(* The binding is on both sides: ManagedDLTensor makes capsules, whose     *)
(* destructor also runs the caller's callback and drops the context that   *)
(* keeps it alive, and DLTensor.from_dlpack takes over those of others,    *)
(* for as long as the program or an operation keeps the tensor.            *)
(***************************************************************************)
EXTENDS Naturals, FiniteSets

CONSTANTS
  Capsule,  \* capsules that may ever be made
  Own       \* those of them ManagedDLTensor.__dlpack__ makes

VARIABLES
  producer, \* the ManagedDLTensor: "live", "dropped" or "gone"
  callback, \* it was given a deleter_callback
  cleaned,  \* its _cleanup_done
  ran,      \* how often the callback was run
  capsule,  \* "none", the name of one that is alive, or "gone"
  ctx,      \* its _CapsuleCtx is alive
  frees,    \* how often the block was freed
  holder,   \* who took the block over: "none", "binding" or "library"
  uses,     \* who refers to the binding's tensor
  raising   \* an exception is propagating

vars == <<producer, callback, cleaned, ran, capsule, ctx, frees, holder, uses, raising>>

Names == {"dltensor", "dltensor_versioned"}
User == {"program", "operation"}

Init ==
  /\ producer = "live" /\ callback \in BOOLEAN /\ cleaned = FALSE /\ ran = 0
  /\ capsule = [c \in Capsule |-> "none"]
  /\ ctx = [c \in Capsule |-> FALSE]
  /\ frees = [c \in Capsule |-> 0]
  /\ holder = [c \in Capsule |-> "none"]
  /\ uses = [c \in Capsule |-> {}]
  /\ raising = FALSE

-----------------------------------------------------------------------------
(* Capsules are made                                                       *)

(* __dlpack__ and _to_dlpack_capsule.  The callback's wrapper refers to    *)
(* the ManagedDLTensor, the context to the wrapper.                        *)
Export(c, name) ==
  /\ producer = "live" /\ c \in Own /\ capsule[c] = "none"
  /\ capsule' = [capsule EXCEPT ![c] = name]
  /\ ctx' = [ctx EXCEPT ![c] = TRUE]
  /\ UNCHANGED <<producer, callback, cleaned, ran, frees, holder, uses, raising>>

(* Another library makes one.                                              *)
Produce(c, name) ==
  /\ c \notin Own /\ capsule[c] = "none"
  /\ capsule' = [capsule EXCEPT ![c] = name]
  /\ UNCHANGED <<producer, callback, cleaned, ran, ctx, frees, holder, uses, raising>>

-----------------------------------------------------------------------------
(* Capsules are taken over                                                 *)

(* Slip: the managed tensor is owned before the capsule is renamed.        *)
OwnsSlip(renamed) == TRUE

(* Whether from_dlpack ends up with a _ConsumedDLManagedTensor.            *)
Owns(renamed) == renamed

(* from_dlpack: a capsule of another name, or lanes ovstage cannot carry,  *)
(* raise before anything is touched; then the capsule is renamed, which    *)
(* may fail, and last of all its block is owned.                           *)
Import(c) ==
  /\ capsule[c] = "dltensor" /\ holder[c] = "none"
  /\ \E renamed \in BOOLEAN :
       /\ capsule' = [capsule EXCEPT ![c] = IF renamed THEN "used" ELSE @]
       /\ holder' = [holder EXCEPT ![c] = IF Owns(renamed) THEN "binding" ELSE @]
       /\ uses' = [uses EXCEPT ![c] = IF Owns(renamed) THEN {"program"} ELSE @]
  /\ UNCHANGED <<producer, callback, cleaned, ran, ctx, frees, raising>>

(* Another library takes it, whichever name it asked for.                  *)
Take(c) ==
  /\ capsule[c] \in Names /\ holder[c] = "none"
  /\ capsule' = [capsule EXCEPT ![c] = "used"]
  /\ holder' = [holder EXCEPT ![c] = "library"]
  /\ UNCHANGED <<producer, callback, cleaned, ran, ctx, frees, uses, raising>>

(* The tensor becomes input of a write, and part of its keepalive.         *)
Enqueue(c) ==
  /\ "program" \in uses[c]
  /\ uses' = [uses EXCEPT ![c] = User]
  /\ UNCHANGED <<producer, callback, cleaned, ran, capsule, ctx, frees, holder, raising>>

(* The program drops the tensor or the operation was waited for; with the  *)
(* last reference goes the tensor, and its owner calls the deleter.        *)
LetGo(c, user) ==
  /\ user \in uses[c]
  /\ uses' = [uses EXCEPT ![c] = @ \ {user}]
  /\ IF uses[c] = {user}
     THEN /\ frees' = [frees EXCEPT ![c] = @ + 1]
          /\ holder' = [holder EXCEPT ![c] = "none"]
     ELSE UNCHANGED <<frees, holder>>
  /\ UNCHANGED <<producer, callback, cleaned, ran, capsule, ctx, raising>>

(* A library drops its view; _C_FREE_DELETER runs no Python, so neither    *)
(* the lock nor an exception matters.                                      *)
LibraryFrees(c) ==
  /\ holder[c] = "library"
  /\ holder' = [holder EXCEPT ![c] = "none"]
  /\ frees' = [frees EXCEPT ![c] = @ + 1]
  /\ UNCHANGED <<producer, callback, cleaned, ran, capsule, ctx, uses, raising>>

-----------------------------------------------------------------------------
(* Capsules are destroyed                                                  *)

Raise ==
  /\ ~raising /\ raising' = TRUE
  /\ UNCHANGED <<producer, callback, cleaned, ran, capsule, ctx, frees, holder, uses>>

(* The exception is handled.                                               *)
Handle ==
  /\ raising /\ raising' = FALSE
  /\ UNCHANGED <<producer, callback, cleaned, ran, capsule, ctx, frees, holder, uses>>

(* Slip: the destructor does not drain the pending exception, and is cut   *)
(* short by it.                                                            *)
CleansUpSlip(pending) == ~pending

(* Whether the destructor gets to its work: the exception, if one is       *)
(* pending, is drained first, and does not come back.                      *)
CleansUp(pending) == TRUE

(* capsule_destructor: the callback, which may raise; the context; the     *)
(* block, unless the capsule was renamed.                                  *)
DestroyCapsule(c) ==
  LET calls == c \in Own /\ callback /\ CleansUp(raising)
  IN  /\ capsule[c] \in Names \cup {"used"}
      /\ capsule' = [capsule EXCEPT ![c] = "gone"]
      /\ ctx' = [ctx EXCEPT ![c] = @ /\ ~CleansUp(raising)]
      /\ frees' = [frees EXCEPT ![c] = IF capsule[c] \in Names /\ (c \in Own => CleansUp(raising))
                                       THEN @ + 1 ELSE @]
      /\ ran' = IF calls THEN ran + 1 ELSE ran
      /\ \E raises \in BOOLEAN : cleaned' = (cleaned \/ (calls /\ ~raises))
      /\ raising' = (raising /\ c \notin Own)
      /\ UNCHANGED <<producer, callback, holder, uses>>

DropProducer ==
  /\ producer = "live" /\ producer' = "dropped"
  /\ UNCHANGED <<callback, cleaned, ran, capsule, ctx, frees, holder, uses, raising>>

(* ManagedDLTensor.__del__, once no context refers to it any more.         *)
FinalizeProducer ==
  /\ producer = "dropped" /\ (callback => \A c \in Own : ~ctx[c])
  /\ producer' = "gone"
  /\ IF callback /\ ~cleaned
     THEN ran' = ran + 1 /\ cleaned' \in BOOLEAN
     ELSE UNCHANGED <<ran, cleaned>>
  /\ UNCHANGED <<callback, capsule, ctx, frees, holder, uses, raising>>

Next ==
  \/ \E c \in Capsule :
       \/ \E name \in Names : Export(c, name) \/ Produce(c, name)
       \/ Import(c) \/ Take(c) \/ Enqueue(c) \/ LibraryFrees(c) \/ DestroyCapsule(c)
       \/ \E user \in User : LetGo(c, user)
  \/ Raise \/ Handle \/ DropProducer \/ FinalizeProducer

Spec == Init /\ [][Next]_vars

-----------------------------------------------------------------------------
(* Correctness                                                             *)

(* Somebody may still look at the block: a capsule nobody has taken, or    *)
(* the one who took it.                                                    *)
InUse(c) == capsule[c] \in Names \/ holder[c] # "none"

(* Whether a capsule is consumed or dropped, by whom, in which order, and  *)
(* while which exceptions propagate: its block is there while somebody may *)
(* look at it and is freed once after, no context outlives its capsule,    *)
(* and a producer does not go without its callback having been run         *)
(* (from_dlpack 240-289, _ConsumedDLManagedTensor 313-341,                 *)
(* capsule_destructor 525-551, ManagedDLTensor.__del__ 697-703).           *)
ReleasedOnce ==
  /\ \A c \in Capsule :
       /\ frees[c] = IF capsule[c] = "none" \/ InUse(c) THEN 0 ELSE 1
       /\ ctx[c] => capsule[c] \in Names \cup {"used"}
  /\ producer = "gone" /\ callback => ran > 0

=============================================================================
