----------------------------- MODULE Operations -----------------------------
(***************************************************************************)
(* Waiting for asynchronous data-plane operations: Operation and           *)
(* CloneOperation (types.py) over Stage._wait_and_release (stage.py).      *)
(*                                                                         *)
(* The native side runs accepted operations in dependency order and keeps  *)
(* tracking state for each until release_op.  Operation.wait waits for the *)
(* operation and its dependencies, fetches what must be fetched before the *)
(* release (a clone's report), releases, and drops the references that     *)
(* keep the input buffers alive.  The native calls run without the         *)
(* interpreter lock, and the lock can change hands between the guards of   *)
(* wait and the assignment that claims the operation, so the guards, the   *)
(* claim, the native wait, the fetch and the release are steps of their    *)
(* own.                                                                    *)
(***************************************************************************)
EXTENDS Naturals, FiniteSets

CONSTANTS
  Thread,
  Op,        \* Operation objects, one per enqueue
  Clone,     \* those clone_async returned (CloneOperation)
  Depends,   \* operation -> all operations its ordinal orders it after
  None,
  Shared     \* TRUE: several threads may wait on one Operation object at once

ASSUME ConstantsAssumption ==
  /\ Clone \subseteq Op
  /\ Depends \in [Op -> SUBSET Op]
  /\ \A o \in Op : o \notin Depends[o]
  /\ \A o \in Op : \A d \in Depends[o] : Depends[d] \subseteq Depends[o]
  /\ None \notin Op
  /\ Shared \in BOOLEAN

VARIABLES
  run,       \* native: "unborn", "rejected", "pending", "done", "failed"
  tracked,   \* native: operations whose tracking state release_op has not dropped
  inst,      \* Stage._inst is set
  consumed,  \* operation -> Operation._consumed
  kept,      \* operation -> _keepalive still pins the input buffers
  pendingReport,  \* operations with CloneOperation._pending_report set
  result,    \* operations with CloneOperation._result set
  error,     \* operation -> CloneOperation._error: "none", "own", "guard"
  call       \* thread -> the wait it is in

native == <<run, tracked, inst>>
object == <<consumed, kept, pendingReport, result, error>>
vars   == <<native, object, call>>

-----------------------------------------------------------------------------
(* was: _consumed as CloneOperation.wait read it on entry.                 *)
(* err: what is about to be raised, "none" while nothing is.               *)
Errors == {"none", "guard", "own", "timeout"}

NoCall == [pc |-> "idle", op |-> None, was |-> FALSE, err |-> "none"]

Calls ==
  [pc : {"idle", "guards", "claim", "native", "fetch", "release", "leave"},
   op : Op \cup {None}, was : BOOLEAN, err : Errors]

To(t, pc, err) ==
  call' = [call EXCEPT ![t] = [pc |-> pc, op |-> @.op, was |-> @.was, err |-> err]]

Finished(o) == run[o] \in {"done", "failed"}

(* What one wait covers: the operation and what it depends on.  A rejected *)
(* enqueue left nothing to depend on.                                      *)
Chain(o) == {o} \cup {d \in Depends[o] : run[d] # "rejected"}

Settled(o) == \A d \in Chain(o) : Finished(d)

Waiting(t, o) == call[t].pc # "idle" /\ call[t].op = o

-----------------------------------------------------------------------------
(* Slips the code is one edit away from.  None is part of the              *)
(* specification; each takes the place of the definition it names in one   *)
(* model-checking run, which must then fail.                               *)

(* Failure, without the check of the ids                                   *)
FailureByCode(w) == w.code # "ok"

(* AfterSuccess, without the completion hook                               *)
NoHook(o) == "release"

(* TimeOut, if a timeout were terminal, or did not undo the claim          *)
TimeOutReleases(t) ==
  /\ call[t].pc = "native" /\ ~Settled(call[t].op)
  /\ To(t, "release", "own")
  /\ UNCHANGED <<native, object>>

TimeOutKeepsClaim(t) ==
  /\ call[t].pc = "native" /\ ~Settled(call[t].op)
  /\ To(t, "leave", "timeout")
  /\ UNCHANGED <<native, object>>

(* DropsInputs, in a finally clause without the timeout's exception        *)
DropsInputsAlways(c) == TRUE

(* Remembers, without the check of what was consumed on entry, or of what  *)
(* the wait consumed                                                       *)
RemembersRepeats(c, o) == consumed[o] /\ c.err # "timeout"

RemembersAll(c, o) == ~c.was

-----------------------------------------------------------------------------
Init ==
  /\ run = [o \in Op |-> "unborn"]
  /\ tracked = {}
  /\ inst = TRUE
  /\ consumed = [o \in Op |-> FALSE]
  /\ kept = [o \in Op |-> FALSE]
  /\ pendingReport = {}
  /\ result = {}
  /\ error = [o \in Op |-> "none"]
  /\ call = [t \in Thread |-> NoCall]

-----------------------------------------------------------------------------
(* The native side                                                         *)

(* An enqueue, and the Operation built from its result.  A rejected one    *)
(* still gives an Operation, whose wait raises the rejection.              *)
Enqueue(o) ==
  /\ inst /\ run[o] = "unborn"
  /\ \A d \in Depends[o] : run[d] # "unborn"
  /\ kept' = [kept EXCEPT ![o] = TRUE]
  /\ \/ /\ run' = [run EXCEPT ![o] = "pending"]
        /\ tracked' = tracked \cup {o}
     \/ /\ run' = [run EXCEPT ![o] = "rejected"]
        /\ UNCHANGED tracked
  /\ UNCHANGED <<inst, consumed, pendingReport, result, error, call>>

(* The operation runs once its dependencies have; it reads its inputs      *)
(* until then.                                                             *)
Execute(o) ==
  /\ run[o] = "pending"
  /\ \A d \in Chain(o) \ {o} : Finished(d)
  /\ \E verdict \in {"done", "failed"} : run' = [run EXCEPT ![o] = verdict]
  /\ UNCHANGED <<tracked, inst, object, call>>

(* What wait_op reports once the chain is settled.  Failures, the waited   *)
(* operation's or a producer's, come as a status, as ids, or both.         *)
WaitResults(o) ==
  LET failing == {d \in Chain(o) : run[d] = "failed"}
  IN  IF failing = {}
      THEN {[code |-> "ok", ids |-> {}]}
      ELSE {w \in [code : {"ok", "failed"}, ids : SUBSET failing] :
              w.code = "failed" \/ w.ids # {}}

-----------------------------------------------------------------------------
(* Operation.wait and CloneOperation.wait; CloneOperation.result calls the *)
(* latter when neither a result nor an error is cached.                    *)

(* A program does not wait for an operation it released by hand.           *)
Begin(t, o) ==
  /\ call[t].pc = "idle" /\ run[o] # "unborn"
  /\ run[o] = "rejected" \/ o \in tracked \/ consumed[o]
  /\ Shared \/ \A u \in Thread : ~Waiting(u, o)
  /\ call' = [call EXCEPT ![t] =
                [pc |-> "guards", op |-> o, was |-> o \in Clone /\ consumed[o], err |-> "none"]]
  /\ UNCHANGED <<native, object>>

Refuses(o) == run[o] = "rejected" \/ consumed[o] \/ ~inst

Guards(t) ==
  /\ call[t].pc = "guards"
  /\ IF Refuses(call[t].op) THEN To(t, "leave", "guard") ELSE To(t, "claim", "none")
  /\ UNCHANGED <<native, object>>

Claim(t) ==
  /\ call[t].pc = "claim"
  /\ consumed' = [consumed EXCEPT ![call[t].op] = TRUE]
  /\ To(t, "native", "none")
  /\ UNCHANGED <<native, kept, pendingReport, result, error>>

(* Stage._wait_and_release: any reported failure is the operation's.       *)
Failure(w) == w.code # "ok" \/ w.ids # {}

(* A clone has a report to fetch while its operation is still tracked.     *)
AfterSuccess(o) == IF o \in Clone THEN "fetch" ELSE "release"

NativeWait(t) ==
  LET o == call[t].op
  IN  /\ call[t].pc = "native"
      /\ IF o \notin tracked
         THEN To(t, "release", "own")
         ELSE /\ Settled(o)
              /\ \E w \in WaitResults(o) :
                   IF Failure(w) THEN To(t, "release", "own")
                   ELSE To(t, AfterSuccess(o), "none")
      /\ UNCHANGED <<native, object>>

(* Not ready is not a terminal result: the claim is undone, and the        *)
(* operation keeps its tracking state and its inputs.                      *)
TimeOut(t) ==
  LET o == call[t].op
  IN  /\ call[t].pc = "native"
      /\ o \in tracked /\ ~Settled(o)
      /\ consumed' = [consumed EXCEPT ![o] = FALSE]
      /\ To(t, "leave", "timeout")
      /\ UNCHANGED <<native, kept, pendingReport, result, error>>

(* CloneOperation._on_complete: the report lives until the release.        *)
Fetch(t) ==
  LET o == call[t].op
  IN  /\ call[t].pc = "fetch"
      /\ IF o \in tracked
         THEN /\ pendingReport' = pendingReport \cup {o}
              /\ To(t, "release", "none")
         ELSE /\ To(t, "release", "own")
              /\ UNCHANGED pendingReport
      /\ UNCHANGED <<native, consumed, kept, result, error>>

(* ovstage_release_op: best effort after an error, checked otherwise.      *)
Release(t) ==
  LET o == call[t].op
  IN  /\ call[t].pc = "release"
      /\ tracked' = tracked \ {o}
      /\ To(t, "leave", IF o \in tracked THEN call[t].err ELSE "own")
      /\ UNCHANGED <<run, inst, object>>

(* What a failed CloneOperation.wait remembers as the clone's own failure. *)
Remembers(c, o) == ~c.was /\ consumed[o] /\ c.err # "timeout"

(* Only a timeout leaves the inputs pinned.                                *)
DropsInputs(c) == c.err # "timeout"

(* wait's finally clause, then CloneOperation.wait's bookkeeping.          *)
Leave(t) ==
  LET c == call[t]
      o == c.op
  IN  /\ c.pc = "leave"
      /\ kept' = IF DropsInputs(c) THEN [kept EXCEPT ![o] = FALSE] ELSE kept
      /\ IF o \in Clone /\ c.err = "none"
         THEN /\ result' = IF o \in pendingReport THEN result \cup {o} ELSE result \ {o}
              /\ pendingReport' = pendingReport \ {o}
         ELSE UNCHANGED <<result, pendingReport>>
      /\ error' = IF o \in Clone /\ c.err # "none" /\ Remembers(c, o)
                  THEN [error EXCEPT ![o] = c.err] ELSE error
      /\ call' = [call EXCEPT ![t] = NoCall]
      /\ UNCHANGED <<native, consumed>>

-----------------------------------------------------------------------------
(* The low-level path: the program polls with Stage.wait_op and, once the  *)
(* operation has completed, calls Stage.release_op itself.                 *)
ReleaseByHand(o) ==
  /\ inst /\ o \in tracked /\ Settled(o)
  /\ \A t \in Thread : ~Waiting(t, o)
  /\ tracked' = tracked \ {o}
  /\ UNCHANGED <<run, inst, object, call>>

(* Stage.destroy, not under a call.                                        *)
DestroyStage ==
  /\ inst
  /\ \A t \in Thread : call[t].pc = "idle"
  /\ inst' = FALSE
  /\ UNCHANGED <<run, tracked, object, call>>

Step(t) ==
  Guards(t) \/ Claim(t) \/ NativeWait(t) \/ Fetch(t) \/ Release(t) \/ Leave(t)

Next ==
  \/ \E o \in Op : Enqueue(o) \/ Execute(o) \/ ReleaseByHand(o)
  \/ \E t \in Thread : Step(t) \/ TimeOut(t) \/ \E o \in Op : Begin(t, o)
  \/ DestroyStage

Spec == Init /\ [][Next]_vars

-----------------------------------------------------------------------------
(* Correctness                                                             *)

(* Every variable keeps to its type.                                       *)
TypeOK ==
  /\ run \in [Op -> {"unborn", "rejected", "pending", "done", "failed"}]
  /\ tracked \subseteq Op
  /\ inst \in BOOLEAN
  /\ consumed \in [Op -> BOOLEAN]
  /\ kept \in [Op -> BOOLEAN]
  /\ pendingReport \subseteq Clone
  /\ result \subseteq Clone
  /\ error \in [Op -> {"none", "own", "guard"}]
  /\ call \in [Thread -> Calls]

(* "holds input buffers alive until waited": while the native side may     *)
(* still read an operation's inputs, the Operation pins them.              *)
InputsPinned == inst => \A o \in Op : run[o] = "pending" => kept[o]

(* "the C contract allows release_op only once it has completed": no wait  *)
(* is about to release an operation, or one it was waiting for, unfinished.*)
ReleasesFinished ==
  \A t \in Thread : call[t].pc = "release" => Settled(call[t].op)

(* While the Stage lives, an operation no wait is in is either still       *)
(* waitable, claimed by nobody and with its inputs, or was released: no    *)
(* timeout, failure or interleaved poll leaves it consumed and tracked.    *)
NothingOrphaned ==
  inst => \A o \in tracked :
    (\A t \in Thread : ~Waiting(t, o)) => ~consumed[o] /\ kept[o]

(* wait returns normally only when the operation and everything it depends *)
(* on succeeded, even if the native wait's own status was OK.              *)
SuccessHolds ==
  \A t \in Thread : call[t].pc = "leave" /\ call[t].err = "none" =>
    \A d \in Chain(call[t].op) : run[d] = "done"

(* It reports a failure only when one of them failed, never because the    *)
(* operation was not ready, or was released under the wait.                *)
FailureHolds ==
  \A t \in Thread : call[t].pc = "leave" /\ call[t].err = "own" =>
    \E d \in Chain(call[t].op) : run[d] = "failed"

(* A clone that was waited for has its verdict, the report or its own      *)
(* failure and never both: the report was fetched before the release lost  *)
(* it, so result() does not wait on a released operation.                  *)
VerdictKept ==
  \A o \in Clone :
    consumed[o] /\ (\A t \in Thread : ~Waiting(t, o)) =>
      (o \in result) # (error[o] = "own")

(* "guard errors (a repeated wait, a bad timeout) and timeouts never poison*)
(* it": result() never raises a guard's error for the clone's own.         *)
GuardsNeverPoison == \A o \in Clone : error[o] # "guard"

(* The success or failure a wait has reported is final.                    *)
VerdictFinal ==
  [][\A o \in Clone :
       /\ o \in result => o \in result'
       /\ error[o] # "none" => error'[o] = error[o]]_vars

-----------------------------------------------------------------------------
(* The inductive invariant, when no two threads wait on one operation at   *)
(* once: what a wait knows of its operation at each step, and what holds   *)
(* of an operation no wait is in.                                          *)

AllDone(o) == \A d \in Chain(o) : run[d] = "done"
SomeFailed(o) == \E d \in Chain(o) : run[d] = "failed"

WaitsApart ==
  \A t, u \in Thread :
    call[t].pc # "idle" /\ call[u].pc # "idle" /\ call[t].op = call[u].op => t = u

(* An operation's own story up to the end of its wait.                     *)
Unanswered(o) == o \notin result /\ error[o] = "none"
Answered(o) == o \in Clone => error[o] = IF o \in result THEN "none" ELSE "own"

(* Native tracking: from the enqueue to the release, which comes after the *)
(* end; the inputs are pinned all along.                                   *)
TrackingKnown ==
  \A o \in Op :
    /\ o \in tracked => run[o] \in {"pending", "done", "failed"} /\ (inst => kept[o])
    /\ run[o] = "pending" => o \in tracked
    /\ run[o] # "unborn" => \A d \in Depends[o] : run[d] # "unborn"
    /\ run[o] \in {"done", "failed"} => Settled(o)
    /\ run[o] \in {"unborn", "rejected"} => ~consumed[o]

Quiet(o) == \A t \in Thread : ~Waiting(t, o)

AtRest ==
  \A o \in Op : Quiet(o) =>
    /\ consumed[o] => o \notin tracked /\ Answered(o)
    /\ ~consumed[o] => Unanswered(o)

(* About to leave: what the wait raises, if anything, fits what happened.  *)
InLeave(t) ==
  LET c == call[t]
      o == c.op
  IN  /\ c.err = "none" =>
           /\ consumed[o] /\ o \notin tracked /\ AllDone(o)
           /\ Unanswered(o) /\ (o \in Clone => o \in pendingReport)
      /\ c.err = "own" =>
           consumed[o] /\ o \notin tracked /\ SomeFailed(o) /\ Unanswered(o) /\ ~c.was
      /\ c.err = "guard" =>
           /\ o \notin tracked \/ ~inst
           /\ consumed[o] => o \notin tracked /\ Answered(o)
           /\ ~consumed[o] => Unanswered(o)
      /\ c.err = "timeout" => ~consumed[o] /\ o \in tracked /\ Unanswered(o) /\ inst

InCall(t) ==
  LET c == call[t]
      o == c.op
  IN  /\ c.pc = "idle" => c = NoCall
      /\ c.pc # "idle" =>
           /\ o \in Op /\ run[o] # "unborn"
           /\ c.was => consumed[o]
           /\ o \in Clone /\ consumed[o] /\ (c.pc = "guards" \/ c.err = "guard") => c.was
      /\ c.pc = "guards" =>
           /\ c.err = "none"
           /\ run[o] = "rejected" \/ o \in tracked \/ consumed[o]
           /\ consumed[o] => o \notin tracked /\ Answered(o)
           /\ ~consumed[o] => Unanswered(o)
      /\ c.pc = "claim" => inst /\ o \in tracked /\ ~consumed[o] /\ Unanswered(o) /\ ~c.was
      /\ c.pc \in {"native", "fetch", "release"} =>
           inst /\ o \in tracked /\ consumed[o] /\ Unanswered(o) /\ ~c.was
      /\ c.pc = "native" => c.err = "none"
      /\ c.pc = "fetch" => c.err = "none" /\ AllDone(o) /\ o \in Clone
      /\ c.pc = "release" =>
           /\ c.err \in {"none", "own"}
           /\ c.err = "none" => AllDone(o) /\ (o \in Clone => o \in pendingReport)
           /\ c.err = "own" => Settled(o) /\ SomeFailed(o)
      /\ c.pc = "leave" => InLeave(t)

IInv ==
  /\ TypeOK
  /\ WaitsApart
  /\ TrackingKnown
  /\ AtRest
  /\ \A t \in Thread : InCall(t)

=============================================================================
