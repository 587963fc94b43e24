-------------------------- MODULE Operations_proofs --------------------------
(***************************************************************************)
(* Theorems about Operations, for any operations and dependencies and any  *)
(* number of threads, as long as no two threads wait on one Operation      *)
(* object at the same time.                                                *)
(***************************************************************************)
EXTENDS OperationsRefine, TLAPS

(* What a step of a wait does to the call it belongs to.                   *)
LEMMA ToFields ==
  ASSUME TypeOK, NEW t \in Thread, NEW pc, NEW err, To(t, pc, err),
         pc \in {"idle", "guards", "claim", "native", "fetch", "release", "leave"},
         err \in Errors
  PROVE  /\ call' \in [Thread -> Calls]
         /\ call'[t].pc = pc /\ call'[t].err = err
         /\ call'[t].op = call[t].op /\ call'[t].was = call[t].was
         /\ \A u \in Thread \ {t} : call'[u] = call[u]
<1>1. call[t] \in Calls
  BY DEF TypeOK
<1> QED BY <1>1 DEF To, Calls, TypeOK

(* The chain of an operation, once enqueued, is fixed, and what its        *)
(* members came to is final.                                               *)
ChainFixed(o) ==
  /\ Chain(o)' = Chain(o)
  /\ Settled(o) => Settled(o)'
  /\ AllDone(o) => AllDone(o)'
  /\ SomeFailed(o) => SomeFailed(o)'

LEMMA RunKept == ASSUME NEW o, run' = run PROVE ChainFixed(o)
  BY DEF ChainFixed, Chain, Settled, AllDone, SomeFailed, Finished

LEMMA EnqueueChain ==
  ASSUME IInv, NEW x \in Op, Enqueue(x), NEW o \in Op, run[o] # "unborn"
  PROVE  ChainFixed(o) /\ run'[o] = run[o]
<1> USE ConstantsAssumption
<1>1. \A d \in Op \ {x} : run'[d] = run[d]
  BY DEF Enqueue, IInv, TypeOK
<1>2. o # x /\ run[x] = "unborn" /\ \A d \in Depends[o] : d \in Op /\ d # x
  BY DEF Enqueue, IInv, TrackingKnown
<1>3. run'[o] = run[o] /\ \A d \in Depends[o] : run'[d] = run[d]
  BY <1>1, <1>2
<1> QED BY <1>3 DEF ChainFixed, Chain, Settled, AllDone, SomeFailed, Finished

LEMMA ExecuteChain ==
  ASSUME IInv, NEW x \in Op, Execute(x), NEW o \in Op
  PROVE  ChainFixed(o)
<1> USE ConstantsAssumption
<1>1. /\ run[x] = "pending" /\ run'[x] \in {"done", "failed"}
      /\ \A d \in Op \ {x} : run'[d] = run[d]
  BY DEF Execute, IInv, TypeOK
<1>2. \A d \in Op : /\ run'[d] = "rejected" <=> run[d] = "rejected"
                    /\ Finished(d) => run'[d] = run[d]
  BY <1>1 DEF Finished
<1>3. Chain(o) \subseteq Op /\ Chain(o)' = Chain(o)
  BY <1>2 DEF Chain
<1> QED BY <1>2, <1>3 DEF ChainFixed, Settled, AllDone, SomeFailed, Finished

(* A step that leaves operation o and the call of thread u alone keeps     *)
(* what u knows of o.                                                      *)
Same(o) ==
  /\ consumed'[o] = consumed[o]
  /\ error'[o] = error[o]
  /\ o \in tracked' <=> o \in tracked
  /\ o \in result' <=> o \in result
  /\ o \in pendingReport => o \in pendingReport'

LEMMA SameCall ==
  ASSUME NEW u \in Thread, NEW o, InCall(u), call'[u] = call[u], inst' = inst,
         call[u].pc # "idle" =>
           /\ o = call[u].op /\ Same(o) /\ ChainFixed(o)
           /\ \/ run'[o] = run[o]
              \/ run[o] = "pending" /\ run'[o] \in {"done", "failed"}
  PROVE  InCall(u)'
<1>1. PICK c : c = call[u]
  OBVIOUS
<1>2. CASE c.pc = "idle"
  BY <1>1, <1>2 DEF InCall
<1>3. CASE c.pc # "idle"
  <2>1. /\ Unanswered(o)' = Unanswered(o) /\ Answered(o)' = Answered(o)
        /\ Settled(o) => Settled(o)'
        /\ AllDone(o) => AllDone(o)'
        /\ SomeFailed(o) => SomeFailed(o)'
    BY <1>1, <1>3 DEF Same, ChainFixed, Unanswered, Answered
  <2>2. InLeave(u) => InLeave(u)'
    BY <1>1, <1>3, <2>1 DEF InLeave, Same
  <2> QED BY <1>1, <1>3, <2>1, <2>2 DEF InCall, Same
<1> QED BY <1>2, <1>3

-----------------------------------------------------------------------------
(* The invariant carries over a step inside thread t's wait as soon as it  *)
(* does for t itself and for the operation t waits for.                    *)
LEMMA Within ==
  ASSUME IInv, NEW t \in Thread, call[t].pc # "idle", call'[t].pc # "idle",
         call'[t].op = call[t].op, \A u \in Thread \ {t} : call'[u] = call[u],
         run' = run, inst' = inst, \A x \in Op \ {call[t].op} : Same(x),
         TypeOK', TrackingKnown', InCall(t)'
  PROVE  IInv'
<1>1. ASSUME NEW u \in Thread \ {t} PROVE InCall(u)'
  <2>1. PICK o : o = call[u].op
    OBVIOUS
  <2>2. call[u].pc # "idle" => o \in Op /\ o # call[t].op
    BY <2>1 DEF IInv, WaitsApart, InCall
  <2>3. call[u].pc # "idle" => Same(o) /\ ChainFixed(o) /\ run'[o] = run[o]
    BY <2>2, RunKept
  <2>4. u \in Thread /\ call'[u] = call[u] /\ InCall(u)
    BY DEF IInv
  <2> QED BY <2>1, <2>3, <2>4, SameCall
<1>2. WaitsApart'
  BY DEF IInv, WaitsApart
<1>3. AtRest'
  <2> SUFFICES ASSUME NEW x \in Op, Quiet(x)'
               PROVE  /\ consumed'[x] => x \notin tracked' /\ Answered(x)'
                      /\ ~consumed'[x] => Unanswered(x)'
    BY DEF AtRest
  <2>1. Quiet(x) /\ x # call[t].op
    BY DEF Quiet, Waiting
  <2> QED BY <2>1 DEF IInv, AtRest, Same, Answered, Unanswered
<1> QED BY <1>1, <1>2, <1>3 DEF IInv

LEMMA GuardsKeeps == ASSUME IInv, NEW t \in Thread, Guards(t) PROVE IInv'
<1> USE ConstantsAssumption
<1>1. PICK c : c = call[t]
  OBVIOUS
<1>2. /\ c.pc = "guards" /\ c.op \in Op /\ InCall(t)
  BY <1>1 DEF Guards, IInv, InCall
<1>3. /\ UNCHANGED <<run, tracked, inst, consumed, kept, pendingReport, result, error>>
  BY DEF Guards, native, object
<1>4. /\ call' \in [Thread -> Calls] /\ call'[t].op = c.op /\ call'[t].was = c.was
      /\ \A u \in Thread \ {t} : call'[u] = call[u]
      /\ IF Refuses(c.op)
         THEN call'[t].pc = "leave" /\ call'[t].err = "guard"
         ELSE call'[t].pc = "claim" /\ call'[t].err = "none"
  BY <1>1, ToFields DEF Guards, Errors, IInv
<1>5. TypeOK' /\ TrackingKnown'
  BY <1>3, <1>4 DEF IInv, TypeOK, TrackingKnown, Settled, Chain, Finished
<1>6. InCall(t)'
  BY <1>1, <1>2, <1>3, <1>4 DEF InCall, InLeave, Refuses, Unanswered, Answered, IInv, TrackingKnown
<1>7. \A x \in Op : Same(x)
  BY <1>3 DEF Same
<1> QED BY <1>1, <1>2, <1>3, <1>4, <1>5, <1>6, <1>7, Within

LEMMA ClaimKeeps == ASSUME IInv, NEW t \in Thread, Claim(t) PROVE IInv'
<1> USE ConstantsAssumption
<1>1. PICK c : c = call[t]
  OBVIOUS
<1>2. /\ c.pc = "claim" /\ c.op \in Op /\ InCall(t)
  BY <1>1 DEF Claim, IInv, InCall
<1>3. /\ UNCHANGED <<run, tracked, inst, kept, pendingReport, result, error>>
      /\ consumed' \in [Op -> BOOLEAN] /\ consumed'[c.op] = TRUE
      /\ \A x \in Op \ {c.op} : consumed'[x] = consumed[x]
  BY <1>1, <1>2 DEF Claim, native, IInv, TypeOK
<1>4. /\ call' \in [Thread -> Calls] /\ call'[t].op = c.op /\ call'[t].was = c.was
      /\ \A u \in Thread \ {t} : call'[u] = call[u]
      /\ call'[t].pc = "native" /\ call'[t].err = "none"
  BY <1>1, ToFields DEF Claim, Errors, IInv
<1>5. c.op \in tracked /\ run[c.op] \notin {"unborn", "rejected"}
  BY <1>1, <1>2 DEF InCall, IInv, TrackingKnown
<1>6. TypeOK' /\ TrackingKnown'
  BY <1>3, <1>4, <1>5 DEF IInv, TypeOK, TrackingKnown, Settled, Chain, Finished
<1>7. InCall(t)'
  BY <1>1, <1>2, <1>3, <1>4 DEF InCall, Unanswered
<1>8. \A x \in Op \ {c.op} : Same(x)
  BY <1>3 DEF Same
<1> QED BY <1>1, <1>2, <1>3, <1>4, <1>6, <1>7, <1>8, Within

(* The wait comes back once the chain is settled, with a failure exactly   *)
(* when the chain has one.                                                 *)
LEMMA NativeWaitKeeps == ASSUME IInv, NEW t \in Thread, NativeWait(t) PROVE IInv'
<1> USE ConstantsAssumption
<1>1. PICK c : c = call[t]
  OBVIOUS
<1>2. /\ c.pc = "native" /\ c.op \in Op /\ InCall(t) /\ c.op \in tracked
  BY <1>1 DEF NativeWait, IInv, InCall
<1>3. /\ UNCHANGED <<run, tracked, inst, consumed, kept, pendingReport, result, error>>
  BY DEF NativeWait, native, object
<1>4. PICK w \in WaitResults(c.op) :
        IF Failure(w) THEN To(t, "release", "own") ELSE To(t, AfterSuccess(c.op), "none")
  BY <1>1, <1>2 DEF NativeWait
<1>5. Settled(c.op)
  BY <1>1, <1>2 DEF NativeWait
<1>6. Failure(w) => SomeFailed(c.op)
  BY DEF Failure, WaitResults, SomeFailed
<1>7. ~Failure(w) => AllDone(c.op)
  BY <1>5 DEF Failure, WaitResults, AllDone, Settled, Finished
<1>8. /\ call' \in [Thread -> Calls] /\ call'[t].op = c.op /\ call'[t].was = c.was
      /\ \A u \in Thread \ {t} : call'[u] = call[u]
      /\ \/ call'[t].pc = "release" /\ call'[t].err = "own" /\ SomeFailed(c.op)
         \/ /\ call'[t].pc = IF c.op \in Clone THEN "fetch" ELSE "release"
            /\ call'[t].err = "none" /\ AllDone(c.op)
  BY <1>1, <1>4, <1>6, <1>7, ToFields DEF AfterSuccess, Errors, IInv
<1>9. TypeOK' /\ TrackingKnown'
  BY <1>3, <1>8 DEF IInv, TypeOK, TrackingKnown, Settled, Chain, Finished
<1>10. InCall(t)'
  <2>1. /\ Settled(c.op)'
        /\ AllDone(c.op) => AllDone(c.op)'
        /\ SomeFailed(c.op) => SomeFailed(c.op)'
    BY <1>3, <1>5, RunKept DEF ChainFixed
  <2>2. /\ c.op \in Op /\ run'[c.op] # "unborn" /\ ~c.was
        /\ inst' /\ c.op \in tracked' /\ consumed'[c.op] /\ Unanswered(c.op)'
    BY <1>1, <1>2, <1>3 DEF InCall, Unanswered
  <2>3. PICK e : e = call'[t]
    OBVIOUS
  <2>4. /\ e.op = c.op /\ e.was = c.was /\ e.pc \in {"fetch", "release"}
        /\ e.pc = "fetch" => c.op \in Clone /\ e.err = "none" /\ AllDone(c.op)'
        /\ e.pc = "release" =>
             \/ e.err = "own" /\ SomeFailed(c.op)'
             \/ e.err = "none" /\ AllDone(c.op)' /\ c.op \notin Clone
    BY <1>8, <2>1, <2>3
  <2>5. CASE e.pc = "fetch"
    BY <2>2, <2>3, <2>4, <2>5 DEF InCall
  <2>6. CASE e.pc = "release"
    BY <2>1, <2>2, <2>3, <2>4, <2>6 DEF InCall
  <2> QED BY <2>4, <2>5, <2>6
<1>11. \A x \in Op : Same(x)
  BY <1>3 DEF Same
<1> QED BY <1>1, <1>2, <1>3, <1>8, <1>9, <1>10, <1>11, Within

(* A timeout leaves the operation as it was before the claim.              *)
LEMMA TimeOutKeeps == ASSUME IInv, NEW t \in Thread, TimeOut(t) PROVE IInv'
<1> USE ConstantsAssumption
<1>1. PICK c : c = call[t]
  OBVIOUS
<1>2. /\ c.pc = "native" /\ c.op \in Op /\ InCall(t)
  BY <1>1 DEF TimeOut, IInv, InCall
<1>3. /\ UNCHANGED <<run, tracked, inst, kept, pendingReport, result, error>>
      /\ consumed' \in [Op -> BOOLEAN] /\ consumed'[c.op] = FALSE
      /\ \A x \in Op \ {c.op} : consumed'[x] = consumed[x]
  BY <1>1, <1>2 DEF TimeOut, native, IInv, TypeOK
<1>4. /\ call' \in [Thread -> Calls] /\ call'[t].op = c.op /\ call'[t].was = c.was
      /\ \A u \in Thread \ {t} : call'[u] = call[u]
      /\ call'[t].pc = "leave" /\ call'[t].err = "timeout"
  BY <1>1, ToFields DEF TimeOut, Errors, IInv
<1>5. TypeOK' /\ TrackingKnown'
  BY <1>3, <1>4 DEF IInv, TypeOK, TrackingKnown, Settled, Chain, Finished
<1>6. InCall(t)'
  BY <1>1, <1>2, <1>3, <1>4 DEF InCall, InLeave, Unanswered
<1>7. \A x \in Op \ {c.op} : Same(x)
  BY <1>3 DEF Same
<1> QED BY <1>1, <1>2, <1>3, <1>4, <1>5, <1>6, <1>7, Within

LEMMA FetchKeeps == ASSUME IInv, NEW t \in Thread, Fetch(t) PROVE IInv'
<1> USE ConstantsAssumption
<1>1. PICK c : c = call[t]
  OBVIOUS
<1>2. /\ c.pc = "fetch" /\ c.op \in Op /\ InCall(t) /\ c.op \in tracked /\ c.op \in Clone
  BY <1>1 DEF Fetch, IInv, InCall
<1>3. /\ UNCHANGED <<run, tracked, inst, consumed, kept, result, error>>
      /\ pendingReport' = pendingReport \cup {c.op}
  BY <1>1, <1>2 DEF Fetch, native
<1>4. /\ call' \in [Thread -> Calls] /\ call'[t].op = c.op /\ call'[t].was = c.was
      /\ \A u \in Thread \ {t} : call'[u] = call[u]
      /\ call'[t].pc = "release" /\ call'[t].err = "none"
  BY <1>1, <1>2, ToFields DEF Fetch, Errors, IInv
<1>5. TypeOK' /\ TrackingKnown'
  BY <1>2, <1>3, <1>4 DEF IInv, TypeOK, TrackingKnown, Settled, Chain, Finished
<1>6. InCall(t)'
  <2>1. AllDone(c.op)'
    BY <1>1, <1>2, <1>3, RunKept DEF ChainFixed, InCall
  <2> QED BY <1>1, <1>2, <1>3, <1>4, <2>1 DEF InCall, Unanswered
<1>7. \A x \in Op \ {c.op} : Same(x)
  BY <1>3 DEF Same
<1> QED BY <1>1, <1>2, <1>3, <1>4, <1>5, <1>6, <1>7, Within

(* What is released has finished, so nothing pending loses its tracking.   *)
LEMMA ReleaseKeeps == ASSUME IInv, NEW t \in Thread, Release(t) PROVE IInv'
<1> USE ConstantsAssumption
<1>1. PICK c : c = call[t]
  OBVIOUS
<1>2. /\ c.pc = "release" /\ c.op \in Op /\ InCall(t) /\ c.op \in tracked
  BY <1>1 DEF Release, IInv, InCall
<1>3. /\ UNCHANGED <<run, inst, consumed, kept, pendingReport, result, error>>
      /\ tracked' = tracked \ {c.op}
  BY <1>1, <1>2 DEF Release, object
<1>4. /\ call' \in [Thread -> Calls] /\ call'[t].op = c.op /\ call'[t].was = c.was
      /\ \A u \in Thread \ {t} : call'[u] = call[u]
      /\ call'[t].pc = "leave" /\ call'[t].err = c.err /\ c.err \in {"none", "own"}
  BY <1>1, <1>2, ToFields DEF Release, Errors, IInv, InCall
<1>5. Settled(c.op)
  BY <1>1, <1>2 DEF InCall, AllDone, Settled, Finished
<1>6. run[c.op] # "pending"
  BY <1>5 DEF Settled, Chain, Finished
<1>7. TypeOK' /\ TrackingKnown'
  BY <1>2, <1>3, <1>4, <1>6 DEF IInv, TypeOK, TrackingKnown, Settled, Chain, Finished
<1>8. InCall(t)'
  <2>1. /\ AllDone(c.op) => AllDone(c.op)'
        /\ SomeFailed(c.op) => SomeFailed(c.op)'
    BY <1>3, RunKept DEF ChainFixed
  <2> QED BY <1>1, <1>2, <1>3, <1>4, <2>1 DEF InCall, InLeave, Unanswered
<1>9. \A x \in Op \ {c.op} : Same(x)
  BY <1>3 DEF Same
<1> QED BY <1>1, <1>2, <1>3, <1>4, <1>7, <1>8, <1>9, Within

-----------------------------------------------------------------------------
(* Entering and leaving a wait                                             *)

LEMMA BeginKeeps ==
  ASSUME IInv, ~Shared, NEW t \in Thread, NEW o \in Op, Begin(t, o)
  PROVE  IInv'
<1> USE ConstantsAssumption
<1>1. /\ UNCHANGED <<run, tracked, inst, consumed, kept, pendingReport, result, error>>
  BY DEF Begin, native, object
<1>2. /\ call[t].pc = "idle" /\ run[o] # "unborn"
      /\ run[o] = "rejected" \/ o \in tracked \/ consumed[o]
      /\ \A u \in Thread : ~Waiting(u, o)
  BY DEF Begin
<1>3. PICK d : d = [pc |-> "guards", op |-> o, was |-> o \in Clone /\ consumed[o], err |-> "none"]
  OBVIOUS
<1>4. /\ d \in Calls /\ d.pc = "guards" /\ d.op = o /\ d.err = "none"
      /\ d.was <=> o \in Clone /\ consumed[o]
  <2>1. (o \in Clone /\ consumed[o]) \in BOOLEAN
    OBVIOUS
  <2> QED BY <1>3, <2>1 DEF Calls, Errors
<1>5. call' = [call EXCEPT ![t] = d]
  BY <1>3 DEF Begin
<1>6. call' \in [Thread -> Calls] /\ call'[t] = d /\ \A u \in Thread \ {t} : call'[u] = call[u]
  BY <1>4, <1>5 DEF IInv, TypeOK
<1>7. TypeOK' /\ TrackingKnown'
  BY <1>1, <1>6 DEF IInv, TypeOK, TrackingKnown, Settled, Chain, Finished
<1>8. Quiet(o)
  BY <1>2 DEF Quiet
<1>9. (consumed[o] => o \notin tracked /\ Answered(o)) /\ (~consumed[o] => Unanswered(o))
  BY <1>8 DEF IInv, AtRest
<1>10. InCall(t)'
  BY <1>1, <1>2, <1>4, <1>6, <1>9 DEF InCall, Answered, Unanswered
<1>11. ASSUME NEW u \in Thread \ {t} PROVE InCall(u)'
  <2>1. PICK x : x = call[u].op
    OBVIOUS
  <2>2. Same(x) /\ ChainFixed(x) /\ run'[x] = run[x]
    BY <1>1, RunKept DEF Same
  <2>3. u \in Thread /\ call'[u] = call[u] /\ InCall(u) /\ inst' = inst
    BY <1>1, <1>6 DEF IInv
  <2> QED BY <2>1, <2>2, <2>3, SameCall
<1>12. WaitsApart'
  BY <1>2, <1>4, <1>6 DEF IInv, WaitsApart, Waiting
<1>13. AtRest'
  <2> SUFFICES ASSUME NEW x \in Op, Quiet(x)'
               PROVE  /\ consumed'[x] => x \notin tracked' /\ Answered(x)'
                      /\ ~consumed'[x] => Unanswered(x)'
    BY DEF AtRest
  <2>1. Quiet(x)
    BY <1>2, <1>6 DEF Quiet, Waiting
  <2> QED BY <1>1, <2>1 DEF IInv, AtRest, Answered, Unanswered
<1> QED BY <1>7, <1>10, <1>11, <1>12, <1>13 DEF IInv

(* Leaving settles what the operation's next waiter finds: the inputs stay *)
(* pinned only after a timeout, and a clone has its report or its failure. *)
LEMMA LeaveKeeps == ASSUME IInv, NEW t \in Thread, Leave(t) PROVE IInv'
<1> USE ConstantsAssumption
<1>1. PICK c : c = call[t]
  OBVIOUS
<1>2. PICK o : o = c.op
  OBVIOUS
<1>3. c.pc = "leave" /\ o \in Op /\ InCall(t) /\ c \in Calls
  BY <1>1, <1>2 DEF Leave, IInv, InCall, TypeOK
<1>4. /\ UNCHANGED <<run, tracked, inst, consumed>>
      /\ kept' = IF DropsInputs(c) THEN [kept EXCEPT ![o] = FALSE] ELSE kept
      /\ error' = IF o \in Clone /\ c.err # "none" /\ Remembers(c, o)
                  THEN [error EXCEPT ![o] = c.err] ELSE error
      /\ call' = [call EXCEPT ![t] = NoCall]
  BY <1>1, <1>2 DEF Leave, native
<1>5. IF o \in Clone /\ c.err = "none"
      THEN /\ result' = IF o \in pendingReport THEN result \cup {o} ELSE result \ {o}
           /\ pendingReport' = pendingReport \ {o}
      ELSE result' = result /\ pendingReport' = pendingReport
  BY <1>1, <1>2 DEF Leave
<1>6. c.err \in {"none", "own", "guard", "timeout"}
  BY <1>3 DEF Calls, Errors
<1>7. /\ c.err = "none" =>
           /\ consumed[o] /\ o \notin tracked /\ Unanswered(o)
           /\ o \in Clone => o \in pendingReport
      /\ c.err = "own" => consumed[o] /\ o \notin tracked /\ Unanswered(o) /\ ~c.was
      /\ c.err = "guard" =>
           /\ o \notin tracked \/ ~inst
           /\ consumed[o] => o \notin tracked /\ Answered(o)
           /\ ~consumed[o] => Unanswered(o)
           /\ o \in Clone /\ consumed[o] => c.was
      /\ c.err = "timeout" => ~consumed[o] /\ o \in tracked /\ Unanswered(o)
  BY <1>1, <1>2, <1>3 DEF InCall, InLeave
<1>8. /\ call' \in [Thread -> Calls] /\ call'[t] = NoCall
      /\ \A u \in Thread \ {t} : call'[u] = call[u]
  BY <1>4 DEF IInv, TypeOK, NoCall, Calls, Errors
<1>9. error' \in [Op -> {"none", "own", "guard"}]
  BY <1>4, <1>6 DEF IInv, TypeOK, Remembers
<1>10. /\ \A x \in Op \ {o} : Same(x) /\ kept'[x] = kept[x]
  BY <1>3, <1>4, <1>5 DEF Same, IInv, TypeOK
<1>11. TypeOK'
  BY <1>3, <1>4, <1>5, <1>8, <1>9 DEF IInv, TypeOK
<1>12. /\ o \in tracked /\ inst /\ kept[o] => kept'[o]
  BY <1>4, <1>6, <1>7 DEF DropsInputs
<1>13. TrackingKnown'
  BY <1>4, <1>10, <1>12 DEF IInv, TrackingKnown, Settled, Chain, Finished
<1>14. (consumed[o] => o \notin tracked /\ Answered(o)') /\ (~consumed[o] => Unanswered(o)')
  <2>1. CASE c.err = "none"
    <3>1. o \in Clone => o \in result' /\ error'[o] = "none"
      BY <1>4, <1>5, <1>7, <2>1 DEF Unanswered
    <3> QED BY <1>7, <2>1, <3>1 DEF Answered
  <2>2. CASE c.err = "own"
    <3>1. o \in Clone => o \notin result' /\ error'[o] = "own"
      BY <1>3, <1>4, <1>5, <1>7, <2>2 DEF Unanswered, Remembers, IInv, TypeOK
    <3> QED BY <1>7, <2>2, <3>1 DEF Answered
  <2>3. CASE c.err = "guard" \/ c.err = "timeout"
    <3>1. error' = error
      BY <1>4, <1>7, <2>3 DEF Remembers
    <3>2. result' = result
      BY <1>5, <2>3
    <3> QED BY <1>7, <2>3, <3>1, <3>2 DEF Answered, Unanswered
  <2> QED BY <1>6, <2>1, <2>2, <2>3
<1>15. InCall(t)'
  BY <1>8 DEF InCall, NoCall
<1>16. ASSUME NEW u \in Thread \ {t} PROVE InCall(u)'
  <2>1. PICK x : x = call[u].op
    OBVIOUS
  <2>2. call[u].pc # "idle" => x \in Op /\ x # o
    BY <1>1, <1>2, <1>3, <2>1 DEF IInv, WaitsApart, InCall
  <2>3. call[u].pc # "idle" => Same(x) /\ ChainFixed(x) /\ run'[x] = run[x]
    BY <1>4, <1>10, <2>2, RunKept
  <2>4. u \in Thread /\ call'[u] = call[u] /\ InCall(u) /\ inst' = inst
    BY <1>4, <1>8 DEF IInv
  <2> QED BY <2>1, <2>3, <2>4, SameCall
<1>17. WaitsApart'
  BY <1>8 DEF IInv, WaitsApart, NoCall
<1>18. AtRest'
  <2> SUFFICES ASSUME NEW x \in Op, Quiet(x)'
               PROVE  /\ consumed'[x] => x \notin tracked' /\ Answered(x)'
                      /\ ~consumed'[x] => Unanswered(x)'
    BY DEF AtRest
  <2>1. CASE x = o
    BY <1>4, <1>14, <2>1
  <2>2. CASE x # o
    <3>1. Quiet(x)
      BY <1>1, <1>2, <1>8, <2>2 DEF Quiet, Waiting
    <3>2. Same(x)
      BY <1>10, <2>2
    <3> QED BY <3>1, <3>2 DEF IInv, AtRest, Same, Answered, Unanswered
  <2> QED BY <2>1, <2>2
<1> QED BY <1>11, <1>13, <1>15, <1>16, <1>17, <1>18 DEF IInv

-----------------------------------------------------------------------------
(* Steps outside every wait                                                *)

LEMMA EnqueueKeeps == ASSUME IInv, NEW o \in Op, Enqueue(o) PROVE IInv'
<1> USE ConstantsAssumption
<1>1. /\ UNCHANGED <<inst, consumed, pendingReport, result, error, call>>
      /\ run[o] = "unborn" /\ \A d \in Depends[o] : run[d] # "unborn"
  BY DEF Enqueue
<1>2. /\ o \notin tracked /\ o \notin Depends[o] /\ Depends[o] \subseteq Op
  BY <1>1 DEF IInv, TrackingKnown
<1>3. /\ kept' \in [Op -> BOOLEAN] /\ kept'[o] = TRUE
      /\ \A x \in Op \ {o} : kept'[x] = kept[x]
  BY DEF Enqueue, IInv, TypeOK
<1>4. /\ \A x \in Op \ {o} : run'[x] = run[x] /\ (x \in tracked' <=> x \in tracked)
      /\ \/ run'[o] = "pending" /\ o \in tracked'
         \/ run'[o] = "rejected" /\ o \notin tracked'
  BY <1>2 DEF Enqueue, IInv, TypeOK
<1>5. TypeOK'
  BY <1>1, <1>3 DEF Enqueue, IInv, TypeOK
<1>6. ASSUME NEW x \in Op, run[x] # "unborn"
      PROVE  x # o /\ Same(x) /\ ChainFixed(x) /\ run'[x] = run[x]
  <2>1. ChainFixed(x)
    BY <1>6, EnqueueChain
  <2> QED BY <1>1, <1>4, <1>6, <2>1 DEF Same
<1>7. TrackingKnown'
  <2> SUFFICES ASSUME NEW x \in Op
               PROVE  /\ x \in tracked' => /\ run'[x] \in {"pending", "done", "failed"}
                                           /\ inst' => kept'[x]
                      /\ run'[x] = "pending" => x \in tracked'
                      /\ run'[x] # "unborn" => \A d \in Depends[x] : run'[d] # "unborn"
                      /\ run'[x] \in {"done", "failed"} => Settled(x)'
                      /\ run'[x] \in {"unborn", "rejected"} => ~consumed'[x]
    BY DEF TrackingKnown
  <2>1. CASE x = o
    <3>1. \A d \in Depends[o] : run'[d] # "unborn"
      BY <1>1, <1>2, <1>4
    <3>2. ~consumed'[o]
      BY <1>1 DEF IInv, TrackingKnown
    <3> QED BY <1>3, <1>4, <2>1, <3>1, <3>2
  <2>2. CASE x # o
    <3>1. run'[x] = run[x] /\ (x \in tracked' <=> x \in tracked) /\ kept'[x] = kept[x]
      BY <1>3, <1>4, <2>2
    <3>2. run[x] # "unborn" => \A d \in Depends[x] : run'[d] # "unborn"
      BY <1>1, <1>4 DEF IInv, TrackingKnown
    <3>3. run[x] \in {"done", "failed"} => Settled(x)'
      BY <1>6 DEF ChainFixed, IInv, TrackingKnown
    <3> QED BY <1>1, <3>1, <3>2, <3>3 DEF IInv, TrackingKnown
  <2> QED BY <2>1, <2>2
<1>8. ASSUME NEW u \in Thread PROVE InCall(u)'
  <2>1. PICK x : x = call[u].op
    OBVIOUS
  <2>2. call[u].pc # "idle" => x \in Op /\ run[x] # "unborn"
    BY <2>1 DEF IInv, InCall
  <2>3. call[u].pc # "idle" => Same(x) /\ ChainFixed(x) /\ run'[x] = run[x]
    BY <1>6, <2>2
  <2>4. call'[u] = call[u] /\ InCall(u) /\ inst' = inst
    BY <1>1 DEF IInv
  <2> QED BY <2>1, <2>3, <2>4, SameCall
<1>9. WaitsApart' /\ AtRest'
  <2>1. WaitsApart'
    BY <1>1 DEF IInv, WaitsApart
  <2>2. ASSUME NEW x \in Op, Quiet(x)'
        PROVE  /\ consumed'[x] => x \notin tracked' /\ Answered(x)'
               /\ ~consumed'[x] => Unanswered(x)'
    <3>1. Quiet(x)
      BY <1>1, <2>2 DEF Quiet, Waiting
    <3>2. x = o => ~consumed[x]
      BY <1>1 DEF IInv, TrackingKnown
    <3> QED BY <1>1, <1>4, <3>1, <3>2 DEF IInv, AtRest, Answered, Unanswered
  <2> QED BY <2>1, <2>2 DEF AtRest
<1> QED BY <1>5, <1>7, <1>8, <1>9 DEF IInv

(* An operation runs after its chain, so a finished one is settled.        *)
LEMMA ExecuteKeeps == ASSUME IInv, NEW o \in Op, Execute(o) PROVE IInv'
<1> USE ConstantsAssumption
<1>1. /\ UNCHANGED <<tracked, inst, consumed, kept, pendingReport, result, error, call>>
      /\ run[o] = "pending" /\ \A d \in Chain(o) \ {o} : Finished(d)
  BY DEF Execute, object
<1>2. /\ run'[o] \in {"done", "failed"} /\ \A x \in Op \ {o} : run'[x] = run[x]
  BY <1>1 DEF Execute, IInv, TypeOK
<1>3. TypeOK'
  BY <1>1, <1>2 DEF Execute, IInv, TypeOK
<1>4. ASSUME NEW x \in Op PROVE Same(x) /\ ChainFixed(x)
  BY <1>1, ExecuteChain DEF Same
<1>5. Settled(o)'
  <2>1. Chain(o)' = Chain(o) /\ Chain(o) \subseteq Op
    BY <1>4 DEF ChainFixed, Chain
  <2>2. \A d \in Chain(o) : run'[d] \in {"done", "failed"}
    BY <1>1, <1>2, <2>1 DEF Finished
  <2> QED BY <2>1, <2>2 DEF Settled, Finished
<1>6. TrackingKnown'
  <2> SUFFICES ASSUME NEW x \in Op
               PROVE  /\ x \in tracked' => /\ run'[x] \in {"pending", "done", "failed"}
                                           /\ inst' => kept'[x]
                      /\ run'[x] = "pending" => x \in tracked'
                      /\ run'[x] # "unborn" => \A d \in Depends[x] : run'[d] # "unborn"
                      /\ run'[x] \in {"done", "failed"} => Settled(x)'
                      /\ run'[x] \in {"unborn", "rejected"} => ~consumed'[x]
    BY DEF TrackingKnown
  <2>1. \A d \in Depends[x] : d \in Op
    OBVIOUS
  <2>2. run'[x] # "unborn" => \A d \in Depends[x] : run'[d] # "unborn"
    BY <1>1, <1>2, <2>1 DEF IInv, TrackingKnown
  <2>3. CASE x = o
    BY <1>1, <1>2, <1>5, <2>2, <2>3 DEF IInv, TrackingKnown
  <2>4. CASE x # o
    <3>1. run[x] \in {"done", "failed"} => Settled(x)'
      BY <1>4 DEF ChainFixed, IInv, TrackingKnown
    <3> QED BY <1>1, <1>2, <2>2, <2>4, <3>1 DEF IInv, TrackingKnown
  <2> QED BY <2>3, <2>4
<1>7. ASSUME NEW u \in Thread PROVE InCall(u)'
  <2>1. PICK x : x = call[u].op
    OBVIOUS
  <2>2. call[u].pc # "idle" => x \in Op
    BY <2>1 DEF IInv, InCall
  <2>3. call[u].pc # "idle" =>
          /\ Same(x) /\ ChainFixed(x)
          /\ \/ run'[x] = run[x]
             \/ run[x] = "pending" /\ run'[x] \in {"done", "failed"}
    BY <1>1, <1>2, <1>4, <2>2
  <2>4. call'[u] = call[u] /\ InCall(u) /\ inst' = inst
    BY <1>1 DEF IInv
  <2> QED BY <2>1, <2>3, <2>4, SameCall
<1>8. WaitsApart' /\ AtRest'
  BY <1>1 DEF IInv, WaitsApart, AtRest, Quiet, Waiting, Answered, Unanswered
<1> QED BY <1>3, <1>6, <1>7, <1>8 DEF IInv

LEMMA ReleaseByHandKeeps == ASSUME IInv, NEW o \in Op, ReleaseByHand(o) PROVE IInv'
<1> USE ConstantsAssumption
<1>1. /\ UNCHANGED <<run, inst, consumed, kept, pendingReport, result, error, call>>
      /\ Settled(o) /\ tracked' = tracked \ {o} /\ \A t \in Thread : ~Waiting(t, o)
  BY DEF ReleaseByHand, object
<1>2. run[o] # "pending"
  BY <1>1 DEF Settled, Chain, Finished
<1>3. TypeOK' /\ TrackingKnown'
  BY <1>1, <1>2 DEF IInv, TypeOK, TrackingKnown, Settled, Chain, Finished
<1>4. ASSUME NEW u \in Thread PROVE InCall(u)'
  <2>1. PICK x : x = call[u].op
    OBVIOUS
  <2>2. call[u].pc # "idle" => Same(x) /\ ChainFixed(x) /\ run'[x] = run[x]
    BY <1>1, <2>1, RunKept DEF Waiting, Same
  <2>3. call'[u] = call[u] /\ InCall(u) /\ inst' = inst
    BY <1>1 DEF IInv
  <2> QED BY <2>1, <2>2, <2>3, SameCall
<1>5. WaitsApart' /\ AtRest'
  BY <1>1 DEF IInv, WaitsApart, AtRest, Quiet, Waiting, Answered, Unanswered
<1> QED BY <1>3, <1>4, <1>5 DEF IInv

LEMMA DestroyKeeps == ASSUME IInv, DestroyStage PROVE IInv'
<1>1. /\ UNCHANGED <<run, tracked, consumed, kept, pendingReport, result, error, call>>
      /\ inst' = FALSE /\ \A t \in Thread : call[t].pc = "idle"
  BY DEF DestroyStage, object
<1>2. TypeOK' /\ TrackingKnown'
  BY <1>1 DEF IInv, TypeOK, TrackingKnown, Settled, Chain, Finished
<1>3. WaitsApart' /\ AtRest'
  BY <1>1 DEF IInv, WaitsApart, AtRest, Quiet, Waiting, Answered, Unanswered
<1>4. \A t \in Thread : InCall(t)'
  BY <1>1 DEF IInv, InCall
<1> QED BY <1>2, <1>3, <1>4 DEF IInv

-----------------------------------------------------------------------------
(* The invariant and what follows from it                                  *)

LEMMA InitHolds == Init => IInv
<1> SUFFICES ASSUME Init PROVE IInv
  OBVIOUS
<1> USE ConstantsAssumption DEF Init
<1>1. \A t \in Thread : call[t] = NoCall
  OBVIOUS
<1>2. NoCall \in Calls
  BY DEF NoCall, Calls, Errors
<1>3. TypeOK
  BY <1>2 DEF TypeOK
<1>4. WaitsApart /\ \A t \in Thread : InCall(t)
  BY <1>1 DEF WaitsApart, InCall, NoCall
<1>5. TrackingKnown
  BY DEF TrackingKnown
<1>6. AtRest
  BY DEF AtRest, Unanswered
<1> QED BY <1>3, <1>4, <1>5, <1>6 DEF IInv

LEMMA StepKeeps == IInv /\ ~Shared /\ [Next]_vars => IInv'
<1> SUFFICES ASSUME IInv, ~Shared, [Next]_vars PROVE IInv'
  OBVIOUS
<1>1. CASE UNCHANGED vars
  <2>1. /\ UNCHANGED <<run, tracked, inst, consumed, kept, pendingReport, result, error, call>>
    BY <1>1 DEF vars, native, object
  <2> QED BY <2>1 DEF IInv, TypeOK, WaitsApart, TrackingKnown, AtRest, InCall, InLeave,
             Settled, Chain, Finished, Quiet, Waiting, Answered, Unanswered, AllDone, SomeFailed
<1>2. ASSUME NEW o \in Op, Enqueue(o) \/ Execute(o) \/ ReleaseByHand(o) PROVE IInv'
  BY <1>2, EnqueueKeeps, ExecuteKeeps, ReleaseByHandKeeps
<1>3. ASSUME NEW t \in Thread, Step(t) \/ TimeOut(t) PROVE IInv'
  BY <1>3, GuardsKeeps, ClaimKeeps, NativeWaitKeeps, FetchKeeps, ReleaseKeeps, LeaveKeeps,
     TimeOutKeeps DEF Step
<1>4. ASSUME NEW t \in Thread, NEW o \in Op, Begin(t, o) PROVE IInv'
  BY <1>4, BeginKeeps
<1>5. CASE DestroyStage
  BY <1>5, DestroyKeeps
<1> QED BY <1>1, <1>2, <1>3, <1>4, <1>5 DEF Next

(* A verdict changes only where a wait leaves, which had none before.      *)
LEMMA VerdictStep ==
  ASSUME IInv, [Next]_vars, NEW o \in Clone
  PROVE  /\ o \in result => o \in result'
         /\ error[o] # "none" => error'[o] = error[o]
<1> USE ConstantsAssumption
<1>1. CASE UNCHANGED <<result, error>>
  BY <1>1
<1>2. ASSUME NEW t \in Thread, Leave(t)
      PROVE  /\ o \in result => o \in result'
             /\ error[o] # "none" => error'[o] = error[o]
  <2>1. PICK c : c = call[t]
    OBVIOUS
  <2>2. c.pc = "leave" /\ InCall(t) /\ c \in Calls
    BY <1>2, <2>1 DEF Leave, IInv, TypeOK
  <2>3. c.err = "none" /\ c.op \in Clone => c.op \in pendingReport
    BY <2>1, <2>2 DEF InCall, InLeave
  <2>4. c.op \in Clone /\ c.err # "none" /\ Remembers(c, c.op) => error[c.op] = "none"
    <3>1. c.err \in {"none", "own", "guard", "timeout"}
      BY <2>2 DEF Calls, Errors
    <3>2. c.op \in Clone /\ c.err = "guard" /\ consumed[c.op] => c.was
      BY <2>1, <2>2 DEF InCall
    <3>3. c.err = "own" => error[c.op] = "none"
      BY <2>1, <2>2 DEF InCall, InLeave, Unanswered
    <3> QED BY <3>1, <3>2, <3>3 DEF Remembers
  <2>5. o \in result => o \in result'
    BY <1>2, <2>1, <2>3 DEF Leave
  <2>6. error[o] # "none" => error'[o] = error[o]
    BY <1>2, <2>1, <2>4 DEF Leave, IInv, TypeOK
  <2> QED BY <2>5, <2>6
<1>3. CASE UNCHANGED vars
  BY <1>1, <1>3 DEF vars, object
<1>4. ASSUME NEW x \in Op, Enqueue(x) \/ Execute(x) \/ ReleaseByHand(x)
      PROVE  UNCHANGED <<result, error>>
  BY <1>4 DEF Enqueue, Execute, ReleaseByHand, object
<1>5. ASSUME NEW t \in Thread, NEW x \in Op,
             \/ Guards(t) \/ Claim(t) \/ NativeWait(t) \/ Fetch(t) \/ Release(t)
             \/ TimeOut(t) \/ Begin(t, x)
      PROVE  UNCHANGED <<result, error>>
  BY <1>5 DEF Guards, Claim, NativeWait, Fetch, Release, TimeOut, Begin, object
<1>6. CASE DestroyStage
  BY <1>1, <1>6 DEF DestroyStage, object
<1>7. o \in Op
  OBVIOUS
<1> QED BY <1>1, <1>2, <1>3, <1>4, <1>5, <1>6, <1>7 DEF Next, Step

(* What the invariant says of the guarantees.                              *)
LEMMA Consequences ==
  IInv => /\ InputsPinned /\ ReleasesFinished /\ NothingOrphaned
          /\ SuccessHolds /\ FailureHolds /\ VerdictKept /\ GuardsNeverPoison
<1> SUFFICES ASSUME IInv
             PROVE  /\ InputsPinned /\ ReleasesFinished /\ NothingOrphaned
                    /\ SuccessHolds /\ FailureHolds /\ VerdictKept /\ GuardsNeverPoison
  OBVIOUS
<1> USE ConstantsAssumption
<1>1. InputsPinned
  BY DEF IInv, TrackingKnown, InputsPinned
<1>2. ReleasesFinished
  BY DEF IInv, InCall, ReleasesFinished, AllDone, Settled, Finished
<1>3. NothingOrphaned
  BY DEF IInv, TypeOK, AtRest, TrackingKnown, Quiet, NothingOrphaned
<1>4. SuccessHolds
  BY DEF IInv, InCall, InLeave, AllDone, SuccessHolds
<1>5. FailureHolds
  BY DEF IInv, InCall, InLeave, SomeFailed, FailureHolds
<1>6. ASSUME NEW o \in Clone PROVE Answered(o) \/ Unanswered(o)
  <2>1. CASE Quiet(o)
    BY <2>1 DEF IInv, TypeOK, AtRest
  <2>2. ASSUME NEW t \in Thread, Waiting(t, o) PROVE Answered(o) \/ Unanswered(o)
    <3>1. PICK c : c = call[t]
      OBVIOUS
    <3>2. c.pc # "idle" /\ c.op = o /\ c \in Calls /\ InCall(t)
      BY <2>2, <3>1 DEF Waiting, IInv, TypeOK
    <3>3. CASE c.pc = "guards"
      BY <3>1, <3>2, <3>3 DEF InCall, IInv, TypeOK
    <3>4. CASE c.pc \in {"claim", "native", "fetch", "release"}
      BY <3>1, <3>2, <3>4 DEF InCall
    <3>5. CASE c.pc = "leave"
      <4>1. c.err \in {"none", "own", "guard", "timeout"} /\ InLeave(t)
        BY <3>1, <3>2, <3>5 DEF InCall, Calls, Errors
      <4> QED BY <3>1, <3>2, <4>1 DEF InLeave, IInv, TypeOK
    <3> QED BY <3>2, <3>3, <3>4, <3>5 DEF Calls
  <2> QED BY <2>1, <2>2 DEF Quiet
<1>7. VerdictKept
  BY DEF IInv, AtRest, Quiet, Answered, VerdictKept
<1>8. GuardsNeverPoison
  BY <1>6 DEF Answered, Unanswered, GuardsNeverPoison
<1> QED BY <1>1, <1>2, <1>3, <1>4, <1>5, <1>7, <1>8

-----------------------------------------------------------------------------
(* The theorems, for a program that never has two threads waiting on one   *)
(* Operation object at once.                                               *)

(* Everything the other theorems rest on: what each step of a wait, and    *)
(* each operation at rest, may be assumed to satisfy.                      *)
THEOREM InvariantHolds == ASSUME ~Shared PROVE Spec => []IInv
<1>1. IInv /\ [Next]_vars => IInv'
  BY StepKeeps
<1> QED BY <1>1, InitHolds, PTL DEF Spec

(* Every variable keeps to its type.                                       *)
THEOREM TypeCorrect == ASSUME ~Shared PROVE Spec => []TypeOK
<1>1. IInv => TypeOK
  BY DEF IInv
<1> QED BY <1>1, InvariantHolds, PTL

(* An operation's inputs stay pinned for as long as it may read them,      *)
(* through timeouts, failures and polls (Operation._keepalive).            *)
THEOREM InputsStayPinned == ASSUME ~Shared PROVE Spec => []InputsPinned
<1> QED BY InvariantHolds, Consequences, PTL

(* No wait releases an operation whose chain has not finished              *)
(* (Stage._wait_and_release).                                              *)
THEOREM OnlyFinishedReleased == ASSUME ~Shared PROVE Spec => []ReleasesFinished
<1> QED BY InvariantHolds, Consequences, PTL

(* No interrupted or failed wait leaves an operation that can neither be   *)
(* waited for again nor was released.                                      *)
THEOREM NoOperationOrphaned == ASSUME ~Shared PROVE Spec => []NothingOrphaned
<1> QED BY InvariantHolds, Consequences, PTL

(* wait returns normally exactly for a chain that succeeded, and raises    *)
(* the operation's own error exactly for one that failed.                  *)
THEOREM VerdictsTrue == ASSUME ~Shared PROVE Spec => [](SuccessHolds /\ FailureHolds)
<1>1. IInv => SuccessHolds /\ FailureHolds
  BY Consequences
<1> QED BY <1>1, InvariantHolds, PTL

(* A clone that was waited for keeps its report or its own failure, and no *)
(* guard's error takes their place (CloneOperation.wait and result).       *)
THEOREM CloneVerdictKept == ASSUME ~Shared PROVE Spec => [](VerdictKept /\ GuardsNeverPoison)
<1>1. IInv => VerdictKept /\ GuardsNeverPoison
  BY Consequences
<1> QED BY <1>1, InvariantHolds, PTL

(* And what it keeps never changes.                                        *)
THEOREM CloneVerdictFinal == ASSUME ~Shared PROVE Spec => VerdictFinal
<1>1. IInv /\ [Next]_vars =>
        [\A o \in Clone :
           /\ o \in result => o \in result'
           /\ error[o] # "none" => error'[o] = error[o]]_vars
  BY VerdictStep
<1> QED BY <1>1, InvariantHolds, PTL DEF Spec, VerdictFinal

-----------------------------------------------------------------------------
(* Refinement: each step of a wait maps to one of WaitLedger, or to a      *)
(* stutter.                                                                *)

(* The ledger sees the end of a wait only between its release and what it  *)
(* keeps of its verdict.                                                   *)
LEMMA LeavingIs ==
  ASSUME IInv, NEW t \in Thread, call[t].pc # "idle", NEW err
  PROVE  Leaving(call[t].op, err) <=> call[t].pc = "leave" /\ call[t].err = err
<1>1. \A u \in Thread : call[u].pc = "leave" /\ call[u].op = call[t].op => u = t
  BY DEF IInv, WaitsApart
<1> QED BY <1>1 DEF Leaving

(* A step of t that neither comes from the end of a wait nor reaches it    *)
(* with a verdict shows the ledger nothing.                                *)
LEMMA LeavingKept ==
  ASSUME NEW t \in Thread, \A u \in Thread \ {t} : call'[u] = call[u],
         call[t].pc # "leave", call'[t].pc = "leave" => call'[t].err \notin {"none", "own"}
  PROVE  \A o : /\ Leaving(o, "none")' <=> Leaving(o, "none")
                /\ Leaving(o, "own")' <=> Leaving(o, "own")
<1>1. \A u \in Thread : u # t => call'[u] = call[u]
  OBVIOUS
<1>2. \A u \in Thread : call[u].pc = "leave" => u # t
  OBVIOUS
<1>3. \A u \in Thread : call'[u].pc = "leave" /\ call'[u].err \in {"none", "own"} => u # t
  OBVIOUS
<1> QED BY <1>1, <1>2, <1>3 DEF Leaving

LEMMA ToldKept ==
  ASSUME UNCHANGED <<result, error>>,
         \A o : /\ Leaving(o, "none")' <=> Leaving(o, "none")
                /\ Leaving(o, "own")' <=> Leaving(o, "own")
  PROVE  [o \in Clone |-> Told(o)]' = [o \in Clone |-> Told(o)]
<1>1. \A o \in Clone : Told(o)' = Told(o)
  BY DEF Told
<1> QED BY <1>1

(* What a wait does before its release is not seen.                        *)
LEMMA StutterOf ==
  ASSUME NEW t \in Thread, \A u \in Thread \ {t} : call'[u] = call[u],
         call[t].pc # "leave", call'[t].pc = "leave" => call'[t].err \notin {"none", "own"},
         UNCHANGED <<run, tracked, inst, kept, result, error>>
  PROVE  UNCHANGED Ledger!vars
<1>1. [o \in Clone |-> Told(o)]' = [o \in Clone |-> Told(o)]
  BY LeavingKept, ToldKept
<1>2. {o \in Op : kept[o]}' = {o \in Op : kept[o]}
  OBVIOUS
<1> QED BY <1>1, <1>2 DEF Ledger!vars

LEMMA BeginStutters ==
  ASSUME IInv, NEW t \in Thread, NEW o \in Op, Begin(t, o)
  PROVE  UNCHANGED Ledger!vars
<1>1. UNCHANGED <<run, tracked, inst, kept, result, error>>
  BY DEF Begin, native, object
<1>2. call[t].pc = "idle" /\ call'[t].pc = "guards" /\ \A u \in Thread \ {t} : call'[u] = call[u]
  BY DEF Begin, IInv, TypeOK
<1> QED BY <1>1, <1>2, StutterOf

LEMMA StepStutters ==
  ASSUME IInv, NEW t \in Thread,
         Guards(t) \/ Claim(t) \/ NativeWait(t) \/ TimeOut(t) \/ Fetch(t)
  PROVE  UNCHANGED Ledger!vars
<1>1. UNCHANGED <<run, tracked, inst, kept, result, error>>
  BY DEF Guards, Claim, NativeWait, TimeOut, Fetch, native, object
<1>2. /\ call[t].pc \in {"guards", "claim", "native", "fetch"}
      /\ \E pc \in {"claim", "native", "fetch", "release", "leave"}, err \in Errors :
           To(t, pc, err) /\ (pc = "leave" => err \in {"guard", "timeout"})
  <2>1. CASE Guards(t)
    BY <2>1 DEF Guards, Errors
  <2>2. CASE Claim(t)
    BY <2>2 DEF Claim, Errors
  <2>3. CASE NativeWait(t)
    BY <2>3 DEF NativeWait, AfterSuccess, Errors
  <2>4. CASE TimeOut(t)
    BY <2>4 DEF TimeOut, Errors
  <2>5. CASE Fetch(t)
    BY <2>5 DEF Fetch, Errors
  <2> QED BY <2>1, <2>2, <2>3, <2>4, <2>5
<1>3. PICK pc \in {"claim", "native", "fetch", "release", "leave"}, err \in Errors :
        To(t, pc, err) /\ (pc = "leave" => err \in {"guard", "timeout"})
  BY <1>2
<1>4. call'[t].pc = pc /\ call'[t].err = err /\ \A u \in Thread \ {t} : call'[u] = call[u]
  BY <1>3, ToFields DEF IInv
<1> QED BY <1>1, <1>2, <1>3, <1>4, StutterOf

(* A settled chain is over for the ledger too, and a wait that succeeded,  *)
(* or failed, has the ledger's verdict.                                    *)
LEMMA ChainIsOver ==
  ASSUME NEW o \in Op, Settled(o)
  PROVE  /\ Ledger!ChainOver(o)
         /\ AllDone(o) => Ledger!Verdict(o) = "success"
         /\ SomeFailed(o) => Ledger!Verdict(o) = "failure"
<1>1. \A d \in Chain(o) : Ledger!Over(d)
  BY DEF Settled, Finished, Ledger!Over
<1>2. \A d \in Depends[o] : d \in Chain(o) \/ Ledger!Over(d)
  BY DEF Chain, Ledger!Over
<1>3. run[o] \in {"done", "failed"}
  BY DEF Settled, Chain, Finished
<1>4. Ledger!ChainOver(o)
  BY <1>1, <1>2, <1>3 DEF Ledger!ChainOver, Chain
<1>5. \A d \in {o} \cup Depends[o] : run[d] = "failed" => d \in Chain(o)
  BY DEF Chain
<1>6. AllDone(o) => Ledger!Verdict(o) = "success"
  BY <1>5 DEF AllDone, Ledger!Verdict
<1>7. SomeFailed(o) => Ledger!Verdict(o) = "failure"
  BY DEF SomeFailed, Chain, Ledger!Verdict
<1> QED BY <1>4, <1>6, <1>7

(* The release is the instant of the wait.                                 *)
LEMMA ReleaseConcludes ==
  ASSUME IInv, NEW t \in Thread, Release(t)
  PROVE  \E o \in Op : Ledger!Conclude(o)
<1> USE ConstantsAssumption
<1>1. PICK c : c = call[t]
  OBVIOUS
<1>2. PICK o : o = c.op
  OBVIOUS
<1>3. /\ c.pc = "release" /\ o \in Op /\ inst /\ o \in tracked /\ Unanswered(o)
      /\ \/ c.err = "none" /\ AllDone(o)
         \/ c.err = "own" /\ SomeFailed(o)
      /\ Settled(o)
  <2>1. c.pc = "release" /\ InCall(t)
    BY <1>1 DEF Release, IInv
  <2>2. /\ o \in Op /\ inst /\ o \in tracked /\ Unanswered(o)
        /\ c.err \in {"none", "own"}
        /\ c.err = "none" => AllDone(o)
        /\ c.err = "own" => Settled(o) /\ SomeFailed(o)
    BY <1>1, <1>2, <2>1 DEF InCall
  <2>3. AllDone(o) => Settled(o)
    BY DEF AllDone, Settled, Finished
  <2> QED BY <2>1, <2>2, <2>3
<1>4. UNCHANGED <<run, inst, kept, result, error>> /\ tracked' = tracked \ {o}
  BY <1>1, <1>2 DEF Release, object
<1>5. /\ call'[t].op = o /\ call'[t].pc = "leave" /\ call'[t].err = c.err
      /\ \A u \in Thread \ {t} : call'[u] = call[u]
  BY <1>1, <1>2, <1>3, ToFields DEF Release, Errors, IInv
<1>6. /\ Ledger!ChainOver(o)
      /\ Ledger!Verdict(o) = IF c.err = "none" THEN "success" ELSE "failure"
  BY <1>3, ChainIsOver
<1>7. \A u \in Thread : u # t /\ call[u].pc # "idle" => call[u].op # o
  BY <1>1, <1>2, <1>3 DEF IInv, WaitsApart
<1>8. Told(o)' = Ledger!Verdict(o)
  <2>1. \A err : Leaving(o, err)' <=> err = c.err
    BY <1>5, <1>7 DEF Leaving
  <2> QED BY <1>3, <1>4, <1>6, <2>1 DEF Told, Unanswered
<1>9. \A x \in Clone : x # o => Told(x)' = Told(x)
  <2>1. \A x, err : x # o => (Leaving(x, err)' <=> Leaving(x, err))
    BY <1>1, <1>2, <1>5 DEF Leaving
  <2> QED BY <1>4, <2>1 DEF Told
<1>10. [x \in Clone |-> Told(x)]' =
         [x \in Clone |-> IF x = o THEN Ledger!Verdict(o) ELSE [y \in Clone |-> Told(y)][x]]
  BY <1>8, <1>9
<1>11. {x \in Op : kept[x]}' = {x \in Op : kept[x]}
  BY <1>4
<1>12. Ledger!Conclude(o)
  BY <1>3, <1>4, <1>6, <1>10, <1>11 DEF Ledger!Conclude
<1> QED BY <1>3, <1>12

(* Leaving keeps the verdict the release gave, and lets the inputs of an   *)
(* operation go that is no longer tracked.                                 *)
LEMMA LeaveLetsGo ==
  ASSUME IInv, NEW t \in Thread, Leave(t)
  PROVE  (\E o \in Op : Ledger!LetGo(o)) \/ UNCHANGED Ledger!vars
<1> USE ConstantsAssumption
<1>1. PICK c : c = call[t]
  OBVIOUS
<1>2. PICK o : o = c.op
  OBVIOUS
<1>3. c.pc = "leave" /\ o \in Op /\ InCall(t) /\ c \in Calls
  BY <1>1, <1>2 DEF Leave, IInv, InCall, TypeOK
<1>4. /\ UNCHANGED <<run, tracked, inst, consumed>>
      /\ kept' = IF DropsInputs(c) THEN [kept EXCEPT ![o] = FALSE] ELSE kept
      /\ error' = IF o \in Clone /\ c.err # "none" /\ Remembers(c, o)
                  THEN [error EXCEPT ![o] = c.err] ELSE error
      /\ call' = [call EXCEPT ![t] = NoCall]
  BY <1>1, <1>2 DEF Leave, native
<1>5. IF o \in Clone /\ c.err = "none"
      THEN result' = IF o \in pendingReport THEN result \cup {o} ELSE result \ {o}
      ELSE result' = result
  BY <1>1, <1>2 DEF Leave
<1>6. c.err \in {"none", "own", "guard", "timeout"}
  BY <1>3 DEF Calls, Errors
<1>7. /\ c.err = "none" => o \notin tracked /\ Unanswered(o) /\ (o \in Clone => o \in pendingReport)
      /\ c.err = "own" => consumed[o] /\ o \notin tracked /\ Unanswered(o) /\ ~c.was
      /\ c.err = "guard" => (o \notin tracked \/ ~inst) /\ (o \in Clone /\ consumed[o] => c.was)
      /\ c.err = "timeout" => ~consumed[o]
  BY <1>1, <1>2, <1>3 DEF InCall, InLeave
<1>8. call'[t].pc = "idle" /\ \A u \in Thread \ {t} : call'[u] = call[u]
  BY <1>4 DEF IInv, TypeOK, NoCall
<1>9. \A u \in Thread : u # t /\ call[u].pc # "idle" => call[u].op # o
  BY <1>1, <1>2, <1>3 DEF IInv, WaitsApart
<1>10. \A err : ~Leaving(o, err)' /\ (Leaving(o, err) <=> err = c.err)
  BY <1>1, <1>2, <1>3, <1>8, <1>9 DEF Leaving
<1>11. \A x, err : x # o => (Leaving(x, err)' <=> Leaving(x, err))
  BY <1>1, <1>2, <1>8 DEF Leaving
<1>12. \A x \in Clone : x # o => Told(x)' = Told(x)
  <2>1. \A x \in Clone : x # o => error'[x] = error[x] /\ (x \in result' <=> x \in result)
    BY <1>4, <1>5 DEF IInv, TypeOK
  <2> QED BY <1>11, <2>1 DEF Told
<1>13. o \in Clone => Told(o)' = Told(o)
  <2> SUFFICES ASSUME o \in Clone PROVE Told(o)' = Told(o)
    OBVIOUS
  <2>1. CASE c.err = "none"
    <3>1. o \in result' /\ Told(o) = "success"
      BY <1>5, <1>7, <1>10, <2>1 DEF Told
    <3> QED BY <3>1 DEF Told
  <2>2. CASE c.err = "own"
    <3>1. o \notin result /\ o \notin result' /\ error'[o] = "own" /\ Told(o) = "failure"
      BY <1>3, <1>4, <1>5, <1>7, <1>10, <2>2 DEF Told, Unanswered, Remembers, IInv, TypeOK
    <3> QED BY <1>10, <3>1 DEF Told
  <2>3. CASE c.err \in {"guard", "timeout"}
    <3>1. error' = error /\ result' = result
      BY <1>4, <1>5, <1>7, <2>3 DEF Remembers
    <3> QED BY <1>10, <2>3, <3>1 DEF Told
  <2> QED BY <1>6, <2>1, <2>2, <2>3
<1>14. [x \in Clone |-> Told(x)]' = [x \in Clone |-> Told(x)]
  BY <1>12, <1>13
<1>15. CASE DropsInputs(c) /\ kept[o]
  <2>1. {x \in Op : kept[x]}' = {x \in Op : kept[x]} \ {o}
    BY <1>3, <1>4, <1>15 DEF IInv, TypeOK
  <2>2. o \in tracked => ~inst
    BY <1>6, <1>7, <1>15 DEF DropsInputs
  <2>3. o \in {x \in Op : kept[x]}
    BY <1>3, <1>15
  <2>4. Ledger!LetGo(o)
    BY <1>4, <1>14, <2>1, <2>2, <2>3 DEF Ledger!LetGo
  <2> QED BY <1>3, <2>4
<1>16. CASE ~(DropsInputs(c) /\ kept[o])
  <2>1. {x \in Op : kept[x]}' = {x \in Op : kept[x]}
    BY <1>3, <1>4, <1>16 DEF IInv, TypeOK
  <2> QED BY <1>4, <1>14, <2>1 DEF Ledger!vars
<1> QED BY <1>15, <1>16

(* Outside the waits each step is the ledger's own.                        *)
LEMMA OutsideRefines ==
  ASSUME IInv, NEW o \in Op
  PROVE  /\ Enqueue(o) => Ledger!Enqueue(o)
         /\ Execute(o) => Ledger!Execute(o)
         /\ ReleaseByHand(o) => Ledger!Discard(o)
<1>1. UNCHANGED <<result, error, call>> => [x \in Clone |-> Told(x)]' = [x \in Clone |-> Told(x)]
  BY DEF Told, Leaving
<1>2. ASSUME Enqueue(o) PROVE Ledger!Enqueue(o)
  <2>1. {x \in Op : kept[x]}' = {x \in Op : kept[x]} \cup {o}
    BY <1>2 DEF Enqueue, IInv, TypeOK
  <2> QED BY <1>1, <1>2, <2>1 DEF Enqueue, Ledger!Enqueue
<1>3. ASSUME Execute(o) PROVE Ledger!Execute(o)
  <2>1. UNCHANGED <<tracked, inst, kept, result, error, call>>
    BY <1>3 DEF Execute, object
  <2>2. \A d \in Depends[o] : Ledger!Over(d)
    BY <1>3, ConstantsAssumption DEF Execute, Chain, Finished, Ledger!Over
  <2>3. {x \in Op : kept[x]}' = {x \in Op : kept[x]}
    BY <2>1
  <2> QED BY <1>1, <1>3, <2>1, <2>2, <2>3 DEF Execute, Ledger!Execute
<1>4. ASSUME ReleaseByHand(o) PROVE Ledger!Discard(o)
  <2>1. UNCHANGED <<run, inst, kept, result, error, call>> /\ tracked' = tracked \ {o}
    BY <1>4 DEF ReleaseByHand, object
  <2>2. inst /\ o \in tracked /\ Ledger!ChainOver(o)
    BY <1>4, ChainIsOver DEF ReleaseByHand
  <2>3. {x \in Op : kept[x]}' = {x \in Op : kept[x]}
    BY <2>1
  <2> QED BY <1>1, <2>1, <2>2, <2>3 DEF Ledger!Discard
<1> QED BY <1>2, <1>3, <1>4

LEMMA DestroyEnds == ASSUME DestroyStage PROVE Ledger!End
<1>1. UNCHANGED <<run, tracked, kept, result, error, call>> /\ inst /\ inst' = FALSE
  BY DEF DestroyStage, object
<1>2. [x \in Clone |-> Told(x)]' = [x \in Clone |-> Told(x)]
  BY <1>1 DEF Told, Leaving
<1>3. {x \in Op : kept[x]}' = {x \in Op : kept[x]}
  BY <1>1
<1> QED BY <1>1, <1>2, <1>3 DEF Ledger!End

(* At first nothing is told.                                               *)
LEMMA InitRefines == ASSUME Init PROVE Ledger!Init
<1>1. \A t \in Thread : call[t].pc # "leave"
  BY DEF Init, NoCall
<1>2. Clone \subseteq Op
  BY ConstantsAssumption
<1>3. \A o \in Clone : Told(o) = "none"
  BY <1>1, <1>2 DEF Init, Told, Leaving
<1>4. {o \in Op : kept[o]} = {}
  BY DEF Init
<1> QED BY <1>3, <1>4 DEF Init, Ledger!Init

(* Every step is one of the ledger, or a stutter.                          *)
LEMMA StepRefines == ASSUME IInv, [Next]_vars PROVE [Ledger!Next]_(Ledger!vars)
<1>1. CASE UNCHANGED vars
  <2>1. UNCHANGED <<run, tracked, inst, kept, result, error, call>>
    BY <1>1 DEF vars, native, object
  <2>2. [x \in Clone |-> Told(x)]' = [x \in Clone |-> Told(x)]
    BY <2>1 DEF Told, Leaving
  <2>3. {x \in Op : kept[x]}' = {x \in Op : kept[x]}
    BY <2>1
  <2> QED BY <2>1, <2>2, <2>3 DEF Ledger!vars
<1>2. ASSUME NEW o \in Op, Enqueue(o) \/ Execute(o) \/ ReleaseByHand(o) PROVE Ledger!Next
  BY <1>2, OutsideRefines DEF Ledger!Next
<1>3. ASSUME NEW t \in Thread, Step(t) \/ TimeOut(t) PROVE Ledger!Next \/ UNCHANGED Ledger!vars
  <2>1. CASE Release(t)
    BY <2>1, ReleaseConcludes DEF Ledger!Next
  <2>2. CASE Leave(t)
    BY <2>2, LeaveLetsGo DEF Ledger!Next
  <2>3. CASE Guards(t) \/ Claim(t) \/ NativeWait(t) \/ TimeOut(t) \/ Fetch(t)
    BY <2>3, StepStutters
  <2> QED BY <1>3, <2>1, <2>2, <2>3 DEF Step
<1>4. ASSUME NEW t \in Thread, NEW o \in Op, Begin(t, o) PROVE UNCHANGED Ledger!vars
  BY <1>4, BeginStutters
<1>5. CASE DestroyStage
  BY <1>5, DestroyEnds DEF Ledger!Next
<1> QED BY <1>1, <1>2, <1>3, <1>4, <1>5 DEF Next

(* Refinement, for any operations, dependencies and number of threads:     *)
(* every wait of types.py takes effect at its release, which comes once    *)
(* and after the whole chain, and tells the truth about it for good.       *)
THEOREM WaitLedgerImplemented == ASSUME ~Shared PROVE Spec => ImplementsWaitLedger
<1>1. Init => Ledger!Init
  BY InitRefines
<1>2. IInv /\ [Next]_vars => [Ledger!Next]_(Ledger!vars)
  BY StepRefines
<1> QED BY <1>1, <1>2, InvariantHolds, PTL DEF Spec, ImplementsWaitLedger, Ledger!Spec

=============================================================================
