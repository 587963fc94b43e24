--------------------------- MODULE PopulationWaits ---------------------------
(***************************************************************************)
(* Waiting for population operations: ovstage.population.Operation         *)
(* (population.py), a class of its own next to the data plane's.           *)
(*                                                                         *)
(* Population operations form one stream per stage.  A native wait covers  *)
(* every operation up to the awaited one, and reports each failure in that *)
(* range exactly once, to the first wait on any thread that covers it.     *)
(* Nothing is consumed or released: an Operation can be waited again.      *)
(***************************************************************************)
EXTENDS Naturals, FiniteSets

CONSTANTS
  Thread,    \* threads of the program
  MaxOps,    \* bound: operations enqueued on the stream
  Async      \* TRUE: programs use the *_async calls; FALSE: only the blocking
             \*   wrappers, which enqueue and wait at once

ASSUME ConstantsAssumption ==
  /\ MaxOps \in Nat
  /\ Async \in BOOLEAN

VARIABLES
  issued,      \* operations enqueued so far; their ids are 1 .. issued
  run,         \* native: id -> "unborn", "pending", "done", "failed"
  unreported,  \* native: failed operations no wait has reported yet
  kept,        \* ids whose Operation still holds its input buffers
  value,       \* ids whose wait has returned the payload
  raised,      \* ids whose wait has raised
  call         \* thread -> the id it is waiting for, 0 for none

vars == <<issued, run, unreported, kept, value, raised, call>>

Ops == 1 .. MaxOps

-----------------------------------------------------------------------------
(* Slips the code is one edit away from.  None is part of the              *)
(* specification; each takes the place of the definition it names in one   *)
(* model-checking run, which must then fail.                               *)

(* Succeeds, without the check of the ids                                  *)
SucceedsByCode(w) == w.code = "ok"

(* KeptAfterTimeout, if the buffers were dropped before the timeout check  *)
DroppedOnTimeout(i) == kept \ {i}

(* NewId, read before the enqueue                                          *)
StaleId == issued

-----------------------------------------------------------------------------
Init ==
  /\ issued = 0
  /\ run = [i \in Ops |-> "unborn"]
  /\ unreported = {}
  /\ kept = {}
  /\ value = {}
  /\ raised = {}
  /\ call = [t \in Thread |-> 0]

-----------------------------------------------------------------------------
(* The native stream                                                       *)

Finished(i) == run[i] \in {"done", "failed"}

(* The worker takes operations in the order of their ids.                  *)
Execute(i) ==
  /\ run[i] = "pending"
  /\ \A j \in 1 .. (i - 1) : Finished(j)
  /\ \/ /\ run' = [run EXCEPT ![i] = "done"]
        /\ UNCHANGED unreported
     \/ /\ run' = [run EXCEPT ![i] = "failed"]
        /\ unreported' = unreported \cup {i}
  /\ UNCHANGED <<issued, kept, value, raised, call>>

(* What a wait for i that is not timed out reports.  The binding allows    *)
(* for failures reported by ids alone.                                     *)
WaitResults(i) ==
  LET ids == {j \in unreported : j <= i}
  IN  IF ids = {}
      THEN {[code |-> "ok", ids |-> {}]}
      ELSE {[code |-> c, ids |-> ids] : c \in {"ok", "failed"}}

-----------------------------------------------------------------------------
(* The op_index of the next accepted enqueue.                              *)
NewId == issued + 1

(* _enqueue; a rejected enqueue raises at once and leaves no Operation.    *)
(* The blocking wrappers go on to wait.                                    *)
Enqueue(t) ==
  /\ issued < MaxOps /\ call[t] = 0
  /\ issued' = NewId
  /\ run' = [run EXCEPT ![NewId] = "pending"]
  /\ kept' = kept \cup {NewId}
  /\ call' = IF Async THEN call ELSE [call EXCEPT ![t] = NewId]
  /\ UNCHANGED <<unreported, value, raised>>

Begin(t, i) ==
  /\ Async /\ i <= issued /\ call[t] = 0
  /\ call' = [call EXCEPT ![t] = i]
  /\ UNCHANGED <<issued, run, unreported, kept, value, raised>>

(* The wait takes the failure of any operation for the awaited one's.      *)
Succeeds(w) == w.code = "ok" /\ w.ids = {}

Finish(t) ==
  LET i == call[t]
  IN  /\ i # 0 /\ \A j \in 1 .. i : Finished(j)
      /\ \E w \in WaitResults(i) :
           /\ unreported' = unreported \ w.ids
           /\ IF Succeeds(w)
              THEN value' = value \cup {i} /\ UNCHANGED raised
              ELSE raised' = raised \cup {i} /\ UNCHANGED value
      /\ kept' = kept \ {i}
      /\ call' = [call EXCEPT ![t] = 0]
      /\ UNCHANGED <<issued, run>>

(* The op is still pending: keep the input buffers alive for the worker.   *)
KeptAfterTimeout(i) == kept

(* A finite timeout elapses: wait returns None.  The blocking wrappers     *)
(* wait without limit.                                                     *)
TimeOut(t) ==
  /\ Async /\ call[t] # 0
  /\ \E j \in 1 .. call[t] : ~Finished(j)
  /\ kept' = KeptAfterTimeout(call[t])
  /\ call' = [call EXCEPT ![t] = 0]
  /\ UNCHANGED <<issued, run, unreported, value, raised>>

Next ==
  \/ \E i \in Ops : Execute(i)
  \/ \E t \in Thread : Enqueue(t) \/ Finish(t) \/ TimeOut(t) \/ \E i \in Ops : Begin(t, i)

Spec == Init /\ [][Next]_vars

-----------------------------------------------------------------------------
(* Correctness                                                             *)

(* Every variable keeps to its type; only issued operations have run, hold *)
(* buffers or have answered.                                               *)
TypeOK ==
  /\ issued \in 0 .. MaxOps
  /\ run \in [Ops -> {"unborn", "pending", "done", "failed"}]
  /\ \A i \in Ops : run[i] = "unborn" <=> i > issued
  /\ unreported \subseteq {i \in Ops : run[i] = "failed"}
  /\ kept \subseteq 1 .. issued
  /\ value \subseteq 1 .. issued
  /\ raised \subseteq 1 .. issued
  /\ call \in [Thread -> 0 .. issued]

(* "keep the input buffers alive for the worker": whoever waits, and       *)
(* however often it times out, an unfinished operation has its buffers.    *)
InputsPinned == \A i \in Ops : run[i] = "pending" => i \in kept

(* A failure the native side has reported was raised by some wait: the     *)
(* binding never swallows the only report.                                 *)
FailureSurfaces ==
  \A i \in Ops : run[i] = "failed" /\ i \notin unreported =>
    \E j \in raised : j >= i

(* One thread using the blocking wrappers is told the truth: a call returns*)
(* if its own operation succeeded and raises if that failed.               *)
OwnVerdict ==
  /\ \A i \in value : run[i] = "done"
  /\ \A i \in raised : run[i] = "failed"

(* "returning the op's payload on success -- a USD reference handle for an *)
(* add-reference op -- ... and raising OvstageError on failure": no wait   *)
(* returns the payload of an operation that failed.                        *)
NoPayloadOfFailure == \A i \in value : run[i] = "done"

=============================================================================
