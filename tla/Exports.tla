------------------------------- MODULE Exports -------------------------------
(***************************************************************************)
(* Export destinations and export operations (population_export.py).       *)
(*                                                                         *)
(* A destination is created, exported into, saved and destroyed by work on *)
(* a native FIFO.  Each piece of work comes in a blocking form and in an   *)
(* asynchronous one that returns an operation; the result of an operation  *)
(* stays with the native side until a terminal wait consumes it.  What     *)
(* Python knows of a destination are two flags, _closing and _closed,      *)
(* which calls, terminal waits and the finalizer keep up to date, each     *)
(* some time after the native side has moved on.                           *)
(*                                                                         *)
(* A native call releases the interpreter lock, so a call is modelled in   *)
(* the steps other threads can come between: look at the flags, hand the   *)
(* work over, wait for it, write the flags.                                *)
(***************************************************************************)
EXTENDS Naturals, FiniteSets

CONSTANTS
  Thread,       \* threads of the program
  Destination,  \* ExportDestination objects, each with its native handle
  None,
  MaxOps,       \* bound: pieces of work handed to the FIFO
  SharedWaits   \* TRUE: two threads may wait on one operation at a time

ASSUME ConstantsAssumption ==
  /\ None \notin Destination \cup Thread
  /\ MaxOps \in Nat
  /\ SharedWaits \in BOOLEAN

VARIABLES
  alive,    \* the Stage's native instance exists
  life,     \* native: destination -> "unborn", "opening", "open", "failed", "gone"
  issued,   \* native: work accepted so far; ids 1 .. issued, in FIFO order
  op,       \* id -> the work and the Python operation that stands for it
  obj,      \* the Python object: "unborn", "live", "dropped", collected
  closing,  \* ExportDestination._closing
  closed,   \* ExportDestination._closed
  call      \* thread -> the call it is in the middle of

vars == <<alive, life, issued, op, obj, closing, closed, call>>

Ops == 1 .. MaxOps

Work == {"create", "export", "save", "destroy"}

(* run: the native work; stored: its result was not consumed yet; held:    *)
(* whether Python has an operation object for it ("never": blocking calls  *)
(* and the finalizer keep none); terminal: that object's _terminal.        *)
Operation ==
  [work : Work \cup {"none"}, dest : Destination \cup {None},
   run : {"unborn", "pending", "ok", "failed"}, stored : BOOLEAN,
   held : {"never", "live", "dropped"}, terminal : BOOLEAN]

NoOp ==
  [work |-> "none", dest |-> None, run |-> "unborn", stored |-> FALSE,
   held |-> "never", terminal |-> FALSE]

Call ==
  [pc : {"idle", "mark", "submit", "book", "blocked", "wait", "finish"},
   work : Work \cup {"none"}, dest : Destination \cup {None}, async : BOOLEAN,
   op : 0 .. MaxOps, answer : {"none", "ok", "failed"}]

Idle ==
  [pc |-> "idle", work |-> "none", dest |-> None, async |-> FALSE, op |-> 0,
   answer |-> "none"]

-----------------------------------------------------------------------------
Init ==
  /\ alive = TRUE
  /\ life = [d \in Destination |-> "unborn"]
  /\ issued = 0
  /\ op = [o \in Ops |-> NoOp]
  /\ obj = [d \in Destination |-> "unborn"]
  /\ closing = [d \in Destination |-> FALSE]
  /\ closed = [d \in Destination |-> FALSE]
  /\ call = [t \in Thread |-> Idle]

-----------------------------------------------------------------------------
(* The native FIFO                                                         *)

(* "No new work is accepted after destroy is submitted"; a destroy that    *)
(* failed leaves the destination as it was.                                *)
Accepts(d) ==
  /\ alive /\ issued < MaxOps
  /\ life[d] \in {"opening", "open"}
  /\ \A o \in Ops : ~(op[o].work = "destroy" /\ op[o].dest = d /\ op[o].run = "pending")

(* Slip: the work is filed under the id before its own.                    *)
AcceptedSlip(work, d, held) ==
  [op EXCEPT ![issued] =
     [work |-> work, dest |-> d, run |-> "pending", stored |-> TRUE,
      held |-> held, terminal |-> FALSE]]

Accepted(work, d, held) ==
  [op EXCEPT ![issued + 1] =
     [work |-> work, dest |-> d, run |-> "pending", stored |-> TRUE,
      held |-> held, terminal |-> FALSE]]

(* Any work may fail; work on a destination that is not open does.         *)
Outcomes(o) ==
  {r \in {"ok", "failed"} :
     r = "ok" => \/ op[o].work = "create"
                 \/ op[o].dest = None
                 \/ op[o].dest \in Destination /\ life[op[o].dest] = "open"}

After(work, r, before) ==
  CASE work = "create" -> IF r = "ok" THEN "open" ELSE "failed"
    [] work = "destroy" /\ r = "ok" -> "gone"
    [] OTHER -> before

(* The FIFO: work runs in the order it was accepted in.                    *)
Execute(o) ==
  /\ alive /\ op[o].run = "pending"
  /\ \A p \in 1 .. (o - 1) : op[p].run # "pending"
  /\ \E r \in Outcomes(o) :
       /\ op' = [op EXCEPT ![o].run = r]
       /\ life' = [d \in Destination |->
                    IF d = op[o].dest THEN After(op[o].work, r, life[d]) ELSE life[d]]
  /\ UNCHANGED <<alive, issued, obj, closing, closed, call>>

-----------------------------------------------------------------------------
(* Creation: create_async hands out the reserved destination at once,      *)
(* create once it is open.  A refusal raises and leaves nothing behind.    *)
Create(t, d, async) ==
  /\ call[t].pc = "idle" /\ obj[d] = "unborn" /\ life[d] = "unborn"
  /\ alive /\ issued < MaxOps
  /\ issued' = issued + 1
  /\ op' = Accepted("create", d, IF async THEN "live" ELSE "never")
  /\ life' = [life EXCEPT ![d] = "opening"]
  /\ IF async
     THEN /\ obj' = [obj EXCEPT ![d] = "live"]
          /\ UNCHANGED call
     ELSE /\ call' = [call EXCEPT ![t] = [Idle EXCEPT !.pc = "blocked", !.work = "create",
                                                      !.dest = d, !.op = issued + 1]]
          /\ UNCHANGED obj
  /\ UNCHANGED <<alive, closing, closed>>

(* A one-shot export into a layer, a stage or a file.                      *)
ExportOnce ==
  /\ alive /\ issued < MaxOps
  /\ issued' = issued + 1
  /\ op' = Accepted("export", None, "live")
  /\ UNCHANGED <<alive, life, obj, closing, closed, call>>

RequireOpen(d) == ~closed[d] /\ ~closing[d]

(* Only the blocking close marks the destination before it calls.          *)
MarksFirst(work, async) == work = "destroy" /\ ~async

(* export, save or close, in either form, up to the native call.           *)
Begin(t, d, work, async) ==
  /\ call[t].pc = "idle" /\ obj[d] = "live" /\ work # "create"
  /\ RequireOpen(d)
  /\ call' = [call EXCEPT ![t] =
       [Idle EXCEPT !.pc = IF MarksFirst(work, async) THEN "mark" ELSE "submit",
                    !.work = work, !.dest = d, !.async = async]]
  /\ UNCHANGED <<alive, life, issued, op, obj, closing, closed>>

Mark(t) ==
  /\ call[t].pc = "mark"
  /\ closing' = [closing EXCEPT ![call[t].dest] = TRUE]
  /\ call' = [call EXCEPT ![t].pc = "submit"]
  /\ UNCHANGED <<alive, life, issued, op, obj, closed>>

Submit(t) ==
  LET c == call[t]
  IN  /\ c.pc = "submit" /\ Accepts(c.dest)
      /\ issued' = issued + 1
      /\ op' = Accepted(c.work, c.dest, IF c.async THEN "live" ELSE "never")
      /\ call' = [call EXCEPT ![t] =
           IF ~c.async THEN [c EXCEPT !.pc = "blocked", !.op = issued + 1]
           ELSE IF c.work = "destroy" THEN [c EXCEPT !.pc = "book", !.op = issued + 1]
           ELSE Idle]
      /\ UNCHANGED <<alive, life, obj, closing, closed>>

(* The native side may always refuse; the call raises.                     *)
Refuse(t) ==
  LET c == call[t]
  IN  /\ c.pc = "submit"
      /\ closing' = IF MarksFirst(c.work, c.async) THEN [closing EXCEPT ![c.dest] = FALSE] ELSE closing
      /\ call' = [call EXCEPT ![t] = Idle]
      /\ UNCHANGED <<alive, life, issued, op, obj, closed>>

(* close_async, once the native side has taken the destroy.                *)
BookClosing(t) ==
  /\ call[t].pc = "book"
  /\ closing' = [closing EXCEPT ![call[t].dest] = TRUE]
  /\ call' = [call EXCEPT ![t] = Idle]
  /\ UNCHANGED <<alive, life, issued, op, obj, closed>>

(* Slip: a close that failed leaves the destination closing.               *)
CloseFinishedSlip(d, success) ==
  /\ closed' = [closed EXCEPT ![d] = success]
  /\ UNCHANGED closing

(* What the answer to a close, or to the wait for one, does to the flags.  *)
CloseFinished(d, success) ==
  IF success THEN /\ closed' = [closed EXCEPT ![d] = TRUE]
                  /\ UNCHANGED closing
             ELSE /\ closing' = [closing EXCEPT ![d] = FALSE]
                  /\ UNCHANGED closed

(* A blocking call comes back.                                             *)
Return(t) ==
  LET c == call[t]
  IN  /\ c.pc = "blocked" /\ op[c.op].run \in {"ok", "failed"}
      /\ op' = [op EXCEPT ![c.op].stored = FALSE, ![c.op].terminal = TRUE]
      /\ call' = [call EXCEPT ![t] = Idle]
      /\ IF c.work = "create"
         THEN obj' = [obj EXCEPT ![c.dest] = IF op[c.op].run = "ok" THEN "live" ELSE @]
         ELSE UNCHANGED obj
      /\ IF c.work = "destroy"
         THEN CloseFinished(c.dest, op[c.op].run = "ok")
         ELSE UNCHANGED <<closing, closed>>
      /\ UNCHANGED <<alive, life, issued>>

-----------------------------------------------------------------------------
(* ExportOperation.wait, DestinationOperation.wait                         *)

BeginWait(t, o) ==
  /\ call[t].pc = "idle" /\ op[o].held = "live" /\ ~op[o].terminal
  /\ SharedWaits \/ \A u \in Thread : call[u].op # o
  /\ call' = [call EXCEPT ![t] = [Idle EXCEPT !.pc = "wait", !.op = o]]
  /\ UNCHANGED <<alive, life, issued, op, obj, closing, closed>>

(* Slip: a wait that timed out counts as the operation's last.             *)
AfterTimeoutSlip(o) == [op EXCEPT ![o].terminal = TRUE]

(* A finite timeout elapses: "polling does not consume the native report". *)
AfterTimeout(o) == op

TimeOut(t) ==
  /\ call[t].pc = "wait" /\ op[call[t].op].run = "pending"
  /\ op' = AfterTimeout(call[t].op)
  /\ call' = [call EXCEPT ![t] = Idle]
  /\ UNCHANGED <<alive, life, issued, obj, closing, closed>>

(* The native wait answers: with the result, once, and afterwards with     *)
(* INVALID_HANDLE, as for the operations of an instance that is gone.      *)
Answer(o) == IF alive /\ op[o].stored THEN op[o].run ELSE "failed"

Consume(t) ==
  LET o == call[t].op
  IN  /\ call[t].pc = "wait"
      /\ alive => op[o].run # "pending"
      /\ call' = [call EXCEPT ![t].pc = "finish", ![t].answer = Answer(o)]
      /\ op' = [op EXCEPT ![o].stored = FALSE]
      /\ UNCHANGED <<alive, life, issued, obj, closing, closed>>

(* creation_finished, close_finished                                       *)
OnTerminal(o, success) ==
  CASE op[o].work = "create" /\ ~success -> /\ closed' = [closed EXCEPT ![op[o].dest] = TRUE]
                                            /\ UNCHANGED closing
    [] op[o].work = "destroy"            -> CloseFinished(op[o].dest, success)
    [] OTHER                             -> UNCHANGED <<closing, closed>>

(* _finish; a second thread's answer finds the operation terminal.         *)
Finish(t) ==
  LET o == call[t].op
  IN  /\ call[t].pc = "finish"
      /\ op' = [op EXCEPT ![o].terminal = TRUE]
      /\ IF op[o].terminal THEN UNCHANGED <<closing, closed>>
                           ELSE OnTerminal(o, call[t].answer = "ok")
      /\ call' = [call EXCEPT ![t] = Idle]
      /\ UNCHANGED <<alive, life, issued, obj>>

-----------------------------------------------------------------------------
(* Letting go                                                              *)

DropOperation(o) ==
  /\ op[o].held = "live" /\ \A t \in Thread : call[t].op # o
  /\ op' = [op EXCEPT ![o].held = "dropped"]
  /\ UNCHANGED <<alive, life, issued, obj, closing, closed, call>>

DropDestination(d) ==
  /\ obj[d] = "live"
  /\ obj' = [obj EXCEPT ![d] = "dropped"]
  /\ UNCHANGED <<alive, life, issued, op, closing, closed, call>>

(* A creation returns its destination, and a close's callback refers to    *)
(* it, for as long as their operation lives.                               *)
Unreferenced(d) ==
  /\ \A t \in Thread : call[t].dest # d
  /\ \A o \in Ops : ~(op[o].work \in {"create", "destroy"} /\ op[o].dest = d /\ op[o].held = "live")

(* Slip: a destination whose creation nobody waited for is passed over.    *)
NothingToReleaseSlip(d) ==
  \/ closed[d] \/ closing[d] \/ ~alive
  \/ \E o \in Ops : op[o].work = "create" /\ op[o].dest = d /\ ~op[o].terminal

NothingToRelease(d) == closed[d] \/ closing[d] \/ ~alive

(* __del__: queue a destroy and do not wait for it, unless there is         *)
(* nothing to release; the release is a best effort, and a destination     *)
(* whose destroy the native side would not take is "leaked".               *)
Finalize(d) ==
  /\ obj[d] = "dropped" /\ Unreferenced(d) /\ issued < MaxOps
  /\ \/ /\ NothingToRelease(d) \/ ~Accepts(d)
        /\ obj' = [obj EXCEPT ![d] = "gone"]
        /\ UNCHANGED <<issued, op, closing>>
     \/ /\ ~NothingToRelease(d) /\ Accepts(d)
        /\ issued' = issued + 1
        /\ op' = Accepted("destroy", d, "never")
        /\ closing' = [closing EXCEPT ![d] = TRUE]
        /\ obj' = [obj EXCEPT ![d] = "gone"]
     \/ /\ ~NothingToRelease(d)
        /\ obj' = [obj EXCEPT ![d] = "leaked"]
        /\ UNCHANGED <<issued, op, closing>>
  /\ UNCHANGED <<alive, life, closed, call>>

(* Stage.destroy, when no thread is inside the native library.             *)
DestroyStage ==
  /\ alive /\ \A t \in Thread : call[t].pc = "idle"
  /\ alive' = FALSE
  /\ UNCHANGED <<life, issued, op, obj, closing, closed, call>>

Next ==
  \/ \E o \in Ops : Execute(o) \/ DropOperation(o)
  \/ \E d \in Destination : DropDestination(d) \/ Finalize(d)
  \/ \E t \in Thread, d \in Destination, async \in BOOLEAN :
       \/ Create(t, d, async)
       \/ \E work \in Work : Begin(t, d, work, async)
  \/ \E t \in Thread :
       \/ Mark(t) \/ Submit(t) \/ Refuse(t) \/ BookClosing(t) \/ Return(t)
       \/ TimeOut(t) \/ Consume(t) \/ Finish(t)
       \/ \E o \in Ops : BeginWait(t, o)
  \/ ExportOnce \/ DestroyStage

Spec == Init /\ [][Next]_vars

-----------------------------------------------------------------------------
(* Correctness                                                             *)

(* The variables have their types, and every piece of work is filed under  *)
(* its own id, the op_index an enqueue returned (ExportOperation,          *)
(* DestinationOperation).                                                  *)
TypeOK ==
  /\ alive \in BOOLEAN
  /\ life \in [Destination -> {"unborn", "opening", "open", "failed", "gone"}]
  /\ issued \in 0 .. MaxOps
  /\ op \in [Ops -> Operation]
  /\ \A o \in Ops : op[o].work = "none" <=> o > issued
  /\ obj \in [Destination -> {"unborn", "live", "dropped", "gone", "leaked"}]
  /\ closing \in [Destination -> BOOLEAN]
  /\ closed \in [Destination -> BOOLEAN]
  /\ call \in [Thread -> Call]

Over(d) == life[d] \in {"failed", "gone"}

(* Something is still to be learnt about d: a call on it has not returned, *)
(* or the result of its creation or of a close was not asked for.          *)
Busy(d) ==
  \/ \E t \in Thread : call[t].dest = d
  \/ \E o \in Ops : /\ op[o].dest = d /\ op[o].work \in {"create", "destroy"}
                    /\ ~op[o].terminal

(* What the flags say is true, whichever threads close the destination,    *)
(* in whichever form, at once, and however often the native side refuses   *)
(* or fails: closed is never said of a destination that is open, and once  *)
(* every call and every operation was answered the flags say exactly       *)
(* whether it is over.  In particular a close that failed leaves it usable *)
(* (close 410-420, close_finished 430-434, creation_finished 361-363).     *)
FlagsTruthful ==
  \A d \in Destination : alive /\ obj[d] # "unborn" =>
    /\ closed[d] => Over(d)
    /\ ~Busy(d) => /\ closed[d] <=> Over(d)
                   /\ closing[d] => closed[d]

(* A collected destination is not left open behind the program's back: it  *)
(* is over, its release is queued, or a close nobody waited for has failed *)
(* (__del__ 453-476, "best-effort queues release").                        *)
NothingStranded ==
  \A d \in Destination : alive /\ obj[d] = "gone" =>
    \/ Over(d)
    \/ \E o \in Ops : /\ op[o].work = "destroy" /\ op[o].dest = d
                      /\ ~op[o].terminal /\ op[o].run # "ok"

(* Polling does not consume a report and a report is not given twice: as   *)
(* long as the program holds an operation nobody is waiting for, it counts *)
(* as finished exactly when the native side no longer has its result       *)
(* (ExportOperation.wait 144-164, DestinationOperation.wait 270-291).      *)
ReportKept ==
  \A o \in Ops : op[o].held = "live" /\ (\A t \in Thread : call[t].op # o) =>
    (op[o].terminal <=> ~op[o].stored)

=============================================================================
