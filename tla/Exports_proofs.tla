---------------------------- MODULE Exports_proofs ----------------------------
(***************************************************************************)
(* Proofs about Exports, for any threads, destinations and number of       *)
(* pieces of work, provided no two threads wait on one operation at once:  *)
(* the variables have their types, the flags of a destination are          *)
(* truthful, no destination is stranded and no report is lost.             *)
(***************************************************************************)
EXTENDS Exports, TLAPS

(* A call in the middle: what it is about and what its operation is.       *)
CallOK(t) ==
  LET c == call[t]
  IN  /\ c.pc = "idle" => c.op = 0 /\ c.dest = None
      /\ c.pc \in {"mark", "submit"} =>
           /\ c.op = 0 /\ c.dest \in Destination /\ obj[c.dest] \notin {"unborn", "gone"}
           /\ c.work \in {"export", "save", "destroy"}
      /\ c.pc = "mark" => c.work = "destroy" /\ ~c.async
      /\ c.pc = "book" =>
           /\ c.op \in Ops /\ c.dest \in Destination /\ obj[c.dest] # "gone"
           /\ op[c.op].work = "destroy" /\ op[c.op].dest = c.dest
           /\ op[c.op].held = "live" /\ ~op[c.op].terminal
      /\ c.pc = "blocked" =>
           /\ c.op \in Ops /\ c.dest \in Destination /\ obj[c.dest] # "gone"
           /\ c.work # "none" /\ op[c.op].work = c.work /\ op[c.op].dest = c.dest
           /\ op[c.op].held = "never" /\ ~op[c.op].terminal
           /\ c.work = "destroy" => ~c.async
      /\ c.pc \in {"wait", "finish"} =>
           /\ c.op \in Ops /\ c.dest = None
           /\ op[c.op].held = "live" /\ ~op[c.op].terminal
      /\ c.pc = "finish" =>
           /\ ~op[c.op].stored
           /\ c.answer = "ok" => op[c.op].run = "ok"
           /\ alive /\ c.answer # "ok" => op[c.op].run = "failed"

(* No two calls are about one operation.                                   *)
Alone(t, u) == t # u /\ call[t].op # 0 => call[t].op # call[u].op

(* An operation: how far its destination is, and what was said of it.      *)
OpOK(o) ==
  LET w == op[o]
  IN  /\ w.work = "create" =>
           /\ w.dest \in Destination
           /\ w.run = "pending" => life[w.dest] = "opening"
           /\ w.run = "failed" => life[w.dest] = "failed"
           /\ w.run = "ok" => life[w.dest] \in {"open", "gone"}
           /\ w.held = "never" /\ w.run # "ok" => obj[w.dest] = "unborn"
           /\ alive /\ w.terminal /\ w.run = "failed" /\ w.held # "never" => closed[w.dest]
      /\ w.work = "destroy" =>
           /\ w.dest \in Destination /\ obj[w.dest] # "unborn"
           /\ w.run = "ok" => life[w.dest] = "gone"
           /\ alive /\ w.terminal /\ w.run = "ok" => closed[w.dest]
      /\ w.work # "none" => w.run # "unborn"
      /\ w.work = "none" => w.held = "never"
      /\ w.terminal => ~w.stored
      /\ alive /\ w.terminal => w.run # "pending"
      /\ w.held = "live" /\ ~w.terminal =>
           w.stored \/ \E t \in Thread : call[t].pc = "finish" /\ call[t].op = o

(* A destination is created once.                                          *)
CreatedOnce(o, p) ==
  op[o].work = "create" /\ op[p].work = "create" /\ op[o].dest = op[p].dest => o = p

Marked(d) ==
  \E t \in Thread : /\ call[t].dest = d /\ call[t].work = "destroy" /\ ~call[t].async
                    /\ call[t].pc \in {"submit", "blocked"}

Unanswered(d) ==
  \E o \in Ops : op[o].work = "destroy" /\ op[o].dest = d /\ ~op[o].terminal

(* A destination: why it is over, and why it is closed or closing.         *)
DestOK(d) ==
  /\ obj[d] # "unborn" => life[d] # "unborn"
  /\ life[d] = "failed" =>
       \E o \in Ops : op[o].work = "create" /\ op[o].dest = d /\ op[o].run = "failed"
  /\ life[d] = "gone" =>
       \E o \in Ops : op[o].work = "destroy" /\ op[o].dest = d /\ op[o].run = "ok"
  /\ alive /\ closed[d] => Over(d)
  /\ alive /\ closing[d] /\ ~closed[d] => Marked(d) \/ Unanswered(d)
  /\ alive /\ obj[d] = "gone" =>
       /\ \A o \in Ops : op[o].work = "destroy" /\ op[o].dest = d => op[o].held # "live"
       /\ Over(d) \/ Unanswered(d)

Pointwise ==
  /\ \A t \in Thread : CallOK(t)
  /\ \A t, u \in Thread : Alone(t, u)
  /\ \A o \in Ops : OpOK(o)
  /\ \A o, p \in Ops : CreatedOnce(o, p)
  /\ \A d \in Destination : DestOK(d)

IInv == TypeOK /\ Pointwise

-----------------------------------------------------------------------------
(* Types                                                                   *)

LEMMA IdleIsCall == Idle \in Call
  BY ConstantsAssumption DEF Idle, Call

LEMMA NewOperation ==
  ASSUME TypeOK, issued < MaxOps, NEW w \in Work, NEW d \in Destination \cup {None},
         NEW h \in {"never", "live"}
  PROVE  /\ issued + 1 \in Ops
         /\ Accepted(w, d, h) \in [Ops -> Operation]
         /\ \A o \in Ops : Accepted(w, d, h)[o].work = "none" <=> o > issued + 1
  <1>1. issued + 1 \in Ops /\ MaxOps \in Nat /\ issued \in Nat
    BY ConstantsAssumption DEF TypeOK, Ops
  <1>2. [work |-> w, dest |-> d, run |-> "pending", stored |-> TRUE,
         held |-> h, terminal |-> FALSE] \in Operation
    BY DEF Operation
  <1>3. Accepted(w, d, h) \in [Ops -> Operation]
    BY <1>1, <1>2 DEF TypeOK, Accepted
  <1>4. ASSUME NEW o \in Ops
        PROVE  Accepted(w, d, h)[o].work = "none" <=> o > issued + 1
    <2>1. CASE o = issued + 1
      BY <1>1, <2>1 DEF TypeOK, Accepted, Work
    <2>2. CASE o # issued + 1
      BY <1>1, <2>2 DEF TypeOK, Accepted, Ops
    <2>3. QED
      BY <2>1, <2>2
  <1>5. QED
    BY <1>1, <1>3, <1>4

LEMMA TypeInit == Init => TypeOK
  BY ConstantsAssumption, IdleIsCall DEF Init, TypeOK, NoOp, Operation, Ops

LEMMA TypeNext ==
  ASSUME TypeOK, \A t \in Thread : CallOK(t), \A o \in Ops : OpOK(o), [Next]_vars
  PROVE  TypeOK'
  <1>c. Idle \in Call
    BY IdleIsCall
  <1>n. MaxOps \in Nat /\ None \notin Destination
    BY ConstantsAssumption
  <1>1. ASSUME NEW o \in Ops, Execute(o) PROVE TypeOK'
    <2>1. PICK r \in {"ok", "failed"} : op' = [op EXCEPT ![o].run = r]
      BY <1>1 DEF Execute, Outcomes
    <2>2. PICK w \in Operation : w = op[o]
      BY DEF TypeOK
    <2>3. op' \in [Ops -> Operation] /\ \A p \in Ops : op'[p].work = op[p].work
      BY <2>1, <2>2 DEF TypeOK, Operation
    <2>4. life' \in [Destination -> {"unborn", "opening", "open", "failed", "gone"}]
      BY <1>1 DEF TypeOK, Execute, After, Outcomes
    <2>5. QED
      BY <1>1, <2>3, <2>4 DEF TypeOK, Execute
  <1>2. ASSUME NEW o \in Ops, DropOperation(o) PROVE TypeOK'
    BY <1>2 DEF TypeOK, DropOperation, Operation
  <1>3. ASSUME NEW d \in Destination, DropDestination(d) PROVE TypeOK'
    BY <1>3 DEF TypeOK, DropDestination
  <1>4. ASSUME NEW d \in Destination, Finalize(d) PROVE TypeOK'
    <2>1. CASE UNCHANGED <<issued, op, closing>>
      BY <1>4, <2>1 DEF TypeOK, Finalize
    <2>2. CASE issued' = issued + 1 /\ op' = Accepted("destroy", d, "never")
      <3>1. issued < MaxOps /\ "destroy" \in Work
        BY <1>4 DEF Finalize, Work
      <3>2. /\ issued' \in 0 .. MaxOps
            /\ op' \in [Ops -> Operation]
            /\ \A o \in Ops : op'[o].work = "none" <=> o > issued'
        BY <2>2, <3>1, <1>n, NewOperation DEF TypeOK
      <3>3. QED
        BY <1>4, <3>2 DEF Finalize, TypeOK
    <2>3. QED
      BY <1>4, <2>1, <2>2 DEF Finalize
  <1>5. ASSUME NEW t \in Thread, NEW d \in Destination, NEW async \in BOOLEAN,
               Create(t, d, async)
        PROVE  TypeOK'
    <2>1. /\ issued' \in 0 .. MaxOps
          /\ op' \in [Ops -> Operation]
          /\ \A o \in Ops : op'[o].work = "none" <=> o > issued'
          /\ issued + 1 \in 0 .. MaxOps
      BY <1>5, <1>n, NewOperation DEF Create, Work, TypeOK
    <2>2. call' \in [Thread -> Call]
      <3>1. [Idle EXCEPT !.pc = "blocked", !.work = "create", !.dest = d, !.op = issued + 1] \in Call
        BY <2>1 DEF Call, Idle, Work
      <3>2. QED
        BY <1>5, <3>1 DEF Create, TypeOK
    <2>3. QED
      BY <1>5, <2>1, <2>2 DEF TypeOK, Create
  <1>6. ASSUME NEW t \in Thread, NEW d \in Destination, NEW async \in BOOLEAN,
               NEW work \in Work, Begin(t, d, work, async)
        PROVE  TypeOK'
    <2>0. PICK i \in Call : i = Idle
      BY <1>c
    <2>1. ASSUME NEW p \in {"mark", "submit"}
          PROVE  [i EXCEPT !.pc = p, !.work = work, !.dest = d, !.async = async] \in Call
      BY DEF Call
    <2>2. call' \in [Thread -> Call]
      BY <1>6, <2>0, <2>1 DEF Begin, TypeOK
    <2>3. QED
      BY <1>6, <2>2 DEF Begin, TypeOK
  <1>7. ASSUME NEW t \in Thread, Mark(t) PROVE TypeOK'
    <2>1. PICK c \in Call : c = call[t]
      BY DEF TypeOK
    <2>2. [c EXCEPT !.pc = "submit"] \in Call
      BY <2>1 DEF Call
    <2>3. closing' \in [Destination -> BOOLEAN] /\ call' \in [Thread -> Call]
      BY <1>7, <2>1, <2>2 DEF TypeOK, Mark
    <2>4. QED
      BY <1>7, <2>3 DEF TypeOK, Mark
  <1>8. ASSUME NEW t \in Thread, Submit(t) PROVE TypeOK'
    <2>1. issued < MaxOps
      BY <1>8 DEF Submit, Accepts
    <2>2. PICK c \in Call : c = call[t]
      BY DEF TypeOK
    <2>3. c.dest \in Destination /\ c.work \in Work /\ c.pc = "submit"
      BY <1>8, <2>2 DEF CallOK, Submit, Work
    <2>4. /\ issued' \in 0 .. MaxOps
          /\ issued + 1 \in 0 .. MaxOps
          /\ op' \in [Ops -> Operation]
          /\ \A o \in Ops : op'[o].work = "none" <=> o > issued'
      BY <1>8, <2>1, <2>2, <2>3, <1>n, NewOperation DEF Submit, TypeOK
    <2>5. /\ [c EXCEPT !.pc = "blocked", !.op = issued + 1] \in Call
          /\ [c EXCEPT !.pc = "book", !.op = issued + 1] \in Call
      BY <2>4 DEF Call
    <2>6. call' \in [Thread -> Call]
      BY <1>8, <1>c, <2>2, <2>5 DEF Submit, TypeOK
    <2>7. QED
      BY <1>8, <2>4, <2>6 DEF Submit, TypeOK
  <1>9. ASSUME NEW t \in Thread, Refuse(t) PROVE TypeOK'
    BY <1>9, <1>c DEF TypeOK, Refuse
  <1>10. ASSUME NEW t \in Thread, BookClosing(t) PROVE TypeOK'
    BY <1>10, <1>c DEF TypeOK, BookClosing
  <1>11. ASSUME NEW t \in Thread, Return(t) PROVE TypeOK'
    <2>1. PICK c \in Call : c = call[t]
      BY DEF TypeOK
    <2>2. c.op \in Ops /\ c.pc = "blocked"
      BY <1>11, <2>1 DEF CallOK, Return
    <2>3. PICK w \in Operation : w = op[c.op]
      BY <2>2 DEF TypeOK
    <2>4. op' = [op EXCEPT ![c.op] = [w EXCEPT !.stored = FALSE, !.terminal = TRUE]]
      BY <1>11, <2>1, <2>3 DEF Return
    <2>5. op' \in [Ops -> Operation] /\ \A o \in Ops : op'[o].work = op[o].work
      BY <2>2, <2>3, <2>4 DEF TypeOK, Operation
    <2>6. obj' \in [Destination -> {"unborn", "live", "dropped", "gone", "leaked"}]
      BY <1>11 DEF TypeOK, Return
    <2>7. closing' \in [Destination -> BOOLEAN] /\ closed' \in [Destination -> BOOLEAN]
      BY <1>11 DEF TypeOK, Return, CloseFinished
    <2>8. QED
      BY <1>11, <1>c, <2>5, <2>6, <2>7 DEF TypeOK, Return
  <1>12. ASSUME NEW t \in Thread, TimeOut(t) PROVE TypeOK'
    BY <1>12, <1>c DEF TypeOK, TimeOut, AfterTimeout
  <1>13. ASSUME NEW t \in Thread, Consume(t) PROVE TypeOK'
    <2>1. PICK c \in Call : c = call[t]
      BY DEF TypeOK
    <2>2. c.op \in Ops /\ c.pc = "wait"
      BY <1>13, <2>1 DEF CallOK, Consume
    <2>3. PICK w \in Operation : w = op[c.op]
      BY <2>2 DEF TypeOK
    <2>4. w.run # "unborn" /\ (alive => w.run # "pending")
      BY <1>13, <2>1, <2>2, <2>3 DEF CallOK, OpOK, Consume
    <2>5. Answer(c.op) \in {"ok", "failed"}
      BY <2>3, <2>4 DEF Answer, Operation
    <2>6. [c EXCEPT !.pc = "finish", !.answer = Answer(c.op)] \in Call
      BY <2>5 DEF Call
    <2>7. [w EXCEPT !.stored = FALSE] \in Operation
      BY <2>3 DEF Operation
    <2>8. call' = [call EXCEPT ![t] = [c EXCEPT !.pc = "finish", !.answer = Answer(c.op)]]
      BY <1>13, <2>1 DEF Consume
    <2>9. op' = [op EXCEPT ![c.op] = [w EXCEPT !.stored = FALSE]]
      BY <1>13, <2>1, <2>3 DEF Consume
    <2>10. \A o \in Ops : op'[o].work = op[o].work
      BY <2>2, <2>3, <2>9 DEF TypeOK, Operation
    <2>11. call' \in [Thread -> Call] /\ op' \in [Ops -> Operation]
      BY <2>6, <2>7, <2>8, <2>9 DEF TypeOK
    <2>12. QED
      BY <1>13, <2>10, <2>11 DEF TypeOK, Consume
  <1>14. ASSUME NEW t \in Thread, Finish(t) PROVE TypeOK'
    <2>1. PICK o \in Ops : o = call[t].op
      BY <1>14 DEF CallOK, Finish
    <2>w. PICK w \in Operation : w = op[o]
      BY DEF TypeOK
    <2>e. op' = [op EXCEPT ![o] = [w EXCEPT !.terminal = TRUE]]
      BY <1>14, <2>1, <2>w DEF Finish
    <2>2. op' \in [Ops -> Operation] /\ \A p \in Ops : op'[p].work = op[p].work
      BY <2>w, <2>e DEF TypeOK, Operation
    <2>3. closing' \in [Destination -> BOOLEAN] /\ closed' \in [Destination -> BOOLEAN]
      BY <1>14 DEF TypeOK, Finish, OnTerminal, CloseFinished
    <2>4. QED
      BY <1>14, <1>c, <2>2, <2>3 DEF TypeOK, Finish
  <1>15. ASSUME NEW t \in Thread, NEW o \in Ops, BeginWait(t, o) PROVE TypeOK'
    <2>1. o \in 0 .. MaxOps
      BY <1>n DEF Ops
    <2>2. [Idle EXCEPT !.pc = "wait", !.op = o] \in Call
      BY <2>1 DEF Call, Idle, Work
    <2>3. QED
      BY <1>15, <2>2 DEF TypeOK, BeginWait
  <1>16. ASSUME ExportOnce PROVE TypeOK'
    BY <1>16, <1>n, NewOperation DEF TypeOK, ExportOnce, Work
  <1>17. ASSUME DestroyStage PROVE TypeOK'
    BY <1>17 DEF TypeOK, DestroyStage
  <1>18. CASE UNCHANGED vars
    BY <1>18 DEF TypeOK, vars
  <1>19. QED
    BY <1>1, <1>2, <1>3, <1>4, <1>5, <1>6, <1>7, <1>8, <1>9, <1>10, <1>11, <1>12,
       <1>13, <1>14, <1>15, <1>16, <1>17, <1>18 DEF Next

-----------------------------------------------------------------------------
(* The inductive invariant, action by action                               *)

LEMMA BeginStep ==
  ASSUME IInv, TypeOK', NEW t \in Thread, NEW d \in Destination, NEW async \in BOOLEAN,
         NEW work \in Work, Begin(t, d, work, async)
  PROVE  Pointwise'
  <1>ax. \A u \in Thread : u # t => call'[u] = call[u]
    BY DEF Begin, IInv, Pointwise, TypeOK
  <1>bx. /\ call'[t].pc \in {"mark", "submit"} /\ call'[t].work = work /\ call'[t].dest = d
         /\ call'[t].async = async /\ call'[t].op = 0
         /\ call'[t].pc = "mark" => work = "destroy" /\ ~async
    BY DEF Begin, IInv, Pointwise, TypeOK, Idle, MarksFirst
  <1>cx. call[t].pc = "idle" /\ obj[d] = "live" /\ work \in {"export", "save", "destroy"}
    BY DEF Begin, Work
  <1>dx. UNCHANGED <<alive, life, issued, op, obj, closing, closed>>
    BY DEF Begin
  <1>c. ASSUME NEW u \in Thread PROVE CallOK(u)'
    <2>1. CallOK(u) /\ CallOK(t)
      BY DEF IInv, Pointwise
    <2>2. CASE u = t
      BY <2>1, <2>2, <1>ax, <1>bx, <1>cx, <1>dx, ConstantsAssumption DEF CallOK, Ops
    <2>3. CASE u # t
      BY <2>1, <2>3, <1>ax, <1>bx, <1>cx, <1>dx, ConstantsAssumption DEF CallOK, Ops
    <2>4. QED
      BY <2>2, <2>3
  <1>a. ASSUME NEW u \in Thread, NEW v \in Thread PROVE Alone(u, v)'
    <2>1. Alone(u, v) /\ CallOK(u) /\ CallOK(v)
      BY DEF IInv, Pointwise
    <2>2. CASE u = t
      BY <2>1, <2>2, <1>ax, <1>bx, <1>cx, <1>dx, ConstantsAssumption DEF Alone, CallOK, Ops
    <2>3. CASE v = t /\ u # t
      BY <2>1, <2>3, <1>ax, <1>bx, <1>cx, <1>dx, ConstantsAssumption DEF Alone, CallOK, Ops
    <2>4. CASE u # t /\ v # t
      BY <2>1, <2>4, <1>ax, <1>bx, <1>cx, <1>dx, ConstantsAssumption DEF Alone, CallOK, Ops
    <2>5. QED
      BY <2>2, <2>3, <2>4
  <1>o. ASSUME NEW p \in Ops PROVE OpOK(p)'
    <2>1. OpOK(p) /\ CallOK(t)
      BY DEF IInv, Pointwise
    <2>2. QED
      BY <2>1, <1>ax, <1>bx, <1>cx, <1>dx, ConstantsAssumption DEF OpOK, CallOK, Ops
  <1>u. ASSUME NEW p \in Ops, NEW q \in Ops PROVE CreatedOnce(p, q)'
    <2>1. CreatedOnce(p, q) /\ OpOK(p) /\ OpOK(q) /\ CallOK(t)
      BY DEF IInv, Pointwise
    <2>2. QED
      BY <2>1, <1>ax, <1>bx, <1>cx, <1>dx, ConstantsAssumption DEF CreatedOnce, CallOK, OpOK,
         Ops
  <1>d. ASSUME NEW e \in Destination PROVE DestOK(e)'
    <2>1. DestOK(e) /\ CallOK(t)
      BY DEF IInv, Pointwise
    <2>2. QED
      BY <2>1, <1>ax, <1>bx, <1>cx, <1>dx, ConstantsAssumption DEF DestOK, Over, Marked,
         Unanswered, CallOK, Ops
  <1>q. QED
    BY <1>c, <1>a, <1>o, <1>u, <1>d DEF Pointwise

LEMMA MarkStep ==
  ASSUME IInv, TypeOK', NEW t \in Thread, Mark(t)
  PROVE  Pointwise'
  <1>ax. \A u \in Thread : u # t => call'[u] = call[u]
    BY DEF Mark, IInv, Pointwise, TypeOK
  <1>bx. call'[t] = [call[t] EXCEPT !.pc = "submit"] /\ call[t].pc = "mark" /\ call[t] \in Call
    BY DEF Mark, IInv, Pointwise, TypeOK
  <1>cx. /\ call'[t].pc = "submit" /\ call'[t].work = call[t].work /\ call'[t].dest = call[t].dest
         /\ call'[t].async = call[t].async /\ call'[t].op = call[t].op
    BY <1>bx DEF Call
  <1>dx. closing' = [closing EXCEPT ![call[t].dest] = TRUE] /\ closing \in [Destination -> BOOLEAN]
    BY DEF Mark, IInv, Pointwise, TypeOK
  <1>ex. UNCHANGED <<alive, life, issued, op, obj, closed>>
    BY DEF Mark
  <1>c. ASSUME NEW u \in Thread PROVE CallOK(u)'
    <2>1. CallOK(u) /\ CallOK(t)
      BY DEF IInv, Pointwise
    <2>2. CASE u = t
      BY <2>1, <2>2, <1>ax, <1>bx, <1>cx, <1>dx, <1>ex, ConstantsAssumption DEF CallOK, Ops
    <2>3. CASE u # t
      BY <2>1, <2>3, <1>ax, <1>bx, <1>cx, <1>dx, <1>ex, ConstantsAssumption DEF CallOK, Ops
    <2>4. QED
      BY <2>2, <2>3
  <1>a. ASSUME NEW u \in Thread, NEW v \in Thread PROVE Alone(u, v)'
    <2>1. Alone(u, v) /\ CallOK(u) /\ CallOK(v)
      BY DEF IInv, Pointwise
    <2>2. CASE u = t
      BY <2>1, <2>2, <1>ax, <1>bx, <1>cx, <1>dx, <1>ex, ConstantsAssumption DEF Alone,
         CallOK, Ops
    <2>3. CASE v = t /\ u # t
      BY <2>1, <2>3, <1>ax, <1>bx, <1>cx, <1>dx, <1>ex, ConstantsAssumption DEF Alone,
         CallOK, Ops
    <2>4. CASE u # t /\ v # t
      BY <2>1, <2>4, <1>ax, <1>bx, <1>cx, <1>dx, <1>ex, ConstantsAssumption DEF Alone,
         CallOK, Ops
    <2>5. QED
      BY <2>2, <2>3, <2>4
  <1>o. ASSUME NEW p \in Ops PROVE OpOK(p)'
    <2>1. OpOK(p) /\ CallOK(t)
      BY DEF IInv, Pointwise
    <2>2. QED
      BY <2>1, <1>ax, <1>bx, <1>cx, <1>dx, <1>ex, ConstantsAssumption DEF OpOK, CallOK, Ops
  <1>u. ASSUME NEW p \in Ops, NEW q \in Ops PROVE CreatedOnce(p, q)'
    <2>1. CreatedOnce(p, q) /\ OpOK(p) /\ OpOK(q) /\ CallOK(t)
      BY DEF IInv, Pointwise
    <2>2. QED
      BY <2>1, <1>ax, <1>bx, <1>cx, <1>dx, <1>ex, ConstantsAssumption DEF CreatedOnce,
         CallOK, OpOK, Ops
  <1>d. ASSUME NEW e \in Destination PROVE DestOK(e)'
    <2>1. DestOK(e) /\ CallOK(t)
      BY DEF IInv, Pointwise
    <2>2. CASE e = call[t].dest
      <3>1. Marked(e)'
        BY <2>1, <2>2, <1>bx, <1>cx DEF Marked, CallOK
      <3>2. QED
        BY <2>1, <3>1, <1>ex DEF DestOK, Over, Unanswered
    <2>3. CASE e # call[t].dest
      BY <2>1, <2>3, <1>ax, <1>bx, <1>cx, <1>dx, <1>ex DEF DestOK, Over, Marked, Unanswered
    <2>4. QED
      BY <2>2, <2>3
  <1>q. QED
    BY <1>c, <1>a, <1>o, <1>u, <1>d DEF Pointwise

LEMMA RefuseStep ==
  ASSUME IInv, TypeOK', NEW t \in Thread, Refuse(t)
  PROVE  Pointwise'
  <1>ax. \A u \in Thread : u # t => call'[u] = call[u]
    BY DEF Refuse, IInv, Pointwise, TypeOK
  <1>bx. call'[t].pc = "idle" /\ call'[t].op = 0 /\ call'[t].dest = None /\ call'[t].work = "none"
    BY DEF Refuse, IInv, Pointwise, TypeOK, Idle
  <1>cx. call[t].pc = "submit"
    BY DEF Refuse
  <1>dx. closing' = IF call[t].work = "destroy" /\ ~call[t].async THEN [closing EXCEPT ![call[t].dest] = FALSE] ELSE closing
    BY DEF Refuse, MarksFirst
  <1>ex. closing \in [Destination -> BOOLEAN]
    BY DEF IInv, Pointwise, TypeOK
  <1>fx. UNCHANGED <<alive, life, issued, op, obj, closed>>
    BY DEF Refuse
  <1>c. ASSUME NEW u \in Thread PROVE CallOK(u)'
    <2>1. CallOK(u) /\ CallOK(t)
      BY DEF IInv, Pointwise
    <2>2. CASE u = t
      BY <2>1, <2>2, <1>ax, <1>bx, <1>cx, <1>dx, <1>ex, <1>fx,
         ConstantsAssumption DEF CallOK, Ops
    <2>3. CASE u # t
      BY <2>1, <2>3, <1>ax, <1>bx, <1>cx, <1>dx, <1>ex, <1>fx,
         ConstantsAssumption DEF CallOK, Ops
    <2>4. QED
      BY <2>2, <2>3
  <1>a. ASSUME NEW u \in Thread, NEW v \in Thread PROVE Alone(u, v)'
    <2>1. Alone(u, v) /\ CallOK(u) /\ CallOK(v)
      BY DEF IInv, Pointwise
    <2>2. CASE u = t
      BY <2>1, <2>2, <1>ax, <1>bx, <1>cx, <1>dx, <1>ex, <1>fx, ConstantsAssumption DEF Alone,
         CallOK, Ops
    <2>3. CASE v = t /\ u # t
      BY <2>1, <2>3, <1>ax, <1>bx, <1>cx, <1>dx, <1>ex, <1>fx, ConstantsAssumption DEF Alone,
         CallOK, Ops
    <2>4. CASE u # t /\ v # t
      BY <2>1, <2>4, <1>ax, <1>bx, <1>cx, <1>dx, <1>ex, <1>fx, ConstantsAssumption DEF Alone,
         CallOK, Ops
    <2>5. QED
      BY <2>2, <2>3, <2>4
  <1>o. ASSUME NEW p \in Ops PROVE OpOK(p)'
    <2>1. OpOK(p) /\ CallOK(t)
      BY DEF IInv, Pointwise
    <2>2. QED
      BY <2>1, <1>ax, <1>bx, <1>cx, <1>dx, <1>ex, <1>fx, ConstantsAssumption DEF OpOK,
         CallOK, Ops
  <1>u. ASSUME NEW p \in Ops, NEW q \in Ops PROVE CreatedOnce(p, q)'
    <2>1. CreatedOnce(p, q) /\ OpOK(p) /\ OpOK(q) /\ CallOK(t)
      BY DEF IInv, Pointwise
    <2>2. QED
      BY <2>1, <1>ax, <1>bx, <1>cx, <1>dx, <1>ex, <1>fx, ConstantsAssumption DEF CreatedOnce,
         CallOK, OpOK, Ops
  <1>d. ASSUME NEW e \in Destination PROVE DestOK(e)'
    <2>1. DestOK(e) /\ CallOK(t)
      BY DEF IInv, Pointwise
    <2>2. QED
      BY <2>1, <1>ax, <1>bx, <1>cx, <1>dx, <1>ex, <1>fx, ConstantsAssumption DEF DestOK,
         Over, Marked, Unanswered, CallOK, Ops
  <1>q. QED
    BY <1>c, <1>a, <1>o, <1>u, <1>d DEF Pointwise

LEMMA BookClosingStep ==
  ASSUME IInv, TypeOK', NEW t \in Thread, BookClosing(t)
  PROVE  Pointwise'
  <1>ax. \A u \in Thread : u # t => call'[u] = call[u]
    BY DEF BookClosing, IInv, Pointwise, TypeOK
  <1>bx. call'[t].pc = "idle" /\ call'[t].op = 0 /\ call'[t].dest = None /\ call'[t].work = "none"
    BY DEF BookClosing, IInv, Pointwise, TypeOK, Idle
  <1>cx. call[t].pc = "book" /\ closing' = [closing EXCEPT ![call[t].dest] = TRUE]
    BY DEF BookClosing
  <1>dx. UNCHANGED <<alive, life, issued, op, obj, closed>>
    BY DEF BookClosing
  <1>c. ASSUME NEW u \in Thread PROVE CallOK(u)'
    <2>1. CallOK(u) /\ CallOK(t)
      BY DEF IInv, Pointwise
    <2>2. CASE u = t
      BY <2>1, <2>2, <1>ax, <1>bx, <1>cx, <1>dx, ConstantsAssumption DEF CallOK, Ops
    <2>3. CASE u # t
      BY <2>1, <2>3, <1>ax, <1>bx, <1>cx, <1>dx, ConstantsAssumption DEF CallOK, Ops
    <2>4. QED
      BY <2>2, <2>3
  <1>a. ASSUME NEW u \in Thread, NEW v \in Thread PROVE Alone(u, v)'
    <2>1. Alone(u, v) /\ CallOK(u) /\ CallOK(v)
      BY DEF IInv, Pointwise
    <2>2. CASE u = t
      BY <2>1, <2>2, <1>ax, <1>bx, <1>cx, <1>dx, ConstantsAssumption DEF Alone, CallOK, Ops
    <2>3. CASE v = t /\ u # t
      BY <2>1, <2>3, <1>ax, <1>bx, <1>cx, <1>dx, ConstantsAssumption DEF Alone, CallOK, Ops
    <2>4. CASE u # t /\ v # t
      BY <2>1, <2>4, <1>ax, <1>bx, <1>cx, <1>dx, ConstantsAssumption DEF Alone, CallOK, Ops
    <2>5. QED
      BY <2>2, <2>3, <2>4
  <1>o. ASSUME NEW p \in Ops PROVE OpOK(p)'
    <2>1. OpOK(p) /\ CallOK(t)
      BY DEF IInv, Pointwise
    <2>2. QED
      BY <2>1, <1>ax, <1>bx, <1>cx, <1>dx, ConstantsAssumption DEF OpOK, CallOK, Ops
  <1>u. ASSUME NEW p \in Ops, NEW q \in Ops PROVE CreatedOnce(p, q)'
    <2>1. CreatedOnce(p, q) /\ OpOK(p) /\ OpOK(q) /\ CallOK(t)
      BY DEF IInv, Pointwise
    <2>2. QED
      BY <2>1, <1>ax, <1>bx, <1>cx, <1>dx, ConstantsAssumption DEF CreatedOnce, CallOK, OpOK,
         Ops
  <1>d. ASSUME NEW e \in Destination PROVE DestOK(e)'
    <2>1. DestOK(e) /\ CallOK(t)
      BY DEF IInv, Pointwise
    <2>2. QED
      BY <2>1, <1>ax, <1>bx, <1>cx, <1>dx, ConstantsAssumption DEF DestOK, Over, Marked,
         Unanswered, CallOK, Ops
  <1>q. QED
    BY <1>c, <1>a, <1>o, <1>u, <1>d DEF Pointwise

LEMMA BeginWaitStep ==
  ASSUME IInv, TypeOK', NEW t \in Thread, NEW o \in Ops, SharedWaits = FALSE, BeginWait(t, o)
  PROVE  Pointwise'
  <1>ax. \A u \in Thread : u # t => call'[u] = call[u] /\ call[u].op # o
    BY DEF BeginWait, IInv, Pointwise, TypeOK
  <1>bx. call'[t].pc = "wait" /\ call'[t].op = o /\ call'[t].dest = None /\ call'[t].work = "none"
    BY DEF BeginWait, IInv, Pointwise, TypeOK, Idle
  <1>cx. call[t].pc = "idle" /\ op[o].held = "live" /\ ~op[o].terminal
    BY DEF BeginWait
  <1>dx. UNCHANGED <<alive, life, issued, op, obj, closing, closed>>
    BY DEF BeginWait
  <1>c. ASSUME NEW u \in Thread PROVE CallOK(u)'
    <2>1. CallOK(u) /\ CallOK(t)
      BY DEF IInv, Pointwise
    <2>2. CASE u = t
      BY <2>1, <2>2, <1>ax, <1>bx, <1>cx, <1>dx, ConstantsAssumption DEF CallOK, Ops
    <2>3. CASE u # t
      BY <2>1, <2>3, <1>ax, <1>bx, <1>cx, <1>dx, ConstantsAssumption DEF CallOK, Ops
    <2>4. QED
      BY <2>2, <2>3
  <1>a. ASSUME NEW u \in Thread, NEW v \in Thread PROVE Alone(u, v)'
    <2>1. Alone(u, v) /\ CallOK(u) /\ CallOK(v)
      BY DEF IInv, Pointwise
    <2>2. CASE u = t
      BY <2>1, <2>2, <1>ax, <1>bx, <1>cx, <1>dx, ConstantsAssumption DEF Alone, CallOK, Ops
    <2>3. CASE v = t /\ u # t
      BY <2>1, <2>3, <1>ax, <1>bx, <1>cx, <1>dx, ConstantsAssumption DEF Alone, CallOK, Ops
    <2>4. CASE u # t /\ v # t
      BY <2>1, <2>4, <1>ax, <1>bx, <1>cx, <1>dx, ConstantsAssumption DEF Alone, CallOK, Ops
    <2>5. QED
      BY <2>2, <2>3, <2>4
  <1>o. ASSUME NEW p \in Ops PROVE OpOK(p)'
    <2>1. OpOK(p) /\ CallOK(t)
      BY DEF IInv, Pointwise
    <2>2. QED
      BY <2>1, <1>ax, <1>bx, <1>cx, <1>dx, ConstantsAssumption DEF OpOK, CallOK, Ops
  <1>u. ASSUME NEW p \in Ops, NEW q \in Ops PROVE CreatedOnce(p, q)'
    <2>1. CreatedOnce(p, q) /\ OpOK(p) /\ OpOK(q) /\ CallOK(t)
      BY DEF IInv, Pointwise
    <2>2. QED
      BY <2>1, <1>ax, <1>bx, <1>cx, <1>dx, ConstantsAssumption DEF CreatedOnce, CallOK, OpOK,
         Ops
  <1>d. ASSUME NEW e \in Destination PROVE DestOK(e)'
    <2>1. DestOK(e) /\ CallOK(t)
      BY DEF IInv, Pointwise
    <2>2. QED
      BY <2>1, <1>ax, <1>bx, <1>cx, <1>dx, ConstantsAssumption DEF DestOK, Over, Marked,
         Unanswered, CallOK, Ops
  <1>q. QED
    BY <1>c, <1>a, <1>o, <1>u, <1>d DEF Pointwise

LEMMA TimeOutStep ==
  ASSUME IInv, TypeOK', NEW t \in Thread, TimeOut(t)
  PROVE  Pointwise'
  <1>ax. \A u \in Thread : u # t => call'[u] = call[u]
    BY DEF TimeOut, IInv, Pointwise, TypeOK
  <1>bx. call'[t].pc = "idle" /\ call'[t].op = 0 /\ call'[t].dest = None /\ call'[t].work = "none"
    BY DEF TimeOut, IInv, Pointwise, TypeOK, Idle
  <1>cx. call[t].pc = "wait"
    BY DEF TimeOut
  <1>dx. UNCHANGED <<alive, life, issued, op, obj, closing, closed>>
    BY DEF TimeOut, AfterTimeout
  <1>c. ASSUME NEW u \in Thread PROVE CallOK(u)'
    <2>1. CallOK(u) /\ CallOK(t)
      BY DEF IInv, Pointwise
    <2>2. CASE u = t
      BY <2>1, <2>2, <1>ax, <1>bx, <1>cx, <1>dx, ConstantsAssumption DEF CallOK, Ops
    <2>3. CASE u # t
      BY <2>1, <2>3, <1>ax, <1>bx, <1>cx, <1>dx, ConstantsAssumption DEF CallOK, Ops
    <2>4. QED
      BY <2>2, <2>3
  <1>a. ASSUME NEW u \in Thread, NEW v \in Thread PROVE Alone(u, v)'
    <2>1. Alone(u, v) /\ CallOK(u) /\ CallOK(v)
      BY DEF IInv, Pointwise
    <2>2. CASE u = t
      BY <2>1, <2>2, <1>ax, <1>bx, <1>cx, <1>dx, ConstantsAssumption DEF Alone, CallOK, Ops
    <2>3. CASE v = t /\ u # t
      BY <2>1, <2>3, <1>ax, <1>bx, <1>cx, <1>dx, ConstantsAssumption DEF Alone, CallOK, Ops
    <2>4. CASE u # t /\ v # t
      BY <2>1, <2>4, <1>ax, <1>bx, <1>cx, <1>dx, ConstantsAssumption DEF Alone, CallOK, Ops
    <2>5. QED
      BY <2>2, <2>3, <2>4
  <1>o. ASSUME NEW p \in Ops PROVE OpOK(p)'
    <2>1. OpOK(p) /\ CallOK(t)
      BY DEF IInv, Pointwise
    <2>2. QED
      BY <2>1, <1>ax, <1>bx, <1>cx, <1>dx, ConstantsAssumption DEF OpOK, CallOK, Ops
  <1>u. ASSUME NEW p \in Ops, NEW q \in Ops PROVE CreatedOnce(p, q)'
    <2>1. CreatedOnce(p, q) /\ OpOK(p) /\ OpOK(q) /\ CallOK(t)
      BY DEF IInv, Pointwise
    <2>2. QED
      BY <2>1, <1>ax, <1>bx, <1>cx, <1>dx, ConstantsAssumption DEF CreatedOnce, CallOK, OpOK,
         Ops
  <1>d. ASSUME NEW e \in Destination PROVE DestOK(e)'
    <2>1. DestOK(e) /\ CallOK(t)
      BY DEF IInv, Pointwise
    <2>2. QED
      BY <2>1, <1>ax, <1>bx, <1>cx, <1>dx, ConstantsAssumption DEF DestOK, Over, Marked,
         Unanswered, CallOK, Ops
  <1>q. QED
    BY <1>c, <1>a, <1>o, <1>u, <1>d DEF Pointwise

LEMMA DropOperationStep ==
  ASSUME IInv, TypeOK', NEW o \in Ops, DropOperation(o)
  PROVE  Pointwise'
  <1>ax. \A t \in Thread : call[t].op # o
    BY DEF DropOperation
  <1>bx. op[o] \in Operation /\ op'[o] = [op[o] EXCEPT !.held = "dropped"] /\ op[o].held = "live"
    BY DEF DropOperation, IInv, Pointwise, TypeOK
  <1>cx. /\ op'[o].work = op[o].work /\ op'[o].dest = op[o].dest /\ op'[o].run = op[o].run
         /\ op'[o].stored = op[o].stored /\ op'[o].terminal = op[o].terminal /\ op'[o].held = "dropped"
    BY <1>bx DEF Operation
  <1>dx. \A p \in Ops : p # o => op'[p] = op[p]
    BY DEF DropOperation, IInv, Pointwise, TypeOK
  <1>ex. op[o].held = "live" /\ UNCHANGED <<alive, life, issued, obj, closing, closed, call>>
    BY DEF DropOperation
  <1>fx. \A p \in Ops : /\ op'[p].work = op[p].work /\ op'[p].dest = op[p].dest
                        /\ op'[p].run = op[p].run /\ op'[p].terminal = op[p].terminal
                        /\ op'[p].held = "live" => op[p].held = "live"
    BY <1>cx, <1>dx, <1>ex
  <1>c. ASSUME NEW u \in Thread PROVE CallOK(u)'
    <2>1. CallOK(u)
      BY DEF IInv, Pointwise
    <2>2. QED
      BY <2>1, <1>ax, <1>bx, <1>cx, <1>dx, <1>ex, <1>fx, ConstantsAssumption DEF CallOK, Ops
  <1>a. ASSUME NEW u \in Thread, NEW v \in Thread PROVE Alone(u, v)'
    <2>1. Alone(u, v) /\ CallOK(u) /\ CallOK(v)
      BY DEF IInv, Pointwise
    <2>2. QED
      BY <2>1, <1>ax, <1>bx, <1>cx, <1>dx, <1>ex, <1>fx, ConstantsAssumption DEF Alone,
         CallOK, Ops
  <1>o. ASSUME NEW p \in Ops PROVE OpOK(p)'
    <2>1. OpOK(p)
      BY DEF IInv, Pointwise
    <2>2. CASE p = o
      BY <2>1, <2>2, <1>ax, <1>bx, <1>cx, <1>dx, <1>ex, <1>fx, ConstantsAssumption DEF OpOK,
         CallOK, Ops
    <2>3. CASE p # o
      BY <2>1, <2>3, <1>ax, <1>bx, <1>cx, <1>dx, <1>ex, <1>fx, ConstantsAssumption DEF OpOK,
         CallOK, Ops
    <2>4. QED
      BY <2>2, <2>3
  <1>u. ASSUME NEW p \in Ops, NEW q \in Ops PROVE CreatedOnce(p, q)'
    <2>1. CreatedOnce(p, q) /\ OpOK(p) /\ OpOK(q)
      BY DEF IInv, Pointwise
    <2>2. QED
      BY <2>1, <1>ax, <1>bx, <1>cx, <1>dx, <1>ex, <1>fx, ConstantsAssumption DEF CreatedOnce,
         CallOK, OpOK, Ops
  <1>d. ASSUME NEW e \in Destination PROVE DestOK(e)'
    <2>1. DestOK(e)
      BY DEF IInv, Pointwise
    <2>2. QED
      BY <2>1, <1>ax, <1>bx, <1>cx, <1>dx, <1>ex, <1>fx, ConstantsAssumption DEF DestOK,
         Over, Marked, Unanswered, CallOK, Ops
  <1>q. QED
    BY <1>c, <1>a, <1>o, <1>u, <1>d DEF Pointwise

LEMMA DropDestinationStep ==
  ASSUME IInv, TypeOK', NEW d \in Destination, DropDestination(d)
  PROVE  Pointwise'
  <1>ax. obj[d] = "live" /\ obj' = [obj EXCEPT ![d] = "dropped"]
    BY DEF DropDestination
  <1>bx. UNCHANGED <<alive, life, issued, op, closing, closed, call>>
    BY DEF DropDestination
  <1>c. ASSUME NEW u \in Thread PROVE CallOK(u)'
    <2>1. CallOK(u)
      BY DEF IInv, Pointwise
    <2>2. QED
      BY <2>1, <1>ax, <1>bx, ConstantsAssumption DEF CallOK, Ops
  <1>a. ASSUME NEW u \in Thread, NEW v \in Thread PROVE Alone(u, v)'
    <2>1. Alone(u, v) /\ CallOK(u) /\ CallOK(v)
      BY DEF IInv, Pointwise
    <2>2. QED
      BY <2>1, <1>ax, <1>bx, ConstantsAssumption DEF Alone, CallOK, Ops
  <1>o. ASSUME NEW p \in Ops PROVE OpOK(p)'
    <2>1. OpOK(p)
      BY DEF IInv, Pointwise
    <2>2. QED
      BY <2>1, <1>ax, <1>bx, ConstantsAssumption DEF OpOK, CallOK, Ops
  <1>u. ASSUME NEW p \in Ops, NEW q \in Ops PROVE CreatedOnce(p, q)'
    <2>1. CreatedOnce(p, q) /\ OpOK(p) /\ OpOK(q)
      BY DEF IInv, Pointwise
    <2>2. QED
      BY <2>1, <1>ax, <1>bx, ConstantsAssumption DEF CreatedOnce, CallOK, OpOK, Ops
  <1>d. ASSUME NEW e \in Destination PROVE DestOK(e)'
    <2>1. DestOK(e)
      BY DEF IInv, Pointwise
    <2>2. QED
      BY <2>1, <1>ax, <1>bx, ConstantsAssumption DEF DestOK, Over, Marked, Unanswered,
         CallOK, Ops
  <1>q. QED
    BY <1>c, <1>a, <1>o, <1>u, <1>d DEF Pointwise

LEMMA DestroyStageStep ==
  ASSUME IInv, TypeOK', DestroyStage
  PROVE  Pointwise'
  <1>ax. alive' = FALSE /\ UNCHANGED <<life, issued, op, obj, closing, closed, call>>
    BY DEF DestroyStage
  <1>c. ASSUME NEW u \in Thread PROVE CallOK(u)'
    <2>1. CallOK(u)
      BY DEF IInv, Pointwise
    <2>2. QED
      BY <2>1, <1>ax, ConstantsAssumption DEF CallOK, Ops
  <1>a. ASSUME NEW u \in Thread, NEW v \in Thread PROVE Alone(u, v)'
    <2>1. Alone(u, v) /\ CallOK(u) /\ CallOK(v)
      BY DEF IInv, Pointwise
    <2>2. QED
      BY <2>1, <1>ax, ConstantsAssumption DEF Alone, CallOK, Ops
  <1>o. ASSUME NEW p \in Ops PROVE OpOK(p)'
    <2>1. OpOK(p)
      BY DEF IInv, Pointwise
    <2>2. QED
      BY <2>1, <1>ax, ConstantsAssumption DEF OpOK, CallOK, Ops
  <1>u. ASSUME NEW p \in Ops, NEW q \in Ops PROVE CreatedOnce(p, q)'
    <2>1. CreatedOnce(p, q) /\ OpOK(p) /\ OpOK(q)
      BY DEF IInv, Pointwise
    <2>2. QED
      BY <2>1, <1>ax, ConstantsAssumption DEF CreatedOnce, CallOK, OpOK, Ops
  <1>d. ASSUME NEW e \in Destination PROVE DestOK(e)'
    <2>1. DestOK(e)
      BY DEF IInv, Pointwise
    <2>2. QED
      BY <2>1, <1>ax, ConstantsAssumption DEF DestOK, Over, Marked, Unanswered, CallOK, Ops
  <1>q. QED
    BY <1>c, <1>a, <1>o, <1>u, <1>d DEF Pointwise

LEMMA ConsumeStep ==
  ASSUME IInv, TypeOK', NEW t \in Thread, Consume(t)
  PROVE  Pointwise'
  <1>ax. call[t] \in Call /\ call[t].pc = "wait"
    BY DEF Consume, IInv, Pointwise, TypeOK
  <1>bx. call[t].op \in Ops
    BY <1>ax DEF IInv, Pointwise, CallOK
  <1>cx. \A u \in Thread : u # t => call'[u] = call[u] /\ call[u].op # call[t].op
    BY <1>bx DEF Consume, IInv, Pointwise, TypeOK, Alone, Ops
  <1>dx. op[call[t].op] \in Operation
    BY <1>bx DEF IInv, Pointwise, TypeOK
  <1>ex. call'[t] = [call[t] EXCEPT !.pc = "finish", !.answer = Answer(call[t].op)]
    BY <1>ax DEF Consume, IInv, Pointwise, TypeOK
  <1>fx. /\ call'[t].pc = "finish" /\ call'[t].op = call[t].op /\ call'[t].dest = call[t].dest
         /\ call'[t].answer = Answer(call[t].op)
    BY <1>ax, <1>ex DEF Call
  <1>gx. op' = [op EXCEPT ![call[t].op] = [op[call[t].op] EXCEPT !.stored = FALSE]]
    BY DEF Consume
  <1>hx. \A p \in Ops : p # call[t].op => op'[p] = op[p]
    BY <1>gx DEF IInv, Pointwise, TypeOK
  <1>ix. /\ op'[call[t].op].work = op[call[t].op].work /\ op'[call[t].op].dest = op[call[t].op].dest
         /\ op'[call[t].op].run = op[call[t].op].run /\ ~op'[call[t].op].stored
         /\ op'[call[t].op].terminal = op[call[t].op].terminal /\ op'[call[t].op].held = op[call[t].op].held
    BY <1>bx, <1>dx, <1>gx DEF IInv, Pointwise, TypeOK, Operation
  <1>jx. (alive => op[call[t].op].run # "pending") /\ UNCHANGED <<alive, life, issued, obj, closing, closed>>
    BY DEF Consume
  <1>kx. op[call[t].op].stored /\ op[call[t].op].run # "unborn"
    <2>1. /\ op[call[t].op].held = "live" /\ ~op[call[t].op].terminal
      BY <1>ax DEF IInv, Pointwise, CallOK
    <2>2. op[call[t].op].work # "none"
      BY <2>1, <1>bx DEF IInv, Pointwise, OpOK
    <2>3. ~ \E u \in Thread : call[u].pc = "finish" /\ call[u].op = call[t].op
      BY <1>ax, <1>cx
    <2>4. QED
      BY <2>1, <2>2, <2>3, <1>bx DEF IInv, Pointwise, OpOK
  <1>lx. /\ call'[t].answer = "ok" => op'[call[t].op].run = "ok"
         /\ alive' /\ call'[t].answer # "ok" => op'[call[t].op].run = "failed"
    BY <1>dx, <1>fx, <1>ix, <1>jx, <1>kx DEF Answer, Operation
  <1>c. ASSUME NEW u \in Thread PROVE CallOK(u)'
    <2>1. CallOK(u) /\ CallOK(t)
      BY DEF IInv, Pointwise
    <2>2. CASE u = t
      BY <2>1, <2>2, <1>ax, <1>bx, <1>cx, <1>dx, <1>ex, <1>fx, <1>gx, <1>hx, <1>ix, <1>jx,
         <1>kx, <1>lx, ConstantsAssumption DEF CallOK, Ops
    <2>3. CASE u # t
      BY <2>1, <2>3, <1>ax, <1>bx, <1>cx, <1>dx, <1>ex, <1>fx, <1>gx, <1>hx, <1>ix, <1>jx,
         <1>kx, <1>lx, ConstantsAssumption, SMTT(30) DEF CallOK, Ops
    <2>4. QED
      BY <2>2, <2>3
  <1>a. ASSUME NEW u \in Thread, NEW v \in Thread PROVE Alone(u, v)'
    <2>1. Alone(u, v) /\ CallOK(u) /\ CallOK(v)
      BY DEF IInv, Pointwise
    <2>2. CASE u = t
      BY <2>1, <2>2, <1>ax, <1>bx, <1>cx, <1>dx, <1>ex, <1>fx, <1>gx, <1>hx, <1>ix, <1>jx,
         <1>kx, <1>lx, ConstantsAssumption DEF Alone, CallOK, Ops
    <2>3. CASE v = t /\ u # t
      BY <2>1, <2>3, <1>ax, <1>bx, <1>cx, <1>dx, <1>ex, <1>fx, <1>gx, <1>hx, <1>ix, <1>jx,
         <1>kx, <1>lx, ConstantsAssumption DEF Alone, CallOK, Ops
    <2>4. CASE u # t /\ v # t
      BY <2>1, <2>4, <1>ax, <1>bx, <1>cx, <1>dx, <1>ex, <1>fx, <1>gx, <1>hx, <1>ix, <1>jx,
         <1>kx, <1>lx, ConstantsAssumption DEF Alone, CallOK, Ops
    <2>5. QED
      BY <2>2, <2>3, <2>4
  <1>o. ASSUME NEW p \in Ops PROVE OpOK(p)'
    <2>1. OpOK(p) /\ CallOK(t)
      BY DEF IInv, Pointwise
    <2>2. CASE p = call[t].op
      BY <2>1, <2>2, <1>ax, <1>bx, <1>fx, <1>ix, <1>jx, SMTT(30) DEF OpOK, CallOK
    <2>3. CASE p # call[t].op
      BY <2>1, <2>3, <1>ax, <1>bx, <1>cx, <1>fx, <1>hx, <1>jx DEF OpOK, CallOK
    <2>4. QED
      BY <2>2, <2>3
  <1>u. ASSUME NEW p \in Ops, NEW q \in Ops PROVE CreatedOnce(p, q)'
    <2>1. CreatedOnce(p, q) /\ OpOK(p) /\ OpOK(q) /\ CallOK(t)
      BY DEF IInv, Pointwise
    <2>2. QED
      BY <2>1, <1>ax, <1>bx, <1>cx, <1>dx, <1>ex, <1>fx, <1>gx, <1>hx, <1>ix, <1>jx, <1>kx,
         <1>lx, ConstantsAssumption, SMTT(30) DEF CreatedOnce, CallOK, OpOK, Ops
  <1>d. ASSUME NEW e \in Destination PROVE DestOK(e)'
    <2>1. DestOK(e) /\ CallOK(t)
      BY DEF IInv, Pointwise
    <2>2. QED
      BY <2>1, <1>ax, <1>bx, <1>cx, <1>dx, <1>ex, <1>fx, <1>gx, <1>hx, <1>ix, <1>jx, <1>kx,
         <1>lx, ConstantsAssumption, SMTT(30) DEF DestOK, Over, Marked, Unanswered, CallOK, Ops
  <1>q. QED
    BY <1>c, <1>a, <1>o, <1>u, <1>d DEF Pointwise

LEMMA Fresh ==
  ASSUME IInv, issued < MaxOps
  PROVE  \E n \in Ops : /\ n = issued + 1 /\ op[n].work = "none" /\ op[n].held = "never"
                        /\ \A u \in Thread : call[u].op # n
                        /\ \A w, d, h :
                             /\ \A p \in Ops : p # n => Accepted(w, d, h)[p] = op[p]
                             /\ Accepted(w, d, h)[n] =
                                  [work |-> w, dest |-> d, run |-> "pending", stored |-> TRUE,
                                   held |-> h, terminal |-> FALSE]
  <1>1. PICK n \in Ops : n = issued + 1 /\ n > issued
    BY ConstantsAssumption DEF IInv, Pointwise, TypeOK, Ops
  <1>2. op[n].work = "none" /\ op[n].held = "never"
    BY <1>1 DEF IInv, Pointwise, TypeOK, OpOK
  <1>3. ASSUME NEW u \in Thread PROVE call[u].op # n
    <2>1. CallOK(u) /\ call[u] \in Call
      BY DEF IInv, Pointwise, TypeOK
    <2>2. CASE call[u].pc \in {"idle", "mark", "submit"}
      BY <2>1, <2>2 DEF CallOK, Ops
    <2>3. CASE call[u].pc \in {"book", "blocked", "wait", "finish"} /\ call[u].op = n
      BY <2>1, <2>3, <1>2 DEF CallOK
    <2>4. QED
      BY <2>1, <2>2, <2>3 DEF Call
  <1>4. QED
    BY <1>1, <1>2, <1>3 DEF Accepted, IInv, Pointwise, TypeOK

LEMMA ExportOnceStep ==
  ASSUME IInv, TypeOK', ExportOnce
  PROVE  Pointwise'
  <1>ax. PICK n \in Ops : /\ n = issued + 1 /\ op[n].work = "none" /\ op[n].held = "never"
                          /\ \A u \in Thread : call[u].op # n
                          /\ \A p \in Ops : p # n => op'[p] = op[p]
                          /\ op'[n] = [work |-> "export", dest |-> None, run |-> "pending", stored |-> TRUE,
                                       held |-> "live", terminal |-> FALSE]
    BY Fresh DEF ExportOnce
  <1>bx. /\ op'[n].work = "export" /\ op'[n].dest = None /\ op'[n].run = "pending"
         /\ op'[n].held = "live"
    BY <1>ax
  <1>cx. op'[n].stored = TRUE /\ op'[n].terminal = FALSE
    BY <1>ax
  <1>dx. UNCHANGED <<alive, life, obj, closing, closed, call>>
    BY DEF ExportOnce
  <1>c. ASSUME NEW u \in Thread PROVE CallOK(u)'
    <2>1. CallOK(u)
      BY DEF IInv, Pointwise
    <2>2. QED
      BY <2>1, <1>ax, <1>bx, <1>cx, <1>dx, ConstantsAssumption DEF CallOK, Ops
  <1>a. ASSUME NEW u \in Thread, NEW v \in Thread PROVE Alone(u, v)'
    <2>1. Alone(u, v) /\ CallOK(u) /\ CallOK(v)
      BY DEF IInv, Pointwise
    <2>2. QED
      BY <2>1, <1>ax, <1>bx, <1>cx, <1>dx, ConstantsAssumption DEF Alone, CallOK, Ops
  <1>o. ASSUME NEW p \in Ops PROVE OpOK(p)'
    <2>1. OpOK(p)
      BY DEF IInv, Pointwise
    <2>2. CASE p = n
      BY <2>1, <2>2, <1>ax, <1>bx, <1>cx, <1>dx, ConstantsAssumption DEF OpOK, CallOK, Ops
    <2>3. CASE p # n
      BY <2>1, <2>3, <1>ax, <1>bx, <1>cx, <1>dx, ConstantsAssumption DEF OpOK, CallOK, Ops
    <2>4. QED
      BY <2>2, <2>3
  <1>u. ASSUME NEW p \in Ops, NEW q \in Ops PROVE CreatedOnce(p, q)'
    <2>1. CreatedOnce(p, q) /\ OpOK(p) /\ OpOK(q)
      BY DEF IInv, Pointwise
    <2>2. QED
      BY <2>1, <1>ax, <1>bx, <1>cx, <1>dx, ConstantsAssumption DEF CreatedOnce, CallOK, OpOK,
         Ops
  <1>d. ASSUME NEW e \in Destination PROVE DestOK(e)'
    <2>1. DestOK(e)
      BY DEF IInv, Pointwise
    <2>2. QED
      BY <2>1, <1>ax, <1>bx, <1>cx, <1>dx, ConstantsAssumption DEF DestOK, Over, Marked,
         Unanswered, CallOK, Ops
  <1>q. QED
    BY <1>c, <1>a, <1>o, <1>u, <1>d DEF Pointwise

LEMMA CreateStep ==
  ASSUME IInv, TypeOK', NEW t \in Thread, NEW d \in Destination, NEW async \in BOOLEAN,
  Create(t, d, async)
  PROVE  Pointwise'
  <1>ax. PICK n \in Ops : /\ n = issued + 1 /\ op[n].work = "none" /\ op[n].held = "never"
                          /\ \A u \in Thread : call[u].op # n
                          /\ \A p \in Ops : p # n => op'[p] = op[p]
                          /\ op'[n] = [work |-> "create", dest |-> d, run |-> "pending", stored |-> TRUE,
                                       held |-> (IF async THEN "live" ELSE "never"),
                                       terminal |-> FALSE]
    BY Fresh DEF Create
  <1>bx. /\ op'[n].work = "create" /\ op'[n].dest = d /\ op'[n].run = "pending"
         /\ op'[n].held = (IF async THEN "live" ELSE "never")
    BY <1>ax
  <1>cx. op'[n].stored = TRUE /\ op'[n].terminal = FALSE
    BY <1>ax
  <1>dx. \A u \in Thread : u # t => call'[u] = call[u]
    BY DEF Create, IInv, Pointwise, TypeOK
  <1>ex. async => call'[t] = call[t]
    BY DEF Create, IInv, Pointwise, TypeOK
  <1>fx. ~async => call'[t] = [Idle EXCEPT !.pc = "blocked", !.work = "create", !.dest = d, !.op = n]
    BY <1>ax DEF Create, IInv, Pointwise, TypeOK
  <1>gx. ~async => /\ call'[t].pc = "blocked" /\ call'[t].op = n /\ call'[t].dest = d
                   /\ call'[t].work = "create" /\ ~call'[t].async
    BY <1>fx DEF Idle
  <1>hx. call[t].pc = "idle" /\ life[d] = "unborn" /\ obj[d] = "unborn"
    BY DEF Create
  <1>ix. /\ life'[d] = "opening" /\ \A e \in Destination : e # d => life'[e] = life[e]
         /\ obj'[d] \in {"live", "unborn"} /\ \A e \in Destination : e # d => obj'[e] = obj[e]
         /\ ~async => obj' = obj
    BY DEF Create, IInv, Pointwise, TypeOK
  <1>jx. UNCHANGED <<alive, closing, closed>>
    BY DEF Create
  <1>kx. \A p \in Ops : ~(op[p].work = "create" /\ op[p].dest = d)
    BY <1>hx DEF IInv, Pointwise, OpOK, TypeOK, Operation
  <1>c. ASSUME NEW u \in Thread PROVE CallOK(u)'
    <2>1. CallOK(u) /\ CallOK(t)
      BY DEF IInv, Pointwise
    <2>2. CASE u = t
      BY <2>1, <2>2, <1>ax, <1>bx, <1>cx, <1>dx, <1>ex, <1>fx, <1>gx, <1>hx, <1>ix, <1>jx,
         <1>kx, ConstantsAssumption DEF CallOK, Ops
    <2>3. CASE u # t
      BY <2>1, <2>3, <1>ax, <1>bx, <1>cx, <1>dx, <1>ex, <1>fx, <1>gx, <1>hx, <1>ix, <1>jx,
         <1>kx, ConstantsAssumption DEF CallOK, Ops
    <2>4. QED
      BY <2>2, <2>3
  <1>a. ASSUME NEW u \in Thread, NEW v \in Thread PROVE Alone(u, v)'
    <2>1. Alone(u, v) /\ CallOK(u) /\ CallOK(v)
      BY DEF IInv, Pointwise
    <2>2. CASE u = t
      BY <2>1, <2>2, <1>ax, <1>bx, <1>cx, <1>dx, <1>ex, <1>fx, <1>gx, <1>hx, <1>ix, <1>jx,
         <1>kx, ConstantsAssumption DEF Alone, CallOK, Ops
    <2>3. CASE v = t /\ u # t
      BY <2>1, <2>3, <1>ax, <1>bx, <1>cx, <1>dx, <1>ex, <1>fx, <1>gx, <1>hx, <1>ix, <1>jx,
         <1>kx, ConstantsAssumption DEF Alone, CallOK, Ops
    <2>4. CASE u # t /\ v # t
      BY <2>1, <2>4, <1>ax, <1>bx, <1>cx, <1>dx, <1>ex, <1>fx, <1>gx, <1>hx, <1>ix, <1>jx,
         <1>kx, ConstantsAssumption DEF Alone, CallOK, Ops
    <2>5. QED
      BY <2>2, <2>3, <2>4
  <1>o. ASSUME NEW p \in Ops PROVE OpOK(p)'
    <2>1. OpOK(p) /\ CallOK(t)
      BY DEF IInv, Pointwise
    <2>2. CASE p = n
      BY <2>1, <2>2, <1>ax, <1>bx, <1>cx, <1>dx, <1>ex, <1>fx, <1>gx, <1>hx, <1>ix, <1>jx,
         <1>kx, ConstantsAssumption DEF OpOK, CallOK, Ops
    <2>3. CASE p # n
      BY <2>1, <2>3, <1>ax, <1>bx, <1>cx, <1>dx, <1>ex, <1>fx, <1>gx, <1>hx, <1>ix, <1>jx,
         <1>kx, ConstantsAssumption DEF OpOK, CallOK, Ops
    <2>4. QED
      BY <2>2, <2>3
  <1>u. ASSUME NEW p \in Ops, NEW q \in Ops PROVE CreatedOnce(p, q)'
    <2>1. CreatedOnce(p, q) /\ OpOK(p) /\ OpOK(q) /\ CallOK(t)
      BY DEF IInv, Pointwise
    <2>2. CASE p # n /\ q # n
      BY <2>1, <2>2, <1>ax, <1>bx, <1>cx, <1>dx, <1>ex, <1>fx, <1>gx, <1>hx, <1>ix, <1>jx,
         <1>kx, ConstantsAssumption DEF CreatedOnce, CallOK, OpOK, Ops
    <2>3. CASE p = n
      BY <2>1, <2>3, <1>ax, <1>bx, <1>cx, <1>dx, <1>ex, <1>fx, <1>gx, <1>hx, <1>ix, <1>jx,
         <1>kx, ConstantsAssumption DEF CreatedOnce, CallOK, OpOK, Ops
    <2>4. CASE q = n
      BY <2>1, <2>4, <1>ax, <1>bx, <1>cx, <1>dx, <1>ex, <1>fx, <1>gx, <1>hx, <1>ix, <1>jx,
         <1>kx, ConstantsAssumption DEF CreatedOnce, CallOK, OpOK, Ops
    <2>5. QED
      BY <2>2, <2>3, <2>4
  <1>d. ASSUME NEW e \in Destination PROVE DestOK(e)'
    <2>1. DestOK(e) /\ CallOK(t)
      BY DEF IInv, Pointwise
    <2>2. CASE e = d
      BY <2>1, <2>2, <1>ax, <1>bx, <1>cx, <1>dx, <1>ex, <1>fx, <1>gx, <1>hx, <1>ix, <1>jx,
         <1>kx, ConstantsAssumption DEF DestOK, Over, Marked, Unanswered, CallOK, Ops
    <2>3. CASE e # d
      BY <2>1, <2>3, <1>ax, <1>bx, <1>cx, <1>dx, <1>ex, <1>fx, <1>gx, <1>hx, <1>ix, <1>jx,
         <1>kx, ConstantsAssumption DEF DestOK, Over, Marked, Unanswered, CallOK, Ops
    <2>4. QED
      BY <2>2, <2>3
  <1>q. QED
    BY <1>c, <1>a, <1>o, <1>u, <1>d DEF Pointwise

LEMMA SubmitStep ==
  ASSUME IInv, TypeOK', NEW t \in Thread, Submit(t)
  PROVE  Pointwise'
  <1>ax. PICK n \in Ops : /\ n = issued + 1 /\ op[n].work = "none" /\ op[n].held = "never"
                          /\ \A u \in Thread : call[u].op # n
                          /\ \A p \in Ops : p # n => op'[p] = op[p]
                          /\ op'[n] = [work |-> call[t].work, dest |-> call[t].dest, run |-> "pending", stored |-> TRUE,
                                       held |-> (IF call[t].async THEN "live" ELSE "never"),
                                       terminal |-> FALSE]
    BY Fresh DEF Submit, Accepts
  <1>bx. /\ op'[n].work = call[t].work /\ op'[n].dest = call[t].dest /\ op'[n].run = "pending"
         /\ op'[n].held = (IF call[t].async THEN "live" ELSE "never")
    BY <1>ax
  <1>cx. op'[n].stored = TRUE /\ op'[n].terminal = FALSE
    BY <1>ax
  <1>dx. \A u \in Thread : u # t => call'[u] = call[u]
    BY DEF Submit, IInv, Pointwise, TypeOK
  <1>ex. call[t].pc = "submit" /\ call[t] \in Call
    BY DEF Submit, IInv, Pointwise, TypeOK
  <1>fx. ~call[t].async => call'[t] = [call[t] EXCEPT !.pc = "blocked", !.op = n]
    BY <1>ax DEF Submit, IInv, Pointwise, TypeOK
  <1>gx. call[t].async /\ call[t].work = "destroy" => call'[t] = [call[t] EXCEPT !.pc = "book", !.op = n]
    BY <1>ax DEF Submit, IInv, Pointwise, TypeOK
  <1>hx. call[t].async /\ call[t].work # "destroy" => call'[t] = Idle
    BY DEF Submit, IInv, Pointwise, TypeOK
  <1>ix. ~call[t].async =>
           /\ call'[t].pc = "blocked" /\ call'[t].op = n /\ ~call'[t].async
           /\ call'[t].work = call[t].work /\ call'[t].dest = call[t].dest
    BY <1>ex, <1>fx DEF Call
  <1>jx. call[t].async /\ call[t].work = "destroy" =>
           /\ call'[t].pc = "book" /\ call'[t].op = n
           /\ call'[t].work = call[t].work /\ call'[t].dest = call[t].dest
    BY <1>ex, <1>gx DEF Call
  <1>kx. call[t].async /\ call[t].work # "destroy" =>
           call'[t].pc = "idle" /\ call'[t].op = 0 /\ call'[t].dest = None
    BY <1>ex, <1>hx DEF Idle
  <1>lx. UNCHANGED <<alive, life, obj, closing, closed>>
    BY DEF Submit
  <1>c. ASSUME NEW u \in Thread PROVE CallOK(u)'
    <2>1. CallOK(u) /\ CallOK(t)
      BY DEF IInv, Pointwise
    <2>2. CASE u = t
      BY <2>1, <2>2, <1>ax, <1>bx, <1>cx, <1>dx, <1>ex, <1>fx, <1>gx, <1>hx, <1>ix, <1>jx,
         <1>kx, <1>lx, ConstantsAssumption DEF CallOK, Ops
    <2>3. CASE u # t
      BY <2>1, <2>3, <1>ax, <1>bx, <1>cx, <1>dx, <1>ex, <1>fx, <1>gx, <1>hx, <1>ix, <1>jx,
         <1>kx, <1>lx, ConstantsAssumption DEF CallOK, Ops
    <2>4. QED
      BY <2>2, <2>3
  <1>a. ASSUME NEW u \in Thread, NEW v \in Thread PROVE Alone(u, v)'
    <2>1. Alone(u, v) /\ CallOK(u) /\ CallOK(v)
      BY DEF IInv, Pointwise
    <2>2. CASE u = t
      BY <2>1, <2>2, <1>ax, <1>bx, <1>cx, <1>dx, <1>ex, <1>fx, <1>gx, <1>hx, <1>ix, <1>jx,
         <1>kx, <1>lx, ConstantsAssumption DEF Alone, CallOK, Ops
    <2>3. CASE v = t /\ u # t
      BY <2>1, <2>3, <1>ax, <1>bx, <1>cx, <1>dx, <1>ex, <1>fx, <1>gx, <1>hx, <1>ix, <1>jx,
         <1>kx, <1>lx, ConstantsAssumption DEF Alone, CallOK, Ops
    <2>4. CASE u # t /\ v # t
      BY <2>1, <2>4, <1>ax, <1>bx, <1>cx, <1>dx, <1>ex, <1>fx, <1>gx, <1>hx, <1>ix, <1>jx,
         <1>kx, <1>lx, ConstantsAssumption DEF Alone, CallOK, Ops
    <2>5. QED
      BY <2>2, <2>3, <2>4
  <1>o. ASSUME NEW p \in Ops PROVE OpOK(p)'
    <2>1. OpOK(p) /\ CallOK(t)
      BY DEF IInv, Pointwise
    <2>2. CASE p = n
      BY <2>1, <2>2, <1>ax, <1>bx, <1>cx, <1>dx, <1>ex, <1>fx, <1>gx, <1>hx, <1>ix, <1>jx,
         <1>kx, <1>lx, ConstantsAssumption DEF OpOK, CallOK, Ops
    <2>3. CASE p # n
      BY <2>1, <2>3, <1>ax, <1>bx, <1>cx, <1>dx, <1>ex, <1>fx, <1>gx, <1>hx, <1>ix, <1>jx,
         <1>kx, <1>lx, ConstantsAssumption DEF OpOK, CallOK, Ops
    <2>4. QED
      BY <2>2, <2>3
  <1>u. ASSUME NEW p \in Ops, NEW q \in Ops PROVE CreatedOnce(p, q)'
    <2>1. CreatedOnce(p, q) /\ OpOK(p) /\ OpOK(q) /\ CallOK(t)
      BY DEF IInv, Pointwise
    <2>2. CASE p # n /\ q # n
      BY <2>1, <2>2, <1>ax, <1>bx, <1>cx, <1>dx, <1>ex, <1>fx, <1>gx, <1>hx, <1>ix, <1>jx,
         <1>kx, <1>lx, ConstantsAssumption DEF CreatedOnce, CallOK, OpOK, Ops
    <2>3. CASE p = n
      BY <2>1, <2>3, <1>ax, <1>bx, <1>cx, <1>dx, <1>ex, <1>fx, <1>gx, <1>hx, <1>ix, <1>jx,
         <1>kx, <1>lx, ConstantsAssumption DEF CreatedOnce, CallOK, OpOK, Ops
    <2>4. CASE q = n
      BY <2>1, <2>4, <1>ax, <1>bx, <1>cx, <1>dx, <1>ex, <1>fx, <1>gx, <1>hx, <1>ix, <1>jx,
         <1>kx, <1>lx, ConstantsAssumption DEF CreatedOnce, CallOK, OpOK, Ops
    <2>5. QED
      BY <2>2, <2>3, <2>4
  <1>d. ASSUME NEW e \in Destination PROVE DestOK(e)'
    <2>1. DestOK(e) /\ CallOK(t)
      BY DEF IInv, Pointwise
    <2>2. CASE e = call[t].dest
      BY <2>1, <2>2, <1>ax, <1>bx, <1>cx, <1>dx, <1>ex, <1>fx, <1>gx, <1>hx, <1>ix, <1>jx,
         <1>kx, <1>lx, ConstantsAssumption DEF DestOK, Over, Marked, Unanswered, CallOK, Ops
    <2>3. CASE e # call[t].dest
      BY <2>1, <2>3, <1>ax, <1>bx, <1>cx, <1>dx, <1>ex, <1>fx, <1>gx, <1>hx, <1>ix, <1>jx,
         <1>kx, <1>lx, ConstantsAssumption DEF DestOK, Over, Marked, Unanswered, CallOK, Ops
    <2>4. QED
      BY <2>2, <2>3
  <1>q. QED
    BY <1>c, <1>a, <1>o, <1>u, <1>d DEF Pointwise

LEMMA ReleaseNothingStep ==
  ASSUME IInv, TypeOK', NEW d \in Destination, Finalize(d), UNCHANGED <<issued, op, closing>>
  PROVE  Pointwise'
  <1>ax. \A u \in Thread : call[u].dest # d
    BY DEF Finalize, Unreferenced
  <1>bx. \A p \in Ops : ~(op[p].work \in {"create", "destroy"} /\ op[p].dest = d /\ op[p].held = "live")
    BY DEF Finalize, Unreferenced
  <1>cx. obj[d] = "dropped" /\ obj'[d] \in {"gone", "leaked"} /\ \A e \in Destination : e # d => obj'[e] = obj[e]
    BY DEF Finalize, IInv, Pointwise, TypeOK
  <1>dx. alive /\ obj'[d] = "gone" => Over(d) \/ Unanswered(d)
    <2>1. SUFFICES ASSUME alive, obj'[d] = "gone", ~Over(d) PROVE Unanswered(d)
      OBVIOUS
    <2>2. DestOK(d)
      BY DEF IInv, Pointwise
    <2>3. NothingToRelease(d) \/ ~Accepts(d)
      BY <1>cx, <2>1, ConstantsAssumption DEF Finalize, IInv, Pointwise, TypeOK
    <2>4. CASE NothingToRelease(d)
      BY <2>1, <2>2, <2>4, <1>ax DEF NothingToRelease, DestOK, Marked
    <2>5. CASE ~Accepts(d)
      <3>1. life[d] \in {"opening", "open"}
        BY <1>cx, <2>1, <2>2 DEF DestOK, Over, IInv, Pointwise, TypeOK
      <3>2. PICK o \in Ops : op[o].work = "destroy" /\ op[o].dest = d /\ op[o].run = "pending"
        BY <2>1, <2>5, <3>1 DEF Accepts, Finalize
      <3>3. OpOK(o)
        BY DEF IInv, Pointwise
      <3>4. QED
        BY <2>1, <3>2, <3>3 DEF OpOK, Unanswered
    <2>6. QED
      BY <2>3, <2>4, <2>5
  <1>ex. UNCHANGED <<alive, life, issued, op, closing, closed, call>>
    BY DEF Finalize
  <1>c. ASSUME NEW u \in Thread PROVE CallOK(u)'
    <2>1. CallOK(u)
      BY DEF IInv, Pointwise
    <2>2. QED
      BY <2>1, <1>ax, <1>bx, <1>cx, <1>dx, <1>ex, ConstantsAssumption DEF CallOK, Ops
  <1>a. ASSUME NEW u \in Thread, NEW v \in Thread PROVE Alone(u, v)'
    <2>1. Alone(u, v) /\ CallOK(u) /\ CallOK(v)
      BY DEF IInv, Pointwise
    <2>2. QED
      BY <2>1, <1>ax, <1>bx, <1>cx, <1>dx, <1>ex, ConstantsAssumption DEF Alone, CallOK, Ops
  <1>o. ASSUME NEW p \in Ops PROVE OpOK(p)'
    <2>1. OpOK(p)
      BY DEF IInv, Pointwise
    <2>2. QED
      BY <2>1, <1>ax, <1>bx, <1>cx, <1>dx, <1>ex, ConstantsAssumption DEF OpOK, CallOK, Ops
  <1>u. ASSUME NEW p \in Ops, NEW q \in Ops PROVE CreatedOnce(p, q)'
    <2>1. CreatedOnce(p, q) /\ OpOK(p) /\ OpOK(q)
      BY DEF IInv, Pointwise
    <2>2. QED
      BY <2>1, <1>ax, <1>bx, <1>cx, <1>dx, <1>ex, ConstantsAssumption DEF CreatedOnce,
         CallOK, OpOK, Ops
  <1>d. ASSUME NEW e \in Destination PROVE DestOK(e)'
    <2>1. DestOK(e)
      BY DEF IInv, Pointwise
    <2>2. CASE e = d
      BY <2>1, <2>2, <1>ax, <1>bx, <1>cx, <1>dx, <1>ex, ConstantsAssumption DEF DestOK, Over,
         Marked, Unanswered, CallOK, Ops
    <2>3. CASE e # d
      BY <2>1, <2>3, <1>ax, <1>bx, <1>cx, <1>dx, <1>ex, ConstantsAssumption DEF DestOK, Over,
         Marked, Unanswered, CallOK, Ops
    <2>4. QED
      BY <2>2, <2>3
  <1>q. QED
    BY <1>c, <1>a, <1>o, <1>u, <1>d DEF Pointwise

LEMMA ReleaseStep ==
  ASSUME IInv, TypeOK', NEW d \in Destination, Finalize(d), alive, issued' = issued + 1,
  op' = Accepted("destroy", d, "never")
  PROVE  Pointwise'
  <1>ax. PICK n \in Ops : /\ n = issued + 1 /\ op[n].work = "none" /\ op[n].held = "never"
                          /\ \A u \in Thread : call[u].op # n
                          /\ \A p \in Ops : p # n => op'[p] = op[p]
                          /\ op'[n] = [work |-> "destroy", dest |-> d, run |-> "pending", stored |-> TRUE,
                                       held |-> "never", terminal |-> FALSE]
    BY Fresh DEF Finalize
  <1>bx. /\ op'[n].work = "destroy" /\ op'[n].dest = d /\ op'[n].run = "pending"
         /\ op'[n].held = "never"
    BY <1>ax
  <1>cx. op'[n].stored = TRUE /\ op'[n].terminal = FALSE
    BY <1>ax
  <1>dx. \A u \in Thread : call[u].dest # d
    BY DEF Finalize, Unreferenced
  <1>ex. \A p \in Ops : ~(op[p].work \in {"create", "destroy"} /\ op[p].dest = d /\ op[p].held = "live")
    BY DEF Finalize, Unreferenced
  <1>fx. obj[d] = "dropped" /\ obj'[d] = "gone" /\ \A e \in Destination : e # d => obj'[e] = obj[e]
    BY ConstantsAssumption DEF Finalize, IInv, Pointwise, TypeOK
  <1>gx. closing'[d] = TRUE /\ \A e \in Destination : e # d => closing'[e] = closing[e]
    BY ConstantsAssumption DEF Finalize, IInv, Pointwise, TypeOK
  <1>hx. UNCHANGED <<alive, life, closed, call>>
    BY DEF Finalize
  <1>c. ASSUME NEW u \in Thread PROVE CallOK(u)'
    <2>1. CallOK(u)
      BY DEF IInv, Pointwise
    <2>2. QED
      BY <2>1, <1>ax, <1>bx, <1>cx, <1>dx, <1>ex, <1>fx, <1>gx, <1>hx,
         ConstantsAssumption DEF CallOK, Ops
  <1>a. ASSUME NEW u \in Thread, NEW v \in Thread PROVE Alone(u, v)'
    <2>1. Alone(u, v) /\ CallOK(u) /\ CallOK(v)
      BY DEF IInv, Pointwise
    <2>2. QED
      BY <2>1, <1>ax, <1>bx, <1>cx, <1>dx, <1>ex, <1>fx, <1>gx, <1>hx,
         ConstantsAssumption DEF Alone, CallOK, Ops
  <1>o. ASSUME NEW p \in Ops PROVE OpOK(p)'
    <2>1. OpOK(p)
      BY DEF IInv, Pointwise
    <2>2. CASE p = n
      BY <2>1, <2>2, <1>ax, <1>bx, <1>cx, <1>dx, <1>ex, <1>fx, <1>gx, <1>hx,
         ConstantsAssumption DEF OpOK, CallOK, Ops
    <2>3. CASE p # n
      BY <2>1, <2>3, <1>ax, <1>bx, <1>cx, <1>dx, <1>ex, <1>fx, <1>gx, <1>hx,
         ConstantsAssumption DEF OpOK, CallOK, Ops
    <2>4. QED
      BY <2>2, <2>3
  <1>u. ASSUME NEW p \in Ops, NEW q \in Ops PROVE CreatedOnce(p, q)'
    <2>1. CreatedOnce(p, q) /\ OpOK(p) /\ OpOK(q)
      BY DEF IInv, Pointwise
    <2>2. QED
      BY <2>1, <1>ax, <1>bx, <1>cx, <1>dx, <1>ex, <1>fx, <1>gx, <1>hx,
         ConstantsAssumption DEF CreatedOnce, CallOK, OpOK, Ops
  <1>d. ASSUME NEW e \in Destination PROVE DestOK(e)'
    <2>1. DestOK(e)
      BY DEF IInv, Pointwise
    <2>2. CASE e = d
      BY <2>1, <2>2, <1>ax, <1>bx, <1>cx, <1>dx, <1>ex, <1>fx, <1>gx, <1>hx,
         ConstantsAssumption DEF DestOK, Over, Marked, Unanswered, CallOK, Ops
    <2>3. CASE e # d
      BY <2>1, <2>3, <1>ax, <1>bx, <1>cx, <1>dx, <1>ex, <1>fx, <1>gx, <1>hx,
         ConstantsAssumption DEF DestOK, Over, Marked, Unanswered, CallOK, Ops
    <2>4. QED
      BY <2>2, <2>3
  <1>q. QED
    BY <1>c, <1>a, <1>o, <1>u, <1>d DEF Pointwise

LEMMA ExecuteStep ==
  ASSUME IInv, TypeOK', NEW o \in Ops, Execute(o)
  PROVE  Pointwise'
  <1>ax. PICK r \in Outcomes(o) : /\ op' = [op EXCEPT ![o].run = r]
                              /\ life' = [d \in Destination |-> IF d = op[o].dest THEN After(op[o].work, r, life[d]) ELSE life[d]]
    BY DEF Execute
  <1>bx. /\ r \in {"ok", "failed"} /\ op[o].run = "pending"
         /\ r = "ok" /\ op[o].work = "destroy" /\ op[o].dest \in Destination => life[op[o].dest] = "open"
    BY ConstantsAssumption DEF Execute, Outcomes
  <1>cx. op[o] \in Operation /\ op'[o] = [op[o] EXCEPT !.run = r]
    BY <1>ax DEF IInv, Pointwise, TypeOK
  <1>dx. /\ op'[o].work = op[o].work /\ op'[o].dest = op[o].dest /\ op'[o].held = op[o].held
         /\ op'[o].stored = op[o].stored /\ op'[o].terminal = op[o].terminal /\ op'[o].run = r
    BY <1>cx DEF Operation
  <1>ex. \A p \in Ops : p # o => op'[p] = op[p]
    BY <1>ax DEF IInv, Pointwise, TypeOK
  <1>fx. \A p \in Ops : /\ op'[p].work = op[p].work /\ op'[p].dest = op[p].dest /\ op'[p].held = op[p].held
                        /\ op'[p].stored = op[p].stored /\ op'[p].terminal = op[p].terminal
                        /\ op[p].run # "pending" => op'[p].run = op[p].run
    BY <1>bx, <1>dx, <1>ex
  <1>gx. UNCHANGED <<alive, issued, obj, closing, closed, call>>
    BY DEF Execute
  <1>c. ASSUME NEW u \in Thread PROVE CallOK(u)'
    <2>1. CallOK(u)
      BY DEF IInv, Pointwise
    <2>2. QED
      BY <2>1, <1>ax, <1>bx, <1>cx, <1>dx, <1>ex, <1>fx, <1>gx,
         ConstantsAssumption DEF CallOK, Ops
  <1>a. ASSUME NEW u \in Thread, NEW v \in Thread PROVE Alone(u, v)'
    <2>1. Alone(u, v) /\ CallOK(u) /\ CallOK(v)
      BY DEF IInv, Pointwise
    <2>2. QED
      BY <2>1, <1>ax, <1>bx, <1>cx, <1>dx, <1>ex, <1>fx, <1>gx,
         ConstantsAssumption DEF Alone, CallOK, Ops
  <1>o. ASSUME NEW p \in Ops PROVE OpOK(p)'
    <2>1. OpOK(p) /\ OpOK(o) /\ CreatedOnce(o, p) /\ op[p] \in Operation
      BY DEF IInv, Pointwise, TypeOK
    <2>2. CASE p = o
      <3>1. op[o].dest \in Destination =>
              life'[op[o].dest] = After(op[o].work, r, life[op[o].dest])
        BY <1>ax
      <3>2. CASE op[o].work = "create"
        BY <2>1, <2>2, <3>1, <3>2, <1>bx, <1>dx, <1>gx DEF OpOK, After
      <3>3. CASE op[o].work = "destroy"
        BY <2>1, <2>2, <3>1, <3>3, <1>bx, <1>dx, <1>gx DEF OpOK, After
      <3>4. CASE op[o].work \notin {"create", "destroy"}
        BY <2>1, <2>2, <3>4, <1>bx, <1>dx, <1>gx DEF OpOK
      <3>5. QED
        BY <3>2, <3>3, <3>4
    <2>3. CASE p # o /\ op[p].dest # op[o].dest
      BY <2>1, <2>3, <1>ax, <1>ex, <1>gx, ConstantsAssumption DEF OpOK
    <2>4. CASE p # o /\ op[p].dest = op[o].dest
      BY <2>1, <2>4, <1>ax, <1>bx, <1>ex, <1>gx, ConstantsAssumption DEF OpOK, After,
         CreatedOnce, Operation
    <2>5. QED
      BY <2>2, <2>3, <2>4
  <1>u. ASSUME NEW p \in Ops, NEW q \in Ops PROVE CreatedOnce(p, q)'
    <2>1. CreatedOnce(p, q) /\ OpOK(p) /\ OpOK(q)
      BY DEF IInv, Pointwise
    <2>2. QED
      BY <2>1, <1>ax, <1>bx, <1>cx, <1>dx, <1>ex, <1>fx, <1>gx,
         ConstantsAssumption DEF CreatedOnce, CallOK, OpOK, Ops
  <1>d. ASSUME NEW e \in Destination PROVE DestOK(e)'
    <2>1. DestOK(e) /\ OpOK(o) /\ life[e] \in {"unborn", "opening", "open", "failed", "gone"}
      BY DEF IInv, Pointwise, TypeOK
    <2>2. Marked(e)' <=> Marked(e)
      BY <1>gx DEF Marked
    <2>3. Unanswered(e)' <=> Unanswered(e)
      BY <1>fx DEF Unanswered
    <2>4. CASE e # op[o].dest
      BY <2>1, <2>2, <2>3, <2>4, <1>ax, <1>fx, <1>gx DEF DestOK, Over
    <2>5. CASE e = op[o].dest
      <3>1. /\ life'[e] = "failed" => (op[o].work = "create" /\ r = "failed") \/ life[e] = "failed"
            /\ life'[e] = "gone" => (op[o].work = "destroy" /\ r = "ok") \/ life[e] = "gone"
            /\ Over(e) => Over(e)'
            /\ life'[e] # "unborn" \/ life[e] = "unborn"
        BY <2>1, <2>5, <1>ax, <1>bx DEF After, OpOK, Over
      <3>2. QED
        BY <2>1, <2>2, <2>3, <2>5, <3>1, <1>dx, <1>fx, <1>gx DEF DestOK
    <2>6. QED
      BY <2>4, <2>5
  <1>q. QED
    BY <1>c, <1>a, <1>o, <1>u, <1>d DEF Pointwise

(* What CloseFinished leaves behind.                                       *)
Settled(d, success) ==
  /\ success => closed'[d] /\ closing' = closing
  /\ ~success => ~closing'[d] /\ closed' = closed
  /\ \A e \in Destination : e # d => closed'[e] = closed[e] /\ closing'[e] = closing[e]

LEMMA CloseFinishedSettles ==
  ASSUME TypeOK, NEW d \in Destination, NEW success \in BOOLEAN, CloseFinished(d, success)
  PROVE  Settled(d, success)
  BY DEF TypeOK, CloseFinished, Settled

LEMMA ReturnStep ==
  ASSUME IInv, TypeOK', NEW t \in Thread, Return(t)
  PROVE  Pointwise'
  <1>ax. PICK o \in Ops : o = call[t].op /\ call[t].pc = "blocked" /\ op[o].run \in {"ok", "failed"}
    BY DEF Return, IInv, Pointwise, CallOK
  <1>bx. /\ op[o].work = call[t].work /\ op[o].dest = call[t].dest /\ op[o].held = "never" /\ ~op[o].terminal
         /\ op[o].dest \in Destination /\ obj[op[o].dest] # "gone" /\ op[o].work # "none"
         /\ op[o].work = "destroy" => ~call[t].async
    BY <1>ax DEF IInv, Pointwise, CallOK
  <1>cx. op[o] \in Operation /\ op' = [op EXCEPT ![o] = [op[o] EXCEPT !.stored = FALSE, !.terminal = TRUE]]
    BY <1>ax DEF Return, IInv, Pointwise, TypeOK
  <1>dx. op'[o] = [op[o] EXCEPT !.stored = FALSE, !.terminal = TRUE] /\ \A p \in Ops : p # o => op'[p] = op[p]
    BY <1>cx DEF IInv, Pointwise, TypeOK
  <1>ex. /\ op'[o].work = op[o].work /\ op'[o].dest = op[o].dest /\ op'[o].run = op[o].run /\ op'[o].held = op[o].held
         /\ op'[o].stored = FALSE /\ op'[o].terminal = TRUE
    <2>1. \A w \in Operation :
            LET x == [w EXCEPT !.stored = FALSE, !.terminal = TRUE]
            IN  /\ x.work = w.work /\ x.dest = w.dest /\ x.run = w.run /\ x.held = w.held
                /\ x.stored = FALSE /\ x.terminal = TRUE
      BY DEF Operation
    <2>2. QED
      BY <1>cx, <1>dx, <2>1
  <1>fx. \A p \in Ops : /\ op'[p].work = op[p].work /\ op'[p].dest = op[p].dest
                        /\ op'[p].run = op[p].run /\ op'[p].held = op[p].held
    BY <1>dx, <1>ex
  <1>gx. \A u \in Thread : u # t => call'[u] = call[u] /\ call[u].op # o
    BY <1>ax DEF Return, IInv, Pointwise, TypeOK, Alone, Ops
  <1>hx. call'[t].pc = "idle" /\ call'[t].op = 0 /\ call'[t].dest = None /\ call'[t].work = "none"
    BY DEF Return, IInv, Pointwise, TypeOK, Idle
  <1>ix. \A e \in Destination :
           /\ op[o].work = "create" /\ op[o].run = "ok" /\ e = op[o].dest => obj'[e] = "live"
           /\ op[o].work # "create" \/ op[o].run # "ok" \/ e # op[o].dest => obj'[e] = obj[e]
    BY <1>ax, <1>bx DEF Return, IInv, Pointwise, TypeOK
  <1>jx. /\ op[o].work = "destroy" => Settled(op[o].dest, op[o].run = "ok")
         /\ op[o].work # "destroy" => UNCHANGED <<closing, closed>>
    <2>1. op[o].work = "destroy" => CloseFinished(op[o].dest, op[o].run = "ok")
      BY <1>ax, <1>bx DEF Return
    <2>2. QED
      BY <2>1, <1>ax, <1>bx, CloseFinishedSettles DEF Return, IInv, Pointwise
  <1>kx. UNCHANGED <<alive, life, issued>>
    BY DEF Return
  <1>c. ASSUME NEW u \in Thread PROVE CallOK(u)'
    <2>1. CallOK(u) /\ CallOK(t)
      BY DEF IInv, Pointwise
    <2>2. CASE u = t
      BY <2>1, <2>2, <1>ax, <1>bx, <1>cx, <1>dx, <1>ex, <1>fx, <1>gx, <1>hx, <1>ix, <1>jx,
         <1>kx, ConstantsAssumption DEF CallOK, Ops
    <2>3. CASE u # t
      BY <2>1, <2>3, <1>ax, <1>bx, <1>cx, <1>dx, <1>ex, <1>fx, <1>gx, <1>hx, <1>ix, <1>jx,
         <1>kx, ConstantsAssumption, SMTT(30) DEF CallOK, Ops
    <2>4. QED
      BY <2>2, <2>3
  <1>a. ASSUME NEW u \in Thread, NEW v \in Thread PROVE Alone(u, v)'
    <2>1. Alone(u, v) /\ CallOK(u) /\ CallOK(v)
      BY DEF IInv, Pointwise
    <2>2. CASE u = t
      BY <2>1, <2>2, <1>ax, <1>bx, <1>cx, <1>dx, <1>ex, <1>fx, <1>gx, <1>hx, <1>ix, <1>jx,
         <1>kx, ConstantsAssumption DEF Alone, CallOK, Ops
    <2>3. CASE v = t /\ u # t
      BY <2>1, <2>3, <1>ax, <1>bx, <1>cx, <1>dx, <1>ex, <1>fx, <1>gx, <1>hx, <1>ix, <1>jx,
         <1>kx, ConstantsAssumption DEF Alone, CallOK, Ops
    <2>4. CASE u # t /\ v # t
      BY <2>1, <2>4, <1>ax, <1>bx, <1>cx, <1>dx, <1>ex, <1>fx, <1>gx, <1>hx, <1>ix, <1>jx,
         <1>kx, ConstantsAssumption DEF Alone, CallOK, Ops
    <2>5. QED
      BY <2>2, <2>3, <2>4
  <1>o. ASSUME NEW p \in Ops PROVE OpOK(p)'
    <2>1. OpOK(p) /\ OpOK(o) /\ CreatedOnce(o, p)
      BY DEF IInv, Pointwise
    <2>2. CASE p = o
      BY <2>1, <2>2, <1>ax, <1>bx, <1>ex, <1>ix, <1>jx, <1>kx, SMTT(30) DEF OpOK, Settled
    <2>3. CASE p # o
      <3>1. op'[p] = op[p] /\ op[p] \in Operation
        BY <2>3, <1>dx DEF IInv, Pointwise, TypeOK
      <3>2. op[p].work \in {"create", "destroy"} /\ op[p].dest \in Destination =>
              /\ op[p].work = "create" => obj'[op[p].dest] = obj[op[p].dest] \/ op[p].run = "ok"
              /\ obj'[op[p].dest] = obj[op[p].dest] \/ obj'[op[p].dest] # "unborn"
              /\ closed[op[p].dest] => closed'[op[p].dest]
        BY <2>1, <2>3, <1>bx, <1>ix, <1>jx DEF CreatedOnce, Settled
      <3>3. op[p].held = "live" /\ ~op[p].terminal /\ ~op[p].stored =>
              \E u \in Thread : call'[u].pc = "finish" /\ call'[u].op = p
        BY <2>1, <1>ax, <1>gx DEF OpOK
      <3>4. QED
        BY <2>1, <3>1, <3>2, <3>3, <1>kx DEF OpOK
    <2>4. QED
      BY <2>2, <2>3
  <1>u. ASSUME NEW p \in Ops, NEW q \in Ops PROVE CreatedOnce(p, q)'
    <2>1. CreatedOnce(p, q) /\ OpOK(p) /\ OpOK(q) /\ CallOK(t)
      BY DEF IInv, Pointwise
    <2>2. QED
      BY <2>1, <1>ax, <1>bx, <1>cx, <1>dx, <1>ex, <1>fx, <1>gx, <1>hx, <1>ix, <1>jx, <1>kx,
         ConstantsAssumption, SMTT(30) DEF CreatedOnce, CallOK, OpOK, Ops
  <1>d. ASSUME NEW e \in Destination PROVE DestOK(e)'
    <2>1. DestOK(e) /\ OpOK(o)
      BY DEF IInv, Pointwise
    <2>2. CASE e = op[o].dest /\ op[o].work = "destroy"
      <3>1. obj'[e] = obj[e] /\ e \in Destination
        BY <2>2, <1>ix
      <3>2. CASE op[o].run = "ok"
        <4>1. closed'[e] /\ life[e] = "gone"
          BY <2>1, <2>2, <3>2, <1>jx DEF OpOK, Settled
        <4>2. QED
          BY <2>1, <3>1, <4>1, <1>fx, <1>kx DEF DestOK, Over
      <3>3. CASE op[o].run # "ok"
        <4>1. ~closing'[e] /\ closed'[e] = closed[e]
          BY <2>1, <2>2, <3>3, <1>jx DEF OpOK, Settled
        <4>2. obj[e] # "gone"
          BY <2>2, <1>bx
        <4>3. QED
          BY <2>1, <3>1, <4>1, <4>2, <1>fx, <1>kx DEF DestOK, Over
      <3>4. QED
        BY <3>2, <3>3
    <2>3. CASE ~(e = op[o].dest /\ op[o].work = "destroy")
      <3>1. closed'[e] = closed[e] /\ closing'[e] = closing[e]
        BY <2>3, <1>jx DEF Settled
      <3>2. Marked(e) => Marked(e)'
        BY <2>3, <1>bx, <1>gx DEF Marked
      <3>3. Unanswered(e) => Unanswered(e)'
        BY <2>3, <1>dx DEF Unanswered
      <3>4. obj'[e] = obj[e] \/ (obj'[e] = "live" /\ life[e] # "unborn")
        <4>1. CASE op[o].work = "create" /\ op[o].run = "ok" /\ e = op[o].dest
          BY <2>1, <4>1, <1>ix DEF OpOK
        <4>2. CASE op[o].work # "create" \/ op[o].run # "ok" \/ e # op[o].dest
          <5>1. obj'[e] = obj[e]
            BY <4>2, <1>ix
          <5>2. QED
            BY <5>1
        <4>3. QED
          BY <4>1, <4>2
      <3>5. QED
        BY <2>1, <3>1, <3>2, <3>3, <3>4, <1>fx, <1>kx DEF DestOK, Over
    <2>4. QED
      BY <2>2, <2>3
  <1>q. QED
    BY <1>c, <1>a, <1>o, <1>u, <1>d DEF Pointwise

LEMMA FinishStep ==
  ASSUME IInv, TypeOK', NEW t \in Thread, Finish(t)
  PROVE  Pointwise'
  <1>ax. PICK o \in Ops : o = call[t].op /\ call[t].pc = "finish"
    BY DEF Finish, IInv, Pointwise, CallOK
  <1>bx. /\ op[o].held = "live" /\ ~op[o].terminal /\ ~op[o].stored /\ call[t].dest = None
         /\ call[t].answer = "ok" => op[o].run = "ok"
         /\ alive /\ call[t].answer # "ok" => op[o].run = "failed"
    BY <1>ax DEF IInv, Pointwise, CallOK
  <1>cx. op[o] \in Operation /\ op' = [op EXCEPT ![o] = [op[o] EXCEPT !.terminal = TRUE]]
    BY <1>ax DEF Finish, IInv, Pointwise, TypeOK
  <1>dx. op'[o] = [op[o] EXCEPT !.terminal = TRUE] /\ \A p \in Ops : p # o => op'[p] = op[p]
    BY <1>cx DEF IInv, Pointwise, TypeOK
  <1>ex. /\ op'[o].work = op[o].work /\ op'[o].dest = op[o].dest /\ op'[o].run = op[o].run /\ op'[o].held = op[o].held /\ op'[o].stored = op[o].stored /\ op'[o].terminal
    BY <1>cx, <1>dx DEF Operation
  <1>fx. \A p \in Ops : /\ op'[p].work = op[p].work /\ op'[p].dest = op[p].dest
                        /\ op'[p].run = op[p].run /\ op'[p].held = op[p].held
    BY <1>dx, <1>ex
  <1>gx. \A u \in Thread : u # t => call'[u] = call[u] /\ call[u].op # o
    BY <1>ax DEF Finish, IInv, Pointwise, TypeOK, Alone, Ops
  <1>hx. call'[t].pc = "idle" /\ call'[t].op = 0 /\ call'[t].dest = None /\ call'[t].work = "none"
    BY DEF Finish, IInv, Pointwise, TypeOK, Idle
  <1>ix. /\ op[o].work = "destroy" => Settled(op[o].dest, call[t].answer = "ok")
         /\ op[o].work = "create" /\ call[t].answer # "ok" => closed' = [closed EXCEPT ![op[o].dest] = TRUE]
         /\ op[o].work = "create" /\ call[t].answer = "ok" => closed' = closed
         /\ op[o].work # "destroy" => closing' = closing
         /\ op[o].work \notin {"create", "destroy"} => closed' = closed
    <2>1. OnTerminal(o, call[t].answer = "ok") /\ OpOK(o)
      BY <1>ax, <1>bx DEF Finish, IInv, Pointwise
    <2>2. op[o].work = "destroy" => Settled(op[o].dest, call[t].answer = "ok")
      <3>1. op[o].work = "destroy" => CloseFinished(op[o].dest, call[t].answer = "ok")
        BY <2>1 DEF OnTerminal
      <3>2. QED
        BY <2>1, <3>1, CloseFinishedSettles DEF OpOK, IInv, Pointwise
    <2>3. QED
      BY <2>1, <2>2 DEF OnTerminal
  <1>jx. closed \in [Destination -> BOOLEAN]
    BY DEF IInv, Pointwise, TypeOK
  <1>kx. UNCHANGED <<alive, life, issued, obj>>
    BY DEF Finish
  <1>c. ASSUME NEW u \in Thread PROVE CallOK(u)'
    <2>1. CallOK(u) /\ CallOK(t)
      BY DEF IInv, Pointwise
    <2>2. CASE u = t
      BY <2>1, <2>2, <1>ax, <1>bx, <1>cx, <1>dx, <1>ex, <1>fx, <1>gx, <1>hx, <1>ix, <1>jx,
         <1>kx, ConstantsAssumption DEF CallOK, Ops
    <2>3. CASE u # t
      BY <2>1, <2>3, <1>ax, <1>bx, <1>cx, <1>dx, <1>ex, <1>fx, <1>gx, <1>hx, <1>ix, <1>jx,
         <1>kx, ConstantsAssumption, SMTT(30) DEF CallOK, Ops
    <2>4. QED
      BY <2>2, <2>3
  <1>a. ASSUME NEW u \in Thread, NEW v \in Thread PROVE Alone(u, v)'
    <2>1. Alone(u, v) /\ CallOK(u) /\ CallOK(v)
      BY DEF IInv, Pointwise
    <2>2. CASE u = t
      BY <2>1, <2>2, <1>ax, <1>bx, <1>cx, <1>dx, <1>ex, <1>fx, <1>gx, <1>hx, <1>ix, <1>jx,
         <1>kx, ConstantsAssumption DEF Alone, CallOK, Ops
    <2>3. CASE v = t /\ u # t
      BY <2>1, <2>3, <1>ax, <1>bx, <1>cx, <1>dx, <1>ex, <1>fx, <1>gx, <1>hx, <1>ix, <1>jx,
         <1>kx, ConstantsAssumption DEF Alone, CallOK, Ops
    <2>4. CASE u # t /\ v # t
      BY <2>1, <2>4, <1>ax, <1>bx, <1>cx, <1>dx, <1>ex, <1>fx, <1>gx, <1>hx, <1>ix, <1>jx,
         <1>kx, ConstantsAssumption, SMTT(30) DEF Alone, CallOK, Ops
    <2>5. QED
      BY <2>2, <2>3, <2>4
  <1>o. ASSUME NEW p \in Ops PROVE OpOK(p)'
    <2>1. OpOK(p) /\ OpOK(o)
      BY DEF IInv, Pointwise
    <2>2. CASE p = o
      BY <2>1, <2>2, <1>ax, <1>bx, <1>ex, <1>ix, <1>jx, <1>kx, SMTT(30) DEF OpOK, Settled
    <2>3. CASE p # o
      <3>1. op'[p] = op[p]
        BY <2>3, <1>dx
      <3>2. op[p].dest \in Destination /\ closed[op[p].dest] => closed'[op[p].dest]
        BY <2>1, <1>ix, <1>jx DEF OpOK, Settled
      <3>3. op[p].held = "live" /\ ~op[p].terminal /\ ~op[p].stored =>
              \E u \in Thread : call'[u].pc = "finish" /\ call'[u].op = p
        BY <2>1, <2>3, <1>ax, <1>gx DEF OpOK
      <3>4. QED
        BY <2>1, <3>1, <3>2, <3>3, <1>kx DEF OpOK
    <2>4. QED
      BY <2>2, <2>3
  <1>u. ASSUME NEW p \in Ops, NEW q \in Ops PROVE CreatedOnce(p, q)'
    <2>1. CreatedOnce(p, q) /\ OpOK(p) /\ OpOK(q) /\ CallOK(t)
      BY DEF IInv, Pointwise
    <2>2. QED
      BY <2>1, <1>ax, <1>bx, <1>cx, <1>dx, <1>ex, <1>fx, <1>gx, <1>hx, <1>ix, <1>jx, <1>kx,
         ConstantsAssumption, SMTT(30) DEF CreatedOnce, CallOK, OpOK, Ops
  <1>d. ASSUME NEW e \in Destination PROVE DestOK(e)'
    <2>1. DestOK(e) /\ OpOK(o)
      BY DEF IInv, Pointwise
    <2>2. Marked(e) => Marked(e)'
      BY <1>ax, <1>gx DEF Marked
    <2>3. CASE e = op[o].dest /\ op[o].work = "destroy"
      <3>1. CASE call[t].answer = "ok"
        <4>1. closed'[e] /\ life[e] = "gone"
          BY <2>1, <2>3, <3>1, <1>bx, <1>ix DEF OpOK, Settled
        <4>2. QED
          BY <2>1, <4>1, <1>fx, <1>kx DEF DestOK, Over
      <3>2. CASE call[t].answer # "ok"
        <4>1. ~closing'[e] /\ closed'[e] = closed[e]
          BY <2>1, <2>3, <3>2, <1>ix DEF OpOK, Settled
        <4>2. alive => obj[e] # "gone"
          BY <2>1, <2>3, <1>bx DEF DestOK
        <4>3. QED
          BY <2>1, <4>1, <4>2, <1>fx, <1>kx DEF DestOK, Over
      <3>3. QED
        BY <3>1, <3>2
    <2>4. CASE ~(e = op[o].dest /\ op[o].work = "destroy")
      <3>1. Unanswered(e) => Unanswered(e)'
        BY <2>4, <1>dx DEF Unanswered
      <3>2. closing'[e] = closing[e] /\ (closed[e] => closed'[e])
        BY <2>4, <1>ix, <1>jx DEF Settled
      <3>3. alive /\ closed'[e] => Over(e)
        BY <2>1, <2>4, <1>bx, <1>ix, <1>jx DEF DestOK, OpOK, Over, Settled
      <3>4. QED
        BY <2>1, <2>2, <3>1, <3>2, <3>3, <1>fx, <1>kx DEF DestOK, Over
    <2>5. QED
      BY <2>3, <2>4
  <1>q. QED
    BY <1>c, <1>a, <1>o, <1>u, <1>d DEF Pointwise


LEMMA FinalizeStep ==
  ASSUME IInv, TypeOK', NEW d \in Destination, Finalize(d)
  PROVE  Pointwise'
  <1>1. CASE UNCHANGED <<issued, op, closing>>
    BY <1>1, ReleaseNothingStep
  <1>2. CASE alive /\ issued' = issued + 1 /\ op' = Accepted("destroy", d, "never")
    BY <1>2, ReleaseStep
  <1>3. QED
    BY <1>1, <1>2 DEF Finalize, Accepts

LEMMA Stutter ==
  ASSUME IInv, UNCHANGED vars
  PROVE  Pointwise'
  <1>1. UNCHANGED <<alive, life, issued, op, obj, closing, closed, call>>
    BY DEF vars
  <1>2. ASSUME NEW t \in Thread PROVE CallOK(t)'
    BY <1>1 DEF IInv, Pointwise, CallOK
  <1>3. ASSUME NEW t \in Thread, NEW u \in Thread PROVE Alone(t, u)'
    BY <1>1 DEF IInv, Pointwise, Alone
  <1>4. ASSUME NEW o \in Ops PROVE OpOK(o)'
    BY <1>1 DEF IInv, Pointwise, OpOK
  <1>5. ASSUME NEW o \in Ops, NEW p \in Ops PROVE CreatedOnce(o, p)'
    BY <1>1 DEF IInv, Pointwise, CreatedOnce
  <1>6. ASSUME NEW d \in Destination PROVE DestOK(d)'
    BY <1>1 DEF IInv, Pointwise, DestOK, Over, Marked, Unanswered
  <1>7. QED
    BY <1>2, <1>3, <1>4, <1>5, <1>6 DEF Pointwise

LEMMA Initially ==
  Init => IInv
  <1> SUFFICES ASSUME Init PROVE IInv
    OBVIOUS
  <1>1. TypeOK
    BY TypeInit
  <1>2. ASSUME NEW t \in Thread PROVE CallOK(t)
    BY DEF Init, CallOK, Idle
  <1>3. ASSUME NEW t \in Thread, NEW u \in Thread PROVE Alone(t, u)
    BY DEF Init, Alone, Idle
  <1>4. ASSUME NEW o \in Ops PROVE OpOK(o)
    <2>1. op[o] = NoOp
      BY DEF Init
    <2>2. QED
      BY <2>1 DEF OpOK, NoOp
  <1>5. ASSUME NEW o \in Ops, NEW p \in Ops PROVE CreatedOnce(o, p)
    BY DEF Init, CreatedOnce, NoOp
  <1>6. ASSUME NEW d \in Destination PROVE DestOK(d)
    BY DEF Init, DestOK
  <1>7. QED
    BY <1>1, <1>2, <1>3, <1>4, <1>5, <1>6 DEF IInv, Pointwise

LEMMA Stepwise ==
  ASSUME SharedWaits = FALSE, IInv, [Next]_vars
  PROVE  IInv'
  <1>1. TypeOK'
    BY TypeNext DEF IInv, Pointwise
  <1>2. Pointwise'
    <2>1. CASE UNCHANGED vars
      BY <2>1, Stutter
    <2>2. ASSUME NEW o \in Ops, Execute(o) \/ DropOperation(o) PROVE Pointwise'
      BY <1>1, <2>2, ExecuteStep, DropOperationStep
    <2>3. ASSUME NEW d \in Destination, DropDestination(d) \/ Finalize(d) PROVE Pointwise'
      BY <1>1, <2>3, DropDestinationStep, FinalizeStep
    <2>4. ASSUME NEW t \in Thread, NEW d \in Destination, NEW async \in BOOLEAN,
                 Create(t, d, async)
          PROVE  Pointwise'
      BY <1>1, <2>4, CreateStep
    <2>5. ASSUME NEW t \in Thread, NEW d \in Destination, NEW async \in BOOLEAN,
                 NEW work \in Work, Begin(t, d, work, async)
          PROVE  Pointwise'
      BY <1>1, <2>5, BeginStep
    <2>6. ASSUME NEW t \in Thread, Mark(t) \/ Submit(t) \/ Refuse(t) \/ BookClosing(t) PROVE Pointwise'
      BY <1>1, <2>6, MarkStep, SubmitStep, RefuseStep, BookClosingStep
    <2>7. ASSUME NEW t \in Thread, Return(t) \/ TimeOut(t) \/ Consume(t) \/ Finish(t) PROVE Pointwise'
      BY <1>1, <2>7, ReturnStep, TimeOutStep, ConsumeStep, FinishStep
    <2>8. ASSUME NEW t \in Thread, NEW o \in Ops, BeginWait(t, o) PROVE Pointwise'
      BY <1>1, <2>8, BeginWaitStep
    <2>9. CASE ExportOnce \/ DestroyStage
      BY <1>1, <2>9, ExportOnceStep, DestroyStageStep
    <2>10. QED
      BY <2>1, <2>2, <2>3, <2>4, <2>5, <2>6, <2>7, <2>8, <2>9 DEF Next
  <1>3. QED
    BY <1>1, <1>2 DEF IInv, Pointwise

LEMMA Implied ==
  ASSUME IInv
  PROVE  TypeOK /\ FlagsTruthful /\ NothingStranded /\ ReportKept
  <1>1. TypeOK
    BY DEF IInv, Pointwise
  <1>2. ASSUME NEW d \in Destination, alive, obj[d] # "unborn"
        PROVE  /\ closed[d] => Over(d)
               /\ ~Busy(d) => /\ closed[d] <=> Over(d)
                              /\ closing[d] => closed[d]
    <2>1. DestOK(d)
      BY DEF IInv, Pointwise
    <2>2. closed[d] => Over(d)
      BY <1>2, <2>1 DEF DestOK
    <2>3. ASSUME ~Busy(d), Over(d) PROVE closed[d]
      <3>1. PICK o \in Ops :
              \/ op[o].work = "create" /\ op[o].dest = d /\ op[o].run = "failed"
              \/ op[o].work = "destroy" /\ op[o].dest = d /\ op[o].run = "ok"
        BY <2>1, <2>3 DEF DestOK, Over
      <3>2. op[o].terminal
        BY <2>3, <3>1 DEF Busy
      <3>3. OpOK(o)
        BY DEF IInv, Pointwise
      <3>4. QED
        BY <1>2, <3>1, <3>2, <3>3 DEF OpOK
    <2>4. ASSUME ~Busy(d), closing[d] PROVE closed[d]
      BY <1>2, <2>1, <2>4 DEF DestOK, Busy, Marked, Unanswered
    <2>5. QED
      BY <2>2, <2>3, <2>4
  <1>3. ASSUME NEW d \in Destination, alive, obj[d] = "gone", ~Over(d)
        PROVE  \E o \in Ops : /\ op[o].work = "destroy" /\ op[o].dest = d
                              /\ ~op[o].terminal /\ op[o].run # "ok"
    <2>1. PICK o \in Ops : op[o].work = "destroy" /\ op[o].dest = d /\ ~op[o].terminal
      BY <1>3 DEF IInv, Pointwise, DestOK, Unanswered
    <2>2. OpOK(o)
      BY DEF IInv, Pointwise
    <2>3. QED
      BY <1>3, <2>1, <2>2 DEF OpOK, Over
  <1>4. ASSUME NEW o \in Ops, op[o].held = "live", \A t \in Thread : call[t].op # o
        PROVE  op[o].terminal <=> ~op[o].stored
    BY <1>4 DEF IInv, Pointwise, OpOK
  <1>5. QED
    BY <1>1, <1>2, <1>3, <1>4 DEF FlagsTruthful, NothingStranded, ReportKept

LEMMA InvariantHolds ==
  ASSUME SharedWaits = FALSE
  PROVE  Spec => []IInv
<1>1. Init => IInv
  BY Initially
<1>2. IInv /\ [Next]_vars => IInv'
  BY Stepwise
<1> QED
  BY <1>1, <1>2, PTL DEF Spec

-----------------------------------------------------------------------------
(* The variables keep their types, and every piece of work keeps the id    *)
(* the native side gave it.                                                *)
THEOREM TypeCorrect ==
  ASSUME SharedWaits = FALSE
  PROVE  Spec => []TypeOK
  BY InvariantHolds, Implied, PTL

(* Whatever threads, refusals, failures and dropped objects come together, *)
(* a destination is never taken for closed while it is open, and once all  *)
(* was answered the flags say exactly whether it is over.                  *)
THEOREM FlagsAreTruthful ==
  ASSUME SharedWaits = FALSE
  PROVE  Spec => []FlagsTruthful
  BY InvariantHolds, Implied, PTL

(* No destination is collected and left open with nothing under way.       *)
THEOREM NothingIsStranded ==
  ASSUME SharedWaits = FALSE
  PROVE  Spec => []NothingStranded
  BY InvariantHolds, Implied, PTL

(* No poll consumes a report, and no report is given twice.                *)
THEOREM ReportsAreKept ==
  ASSUME SharedWaits = FALSE
  PROVE  Spec => []ReportKept
  BY InvariantHolds, Implied, PTL

=============================================================================
