------------------------ MODULE PopulationWaits_proofs ------------------------
(* Theorems about PopulationWaits, for any threads and any number of       *)
(* operations.                                                             *)
EXTENDS PopulationWaits, TLAPS

Inv == TypeOK /\ InputsPinned /\ FailureSurfaces

LEMMA InitOK == ASSUME ConstantsAssumption, Init PROVE Inv
  BY DEF ConstantsAssumption, Init, Inv, TypeOK, InputsPinned, FailureSurfaces, Ops

LEMMA ExecuteOK == ASSUME ConstantsAssumption, Inv, NEW i \in Ops, Execute(i) PROVE Inv'
  BY DEF ConstantsAssumption, Inv, TypeOK, InputsPinned, FailureSurfaces, Ops, Execute, Finished

LEMMA EnqueueOK == ASSUME ConstantsAssumption, Inv, NEW t \in Thread, Enqueue(t) PROVE Inv'
  BY DEF ConstantsAssumption, Inv, TypeOK, InputsPinned, FailureSurfaces, Ops, Enqueue, NewId

LEMMA BeginOK ==
  ASSUME ConstantsAssumption, Inv, NEW t \in Thread, NEW i \in Ops, Begin(t, i) PROVE Inv'
  BY DEF ConstantsAssumption, Inv, TypeOK, InputsPinned, FailureSurfaces, Ops, Begin

LEMMA TimeOutOK == ASSUME ConstantsAssumption, Inv, NEW t \in Thread, TimeOut(t) PROVE Inv'
  BY DEF ConstantsAssumption, Inv, TypeOK, InputsPinned, FailureSurfaces, Ops, TimeOut,
         KeptAfterTimeout

(* A wait that reports a failure raises, and covers every failure it       *)
(* reports.                                                                *)
LEMMA FinishOK == ASSUME ConstantsAssumption, Inv, NEW t \in Thread, Finish(t) PROVE Inv'
<1>1. PICK w \in WaitResults(call[t]) :
        /\ unreported' = unreported \ w.ids
        /\ IF Succeeds(w)
           THEN value' = value \cup {call[t]} /\ UNCHANGED raised
           ELSE raised' = raised \cup {call[t]} /\ UNCHANGED value
  BY DEF Finish
<1>2. \A j \in w.ids : j <= call[t] /\ j \in unreported
  BY DEF WaitResults
<1>3. Succeeds(w) => w.ids = {}
  BY DEF Succeeds
<1>4. call[t] \in 1 .. issued /\ issued \in 0 .. MaxOps /\ MaxOps \in Nat /\ call[t] \in Ops
  BY DEF Finish, Inv, TypeOK, Ops, ConstantsAssumption
<1>5. /\ run[call[t]] # "pending"
      /\ kept' = kept \ {call[t]} /\ call' = [call EXCEPT ![t] = 0]
      /\ UNCHANGED <<issued, run>>
  BY <1>4 DEF Finish, Finished
<1>6. TypeOK'
  <2>1. /\ unreported' \subseteq unreported
        /\ value' \subseteq value \cup {call[t]} /\ raised' \subseteq raised \cup {call[t]}
    BY <1>1
  <2>2. call' \in [Thread -> 0 .. issued]
    BY <1>4, <1>5 DEF Inv, TypeOK
  <2>3. kept' \subseteq 1 .. issued /\ value' \subseteq 1 .. issued /\ raised' \subseteq 1 .. issued
    BY <1>4, <1>5, <2>1 DEF Inv, TypeOK
  <2>4. unreported' \subseteq {i \in Ops : run[i] = "failed"}
    BY <2>1 DEF Inv, TypeOK
  <2> QED BY <1>5, <2>2, <2>3, <2>4 DEF Inv, TypeOK
<1>7. InputsPinned'
  BY <1>5 DEF Inv, InputsPinned
<1>8. FailureSurfaces'
  <2> SUFFICES ASSUME NEW i \in Ops, run'[i] = "failed", i \notin unreported'
               PROVE  \E j \in raised' : j >= i
    BY DEF FailureSurfaces
  <2>1. CASE i \notin unreported
    BY <1>1, <1>5, <2>1 DEF Inv, FailureSurfaces
  <2>2. CASE i \in unreported
    <3>1. i \in w.ids
      BY <1>1, <2>2
    <3>2. call[t] \in raised'
      BY <1>1, <1>3, <3>1
    <3> QED BY <1>2, <1>4, <3>1, <3>2 DEF Ops
  <2> QED BY <2>1, <2>2
<1> QED BY <1>6, <1>7, <1>8 DEF Inv

THEOREM InvHolds == Spec => []Inv
<1>1. Init => Inv
  BY InitOK, ConstantsAssumption
<1>2. Inv /\ [Next]_vars => Inv'
  <2> SUFFICES ASSUME Inv, [Next]_vars PROVE Inv'
    OBVIOUS
  <2>1. CASE Next
    BY <2>1, ConstantsAssumption, ExecuteOK, EnqueueOK, BeginOK, TimeOutOK, FinishOK DEF Next
  <2>2. CASE UNCHANGED vars
    BY <2>2 DEF vars, Inv, TypeOK, InputsPinned, FailureSurfaces
  <2> QED BY <2>1, <2>2
<1> QED BY <1>1, <1>2, PTL DEF Spec

(* Only operations that were issued run, hold buffers, answer or are       *)
(* waited for, and only those that failed are still to be reported.        *)
THEOREM TypeCorrect == Spec => []TypeOK
<1>1. Inv => TypeOK
  BY DEF Inv
<1> QED BY <1>1, InvHolds, PTL

(* However waits time out and whoever makes them, an unfinished operation  *)
(* has its input buffers.                                                  *)
THEOREM BuffersPinned == Spec => []InputsPinned
<1>1. Inv => InputsPinned
  BY DEF Inv
<1> QED BY <1>1, InvHolds, PTL

(* No report of a failure is swallowed: some wait raised it.               *)
THEOREM FailuresRaised == Spec => []FailureSurfaces
<1>1. Inv => FailureSurfaces
  BY DEF Inv
<1> QED BY <1>1, InvHolds, PTL

-----------------------------------------------------------------------------
(* One thread that only uses the blocking wrappers has at most one         *)
(* operation it has not heard of.                                          *)
Alone(t) == Thread = {t} /\ ~Async

AloneInv(t) ==
  /\ TypeOK
  /\ call[t] \in {0, issued}
  /\ \A i \in 1 .. issued : i # call[t] => Finished(i) /\ i \notin unreported
  /\ call[t] # 0 /\ run[call[t]] = "failed" => call[t] \in unreported
  /\ OwnVerdict
  /\ \A i \in value \cup raised : i # call[t]

LEMMA AloneFinish ==
  ASSUME ConstantsAssumption, NEW t, Alone(t), AloneInv(t), Inv, Finish(t)
  PROVE  AloneInv(t)'
<1>1. PICK w \in WaitResults(call[t]) :
        /\ unreported' = unreported \ w.ids
        /\ IF Succeeds(w)
           THEN value' = value \cup {call[t]} /\ UNCHANGED raised
           ELSE raised' = raised \cup {call[t]} /\ UNCHANGED value
  BY DEF Finish
<1>2. PICK i : i = call[t]
  OBVIOUS
<1>3. /\ i \in 1 .. issued /\ i \in Ops /\ Finished(i) /\ t \in Thread
      /\ call' = [call EXCEPT ![t] = 0] /\ UNCHANGED <<issued, run>>
  BY <1>2 DEF Finish, Alone, AloneInv, TypeOK, Ops, ConstantsAssumption
<1>4. call'[t] = 0
  BY <1>3 DEF AloneInv, TypeOK
<1>5. Inv'
  BY FinishOK, <1>3
<1>6. \A j \in unreported : j = i
  BY <1>2 DEF AloneInv, TypeOK, Ops
<1>7. ASSUME unreported' = {}, OwnVerdict' PROVE AloneInv(t)'
  <2>1. \A j \in 1 .. issued : Finished(j)
    BY <1>2, <1>3 DEF AloneInv
  <2>2. \A j \in value' \cup raised' : j # 0
    BY <1>1, <1>2, <1>3 DEF AloneInv, TypeOK
  <2> QED BY <1>3, <1>4, <1>5, <1>7, <2>1, <2>2 DEF AloneInv, Inv, Finished
<1>8. CASE run[i] = "failed"
  <2>1. i \in unreported /\ i <= call[t]
    BY <1>2, <1>3, <1>8 DEF AloneInv
  <2>2. w.ids = {j \in unreported : j <= call[t]}
    BY <2>1 DEF WaitResults
  <2>3. ~Succeeds(w) /\ unreported' = {}
    BY <1>1, <1>2, <1>6, <2>1, <2>2 DEF Succeeds
  <2>4. OwnVerdict'
    BY <1>1, <1>2, <1>3, <1>8, <2>3 DEF AloneInv, OwnVerdict
  <2> QED BY <1>7, <2>3, <2>4
<1>9. CASE run[i] = "done"
  <2>1. i \notin unreported
    BY <1>9 DEF AloneInv, TypeOK
  <2>2. unreported = {}
    BY <1>6, <2>1
  <2>3. Succeeds(w) /\ unreported' = {}
    BY <1>1, <2>2 DEF WaitResults, Succeeds
  <2>4. OwnVerdict'
    BY <1>1, <1>2, <1>3, <1>9, <2>3 DEF AloneInv, OwnVerdict
  <2> QED BY <1>7, <2>3, <2>4
<1> QED BY <1>3, <1>8, <1>9 DEF Finished

LEMMA AloneStep ==
  ASSUME ConstantsAssumption, NEW t, Alone(t), AloneInv(t), Inv, [Next]_vars
  PROVE  AloneInv(t)'
<1>1. t \in Thread /\ \A u \in Thread : u = t
  BY DEF Alone
<1>2. ASSUME NEW i \in Ops, Execute(i) PROVE AloneInv(t)'
  <2>1. Inv'
    BY <1>2, ExecuteOK
  <2>2. i \in 1 .. issued /\ ~Finished(i) /\ i = call[t]
    BY <1>2 DEF Execute, Finished, AloneInv, TypeOK, Ops, ConstantsAssumption
  <2>3. UNCHANGED <<issued, value, raised, call>> /\ i \notin value /\ i \notin raised
    BY <1>2, <2>2 DEF Execute, AloneInv
  <2>4. \A j \in Ops : j # i => run'[j] = run[j] /\ (j \in unreported' <=> j \in unreported)
    BY <1>2 DEF Execute, AloneInv, TypeOK
  <2>5. run'[i] = "failed" => i \in unreported'
    BY <1>2 DEF Execute, AloneInv, TypeOK
  <2>6. value \subseteq Ops /\ raised \subseteq Ops /\ 1 .. issued \subseteq Ops
    BY DEF AloneInv, TypeOK, Ops, ConstantsAssumption
  <2> QED BY <2>1, <2>2, <2>3, <2>4, <2>5, <2>6 DEF AloneInv, Inv, OwnVerdict, Finished
<1>3. CASE Enqueue(t)
  <2>1. Inv'
    BY <1>1, <1>3, EnqueueOK
  <2>2. /\ call[t] = 0 /\ issued' = issued + 1 /\ call'[t] = issued + 1
        /\ UNCHANGED <<unreported, value, raised>>
    BY <1>1, <1>3 DEF Enqueue, NewId, Alone, AloneInv, TypeOK
  <2>3. issued \in Nat /\ issued + 1 \in Ops /\ run' = [run EXCEPT ![issued + 1] = "pending"]
    BY <1>3 DEF Enqueue, NewId, AloneInv, TypeOK, Ops, ConstantsAssumption
  <2>4. /\ \A j \in 1 .. issued : j \in Ops /\ run'[j] = run[j]
        /\ run'[issued + 1] = "pending"
    BY <2>3 DEF AloneInv, TypeOK, Ops, ConstantsAssumption
  <2>5. \A j \in value \cup raised : j \in 1 .. issued
    BY DEF AloneInv, TypeOK
  <2> QED BY <2>1, <2>2, <2>3, <2>4, <2>5 DEF AloneInv, Inv, OwnVerdict, Finished
<1>4. CASE Finish(t)
  BY <1>4, AloneFinish
<1>5. ASSUME NEW u \in Thread, TimeOut(u) \/ \E i \in Ops : Begin(u, i) PROVE FALSE
  BY <1>5 DEF TimeOut, Begin, Alone
<1>6. CASE UNCHANGED vars
  BY <1>6 DEF vars, AloneInv, TypeOK, OwnVerdict, Finished
<1> QED BY <1>1, <1>2, <1>3, <1>4, <1>5, <1>6 DEF Next

(* Used by one thread through the blocking wrappers only, a call returns   *)
(* just when its own operation succeeded.                                  *)
THEOREM AloneIsTold == ASSUME NEW t, Alone(t) PROVE Spec => []OwnVerdict
<1>1. Init => AloneInv(t)
  <2>1. Init => Inv
    BY InitOK, ConstantsAssumption
  <2> QED BY <2>1 DEF Init, Inv, Alone, AloneInv, OwnVerdict
<1>2. Inv /\ AloneInv(t) /\ [Next]_vars => AloneInv(t)'
  BY AloneStep, ConstantsAssumption
<1>3. AloneInv(t) => OwnVerdict
  BY DEF AloneInv
<1> QED BY <1>1, <1>2, <1>3, InvHolds, PTL DEF Spec

=============================================================================
