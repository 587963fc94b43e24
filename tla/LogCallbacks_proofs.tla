------------------------ MODULE LogCallbacks_proofs ------------------------
(***************************************************************************)
(* Trampolines stay alive as long as the dispatcher may call them, for     *)
(* every number of callers, trampolines and messages, provided the program *)
(* lets one caller in at a time.                                           *)
(*                                                                         *)
(* The installed trampoline is the active one except between a native call *)
(* and its booking; the running one is the active one, a retired one, or   *)
(* that of the call in progress.  A flush that returned is what tells that *)
(* the running one is not retired: the message it serves was logged, and   *)
(* so taken, after the flush began, when nothing could be replaced.        *)
(***************************************************************************)
EXTENDS LogCallbacks, TLAPS

Label == {"idle", "installed", "retired", "disabled", "flushing", "flushed"}
MaybeTrampoline == Trampoline \cup {None}

TypeOK ==
  /\ installed \in MaybeTrampoline /\ running \in MaybeTrampoline
  /\ emitted \in Nat /\ delivered \in Nat
  /\ booted \in BOOLEAN
  /\ active \in MaybeTrampoline /\ retired \subseteq Trampoline /\ made \subseteq Trampoline
  /\ frame \in [Caller -> MaybeTrampoline]
  /\ barrier \in [Caller -> Nat]
  /\ pc \in [Caller -> Label]

(* One call at a time.                                                     *)
Alone == \A c, d \in Caller : pc[c] # "idle" /\ pc[d] # "idle" => c = d

(* What the dispatcher is busy with is not delivered yet, and delivery does *)
(* not end while it is.                                                    *)
Busy == running # None => delivered < emitted /\ installed # None

(* While no call holds a trampoline, the one in force is the active one.   *)
Quiet == (\A c \in Caller : pc[c] \notin {"installed", "retired", "disabled"})
           => installed \in {None, active} /\ running \in {None, active} \cup retired

CallOK(c) ==
  /\ pc[c] \in {"installed", "retired"} =>
       /\ installed \in {None, frame[c]}
       /\ running \in {None, active, frame[c]} \cup retired
  /\ pc[c] = "retired" => running \in {None, frame[c]} \cup retired
  /\ pc[c] = "disabled" => installed = None /\ running = None
  /\ pc[c] = "flushing" => /\ barrier[c] <= emitted
                           /\ delivered >= barrier[c] => running \in {None, active}
  /\ pc[c] = "flushed" => running \in {None, active}

IInv == TypeOK /\ Alone /\ Busy /\ Quiet /\ \A c \in Caller : CallOK(c)
-----------------------------------------------------------------------------
NativeStep == Emit \/ Dispatch \/ Delivered \/ ShutDown \/ Boot

CallStep(c) ==
  \/ \E t \in Trampoline : Install(c, t)
  \/ Retire(c) \/ Activate(c)
  \/ Disable(c) \/ ReleaseAll(c)
  \/ Flush(c) \/ FlushTimesOut(c) \/ FlushReturns(c) \/ ReleaseRetired(c)

(* Types are kept by every step.                                           *)
LEMMA TypeStep == TypeOK /\ [Next]_vars => TypeOK'
PROOF
  <1> SUFFICES ASSUME TypeOK, [Next]_vars PROVE TypeOK'
    OBVIOUS
  <1> USE NoneAssumption, BoundAssumption
  <1>1. CASE Emit
    BY <1>1 DEF Emit, TypeOK, globals, calls, MaybeTrampoline, Label
  <1>2. CASE Dispatch
    BY <1>2 DEF Dispatch, TypeOK, globals, calls, MaybeTrampoline, Label
  <1>3. CASE Delivered
    BY <1>3 DEF Delivered, TypeOK, globals, calls, MaybeTrampoline, Label
  <1>4. CASE ShutDown
    BY <1>4 DEF ShutDown, TypeOK, globals, calls, MaybeTrampoline, Label
  <1>5. CASE Boot
    BY <1>5 DEF Boot, TypeOK, globals, calls, MaybeTrampoline, Label
  <1>6. ASSUME NEW c \in Caller, NEW t \in Trampoline, Install(c, t) PROVE TypeOK'
    BY <1>6 DEF Install, At, TypeOK, globals, calls, MaybeTrampoline, Label
  <1>7. ASSUME NEW c \in Caller, Retire(c) PROVE TypeOK'
    BY <1>7 DEF Retire, Replaced, At, TypeOK, native, MaybeTrampoline, Label
  <1>8. ASSUME NEW c \in Caller, Activate(c) PROVE TypeOK'
    BY <1>8 DEF Activate, At, TypeOK, native, MaybeTrampoline, Label
  <1>9. ASSUME NEW c \in Caller, Disable(c) PROVE TypeOK'
    BY <1>9 DEF Disable, At, TypeOK, globals, MaybeTrampoline, Label
  <1>10. ASSUME NEW c \in Caller, ReleaseAll(c) PROVE TypeOK'
    BY <1>10 DEF ReleaseAll, At, TypeOK, native, MaybeTrampoline, Label
  <1>11. ASSUME NEW c \in Caller, Flush(c) PROVE TypeOK'
    BY <1>11 DEF Flush, At, TypeOK, native, globals, MaybeTrampoline, Label
  <1>12. ASSUME NEW c \in Caller, FlushTimesOut(c) \/ FlushReturns(c) PROVE TypeOK'
    BY <1>12 DEF FlushTimesOut, FlushReturns, At, TypeOK, native, globals, MaybeTrampoline, Label
  <1>13. ASSUME NEW c \in Caller, ReleaseRetired(c) PROVE TypeOK'
    BY <1>13 DEF ReleaseRetired, At, TypeOK, native, MaybeTrampoline, Label
  <1>14. CASE UNCHANGED vars
    BY <1>14 DEF vars, native, globals, calls, TypeOK
  <1> QED
    BY <1>1, <1>2, <1>3, <1>4, <1>5, <1>6, <1>7, <1>8, <1>9, <1>10, <1>11, <1>12, <1>13, <1>14
    DEF Next

(* A step of the native side leaves every call where it was.               *)
LEMMA NativeKeeps == IInv /\ NativeStep => Alone' /\ Busy' /\ Quiet' /\ \A c \in Caller : CallOK(c)'
PROOF
  <1> SUFFICES ASSUME IInv, NativeStep
               PROVE Alone' /\ Busy' /\ Quiet' /\ \A c \in Caller : CallOK(c)'
    OBVIOUS
  <1>1. CASE Emit
    <2>1. UNCHANGED <<installed, running, delivered, active, retired, frame, barrier, pc>> /\ emitted' = emitted + 1
      BY <1>1 DEF Emit, globals, calls
    <2>2. Alone' /\ Busy' /\ Quiet'
      BY <2>1 DEF IInv, TypeOK, Alone, Busy, Quiet
    <2>3. ASSUME NEW c \in Caller PROVE CallOK(c)'
      <3>1. CallOK(c) /\ barrier[c] \in Nat
        BY DEF IInv, TypeOK
      <3> QED BY <2>1, <3>1 DEF CallOK, IInv, TypeOK
    <2> QED BY <2>2, <2>3
  <1>2. CASE Dispatch
    <2>1. /\ UNCHANGED <<installed, emitted, delivered, active, retired, frame, barrier, pc>>
          /\ running' = installed /\ installed # None /\ delivered < emitted
      BY <1>2 DEF Dispatch, globals, calls
    <2>2. Alone' /\ Busy' /\ Quiet'
      BY <2>1 DEF IInv, TypeOK, Alone, Busy, Quiet
    <2>3. ASSUME NEW c \in Caller PROVE CallOK(c)'
      <3>1. CallOK(c)
        BY DEF IInv
      <3>2. pc[c] \in {"flushing", "flushed"} => installed \in {None, active}
        BY DEF IInv, Alone, Quiet
      <3> QED BY <2>1, <3>1, <3>2 DEF CallOK
    <2> QED BY <2>2, <2>3
  <1>3. CASE Delivered
    <2>1. /\ UNCHANGED <<installed, emitted, active, retired, frame, barrier, pc>>
          /\ running' = None
      BY <1>3 DEF Delivered, globals, calls
    <2>2. Alone' /\ Busy' /\ Quiet'
      BY <2>1 DEF IInv, Alone, Busy, Quiet
    <2>3. ASSUME NEW c \in Caller PROVE CallOK(c)'
      <3>1. CallOK(c)
        BY DEF IInv
      <3> QED BY <2>1, <3>1 DEF CallOK
    <2> QED BY <2>2, <2>3
  <1>4. CASE ShutDown
    <2>1. /\ UNCHANGED <<running, emitted, delivered, active, retired, frame, barrier, pc>>
          /\ installed' = None /\ running = None
      BY <1>4 DEF ShutDown, globals, calls
    <2>2. Alone' /\ Busy' /\ Quiet'
      BY <2>1 DEF IInv, Alone, Busy, Quiet
    <2>3. ASSUME NEW c \in Caller PROVE CallOK(c)'
      <3>1. CallOK(c)
        BY DEF IInv
      <3> QED BY <2>1, <3>1 DEF CallOK
    <2> QED BY <2>2, <2>3
  <1>5. CASE Boot
    <2>1. UNCHANGED <<installed, running, emitted, delivered, active, retired, frame, barrier, pc>>
      BY <1>5 DEF Boot, globals, calls
    <2>2. Alone' /\ Busy' /\ Quiet'
      BY <2>1 DEF IInv, Alone, Busy, Quiet
    <2>3. ASSUME NEW c \in Caller PROVE CallOK(c)'
      <3>1. CallOK(c)
        BY DEF IInv
      <3> QED BY <2>1, <3>1 DEF CallOK
    <2> QED BY <2>2, <2>3
  <1> QED BY <1>1, <1>2, <1>3, <1>4, <1>5 DEF NativeStep

(* A step of a call finds the other callers outside.                       *)
LEMMA CallKeeps ==
  ASSUME NEW c \in Caller, Serialized = TRUE, IInv, CallStep(c)
  PROVE  Alone' /\ Busy' /\ Quiet' /\ \A d \in Caller : CallOK(d)'
PROOF
  <1> USE NoneAssumption
  <1>1. \A d \in Caller : d # c => pc[d] = "idle"
    <2>1. CASE pc[c] = "idle"
      BY <2>1 DEF CallStep, Install, Retire, Activate, Disable, ReleaseAll, Flush,
         FlushTimesOut, FlushReturns, ReleaseRetired, MayEnter
    <2>2. CASE pc[c] # "idle"
      BY <2>2 DEF IInv, Alone
    <2> QED BY <2>1, <2>2
  <1>2. \A d \in Caller : d # c => pc'[d] = "idle"
    BY <1>1 DEF IInv, TypeOK, CallStep, Install, Retire, Activate, Disable, ReleaseAll, Flush,
       FlushTimesOut, FlushReturns, ReleaseRetired, At
  <1>3. Alone' /\ \A d \in Caller : d # c => CallOK(d)'
    BY <1>2 DEF Alone, CallOK
  <1>4. pc \in [Caller -> Label] /\ frame \in [Caller -> MaybeTrampoline] /\ barrier \in [Caller -> Nat]
    BY DEF IInv, TypeOK
  <1>5. /\ Busy /\ CallOK(c)
        /\ emitted \in Nat /\ delivered \in Nat
        /\ installed \in MaybeTrampoline /\ running \in MaybeTrampoline
        /\ active \in MaybeTrampoline
    BY DEF IInv, TypeOK
  <1>6. pc[c] \notin {"installed", "retired", "disabled"}
          => installed \in {None, active} /\ running \in {None, active} \cup retired
    BY <1>1 DEF IInv, Quiet
  <1>7. ASSUME Busy', CallOK(c)',
               pc'[c] \notin {"installed", "retired", "disabled"}
                 => /\ installed' \in {None, active'}
                    /\ running' \in {None, active'} \cup retired'
        PROVE Alone' /\ Busy' /\ Quiet' /\ \A d \in Caller : CallOK(d)'
    BY <1>7, <1>3, <1>2 DEF Quiet
  <1>8. ASSUME NEW t \in Trampoline, Install(c, t)
        PROVE Alone' /\ Busy' /\ Quiet' /\ \A d \in Caller : CallOK(d)'
    <2>1. pc[c] = "idle" /\ UNCHANGED <<running, emitted, delivered, active, retired>>
      BY <1>8 DEF Install, MayEnter, globals
    <2>2. CASE installed' = t /\ frame' = [frame EXCEPT ![c] = t] /\ At(c, "installed")
      BY <2>1, <2>2, <1>4, <1>5, <1>6, <1>7 DEF At, Busy, CallOK
    <2>3. CASE UNCHANGED <<installed, frame, pc>>
      BY <2>1, <2>3, <1>4, <1>5, <1>6, <1>7 DEF Busy, CallOK
    <2> QED BY <1>8, <2>2, <2>3 DEF Install
  <1>9. ASSUME Retire(c) PROVE Alone' /\ Busy' /\ Quiet' /\ \A d \in Caller : CallOK(d)'
    BY <1>9, <1>4, <1>5, <1>6, <1>7 DEF Retire, Replaced, At, native, Busy, CallOK
  <1>10. ASSUME Activate(c) PROVE Alone' /\ Busy' /\ Quiet' /\ \A d \in Caller : CallOK(d)'
    BY <1>10, <1>4, <1>5, <1>6, <1>7 DEF Activate, At, native, Busy, CallOK
  <1>11. ASSUME Disable(c) PROVE Alone' /\ Busy' /\ Quiet' /\ \A d \in Caller : CallOK(d)'
    BY <1>11, <1>4, <1>5, <1>6, <1>7 DEF Disable, At, globals, Busy, CallOK
  <1>12. ASSUME ReleaseAll(c) PROVE Alone' /\ Busy' /\ Quiet' /\ \A d \in Caller : CallOK(d)'
    BY <1>12, <1>4, <1>5, <1>6, <1>7 DEF ReleaseAll, At, native, Busy, CallOK
  <1>13. ASSUME Flush(c) PROVE Alone' /\ Busy' /\ Quiet' /\ \A d \in Caller : CallOK(d)'
    BY <1>13, <1>4, <1>5, <1>6, <1>7 DEF Flush, MayEnter, At, native, globals, Busy, CallOK
  <1>14. ASSUME FlushTimesOut(c) PROVE Alone' /\ Busy' /\ Quiet' /\ \A d \in Caller : CallOK(d)'
    BY <1>14, <1>4, <1>5, <1>6, <1>7 DEF FlushTimesOut, At, native, globals, Busy, CallOK
  <1>15. ASSUME FlushReturns(c) PROVE Alone' /\ Busy' /\ Quiet' /\ \A d \in Caller : CallOK(d)'
    BY <1>15, <1>4, <1>5, <1>6, <1>7 DEF FlushReturns, At, native, globals, Busy, CallOK
  <1>16. ASSUME ReleaseRetired(c) PROVE Alone' /\ Busy' /\ Quiet' /\ \A d \in Caller : CallOK(d)'
    BY <1>16, <1>4, <1>5, <1>6, <1>7 DEF ReleaseRetired, At, native, Busy, CallOK
  <1> QED
    BY <1>8, <1>9, <1>10, <1>11, <1>12, <1>13, <1>14, <1>15, <1>16 DEF CallStep

(* The invariant is inductive.                                             *)
LEMMA Inductive ==
  ASSUME Serialized = TRUE
  PROVE  (Init => IInv) /\ (IInv /\ [Next]_vars => IInv')
PROOF
  <1>1. Init => IInv
    BY NoneAssumption DEF Init, IInv, TypeOK, Alone, Busy, Quiet, CallOK, MaybeTrampoline, Label
  <1>2. ASSUME IInv, [Next]_vars PROVE IInv'
    <2>1. TypeOK'
      BY <1>2, TypeStep DEF IInv
    <2>2. CASE NativeStep
      BY <1>2, <2>1, <2>2, NativeKeeps DEF IInv
    <2>3. ASSUME NEW c \in Caller, CallStep(c) PROVE IInv'
      BY <1>2, <2>1, <2>3, CallKeeps DEF IInv
    <2>4. CASE UNCHANGED vars
      <3>1. Alone' /\ Busy' /\ Quiet'
        BY <1>2, <2>4 DEF vars, native, globals, calls, IInv, Alone, Busy, Quiet
      <3>2. ASSUME NEW c \in Caller PROVE CallOK(c)'
        <4>1. CallOK(c)
          BY <1>2 DEF IInv
        <4> QED BY <4>1, <2>4 DEF vars, native, globals, calls, CallOK
      <3> QED BY <2>1, <3>1, <3>2 DEF IInv
    <2> QED BY <1>2, <2>2, <2>3, <2>4 DEF Next, NativeStep, CallStep
  <1> QED BY <1>1, <1>2

(* While no call is between its steps the one in force is the active one;  *)
(* otherwise the call in progress tells which it can be.                   *)
LEMMA InvariantSuffices == IInv => TrampolinesLive
PROOF
  <1> SUFFICES ASSUME IInv PROVE TrampolinesLive
    OBVIOUS
  <1>1. CASE \A c \in Caller : pc[c] \notin {"installed", "retired", "disabled"}
    BY <1>1 DEF IInv, Quiet, TrampolinesLive, Held
  <1>2. ASSUME NEW c \in Caller, pc[c] \in {"installed", "retired", "disabled"}
        PROVE TrampolinesLive
    <2>1. CallOK(c)
      BY DEF IInv
    <2>2. frame[c] \in {frame[d] : d \in Caller}
      OBVIOUS
    <2> QED BY <1>2, <2>1, <2>2 DEF CallOK, TrampolinesLive, Held
  <1> QED BY <1>1, <1>2

(* Every trampoline the dispatcher calls, or will call for the next        *)
(* message, is held by the binding, when calls are made one at a time      *)
(* (bindings.py 1633-1643, set_log_callback, flush_log).                   *)
THEOREM TrampolinesStayAlive ==
  ASSUME Serialized = TRUE
  PROVE  Spec => []TrampolinesLive
PROOF
  <1>1. Init => IInv
    BY Inductive
  <1>2. IInv /\ [Next]_vars => IInv'
    BY Inductive
  <1> QED BY <1>1, <1>2, InvariantSuffices, PTL DEF Spec

=============================================================================
