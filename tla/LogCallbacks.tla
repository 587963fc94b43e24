---------------------------- MODULE LogCallbacks ----------------------------
(***************************************************************************)
(* The process-wide log callback (bindings.py, "Logging").                 *)
(*                                                                         *)
(* Every callback is wrapped in a trampoline, a piece of machine code that *)
(* Python frees when nothing refers to it.  The native dispatcher thread   *)
(* takes the installed one under a lock and calls it unlocked, so it may   *)
(* still run one that was replaced.  The binding therefore keeps what it   *)
(* replaced until a flush, or the end of delivery, shows that nothing runs *)
(* it any more.  The globals that do so have no lock of their own.         *)
(***************************************************************************)
EXTENDS Naturals

CONSTANTS
  Caller,      \* threads that call set_log_callback and flush_log
  Trampoline,  \* trampolines that may ever be made
  None,        \* no trampoline
  Serialized,  \* the program lets one caller in at a time
  MaxMessages  \* bound: messages logged

ASSUME NoneAssumption == None \notin Trampoline
ASSUME BoundAssumption == MaxMessages \in Nat /\ Serialized \in BOOLEAN

VARIABLES
  installed, \* native: the callback in force
  running,   \* native: the one the dispatcher is calling
  emitted,   \* native: messages logged so far
  delivered, \* native: messages whose call has returned
  booted,    \* native: the runtime is up
  active,    \* _active_log_trampoline
  retired,   \* _retired_log_trampolines
  made,      \* trampolines made so far
  frame,     \* by caller: the trampoline its call holds
  barrier,   \* by caller: what its flush waits for
  pc         \* by caller: how far its call is

native == <<installed, running, emitted, delivered, booted>>
globals == <<active, retired>>
calls == <<made, frame, barrier, pc>>
vars == <<native, globals, calls>>

Init ==
  /\ installed = None /\ running = None
  /\ emitted = 0 /\ delivered = 0 /\ booted = TRUE
  /\ active = None /\ retired = {} /\ made = {}
  /\ frame = [c \in Caller |-> None]
  /\ barrier = [c \in Caller |-> 0]
  /\ pc = [c \in Caller |-> "idle"]

MayEnter(c) == pc[c] = "idle" /\ (Serialized => \A d \in Caller : pc[d] = "idle")

At(c, label) == pc' = [pc EXCEPT ![c] = label]

-----------------------------------------------------------------------------
(* The native side                                                         *)

(* A message is logged; with no callback it is not even buffered.          *)
Emit ==
  /\ booted /\ installed # None /\ emitted < MaxMessages
  /\ emitted' = emitted + 1
  /\ UNCHANGED <<installed, running, delivered, booted, globals, calls>>

(* The dispatcher takes a message and the callback in force ...            *)
Dispatch ==
  /\ running = None /\ delivered < emitted /\ installed # None
  /\ running' = installed
  /\ UNCHANGED <<installed, emitted, delivered, booted, globals, calls>>

(* ... and the call returns; what the callback raised was printed.         *)
Delivered ==
  /\ running # None /\ running' = None
  /\ delivered' = delivered + 1
  /\ UNCHANGED <<installed, emitted, booted, globals, calls>>

(* The last Stage goes: pending messages are delivered, then it is over.   *)
ShutDown ==
  /\ booted /\ running = None /\ delivered = emitted
  /\ booted' = FALSE /\ installed' = None
  /\ UNCHANGED <<running, emitted, delivered, globals, calls>>

Boot ==
  /\ ~booted /\ booted' = TRUE
  /\ UNCHANGED <<installed, running, emitted, delivered, globals, calls>>

-----------------------------------------------------------------------------
(* set_log_callback(callback)                                              *)

(* The wrapper is made and handed to the native side, which may refuse it: *)
(* a filter that does not parse, a runtime that is not up.                 *)
Install(c, t) ==
  /\ MayEnter(c) /\ t \notin made
  /\ made' = made \cup {t}
  /\ \/ /\ booted /\ installed' = t
        /\ frame' = [frame EXCEPT ![c] = t] /\ At(c, "installed")
     \/ UNCHANGED <<installed, frame, pc>>
  /\ UNCHANGED <<running, emitted, delivered, booted, globals, barrier>>

(* Slip: the trampoline that was replaced is let go.                       *)
ReplacedSlip(t) == {}

(* What is kept of the trampoline that was active.                         *)
Replaced(t) == {t} \ {None}

Retire(c) ==
  /\ pc[c] = "installed"
  /\ retired' = retired \cup Replaced(active)
  /\ At(c, "retired")
  /\ UNCHANGED <<native, active, made, frame, barrier>>

Activate(c) ==
  /\ pc[c] = "retired"
  /\ active' = frame[c]
  /\ frame' = [frame EXCEPT ![c] = None]
  /\ At(c, "idle")
  /\ UNCHANGED <<native, retired, made, barrier>>

-----------------------------------------------------------------------------
(* set_log_callback(None)                                                  *)

(* Pending messages are delivered and the dispatcher is torn down before   *)
(* the native call returns; refused when the runtime is not up.            *)
Disable(c) ==
  /\ MayEnter(c) /\ booted /\ running = None /\ delivered = emitted
  /\ installed' = None
  /\ At(c, "disabled")
  /\ UNCHANGED <<running, emitted, delivered, booted, globals, made, frame, barrier>>

ReleaseAll(c) ==
  /\ pc[c] = "disabled"
  /\ active' = None /\ retired' = {}
  /\ At(c, "idle")
  /\ UNCHANGED <<native, made, frame, barrier>>

-----------------------------------------------------------------------------
(* flush_log                                                               *)

Flush(c) ==
  /\ MayEnter(c)
  /\ barrier' = [barrier EXCEPT ![c] = emitted]
  /\ At(c, "flushing")
  /\ UNCHANGED <<native, globals, made, frame>>

FlushTimesOut(c) ==
  /\ pc[c] = "flushing"
  /\ At(c, "idle")
  /\ UNCHANGED <<native, globals, made, frame, barrier>>

(* OK: everything logged before the call was delivered, or nothing is      *)
(* installed.                                                              *)
FlushReturns(c) ==
  /\ pc[c] = "flushing" /\ (delivered >= barrier[c] \/ installed = None)
  /\ At(c, "flushed")
  /\ UNCHANGED <<native, globals, made, frame, barrier>>

ReleaseRetired(c) ==
  /\ pc[c] = "flushed"
  /\ retired' = {}
  /\ At(c, "idle")
  /\ UNCHANGED <<native, active, made, frame, barrier>>

Next ==
  \/ Emit \/ Dispatch \/ Delivered \/ ShutDown \/ Boot
  \/ \E c \in Caller :
       \/ \E t \in Trampoline : Install(c, t)
       \/ Retire(c) \/ Activate(c)
       \/ Disable(c) \/ ReleaseAll(c)
       \/ Flush(c) \/ FlushTimesOut(c) \/ FlushReturns(c) \/ ReleaseRetired(c)

Spec == Init /\ [][Next]_vars

-----------------------------------------------------------------------------
(* Correctness                                                             *)

(* What Python does not free: the global, the list, and the call's own.    *)
Held == ({active} \cup retired \cup {frame[c] : c \in Caller}) \ {None}

(* The dispatcher never calls, and is never about to call, a trampoline    *)
(* that was freed, whatever was replaced, flushed or disabled meanwhile    *)
(* ("a freed trampoline would be a use-after-free on the next message",    *)
(* bindings.py 1633-1643).                                                 *)
TrampolinesLive == {installed, running} \ {None} \subseteq Held

=============================================================================
