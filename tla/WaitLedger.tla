----------------------------- MODULE WaitLedger -----------------------------
(***************************************************************************)
(* What waiting for data-plane operations promises its callers, without    *)
(* the steps of a wait: an operation runs after its dependencies, is       *)
(* released once and only with its whole chain finished, and its inputs    *)
(* outlive its tracking.  A wait happens at one instant: the one at which  *)
(* it releases the operation settles what a clone's result() will say from *)
(* then on.  Waits that time out, repeat or are refused change nothing.    *)
(***************************************************************************)
CONSTANTS
  Op,
  Clone,     \* those whose verdict result() tells again and again
  Depends    \* operation -> all operations its ordinal orders it after

VARIABLES
  run,     \* "unborn", "rejected", "pending", "done", "failed"
  held,    \* operations enqueued and not yet released
  pinned,  \* operations whose input buffers are pinned
  told,    \* clone -> its verdict: "none", "success", "failure"
  up       \* the Stage exists

vars == <<run, held, pinned, told, up>>

Init ==
  /\ run = [o \in Op |-> "unborn"]
  /\ held = {}
  /\ pinned = {}
  /\ told = [o \in Clone |-> "none"]
  /\ up = TRUE

Over(o) == run[o] \in {"done", "failed", "rejected"}

(* A rejected operation has no part in the verdict of those after it.      *)
ChainOver(o) == run[o] # "rejected" /\ Over(o) /\ \A d \in Depends[o] : Over(d)

Verdict(o) ==
  IF \E d \in {o} \cup Depends[o] : run[d] = "failed" THEN "failure" ELSE "success"

Enqueue(o) ==
  /\ up /\ run[o] = "unborn"
  /\ pinned' = pinned \cup {o}
  /\ \/ run' = [run EXCEPT ![o] = "pending"] /\ held' = held \cup {o}
     \/ run' = [run EXCEPT ![o] = "rejected"] /\ UNCHANGED held
  /\ UNCHANGED <<told, up>>

Execute(o) ==
  /\ run[o] = "pending" /\ \A d \in Depends[o] : Over(d)
  /\ \E verdict \in {"done", "failed"} : run' = [run EXCEPT ![o] = verdict]
  /\ UNCHANGED <<held, pinned, told, up>>

(* A wait that succeeds or fails.                                          *)
Conclude(o) ==
  /\ up /\ o \in held /\ ChainOver(o)
  /\ held' = held \ {o}
  /\ told' = [c \in Clone |-> IF c = o THEN Verdict(o) ELSE told[c]]
  /\ UNCHANGED <<run, pinned, up>>

(* A release by a program that polled: nothing is told.                    *)
Discard(o) ==
  /\ up /\ o \in held /\ ChainOver(o)
  /\ held' = held \ {o}
  /\ UNCHANGED <<run, pinned, told, up>>

(* The inputs go only once nobody can read them.                           *)
LetGo(o) ==
  /\ o \in pinned /\ (o \in held => ~up)
  /\ pinned' = pinned \ {o}
  /\ UNCHANGED <<run, held, told, up>>

End ==
  /\ up
  /\ up' = FALSE
  /\ UNCHANGED <<run, held, pinned, told>>

Next ==
  \/ \E o \in Op : Enqueue(o) \/ Execute(o) \/ Conclude(o) \/ Discard(o) \/ LetGo(o)
  \/ End

Spec == Init /\ [][Next]_vars

=============================================================================
