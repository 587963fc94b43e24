-------------------------- MODULE OperationsRefine --------------------------
(***************************************************************************)
(* Waiting for data-plane operations implements WaitLedger: every wait,    *)
(* with its guards, its claim, its fetch and its bookkeeping, takes effect *)
(* at its release.                                                         *)
(***************************************************************************)
EXTENDS Operations

(* A wait that has released o and not yet kept what it is about to say.    *)
Leaving(o, err) ==
  \E t \in Thread : call[t].pc = "leave" /\ call[t].op = o /\ call[t].err = err

(* What result() will say of a clone from now on.                          *)
Told(o) ==
  IF o \in result \/ Leaving(o, "none") THEN "success"
  ELSE IF error[o] = "own" \/ Leaving(o, "own") THEN "failure"
  ELSE "none"

Ledger ==
  INSTANCE WaitLedger WITH
    held   <- tracked,
    pinned <- {o \in Op : kept[o]},
    told   <- [o \in Clone |-> Told(o)],
    up     <- inst

(* Every behaviour of the waits, with their interleavings, timeouts,       *)
(* failures, repeats and polls, is one of the ledger: an operation is      *)
(* released once, after its chain, and what its wait came to is the truth  *)
(* about that chain and is never taken back (Operation.wait,               *)
(* CloneOperation.wait and Stage._wait_and_release).                       *)
ImplementsWaitLedger == Ledger!Spec

=============================================================================
