--------------------------- MODULE PathListsRefine ---------------------------
(***************************************************************************)
(* The ownership layer implements PathListLedger: each public call takes   *)
(* effect at its native call, whatever the books say at that moment.       *)
(***************************************************************************)
EXTENDS PathLists

(* The call that has dropped p's own reference and not yet booked it.      *)
GivingUp(p) ==
  \E a \in Actor : call[a].pc = "settle" /\ call[a].owner = p /\ TakesOwn(call[a].form, p)

(* The call that has given back an added reference on h, not yet booked.   *)
TakingBack(h) ==
  \E a \in Actor :
    /\ call[a].pc = "settle" /\ call[a].handle = h
    /\ call[a].owner # None => ~TakesOwn(call[a].form, call[a].owner)

Lending(h) == \E a \in Actor : call[a].pc = "count" /\ call[a].handle = h

Owned(p) ==
  IF ~alive THEN None
  ELSE IF obj[p] = "minting"
       THEN call[CHOOSE a \in Actor : call[a].pc = "track" /\ call[a].list = p].handle
       ELSE IF Born(p) /\ created[p] = 1 /\ ~GivingUp(p) THEN handle[p] ELSE None

Lent(h) ==
  IF ~alive THEN 0
  ELSE unbooked[h] + (IF registry[h] = None THEN 0 ELSE added[registry[h]])
         + (IF Lending(h) THEN 1 ELSE 0) - (IF TakingBack(h) THEN 1 ELSE 0)

Ledger ==
  INSTANCE PathListLedger WITH
    count <- refs,
    fresh <- {p \in PathList : obj[p] = "unborn"},
    owns  <- [p \in PathList |-> Owned(p)],
    lent  <- [h \in Handle |-> Lent(h)],
    pins  <- pinned,
    up    <- alive

(* Every behaviour of the binding, with its books, its interleavings and   *)
(* its finalizer, is one of the ledger: a native release always gives up   *)
(* the reference of exactly one owner, and the books settle on the same.   *)
ImplementsLedger == Ledger!Spec

=============================================================================
