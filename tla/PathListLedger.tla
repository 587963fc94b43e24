--------------------------- MODULE PathListLedger ---------------------------
(***************************************************************************)
(* What the ownership layer of path_dictionary.py promises its callers,    *)
(* without the books it keeps to do so: every list object owns one native  *)
(* reference from its creation until it gives it up, once; callers take    *)
(* and give back references of their own; the native side pins what it     *)
(* uses; and nothing else ever moves the count of a handle.  A call        *)
(* happens at one instant.                                                 *)
(***************************************************************************)
EXTENDS Naturals, FiniteSets

CONSTANTS PathList, Handle, None

VARIABLES
  count,   \* native reference count of each handle
  fresh,   \* lists not created yet
  owns,    \* list -> the handle it owns a reference on, or None
  lent,    \* handle -> references callers added and have not given back
  pins,    \* handle -> references of the native side
  up       \* the dictionary exists

vars == <<count, fresh, owns, lent, pins, up>>

TypeOK ==
  /\ count \in [Handle -> Nat]
  /\ fresh \subseteq PathList
  /\ owns \in [PathList -> Handle \cup {None}]
  /\ lent \in [Handle -> Nat]
  /\ pins \in [Handle -> Nat]
  /\ up \in BOOLEAN

Init ==
  /\ count = [h \in Handle |-> 0]
  /\ fresh = PathList
  /\ owns = [p \in PathList |-> None]
  /\ lent = [h \in Handle |-> 0]
  /\ pins = [h \in Handle |-> 0]
  /\ up = TRUE

Mint(p, h) ==
  /\ up /\ p \in fresh /\ count[h] = 0
  /\ count' = [count EXCEPT ![h] = 1]
  /\ fresh' = fresh \ {p}
  /\ owns' = [owns EXCEPT ![p] = h]
  /\ UNCHANGED <<lent, pins, up>>

(* The object's own reference, given up once: fresh lists never come back. *)
GiveUp(p) ==
  /\ up /\ owns[p] # None /\ count[owns[p]] > 0
  /\ count' = [count EXCEPT ![owns[p]] = @ - 1]
  /\ owns' = [owns EXCEPT ![p] = None]
  /\ UNCHANGED <<fresh, lent, pins, up>>

Lend(h) ==
  /\ up /\ count[h] > 0
  /\ count' = [count EXCEPT ![h] = @ + 1]
  /\ lent' = [lent EXCEPT ![h] = @ + 1]
  /\ UNCHANGED <<fresh, owns, pins, up>>

TakeBack(h) ==
  /\ up /\ lent[h] > 0 /\ count[h] > 0
  /\ count' = [count EXCEPT ![h] = @ - 1]
  /\ lent' = [lent EXCEPT ![h] = @ - 1]
  /\ UNCHANGED <<fresh, owns, pins, up>>

Pin(h) ==
  /\ up
  /\ count' = [count EXCEPT ![h] = @ + 1]
  /\ pins' = [pins EXCEPT ![h] = @ + 1]
  /\ UNCHANGED <<fresh, owns, lent, up>>

Unpin(h) ==
  /\ up /\ pins[h] > 0 /\ count[h] > 0
  /\ count' = [count EXCEPT ![h] = @ - 1]
  /\ pins' = [pins EXCEPT ![h] = @ - 1]
  /\ UNCHANGED <<fresh, owns, lent, up>>

(* The Stage goes, and every reference with it.                            *)
End ==
  /\ up
  /\ up' = FALSE
  /\ count' = [h \in Handle |-> 0]
  /\ owns' = [p \in PathList |-> None]
  /\ lent' = [h \in Handle |-> 0]
  /\ pins' = [h \in Handle |-> 0]
  /\ UNCHANGED fresh

Next ==
  \/ \E p \in PathList, h \in Handle : Mint(p, h)
  \/ \E p \in PathList : GiveUp(p)
  \/ \E h \in Handle : Lend(h) \/ TakeBack(h) \/ Pin(h) \/ Unpin(h)
  \/ End

Spec == Init /\ [][Next]_vars

=============================================================================
