--------------------------- MODULE PathLists_proofs ---------------------------
(***************************************************************************)
(* Proofs about PathLists, and that it implements PathListLedger, for any  *)
(* number of threads, lists, wrappers and handles.                         *)
(***************************************************************************)
EXTENDS PathListsRefine, TLAPS

(* The use the binding's documentation asks for: calls on one handle do    *)
(* not overlap, a released PathList is not passed to destroy_path_list,    *)
(* and an erased handle does not come back in the middle of a call.        *)
CarefulUse == Reuse # "anytime" /\ ~StaleCalls /\ ~CyclicGC

-----------------------------------------------------------------------------
(* When the call of one actor on handle h moves to c, the calls on other   *)
(* handles are untouched, and on h there is no other.                      *)
LEMMA CallFlags ==
  ASSUME ConstantsAssumption, TypeOK, CallsApart,
         NEW a \in Actor, NEW h \in Handle, NEW c \in Calls,
         call' = [call EXCEPT ![a] = c],
         c.handle = h \/ c = NoCall,
         \/ call[a].pc # "idle" /\ call[a].handle = h
         \/ call[a].pc = "idle" /\ ~Busy(h)
  PROVE  /\ \A g \in Handle \ {h} :
              (Gaining(g)' <=> Gaining(g)) /\ (Losing(g)' <=> Losing(g))
         /\ Gaining(h) <=> call[a].pc \in {"track", "count"}
         /\ Losing(h) <=> call[a].pc = "settle"
         /\ Gaining(h)' <=> c.pc \in {"track", "count"}
         /\ Losing(h)' <=> c.pc = "settle"
<1> USE DEF TypeOK, CallsApart, InCall, NoCall, Calls, Busy, Gaining, Losing
<1>1. \A b \in Actor : call'[b] = IF b = a THEN c ELSE call[b]
  OBVIOUS
<1>2. \A b \in Actor : b # a /\ call[b].pc # "idle" => call[b].handle # h
  BY DEF ConstantsAssumption
<1>3. None \notin Handle
  BY DEF ConstantsAssumption
<1>4. ASSUME NEW g \in Handle \ {h}
      PROVE  (Gaining(g)' <=> Gaining(g)) /\ (Losing(g)' <=> Losing(g))
  BY <1>1, <1>3, <1>4
<1>5. Gaining(h) <=> call[a].pc \in {"track", "count"}
  BY <1>2
<1>6. Losing(h) <=> call[a].pc = "settle"
  BY <1>2
<1>7. Gaining(h)' <=> c.pc \in {"track", "count"}
  BY <1>1, <1>2, <1>3
<1>8. Losing(h)' <=> c.pc = "settle"
  BY <1>1, <1>2, <1>3
<1> QED BY <1>4, <1>5, <1>6, <1>7, <1>8

(* The same for a call that returns, and for one that begins.              *)
LEMMA ReturnFlags ==
  ASSUME ConstantsAssumption, TypeOK, CallsApart, NEW a \in Actor, NEW h \in Handle,
         call[a].pc # "idle", call[a].handle = h, Return(a)
  PROVE  /\ \A g \in Handle \ {h} :
              (Gaining(g)' <=> Gaining(g)) /\ (Losing(g)' <=> Losing(g))
         /\ Gaining(h) <=> call[a].pc \in {"track", "count"}
         /\ Losing(h) <=> call[a].pc = "settle"
         /\ ~Gaining(h)' /\ ~Losing(h)'
<1> DEFINE c == NoCall
<1>1. c \in Calls /\ c.pc = "idle" /\ c = NoCall
  BY DEF NoCall, Calls, Forms
<1>2. call' = [call EXCEPT ![a] = c]
  BY DEF Return
<1> HIDE DEF c
<1> QED BY <1>1, <1>2, CallFlags

LEMMA EnterFlags ==
  ASSUME ConstantsAssumption, TypeOK, CallsApart, NEW a \in Actor, NEW h \in Handle,
         NEW pc \in {"track", "count", "release"}, NEW form \in Forms,
         NEW p \in PathList \cup {None}, NEW o \in PathList \cup {None},
         call[a].pc = "idle", ~Busy(h), Enter(a, pc, form, h, p, o)
  PROVE  /\ \A g \in Handle \ {h} :
              (Gaining(g)' <=> Gaining(g)) /\ (Losing(g)' <=> Losing(g))
         /\ ~Gaining(h) /\ ~Losing(h)
         /\ Gaining(h)' <=> pc \in {"track", "count"}
         /\ ~Losing(h)'
<1> DEFINE c == [pc |-> pc, form |-> form, handle |-> h, list |-> p, owner |-> o]
<1>1. c \in Calls /\ c.pc = pc /\ c.handle = h
  BY DEF Calls
<1>2. call' = [call EXCEPT ![a] = c]
  BY DEF Enter
<1> HIDE DEF c
<1> QED BY <1>1, <1>2, CallFlags

(* The count of a handle, with the call in progress on it.                 *)
LEMMA Balance ==
  ASSUME BooksMatchCount, alive, NEW h \in Handle
  PROVE  refs[h] + (IF Losing(h) THEN 1 ELSE 0)
           = pinned[h] + unbooked[h] + Booked(h) + (IF Gaining(h) THEN 1 ELSE 0)
BY DEF BooksMatchCount

-----------------------------------------------------------------------------
(* Each step keeps IInv.                                                   *)

(* _track finds no entry, and books the list under a box of its own.       *)
LEMMA TrackKeeps ==
  ASSUME CarefulUse, IInv, NEW t \in Thread, Track(t)
  PROVE  IInv'
<1> USE ConstantsAssumption DEF CarefulUse
<1>0. PICK h \in Handle, p \in PathList :
        /\ call[t].handle = h /\ call[t].list = p /\ t \in Actor
        /\ obj[p] = "minting" /\ alive /\ h \in minted
        /\ registry[h] = None /\ unbooked[h] = 0
        /\ created[p] = 0 /\ added[p] = 0 /\ BoxFor(p, h) = p
  <2>1. t \in Actor /\ InCall(t) /\ call[t].pc = "track"
    BY DEF Actor, InCall, Track
  <2>2. call[t].handle \in Handle /\ call[t].list \in PathList /\ TrackKnows(t)
    BY <2>1 DEF IInv, TypeOK, CallsApart, CallsInformed, TrackKnows
  <2> QED
    BY <2>1, <2>2 DEF IInv, TypeOK, CallsApart, TrackKnows, BoxesKept, Born, BoxFor
<1>2. TypeOK'
  BY <1>0 DEF IInv, TypeOK, NoCall, Calls, Forms, Track, Return, native, books
<1>3. CallsApart'
  BY <1>0 DEF IInv, TypeOK, CallsApart, InCall, Calls, NoCall, Busy, Track, Return, native, books
<1>4. CallsInformed'
  BY <1>0 DEF IInv, TypeOK, CallsInformed, TrackKnows, ReleaseKnows, CollectorKnows, CallsApart, InCall, Calls, NoCall, Busy, BoxesKept, Born, Track, Return, native, books
<1>5. BoxesKept'
  BY <1>0 DEF IInv, TypeOK, BoxesKept, Born, CallsApart, InCall, Track, Return, native, books
<1>6. UnmintedUntouched'
  BY <1>0 DEF IInv, TypeOK, UnmintedUntouched, CallsApart, InCall, Track, Return, native, books
<1>7. GoneIsReclaimed'
  BY <1>0 DEF IInv, TypeOK, GoneIsReclaimed, CallsApart, InCall, Born, NoCall, Track, Return, native, books
<1>8. BooksMatchCount'
  <2>1. /\ \A g \in Handle \ {h} :
             (Gaining(g)' <=> Gaining(g)) /\ (Losing(g)' <=> Losing(g))
        /\ Gaining(h) /\ ~Losing(h) /\ ~Gaining(h)' /\ ~Losing(h)'
    BY <1>0, ReturnFlags DEF IInv, Track
  <2>2. /\ registry' = [registry EXCEPT ![h] = p]
        /\ created' = [created EXCEPT ![p] = 1] /\ added' = added
        /\ refs' = refs /\ pinned' = pinned /\ unbooked' = unbooked
    BY <1>0 DEF Track, native
  <2>3. ASSUME NEW g \in Handle \ {h} PROVE Booked(g)' = Booked(g)
    <3>1. registry[g] # p
      BY <1>0 DEF IInv, BoxesKept, Born
    <3> QED BY <1>0, <2>2, <3>1 DEF IInv, TypeOK, Booked
  <2>4. Booked(h) = 0 /\ Booked(h)' = 1
    BY <1>0, <2>2 DEF IInv, TypeOK, Booked
  <2>5. ASSUME NEW g \in Handle
        PROVE  refs'[g] + (IF Losing(g)' THEN 1 ELSE 0)
                 = pinned'[g] + unbooked'[g] + Booked(g)' + (IF Gaining(g)' THEN 1 ELSE 0)
    <3>1. refs[g] \in Nat /\ pinned[g] \in Nat /\ unbooked[g] \in Nat
      BY DEF IInv, TypeOK
    <3> QED BY <1>0, <2>1, <2>2, <2>3, <2>4, <3>1, Balance DEF IInv
  <2> QED BY <2>5 DEF BooksMatchCount
<1> QED BY <1>2, <1>3, <1>4, <1>5, <1>6, <1>7, <1>8 DEF IInv

(* A handle the native side may hand out has no references, entry or call. *)
LEMMA CreateKeeps ==
  ASSUME CarefulUse, IInv, NEW t \in Thread, NEW w \in Wrapper,
         NEW p \in PathList, NEW h \in Handle, Create(t, w, p, h)
  PROVE  IInv'
<1> USE ConstantsAssumption DEF CarefulUse
<1>0. /\ t \in Actor /\ t # Collector /\ call[t].pc = "idle" /\ ~Busy(h)
      /\ refs[h] = 0 /\ pinned[h] = 0 /\ registry[h] = None /\ unbooked[h] = 0
      /\ obj[p] = "unborn" /\ alive
  <2>1. /\ t \in Actor /\ t # Collector /\ call[t].pc = "idle" /\ obj[p] = "unborn"
        /\ alive /\ refs[h] = 0
    BY DEF Actor, Create, Fresh
  <2>2. ~Busy(h)
    BY DEF IInv, CallsApart, InCall, Busy, Create, Fresh
  <2>3. Booked(h) \in Nat /\ ~Gaining(h) /\ ~Losing(h)
    BY <2>2 DEF IInv, TypeOK, Booked, Busy, Gaining, Losing
  <2>4. pinned[h] \in Nat /\ unbooked[h] \in Nat
    BY DEF IInv, TypeOK
  <2>5. pinned[h] = 0 /\ unbooked[h] = 0 /\ Booked(h) = 0
    <3>1. refs[h] + 0 = pinned[h] + unbooked[h] + Booked(h) + 0
      BY <2>1, <2>3, Balance DEF IInv
    <3> QED BY <2>1, <2>3, <2>4, <3>1
  <2> QED BY <2>1, <2>2, <2>5 DEF IInv, TypeOK, BoxesKept, Booked
<1>2. TypeOK'
  BY <1>0 DEF IInv, TypeOK, NoCall, Calls, Forms, Create, Enter, native, books
<1>3. CallsApart'
  BY <1>0 DEF IInv, TypeOK, CallsApart, InCall, Calls, NoCall, Busy, CallsInformed, TrackKnows, Create, Enter, native, books
<1>4. CallsInformed'
  BY <1>0 DEF IInv, TypeOK, CallsInformed, TrackKnows, ReleaseKnows, CollectorKnows, CallsApart, InCall, Calls, NoCall, Busy, BoxesKept, Born, Create, Enter, native, books
<1>5. BoxesKept'
  BY <1>0 DEF IInv, TypeOK, BoxesKept, Born, CallsApart, InCall, Create, Enter, native, books
<1>6. UnmintedUntouched'
  BY <1>0 DEF IInv, TypeOK, UnmintedUntouched, CallsApart, InCall, Create, Enter, native, books
<1>7. GoneIsReclaimed'
  BY <1>0 DEF IInv, TypeOK, GoneIsReclaimed, CallsApart, InCall, Born, NoCall, Create, Enter, native, books
<1>8. BooksMatchCount'
  <2>1. /\ \A g \in Handle \ {h} :
             (Gaining(g)' <=> Gaining(g)) /\ (Losing(g)' <=> Losing(g))
        /\ ~Gaining(h) /\ ~Losing(h) /\ Gaining(h)' /\ ~Losing(h)'
    BY <1>0, EnterFlags DEF IInv, Create, Forms
  <2>2. /\ refs' = [refs EXCEPT ![h] = 1] /\ pinned' = pinned /\ unbooked' = unbooked
        /\ registry' = registry /\ created' = created /\ added' = added
    BY <1>0 DEF Create, native, books
  <2>3. ASSUME NEW g \in Handle \ {h} PROVE Booked(g)' = Booked(g)
    BY <2>2 DEF Booked
  <2>4. Booked(h) = 0 /\ Booked(h)' = 0
    BY <1>0, <2>2 DEF Booked
  <2>5. ASSUME NEW g \in Handle
        PROVE  refs'[g] + (IF Losing(g)' THEN 1 ELSE 0)
                 = pinned'[g] + unbooked'[g] + Booked(g)' + (IF Gaining(g)' THEN 1 ELSE 0)
    <3>1. refs[g] \in Nat /\ pinned[g] \in Nat /\ unbooked[g] \in Nat
      BY DEF IInv, TypeOK
    <3> QED BY <1>0, <2>1, <2>2, <2>3, <2>4, <3>1, Balance DEF IInv, TypeOK
  <2> QED BY <2>5 DEF BooksMatchCount
<1> QED BY <1>2, <1>3, <1>4, <1>5, <1>6, <1>7, <1>8 DEF IInv

(* The native count goes first; the call owes the books one.               *)
LEMMA AddReferenceKeeps ==
  ASSUME CarefulUse, IInv, NEW t \in Thread, NEW w \in Wrapper, NEW h \in Handle,
         AddReference(t, w, h)
  PROVE  IInv'
<1> USE ConstantsAssumption DEF CarefulUse
<1>0. /\ t \in Actor /\ t # Collector /\ call[t].pc = "idle" /\ ~Busy(h)
      /\ h \in minted /\ alive
  BY DEF Actor, AddReference, MayCall, IInv, TypeOK, UnmintedUntouched
<1>2. TypeOK'
  BY <1>0 DEF IInv, TypeOK, NoCall, Calls, Forms, AddReference, Enter, native, books, lists
<1>3. CallsApart'
  BY <1>0 DEF IInv, TypeOK, CallsApart, InCall, Calls, NoCall, Busy, CallsInformed, TrackKnows, AddReference, Enter, native, books, lists
<1>4. CallsInformed'
  BY <1>0 DEF IInv, TypeOK, CallsInformed, TrackKnows, ReleaseKnows, CollectorKnows, CallsApart, InCall, Calls, NoCall, Busy, BoxesKept, Born, AddReference, Enter, native, books, lists
<1>5. BoxesKept'
  BY <1>0 DEF IInv, TypeOK, BoxesKept, Born, CallsApart, InCall, AddReference, Enter, native, books, lists
<1>6. UnmintedUntouched'
  BY <1>0 DEF IInv, TypeOK, UnmintedUntouched, CallsApart, InCall, AddReference, Enter, native, books, lists
<1>7. GoneIsReclaimed'
  BY <1>0 DEF IInv, TypeOK, GoneIsReclaimed, CallsApart, InCall, Born, NoCall, AddReference, Enter, native, books, lists
<1>8. BooksMatchCount'
  <2>1. /\ \A g \in Handle \ {h} :
             (Gaining(g)' <=> Gaining(g)) /\ (Losing(g)' <=> Losing(g))
        /\ ~Gaining(h) /\ ~Losing(h) /\ Gaining(h)' /\ ~Losing(h)'
    BY <1>0, EnterFlags DEF IInv, AddReference, Forms
  <2>2. /\ refs' = [refs EXCEPT ![h] = @ + 1] /\ pinned' = pinned /\ unbooked' = unbooked
        /\ registry' = registry /\ created' = created /\ added' = added
    BY <1>0 DEF AddReference, native, books
  <2>3. ASSUME NEW g \in Handle \ {h} PROVE Booked(g)' = Booked(g)
    BY <2>2 DEF Booked
  <2>4. refs'[h] = refs[h] + 1 /\ Booked(h)' = Booked(h) /\ Booked(h) \in Nat
    BY <1>0, <2>2 DEF Booked, IInv, TypeOK
  <2>5. ASSUME NEW g \in Handle
        PROVE  refs'[g] + (IF Losing(g)' THEN 1 ELSE 0)
                 = pinned'[g] + unbooked'[g] + Booked(g)' + (IF Gaining(g)' THEN 1 ELSE 0)
    <3>1. refs[g] \in Nat /\ pinned[g] \in Nat /\ unbooked[g] \in Nat
      BY DEF IInv, TypeOK
    <3> QED BY <1>0, <2>1, <2>2, <2>3, <2>4, <3>1, Balance DEF IInv, TypeOK
  <2> QED BY <2>5 DEF BooksMatchCount
<1> QED BY <1>2, <1>3, <1>4, <1>5, <1>6, <1>7, <1>8 DEF IInv

(* The added reference goes to the entry of the handle, if it has one.     *)
LEMMA CountKeeps ==
  ASSUME CarefulUse, IInv, NEW t \in Thread, Count(t)
  PROVE  IInv'
<1> USE ConstantsAssumption DEF CarefulUse
<1>0. PICK h \in Handle :
        /\ call[t].handle = h /\ t \in Actor /\ t # Collector /\ call[t].pc = "count"
        /\ alive /\ h \in minted
  <2>1. t \in Actor /\ t # Collector /\ InCall(t) /\ call[t].pc = "count"
    BY DEF Actor, InCall, Count
  <2> QED BY <2>1 DEF IInv, TypeOK, CallsApart
<1>1. \A g \in Handle : registry[g] # None =>
        registry[g] \in PathList /\ handle[registry[g]] = g /\ unbooked[g] = 0
  BY DEF IInv, TypeOK, BoxesKept
<1>2. TypeOK'
  <2>1. call' \in [Actor -> Calls]
    BY DEF IInv, TypeOK, Count, Return, NoCall, Calls, Forms
  <2>2. unbooked' \in [Handle -> Nat] /\ added' \in [PathList -> Nat]
    BY <1>0, <1>1 DEF IInv, TypeOK, Count
  <2> QED BY <2>1, <2>2 DEF IInv, TypeOK, Count, native, lists
<1>3. CallsApart'
  BY <1>0, <1>1 DEF IInv, TypeOK, CallsApart, InCall, Calls, NoCall, Busy, CallsInformed, TrackKnows, Count, Return, native, books, lists
<1>4. CallsInformed'
  BY <1>0, <1>1 DEF IInv, TypeOK, CallsInformed, TrackKnows, ReleaseKnows, CollectorKnows, CallsApart, InCall, Calls, NoCall, Busy, BoxesKept, Born, Count, Return, native, books, lists
<1>5. BoxesKept'
  BY <1>0, <1>1 DEF IInv, TypeOK, BoxesKept, Born, CallsApart, InCall, Count, Return, native, books, lists
<1>6. UnmintedUntouched'
  BY <1>0, <1>1 DEF IInv, TypeOK, UnmintedUntouched, CallsApart, InCall, Count, Return, native, books, lists
<1>7. GoneIsReclaimed'
  BY <1>0, <1>1 DEF IInv, TypeOK, GoneIsReclaimed, CallsApart, InCall, Born, NoCall, Count, Return, native, books, lists
<1>8. BooksMatchCount'
  <2>1. /\ \A g \in Handle \ {h} :
             (Gaining(g)' <=> Gaining(g)) /\ (Losing(g)' <=> Losing(g))
        /\ Gaining(h) /\ ~Losing(h) /\ ~Gaining(h)' /\ ~Losing(h)'
    BY <1>0, ReturnFlags DEF IInv, Count
  <2>2. refs' = refs /\ pinned' = pinned /\ registry' = registry /\ created' = created
    BY <1>0 DEF Count, native
  <2>3. ASSUME NEW g \in Handle \ {h}
        PROVE  unbooked'[g] = unbooked[g] /\ Booked(g)' = Booked(g)
    BY <1>0, <1>1, <2>2 DEF Booked, Count, IInv, TypeOK
  <2>4. unbooked'[h] + Booked(h)' = unbooked[h] + Booked(h) + 1
    BY <1>0, <1>1, <2>2 DEF Booked, Count, IInv, TypeOK
  <2>5. ASSUME NEW g \in Handle
        PROVE  refs'[g] + (IF Losing(g)' THEN 1 ELSE 0)
                 = pinned'[g] + unbooked'[g] + Booked(g)' + (IF Gaining(g)' THEN 1 ELSE 0)
    <3>1. /\ refs[g] \in Nat /\ pinned[g] \in Nat /\ unbooked[g] \in Nat
          /\ unbooked'[g] \in Nat /\ Booked(g) \in Nat /\ Booked(g)' \in Nat
      BY <1>2, <1>1, <2>2 DEF IInv, TypeOK, Booked
    <3> QED BY <1>0, <2>1, <2>2, <2>3, <2>4, <3>1, Balance DEF IInv
  <2> QED BY <2>5 DEF BooksMatchCount
<1> QED BY <1>2, <1>3, <1>4, <1>5, <1>6, <1>7, <1>8 DEF IInv

(* A release that begins knows the entry of its handle; begun by the finalizer, *)
(* it takes the create reference of the list that is being collected.      *)
LEMMA EnterReleaseKeeps ==
  ASSUME CarefulUse, IInv, NEW a \in Actor, NEW h \in Handle, NEW form \in Forms,
         NEW p \in PathList \cup {None},
         Enter(a, "release", form, h, p, registry[h]),
         alive, call[a].pc = "idle", ~Busy(h), h \in minted,
         registry[h] = None => unbooked[h] > 0 /\ form = "handle",
         form = "raw" => created[registry[h]] = 1,
         a = Collector => /\ form \in {"object", "raw"} /\ p \in PathList
                          /\ registry[h] = p /\ created[p] = 1,
         \/ obj' = obj
         \/ /\ a = Collector /\ obj[p] = "dropped"
            /\ obj' = [obj EXCEPT ![p] = "gone"],
         UNCHANGED <<native, unbooked, alive, open, books, handle, box, via>>
  PROVE  IInv'
<1> USE ConstantsAssumption DEF CarefulUse
<1>0. registry[h] \in PathList \cup {None}
  BY DEF IInv, TypeOK
<1>2. TypeOK'
  BY <1>0 DEF IInv, TypeOK, NoCall, Calls, Forms, Enter, native, books
<1>3. CallsApart'
  BY <1>0 DEF IInv, TypeOK, CallsApart, InCall, Calls, NoCall, Busy, CallsInformed, TrackKnows, Enter, native, books
<1>4. CallsInformed'
  BY <1>0 DEF IInv, TypeOK, CallsInformed, TrackKnows, ReleaseKnows, CollectorKnows, CallsApart, InCall, Calls, NoCall, Busy, BoxesKept, Born, Enter, native, books
<1>5. BoxesKept'
  BY <1>0 DEF IInv, TypeOK, BoxesKept, Born, CallsApart, InCall, Enter, native, books
<1>6. UnmintedUntouched'
  BY <1>0 DEF IInv, TypeOK, UnmintedUntouched, CallsApart, InCall, Enter, native, books
<1>7. GoneIsReclaimed'
  BY <1>0 DEF IInv, TypeOK, GoneIsReclaimed, CallsApart, InCall, Born, NoCall, Enter, native, books
<1>8. BooksMatchCount'
  <2>1. /\ \A g \in Handle \ {h} :
             (Gaining(g)' <=> Gaining(g)) /\ (Losing(g)' <=> Losing(g))
        /\ ~Gaining(h) /\ ~Losing(h) /\ ~Gaining(h)' /\ ~Losing(h)'
    BY <1>0, EnterFlags DEF IInv
  <2>2. \A g \in Handle : Booked(g)' = Booked(g)
    BY DEF Booked, books
  <2>3. ASSUME NEW g \in Handle
        PROVE  refs'[g] + (IF Losing(g)' THEN 1 ELSE 0)
                 = pinned'[g] + unbooked'[g] + Booked(g)' + (IF Gaining(g)' THEN 1 ELSE 0)
    BY <2>1, <2>2, Balance DEF IInv, native
  <2> QED BY <2>3 DEF BooksMatchCount
<1> QED BY <1>2, <1>3, <1>4, <1>5, <1>6, <1>7, <1>8 DEF IInv

(* A release that the native side accepts leaves the books one step behind. *)
LEMMA NativeReleaseKeeps ==
  ASSUME CarefulUse, IInv, NEW a \in Actor, NativeRelease(a)
  PROVE  IInv'
<1> USE ConstantsAssumption DEF CarefulUse
<1>0. PICK h \in Handle :
        /\ call[a].handle = h /\ call[a].pc = "release" /\ alive /\ h \in minted
        /\ refs[h] > 0 /\ refs' = [refs EXCEPT ![h] = @ - 1]
        /\ call' = [call EXCEPT ![a].pc = "settle"]
        /\ \A g \in Handle \ {h} :
             (Gaining(g)' <=> Gaining(g)) /\ (Losing(g)' <=> Losing(g))
        /\ ~Gaining(h) /\ ~Losing(h) /\ ~Gaining(h)' /\ Losing(h)'
  <2>1. InCall(a) /\ call[a].pc = "release" /\ call[a] \in Calls
    BY DEF InCall, NativeRelease, IInv, TypeOK
  <2>2. PICK h \in Handle : call[a].handle = h /\ alive /\ h \in minted
    BY <2>1 DEF IInv, TypeOK, CallsApart
  <2>3. ~Gaining(h) /\ ~Losing(h)
    BY <2>1, <2>2 DEF IInv, CallsApart, InCall, Gaining, Losing
  <2>7. refs[h] > 0 /\ refs' = [refs EXCEPT ![h] = @ - 1] /\ call' = [call EXCEPT ![a].pc = "settle"]
    BY <2>2 DEF NativeRelease
  <2>8. /\ \A g \in Handle \ {h} :
             (Gaining(g)' <=> Gaining(g)) /\ (Losing(g)' <=> Losing(g))
        /\ ~Gaining(h)' /\ Losing(h)'
    <3> DEFINE c == [call[a] EXCEPT !.pc = "settle"]
    <3>1. c \in Calls /\ c.pc = "settle" /\ c.handle = h
      BY <2>1, <2>2 DEF Calls
    <3>2. call' = [call EXCEPT ![a] = c]
      BY <2>7 DEF IInv, TypeOK
    <3> HIDE DEF c
    <3> QED BY <2>1, <2>2, <3>1, <3>2, CallFlags DEF IInv
  <2> QED BY <2>1, <2>2, <2>3, <2>7, <2>8
<1>2. TypeOK'
  <2>1. call' \in [Actor -> Calls]
    BY <1>0 DEF IInv, TypeOK, Calls
  <2>2. refs' \in [Handle -> Nat]
    BY <1>0 DEF IInv, TypeOK
  <2> QED BY <2>1, <2>2 DEF IInv, TypeOK, NativeRelease, books, lists
<1>3. CallsApart'
  BY <1>0 DEF IInv, TypeOK, CallsApart, InCall, Calls, NoCall, Busy, CallsInformed, TrackKnows, NativeRelease, books, lists
<1>4. CallsInformed'
  BY <1>0 DEF IInv, TypeOK, CallsInformed, TrackKnows, ReleaseKnows, CollectorKnows, CallsApart, InCall, Calls, NoCall, Busy, BoxesKept, Born, NativeRelease, books, lists
<1>5. BoxesKept'
  BY <1>0 DEF IInv, TypeOK, BoxesKept, Born, CallsApart, InCall, NativeRelease, books, lists
<1>6. UnmintedUntouched'
  BY <1>0 DEF IInv, TypeOK, UnmintedUntouched, CallsApart, InCall, NativeRelease, books, lists
<1>7. GoneIsReclaimed'
  BY <1>0 DEF IInv, TypeOK, GoneIsReclaimed, CallsApart, InCall, Born, NoCall, NativeRelease, books, lists
<1>8. BooksMatchCount'
  <2>1. /\ pinned' = pinned /\ unbooked' = unbooked
        /\ \A g \in Handle : Booked(g)' = Booked(g) /\ Booked(g) \in Nat
    BY DEF NativeRelease, books, Booked, IInv, TypeOK
  <2>2. ASSUME NEW g \in Handle
        PROVE  refs'[g] + (IF Losing(g)' THEN 1 ELSE 0)
                 = pinned'[g] + unbooked'[g] + Booked(g)' + (IF Gaining(g)' THEN 1 ELSE 0)
    <3>1. /\ refs[g] \in Nat /\ pinned[g] \in Nat /\ unbooked[g] \in Nat
          /\ refs'[g] = (IF g = h THEN refs[g] - 1 ELSE refs[g])
      BY <1>0 DEF IInv, TypeOK
    <3> QED BY <1>0, <2>1, <3>1, Balance DEF IInv
  <2> QED BY <2>2 DEF BooksMatchCount
<1> QED BY <1>2, <1>3, <1>4, <1>5, <1>6, <1>7, <1>8 DEF IInv

(* A call about to release has a reference to drop: the books say so.      *)
LEMMA ReleaseBacked ==
  ASSUME CarefulUse, IInv, NEW a \in Actor, call[a].pc = "release"
  PROVE  \E h \in Handle : call[a].handle = h /\ alive /\ h \in minted /\ refs[h] > 0
<1> USE ConstantsAssumption DEF CarefulUse
<1>1. InCall(a) /\ call[a] \in Calls
  BY DEF InCall, IInv, TypeOK
<1>2. PICK h \in Handle : call[a].handle = h /\ alive /\ h \in minted
  BY <1>1 DEF IInv, TypeOK, CallsApart
<1>3. ~Gaining(h) /\ ~Losing(h)
  BY <1>1, <1>2 DEF IInv, CallsApart, InCall, Gaining, Losing
<1>4. Booked(h) \in Nat /\ pinned[h] \in Nat /\ unbooked[h] \in Nat /\ refs[h] \in Nat
  BY <1>2 DEF IInv, TypeOK, Booked
<1>5. unbooked[h] + Booked(h) > 0
  <2>1. registry[h] = call[a].owner /\ (registry[h] = None => unbooked[h] > 0)
    BY <1>1, <1>2 DEF IInv, CallsInformed, ReleaseKnows
  <2> QED BY <1>4, <2>1 DEF IInv, TypeOK, BoxesKept, Booked
<1>6. refs[h] + 0 = pinned[h] + unbooked[h] + Booked(h) + 0
  BY <1>2, <1>3, Balance DEF IInv
<1> QED BY <1>2, <1>4, <1>5, <1>6

(* So only a program's thread can be refused, and nothing has changed when *)
(* its call returns.                                                       *)
LEMMA ReleaseRefusedKeeps ==
  ASSUME CarefulUse, IInv, NEW a \in Actor, ReleaseRefused(a)
  PROVE  IInv'
<1> USE ConstantsAssumption DEF CarefulUse
<1>0. PICK h \in Handle :
        /\ call[a].handle = h /\ call[a].pc = "release" /\ alive /\ a # Collector
        /\ call' = [call EXCEPT ![a] = NoCall]
        /\ \A g \in Handle \ {h} :
             (Gaining(g)' <=> Gaining(g)) /\ (Losing(g)' <=> Losing(g))
        /\ ~Gaining(h) /\ ~Losing(h) /\ ~Gaining(h)' /\ ~Losing(h)'
  <2>1. PICK h \in Handle : call[a].handle = h /\ alive /\ refs[h] > 0
    BY ReleaseBacked DEF ReleaseRefused
  <2>2. refs[h] # 0
    BY <2>1 DEF IInv, TypeOK
  <2>3. call[a].pc = "release" /\ a \in Thread /\ Return(a)
    BY <2>1, <2>2 DEF ReleaseRefused
  <2> QED BY <2>1, <2>3, ReturnFlags DEF IInv, Return
<1>1. UNCHANGED <<refs, minted, pinned, unbooked, alive, open, registry, created, added,
                  obj, handle, box, via>>
  BY DEF ReleaseRefused, native, books, lists
<1>2. TypeOK'
  BY <1>0, <1>1 DEF IInv, TypeOK, NoCall, Calls, Forms
<1>3. CallsApart'
  BY <1>0, <1>1 DEF IInv, TypeOK, CallsApart, InCall, NoCall
<1>4. CallsInformed'
  BY <1>0, <1>1 DEF IInv, TypeOK, CallsInformed, TrackKnows, ReleaseKnows, CollectorKnows, NoCall
<1>5. BoxesKept'
  BY <1>1 DEF IInv, BoxesKept, Born
<1>6. UnmintedUntouched'
  BY <1>1 DEF IInv, UnmintedUntouched
<1>7. GoneIsReclaimed'
  BY <1>0, <1>1 DEF IInv, TypeOK, GoneIsReclaimed, NoCall, Actor
<1>8. BooksMatchCount'
  <2>1. \A g \in Handle : Booked(g)' = Booked(g)
    BY <1>1 DEF Booked
  <2>2. ASSUME NEW g \in Handle PROVE (Gaining(g)' <=> Gaining(g)) /\ (Losing(g)' <=> Losing(g))
    BY <1>0
  <2> QED BY <1>0, <1>1, <2>1, <2>2 DEF IInv, BooksMatchCount
<1> QED BY <1>2, <1>3, <1>4, <1>5, <1>6, <1>7, <1>8 DEF IInv

(* A release on a handle without an entry gives back a reference a caller  *)
(* added to a list the binding did not make.                               *)
LEMMA SettleUnbookedKeeps ==
  ASSUME CarefulUse, IInv, NEW a \in Actor, NEW h \in Handle,
         call[a].pc = "settle", call[a].handle = h, alive, h \in minted, Return(a),
         UNCHANGED <<native, alive, open, lists>>,
         call[a].owner = None,
         unbooked' = [unbooked EXCEPT ![h] = IF @ > 0 THEN @ - 1 ELSE 0],
         UNCHANGED books
  PROVE  IInv'
<1> USE ConstantsAssumption DEF CarefulUse
<1>0. /\ registry[h] = None /\ unbooked[h] > 0 /\ a # Collector
      /\ unbooked' = [unbooked EXCEPT ![h] = @ - 1]
  BY DEF IInv, TypeOK, CallsInformed, ReleaseKnows, CollectorKnows
<1>2. TypeOK'
  BY <1>0 DEF IInv, TypeOK, NoCall, Calls, Forms, Return, native, books, lists
<1>3. CallsApart'
  BY <1>0 DEF IInv, TypeOK, CallsApart, InCall, Calls, NoCall, Busy, CallsInformed, TrackKnows, Return, native, books, lists
<1>4. CallsInformed'
  BY <1>0 DEF IInv, TypeOK, CallsInformed, TrackKnows, ReleaseKnows, CollectorKnows, CallsApart, InCall, Calls, NoCall, Busy, BoxesKept, Born, Return, native, books, lists
<1>5. BoxesKept'
  BY <1>0 DEF IInv, TypeOK, BoxesKept, Born, CallsApart, InCall, Return, native, books, lists
<1>6. UnmintedUntouched'
  BY <1>0 DEF IInv, TypeOK, UnmintedUntouched, CallsApart, InCall, Return, native, books, lists
<1>7. GoneIsReclaimed'
  BY <1>0 DEF IInv, TypeOK, GoneIsReclaimed, CallsApart, InCall, Born, NoCall, Return, native, books, lists
<1>8. BooksMatchCount'
  <2>1. /\ \A g \in Handle \ {h} :
             (Gaining(g)' <=> Gaining(g)) /\ (Losing(g)' <=> Losing(g))
        /\ ~Gaining(h) /\ Losing(h) /\ ~Gaining(h)' /\ ~Losing(h)'
    BY ReturnFlags DEF IInv
  <2>2. ASSUME NEW g \in Handle \ {h}
        PROVE  unbooked'[g] = unbooked[g] /\ Booked(g)' = Booked(g)
    BY <1>0 DEF Booked, IInv, TypeOK, BoxesKept, books
  <2>3. unbooked'[h] + Booked(h)' + 1 = unbooked[h] + Booked(h)
    BY <1>0 DEF Booked, IInv, TypeOK, BoxesKept, books
  <2>4. ASSUME NEW g \in Handle
        PROVE  refs'[g] + (IF Losing(g)' THEN 1 ELSE 0)
                 = pinned'[g] + unbooked'[g] + Booked(g)' + (IF Gaining(g)' THEN 1 ELSE 0)
    <3>1. /\ refs[g] \in Nat /\ pinned[g] \in Nat /\ unbooked[g] \in Nat /\ Booked(g) \in Nat
      BY DEF IInv, TypeOK, Booked
    <3>2. unbooked'[g] \in Nat /\ Booked(g)' \in Nat
      BY <1>2 DEF TypeOK, Booked
    <3> QED BY <2>1, <2>2, <2>3, <3>1, <3>2, Balance DEF IInv, native
  <2> QED BY <2>4 DEF BooksMatchCount
<1> QED BY <1>2, <1>3, <1>4, <1>5, <1>6, <1>7, <1>8 DEF IInv

(* The create reference goes, and the entry with it unless references that *)
(* callers added are left.                                                 *)
LEMMA DisownKeeps ==
  ASSUME CarefulUse, IInv, NEW a \in Actor, NEW h \in Handle,
         call[a].pc = "settle", call[a].handle = h, alive, h \in minted, Return(a),
         UNCHANGED <<native, alive, open, lists>>,
         NEW o \in PathList, registry[h] = o, created[o] = 1,
         Disown(h, o)
  PROVE  IInv'
<1> USE ConstantsAssumption DEF CarefulUse
<1>0. /\ handle[o] = h /\ Born(o) /\ unbooked[h] = 0 /\ added[o] \in Nat
      /\ created' = [created EXCEPT ![o] = 0] /\ added' = added /\ unbooked' = unbooked
      /\ registry' = IF added[o] = 0 THEN [registry EXCEPT ![h] = None] ELSE registry
      /\ \A b \in Actor : b # a => call[b].handle # h
      /\ \A g \in Handle \ {h} : registry[g] # o
      /\ a = Collector => call[a].list = o
      /\ \A b \in Actor : call'[b] = IF b = a THEN NoCall ELSE call[b]
  BY DEF IInv, TypeOK, CallsApart, InCall, BoxesKept, Disown, Prune, Return,
         CallsInformed, ReleaseKnows, CollectorKnows
<1>2. TypeOK'
  BY <1>0 DEF IInv, TypeOK, NoCall, Calls, Forms, Return, native, books, lists
<1>3. CallsApart'
  BY <1>0 DEF IInv, TypeOK, CallsApart, InCall, Calls, NoCall, Busy, CallsInformed, TrackKnows, Return, native, books, lists
<1>4. CallsInformed'
  <2>1. ASSUME NEW b \in Actor, call'[b].pc = "track" PROVE TrackKnows(b)'
    BY <1>0, <2>1 DEF IInv, TypeOK, CallsInformed, TrackKnows, NoCall, Calls, lists, BoxesKept
  <2>2. ASSUME NEW b \in Actor, call'[b].pc \in {"release", "settle"}
        PROVE  ReleaseKnows(b)'
    <3>1. b # a /\ call'[b] = call[b] /\ call[b].handle # h /\ ReleaseKnows(b)
      BY <1>0, <2>2 DEF IInv, CallsInformed, NoCall
    <3>2. call[b].handle \in Handle
      BY <2>2, <3>1 DEF IInv, TypeOK, CallsApart, InCall
    <3> QED BY <1>0, <3>1, <3>2 DEF IInv, TypeOK, ReleaseKnows
  <2>3. CollectorKnows'
    <3>1. Collector \in Actor
      BY DEF Actor
    <3> QED BY <1>0, <2>2, <3>1 DEF IInv, TypeOK, CallsInformed, CollectorKnows, ReleaseKnows,
               NoCall, CallsApart, InCall
  <2>4. call'[Collector].pc \notin {"track", "count"}
    BY <1>0 DEF IInv, CallsInformed, NoCall, Actor
  <2> QED BY <2>1, <2>2, <2>3, <2>4 DEF CallsInformed
<1>5. BoxesKept'
  BY <1>0 DEF IInv, TypeOK, BoxesKept, Born, CallsApart, InCall, Return, native, books, lists
<1>6. UnmintedUntouched'
  BY <1>0 DEF IInv, TypeOK, UnmintedUntouched, CallsApart, InCall, Return, native, books, lists
<1>7. GoneIsReclaimed'
  BY <1>0 DEF IInv, TypeOK, GoneIsReclaimed, CallsApart, InCall, Born, NoCall, Return, native, books, lists
<1>8. BooksMatchCount'
  <2>1. /\ \A g \in Handle \ {h} :
             (Gaining(g)' <=> Gaining(g)) /\ (Losing(g)' <=> Losing(g))
        /\ ~Gaining(h) /\ Losing(h) /\ ~Gaining(h)' /\ ~Losing(h)'
    BY ReturnFlags DEF IInv
  <2>2. ASSUME NEW g \in Handle \ {h}
        PROVE  unbooked'[g] = unbooked[g] /\ Booked(g)' = Booked(g)
    BY <1>0 DEF Booked, IInv, TypeOK, BoxesKept, books
  <2>3. unbooked'[h] + Booked(h)' + 1 = unbooked[h] + Booked(h)
    BY <1>0 DEF Booked, IInv, TypeOK, BoxesKept, books
  <2>4. ASSUME NEW g \in Handle
        PROVE  refs'[g] + (IF Losing(g)' THEN 1 ELSE 0)
                 = pinned'[g] + unbooked'[g] + Booked(g)' + (IF Gaining(g)' THEN 1 ELSE 0)
    <3>1. /\ refs[g] \in Nat /\ pinned[g] \in Nat /\ unbooked[g] \in Nat /\ Booked(g) \in Nat
      BY DEF IInv, TypeOK, Booked
    <3>2. unbooked'[g] \in Nat /\ Booked(g)' \in Nat
      BY <1>2 DEF TypeOK, Booked
    <3> QED BY <2>1, <2>2, <2>3, <3>1, <3>2, Balance DEF IInv, native
  <2> QED BY <2>4 DEF BooksMatchCount
<1> QED BY <1>2, <1>3, <1>4, <1>5, <1>6, <1>7, <1>8 DEF IInv

(* An added reference goes; the finalizer never gets here, because it holds *)
(* the create reference of its list.                                       *)
LEMMA GiveBackAddedKeeps ==
  ASSUME CarefulUse, IInv, NEW a \in Actor, NEW h \in Handle,
         call[a].pc = "settle", call[a].handle = h, alive, h \in minted, Return(a),
         UNCHANGED <<native, alive, open, lists>>,
         NEW o \in PathList, registry[h] = o, added[o] > 0,
         a # Collector, GiveBackAdded(h, o)
  PROVE  IInv'
<1> USE ConstantsAssumption DEF CarefulUse
<1>0. /\ handle[o] = h /\ Born(o) /\ unbooked[h] = 0 /\ added[o] \in Nat \ {0}
      /\ created' = created /\ added' = [added EXCEPT ![o] = @ - 1] /\ unbooked' = unbooked
      /\ registry' = IF created[o] = 0 /\ added[o] - 1 = 0
                     THEN [registry EXCEPT ![h] = None] ELSE registry
      /\ \A b \in Actor : b # a => call[b].handle # h
      /\ \A g \in Handle \ {h} : registry[g] # o
  BY DEF IInv, TypeOK, CallsApart, InCall, BoxesKept, GiveBackAdded, Prune
<1>2. TypeOK'
  BY <1>0 DEF IInv, TypeOK, NoCall, Calls, Forms, Return, native, books, lists
<1>3. CallsApart'
  BY <1>0 DEF IInv, TypeOK, CallsApart, InCall, Calls, NoCall, Busy, CallsInformed, TrackKnows, Return, native, books, lists
<1>4. CallsInformed'
  BY <1>0 DEF IInv, TypeOK, CallsInformed, TrackKnows, ReleaseKnows, CollectorKnows, CallsApart, InCall, Calls, NoCall, Busy, BoxesKept, Born, Return, native, books, lists
<1>5. BoxesKept'
  BY <1>0 DEF IInv, TypeOK, BoxesKept, Born, CallsApart, InCall, Return, native, books, lists
<1>6. UnmintedUntouched'
  BY <1>0 DEF IInv, TypeOK, UnmintedUntouched, CallsApart, InCall, Return, native, books, lists
<1>7. GoneIsReclaimed'
  BY <1>0 DEF IInv, TypeOK, GoneIsReclaimed, CallsApart, InCall, Born, NoCall, Return, native, books, lists
<1>8. BooksMatchCount'
  <2>1. /\ \A g \in Handle \ {h} :
             (Gaining(g)' <=> Gaining(g)) /\ (Losing(g)' <=> Losing(g))
        /\ ~Gaining(h) /\ Losing(h) /\ ~Gaining(h)' /\ ~Losing(h)'
    BY ReturnFlags DEF IInv
  <2>2. ASSUME NEW g \in Handle \ {h}
        PROVE  unbooked'[g] = unbooked[g] /\ Booked(g)' = Booked(g)
    BY <1>0 DEF Booked, IInv, TypeOK, BoxesKept, books
  <2>3. unbooked'[h] + Booked(h)' + 1 = unbooked[h] + Booked(h)
    BY <1>0 DEF Booked, IInv, TypeOK, BoxesKept, books
  <2>4. ASSUME NEW g \in Handle
        PROVE  refs'[g] + (IF Losing(g)' THEN 1 ELSE 0)
                 = pinned'[g] + unbooked'[g] + Booked(g)' + (IF Gaining(g)' THEN 1 ELSE 0)
    <3>1. /\ refs[g] \in Nat /\ pinned[g] \in Nat /\ unbooked[g] \in Nat /\ Booked(g) \in Nat
      BY DEF IInv, TypeOK, Booked
    <3>2. unbooked'[g] \in Nat /\ Booked(g)' \in Nat
      BY <1>2 DEF TypeOK, Booked
    <3>3. refs'[g] = refs[g] /\ pinned'[g] = pinned[g]
      BY DEF native
    <3>4. refs[g] + (IF Losing(g) THEN 1 ELSE 0)
            = pinned[g] + unbooked[g] + Booked(g) + (IF Gaining(g) THEN 1 ELSE 0)
      BY Balance DEF IInv
    <3>5. CASE g = h
      BY <2>1, <2>3, <3>1, <3>2, <3>3, <3>4, <3>5
    <3>6. CASE g # h
      BY <2>1, <2>2, <3>3, <3>4, <3>6
    <3> QED BY <3>5, <3>6
  <2> QED BY <2>4 DEF BooksMatchCount
<1> QED BY <1>2, <1>3, <1>4, <1>5, <1>6, <1>7, <1>8 DEF IInv

LEMMA SettleKeeps ==
  ASSUME CarefulUse, IInv, NEW a \in Actor, Settle(a)
  PROVE  IInv'
<1>1. PICK h \in Handle :
        /\ call[a].pc = "settle" /\ call[a].handle = h /\ alive /\ h \in minted
        /\ registry[h] = call[a].owner
        /\ call[a].form = "raw" => created[call[a].owner] = 1
  <2>1. InCall(a) /\ call[a].pc = "settle"
    BY DEF InCall, Settle
  <2>2. call[a].handle \in Handle /\ alive /\ call[a].handle \in minted
    BY <2>1 DEF IInv, TypeOK, CallsApart
  <2> QED BY <2>1, <2>2 DEF IInv, CallsInformed, ReleaseKnows
<1>2. Return(a) /\ UNCHANGED <<native, alive, open, lists>>
  BY DEF Settle
<1>3. CASE call[a].owner = None
  BY <1>1, <1>2, <1>3, SettleUnbookedKeeps DEF Settle
<1>4. CASE call[a].owner # None
  <2> DEFINE o == registry[h]
  <2>1. o \in PathList /\ created[o] \in {0, 1} /\ added[o] \in Nat /\ created[o] + added[o] > 0
    BY <1>1, <1>4 DEF IInv, TypeOK, BoxesKept
  <2>2. CASE TakesOwn(call[a].form, call[a].owner)
    <3>1. created[o] = 1
      BY <1>1, <2>1, <2>2 DEF TakesOwn
    <3>2. Disown(h, o)
      BY <1>1, <1>4, <2>2 DEF Settle
    <3> QED BY <1>1, <1>2, <2>1, <3>1, <3>2, DisownKeeps
  <2>3. CASE ~TakesOwn(call[a].form, call[a].owner)
    <3>1. added[o] > 0
      BY <1>1, <2>1, <2>3 DEF TakesOwn
    <3>2. GiveBackAdded(h, o)
      BY <1>1, <1>4, <2>3 DEF Settle
    <3>3. a # Collector
      BY <1>1, <2>3 DEF IInv, CallsInformed, CollectorKnows, TakesOwn
    <3> QED BY <1>1, <1>2, <2>1, <3>1, <3>2, <3>3, GiveBackAddedKeeps
  <2> QED BY <2>2, <2>3
<1> QED BY <1>3, <1>4

(* The three program calls that begin a release.                           *)
LEMMA BeginKeeps ==
  ASSUME CarefulUse, IInv, NEW t \in Thread,
         \/ \E w \in Wrapper, h \in Handle : DestroyHandle(t, w, h)
         \/ \E w \in Wrapper, p \in PathList : DestroyObject(t, w, p)
         \/ \E p \in PathList : Release(t, p)
  PROVE  IInv'
<1> USE ConstantsAssumption
<1>0. t \in Actor /\ t # Collector
  BY DEF Actor
<1>1. ASSUME NEW w \in Wrapper, NEW h \in Handle, DestroyHandle(t, w, h) PROVE IInv'
  <2>1. Enter(t, "release", "handle", h, None, registry[h])
    BY <1>1 DEF DestroyHandle
  <2>2. registry[h] = None => unbooked[h] > 0
    BY <1>1 DEF DestroyHandle, CallerHolds, IInv, TypeOK
  <2>3. h \in minted
    BY <2>2 DEF IInv, TypeOK, BoxesKept, UnmintedUntouched
  <2> QED BY <1>0, <1>1, <2>1, <2>2, <2>3, EnterReleaseKeeps DEF DestroyHandle, MayCall, Forms, lists
<1>2. ASSUME NEW w \in Wrapper, NEW p \in PathList, DestroyObject(t, w, p) PROVE IInv'
  <2>1. obj[p] = "live" /\ handle[p] \in Handle /\ handle[p] \in minted /\ box[p] = p
    BY <1>2 DEF DestroyObject, IInv, TypeOK, BoxesKept, Born
  <2>2. registry[handle[p]] # None
    BY <1>2, <2>1 DEF DestroyObject, CarefulUse, Released, IInv, TypeOK, BoxesKept
  <2>3. Enter(t, "release", "object", handle[p], p, registry[handle[p]])
    BY <1>2 DEF DestroyObject
  <2> QED BY <1>0, <1>2, <2>1, <2>2, <2>3, EnterReleaseKeeps DEF DestroyObject, MayCall, Forms, lists
<1>3. ASSUME NEW p \in PathList, Release(t, p) PROVE IInv'
  <2>1. /\ obj[p] = "live" /\ handle[p] \in Handle /\ handle[p] \in minted /\ box[p] = p
        /\ created[p] = 1 /\ registry[handle[p]] = p
    BY <1>3 DEF Release, ReleaseOwned, Released, IInv, TypeOK, BoxesKept, Born
  <2>2. PICK form \in {"object", "raw"} :
          Enter(t, "release", form, handle[p], p, registry[handle[p]])
    BY <1>3, <2>1 DEF Release, ReleaseOwned, OwnerToSettle
  <2> QED BY <1>0, <1>3, <2>1, <2>2, EnterReleaseKeeps
          DEF Release, ReleaseOwned, DictionaryAlive, MayCall, Forms, lists
<1> QED BY <1>1, <1>2, <1>3

(* The finalizer leaves a list nothing is owed for, or begins its release. *)
LEMMA FinalizeKeeps ==
  ASSUME CarefulUse, IInv, NEW p \in PathList, Finalize(p)
  PROVE  IInv'
<1> USE ConstantsAssumption
<1>0. /\ Collector \in Actor /\ obj[p] = "dropped" /\ call[Collector].pc = "idle"
      /\ obj' = [obj EXCEPT ![p] = "gone"] /\ ~Busy(handle[p])
      /\ UNCHANGED <<native, unbooked, alive, open, books, handle, box, via>>
  BY DEF Finalize, Actor, CarefulUse
<1>1. box[p] = p /\ handle[p] \in Handle /\ handle[p] \in minted
  BY <1>0 DEF IInv, TypeOK, BoxesKept, Born
<1>2. CASE NothingToReclaim(p)
  <2>1. call' = call /\ (created[p] = 0 \/ ~alive)
    BY <1>1, <1>2 DEF Finalize, NothingToReclaim, Released, DictionaryAlive
  <2>2. TypeOK'
    BY <1>0, <2>1 DEF IInv, TypeOK, native, books
  <2>3. CallsApart'
    BY <1>0, <2>1 DEF IInv, CallsApart, InCall, native
  <2>4. CallsInformed'
    BY <1>0, <2>1 DEF IInv, TypeOK, CallsInformed, TrackKnows, ReleaseKnows, CollectorKnows,
                      native, books
  <2>5. BoxesKept'
    BY <1>0, <2>1 DEF IInv, TypeOK, BoxesKept, Born, native, books
  <2>6. UnmintedUntouched'
    BY <1>0 DEF IInv, UnmintedUntouched, native
  <2>7. GoneIsReclaimed'
    BY <1>0, <2>1 DEF IInv, TypeOK, GoneIsReclaimed, books
  <2>8. BooksMatchCount'
    BY <1>0, <2>1 DEF IInv, BooksMatchCount, Booked, Gaining, Losing, native, books
  <2> QED BY <2>2, <2>3, <2>4, <2>5, <2>6, <2>7, <2>8 DEF IInv
<1>3. CASE ~NothingToReclaim(p)
  <2>1. created[p] = 1 /\ registry[handle[p]] = p /\ alive
    BY <1>0, <1>1, <1>3 DEF NothingToReclaim, Released, DictionaryAlive, IInv, TypeOK, BoxesKept
  <2>2. PICK form \in {"object", "raw"} :
          Enter(Collector, "release", form, handle[p], p, registry[handle[p]])
    BY <1>1, <1>3, <2>1 DEF Finalize, ReleaseOwned, OwnerToSettle
  <2> QED BY <1>0, <1>1, <2>1, <2>2, EnterReleaseKeeps DEF Forms
<1> QED BY <1>2, <1>3

(* The program lets go of a list.                                          *)
LEMMA DropKeeps ==
  ASSUME CarefulUse, IInv, NEW p \in PathList, Drop(p)
  PROVE  IInv'
<1> USE ConstantsAssumption
<1>2. TypeOK'
  BY DEF IInv, TypeOK, Drop, native, books, lists
<1>3. CallsApart'
  BY DEF CallsApart, InCall, NoCall, IInv, TypeOK, Drop, native, books, lists
<1>4. CallsInformed'
  BY DEF CallsInformed, TrackKnows, ReleaseKnows, CollectorKnows, IInv, TypeOK, Drop, native, books, lists
<1>5. BoxesKept'
  BY DEF BoxesKept, Born, IInv, TypeOK, Drop, native, books, lists
<1>6. UnmintedUntouched'
  BY DEF UnmintedUntouched, IInv, TypeOK, Drop, native, books, lists
<1>7. GoneIsReclaimed'
  BY DEF GoneIsReclaimed, IInv, TypeOK, Drop, native, books, lists
<1>8. BooksMatchCount'
  BY DEF BooksMatchCount, Booked, Gaining, Losing, IInv, TypeOK, Drop, native, books, lists
<1> QED BY <1>2, <1>3, <1>4, <1>5, <1>6, <1>7, <1>8 DEF IInv

(* A wrapper closes.                                                       *)
LEMMA CloseWrapperKeeps ==
  ASSUME CarefulUse, IInv, NEW w \in Wrapper, CloseWrapper(w)
  PROVE  IInv'
<1> USE ConstantsAssumption
<1>2. TypeOK'
  BY DEF IInv, TypeOK, CloseWrapper, native, books, lists
<1>3. CallsApart'
  BY DEF CallsApart, InCall, NoCall, IInv, TypeOK, CloseWrapper, native, books, lists
<1>4. CallsInformed'
  BY DEF CallsInformed, TrackKnows, ReleaseKnows, CollectorKnows, IInv, TypeOK, CloseWrapper, native, books, lists
<1>5. BoxesKept'
  BY DEF BoxesKept, Born, IInv, TypeOK, CloseWrapper, native, books, lists
<1>6. UnmintedUntouched'
  BY DEF UnmintedUntouched, IInv, TypeOK, CloseWrapper, native, books, lists
<1>7. GoneIsReclaimed'
  BY DEF GoneIsReclaimed, IInv, TypeOK, CloseWrapper, native, books, lists
<1>8. BooksMatchCount'
  BY DEF BooksMatchCount, Booked, Gaining, Losing, IInv, TypeOK, CloseWrapper, native, books, lists
<1> QED BY <1>2, <1>3, <1>4, <1>5, <1>6, <1>7, <1>8 DEF IInv

(* The dictionary goes with its Stage; no call is in progress.             *)
LEMMA DestroyStageKeeps ==
  ASSUME CarefulUse, IInv, DestroyStage
  PROVE  IInv'
<1> USE ConstantsAssumption
<1>2. TypeOK'
  BY DEF IInv, TypeOK, DestroyStage, native, books, lists
<1>3. CallsApart'
  BY DEF CallsApart, InCall, NoCall, IInv, TypeOK, DestroyStage, native, books, lists
<1>4. CallsInformed'
  BY DEF CallsInformed, TrackKnows, ReleaseKnows, CollectorKnows, IInv, TypeOK, DestroyStage, native, books, lists
<1>5. BoxesKept'
  BY DEF BoxesKept, Born, IInv, TypeOK, DestroyStage, native, books, lists
<1>6. UnmintedUntouched'
  BY DEF UnmintedUntouched, IInv, TypeOK, DestroyStage, native, books, lists
<1>7. GoneIsReclaimed'
  BY DEF GoneIsReclaimed, IInv, TypeOK, DestroyStage, native, books, lists
<1>8. BooksMatchCount'
  BY DEF BooksMatchCount, Booked, Gaining, Losing, IInv, TypeOK, DestroyStage, native, books, lists
<1> QED BY <1>2, <1>3, <1>4, <1>5, <1>6, <1>7, <1>8 DEF IInv

(* The native side's references are always backed: a release in progress   *)
(* drops a reference the books, or a caller, still has.                    *)
LEMMA PinsBacked ==
  ASSUME IInv
  PROVE  OthersKeepTheirs
<1> SUFFICES ASSUME alive, NEW h \in Handle
             PROVE  refs[h] >= pinned[h]
  BY DEF OthersKeepTheirs
<1>1. /\ refs[h] \in Nat /\ pinned[h] \in Nat /\ unbooked[h] \in Nat
      /\ Booked(h) \in Nat
  BY DEF IInv, TypeOK, Booked
<1>2. Losing(h) => unbooked[h] + Booked(h) > 0
  <2> SUFFICES ASSUME NEW a \in Actor, call[a].pc = "settle", call[a].handle = h
               PROVE  unbooked[h] + Booked(h) > 0
    BY DEF Losing
  <2>1. registry[h] = None => unbooked[h] > 0
    BY DEF IInv, CallsInformed, ReleaseKnows
  <2> QED BY <1>1, <2>1 DEF IInv, TypeOK, BoxesKept, Booked
<1>3. refs[h] + (IF Losing(h) THEN 1 ELSE 0)
        = pinned[h] + unbooked[h] + Booked(h) + (IF Gaining(h) THEN 1 ELSE 0)
  BY Balance DEF IInv
<1> QED BY <1>1, <1>2, <1>3

(* A native query or read group takes a reference.                         *)
LEMMA PinKeeps ==
  ASSUME CarefulUse, IInv, NEW h \in Handle, Pin(h)
  PROVE  IInv'
<1> USE ConstantsAssumption
<1>2. TypeOK'
  BY DEF IInv, TypeOK, Pin, native, books, lists
<1>3. CallsApart'
  BY DEF CallsApart, InCall, NoCall, IInv, TypeOK, Pin, native, books, lists
<1>4. CallsInformed'
  BY DEF CallsInformed, TrackKnows, ReleaseKnows, CollectorKnows, IInv, TypeOK, Pin, native, books, lists
<1>5. BoxesKept'
  BY DEF BoxesKept, Born, IInv, TypeOK, Pin, native, books, lists
<1>6. UnmintedUntouched'
  BY DEF UnmintedUntouched, IInv, TypeOK, Pin, native, books, lists
<1>7. GoneIsReclaimed'
  BY DEF GoneIsReclaimed, IInv, TypeOK, Pin, native, books, lists
<1>8. BooksMatchCount'
  <2>1. \A g \in Handle : /\ Booked(g)' = Booked(g) /\ Booked(g) \in Nat
                         /\ (Gaining(g)' <=> Gaining(g)) /\ (Losing(g)' <=> Losing(g))
                         /\ unbooked'[g] = unbooked[g] /\ unbooked[g] \in Nat
                         /\ pinned[g] \in Nat /\ refs[g] \in Nat
    BY DEF Pin, books, Booked, Gaining, Losing, IInv, TypeOK
  <2>2. ASSUME NEW g \in Handle
        PROVE  refs'[g] + (IF Losing(g)' THEN 1 ELSE 0)
                 = pinned'[g] + unbooked'[g] + Booked(g)' + (IF Gaining(g)' THEN 1 ELSE 0)
    <3>1. refs'[g] = refs[g] + (IF g = h THEN 1 ELSE 0) /\ pinned'[g] = pinned[g] + (IF g = h THEN 1 ELSE 0)
      BY DEF Pin, IInv, TypeOK
    <3>2. alive
      BY DEF Pin
    <3> QED BY <2>1, <3>1, <3>2, Balance DEF IInv
  <2> QED BY <2>2 DEF BooksMatchCount
<1> QED BY <1>2, <1>3, <1>4, <1>5, <1>6, <1>7, <1>8 DEF IInv

(* It gives the reference back; the count is there to give.                *)
LEMMA UnpinKeeps ==
  ASSUME CarefulUse, IInv, NEW h \in Handle, Unpin(h)
  PROVE  IInv'
<1> USE ConstantsAssumption
<1>2. TypeOK'
  BY DEF IInv, TypeOK, Unpin, native, books, lists
<1>3. CallsApart'
  BY DEF CallsApart, InCall, NoCall, IInv, TypeOK, Unpin, native, books, lists
<1>4. CallsInformed'
  BY DEF CallsInformed, TrackKnows, ReleaseKnows, CollectorKnows, IInv, TypeOK, Unpin, native, books, lists
<1>5. BoxesKept'
  BY DEF BoxesKept, Born, IInv, TypeOK, Unpin, native, books, lists
<1>6. UnmintedUntouched'
  BY DEF UnmintedUntouched, IInv, TypeOK, Unpin, native, books, lists
<1>7. GoneIsReclaimed'
  BY DEF GoneIsReclaimed, IInv, TypeOK, Unpin, native, books, lists
<1>8. BooksMatchCount'
  <2>1. \A g \in Handle : /\ Booked(g)' = Booked(g) /\ Booked(g) \in Nat
                         /\ (Gaining(g)' <=> Gaining(g)) /\ (Losing(g)' <=> Losing(g))
                         /\ unbooked'[g] = unbooked[g] /\ unbooked[g] \in Nat
                         /\ pinned[g] \in Nat /\ refs[g] \in Nat
    BY DEF Unpin, books, Booked, Gaining, Losing, IInv, TypeOK
  <2>2. ASSUME NEW g \in Handle
        PROVE  refs'[g] + (IF Losing(g)' THEN 1 ELSE 0)
                 = pinned'[g] + unbooked'[g] + Booked(g)' + (IF Gaining(g)' THEN 1 ELSE 0)
    <3>1. alive /\ pinned[h] > 0
      BY DEF Unpin
    <3>2. refs[h] > 0
      BY <2>1, <3>1, PinsBacked DEF OthersKeepTheirs
    <3>3. refs'[g] = refs[g] - (IF g = h THEN 1 ELSE 0) /\ pinned'[g] = pinned[g] - (IF g = h THEN 1 ELSE 0)
      BY <3>1, <3>2 DEF Unpin, IInv, TypeOK
    <3> QED BY <2>1, <3>1, <3>3, Balance DEF IInv
  <2> QED BY <2>2 DEF BooksMatchCount
<1> QED BY <1>2, <1>3, <1>4, <1>5, <1>6, <1>7, <1>8 DEF IInv

-----------------------------------------------------------------------------
LEMMA InitEstablishes == ASSUME ConstantsAssumption, Init PROVE IInv
<1> USE DEF Init, native, books, lists, InCall, NoCall
<1>1. TypeOK
  BY DEF TypeOK, Calls, Forms
<1>2. CallsApart /\ CallsInformed
  BY DEF CallsApart, CallsInformed, CollectorKnows, Actor, ConstantsAssumption
<1>3. BoxesKept /\ UnmintedUntouched /\ GoneIsReclaimed
  BY DEF BoxesKept, Born, UnmintedUntouched, GoneIsReclaimed
<1>4. BooksMatchCount
  BY DEF BooksMatchCount, Booked, Gaining, Losing
<1> QED BY <1>1, <1>2, <1>3, <1>4 DEF IInv

LEMMA StepKeeps == ASSUME CarefulUse, IInv, [Next]_vars PROVE IInv'
<1>1. ASSUME NEW t \in Thread, ThreadStep(t) PROVE IInv'
  BY <1>1, CreateKeeps, TrackKeeps, AddReferenceKeeps, CountKeeps, BeginKeeps DEF ThreadStep
<1>2. ASSUME NEW a \in Actor, NativeRelease(a) \/ ReleaseRefused(a) \/ Settle(a) PROVE IInv'
  BY <1>2, NativeReleaseKeeps, ReleaseRefusedKeeps, SettleKeeps
<1>3. ASSUME NEW p \in PathList, Drop(p) \/ Finalize(p) PROVE IInv'
  BY <1>3, DropKeeps, FinalizeKeeps
<1>4. ASSUME NEW w \in Wrapper, CloseWrapper(w) PROVE IInv'
  BY <1>4, CloseWrapperKeeps
<1>5. CASE DestroyStage
  BY <1>5, DestroyStageKeeps
<1>6. ASSUME NEW h \in Handle, Pin(h) \/ Unpin(h) PROVE IInv'
  BY <1>6, PinKeeps, UnpinKeeps
<1>7. CASE UNCHANGED vars
  BY <1>7 DEF vars, native, books, lists, IInv, TypeOK, CallsApart, CallsInformed, InCall,
              TrackKnows, ReleaseKnows, CollectorKnows, BoxesKept, Born, UnmintedUntouched,
              GoneIsReclaimed, BooksMatchCount, Booked, Gaining, Losing
<1> QED BY <1>1, <1>2, <1>3, <1>4, <1>5, <1>6, <1>7 DEF Next

(* Used with care, the ownership layer keeps its invariant for ever.       *)
THEOREM InvariantHolds == ASSUME CarefulUse PROVE Spec => []IInv
<1>1. Init => IInv
  BY InitEstablishes, ConstantsAssumption
<1>2. IInv /\ [Next]_vars => IInv'
  BY StepKeeps
<1> QED BY <1>1, <1>2, PTL DEF Spec

(* Every variable keeps to its type.                                       *)
THEOREM TypeCorrect == ASSUME CarefulUse PROVE Spec => []TypeOK
<1>1. IInv => TypeOK
  BY DEF IInv
<1> QED BY <1>1, InvariantHolds, PTL

(* The native count of every handle is what the books account for.         *)
THEOREM CountsAgree == ASSUME CarefulUse PROVE Spec => []BooksMatchCount
<1>1. IInv => BooksMatchCount
  BY DEF IInv
<1> QED BY <1>1, InvariantHolds, PTL

(* No release the binding makes takes a reference of the native side's.    *)
THEOREM OthersSafe == ASSUME CarefulUse PROVE Spec => []OthersKeepTheirs
<1>1. IInv => OthersKeepTheirs
  BY PinsBacked
<1> QED BY <1>1, InvariantHolds, PTL

(* An unreleased list owns the entry of its handle, alone.                 *)
THEOREM ClaimsCurrent == ASSUME CarefulUse PROVE Spec => []ClaimIsCurrent
<1>1. IInv => ClaimIsCurrent
  BY DEF IInv, TypeOK, BoxesKept, ClaimIsCurrent, Released, Born
<1> QED BY <1>1, InvariantHolds, PTL

(* The registry keeps no entry without a reference to remember; hence the  *)
(* object guard of destroy_path_list never fires.                          *)
THEOREM RegistryClean ==
  ASSUME CarefulUse
  PROVE  Spec => [](NoDeadKeys /\ \A p \in PathList, h \in Handle : ~Refused(p, registry[h]))
<1>1. IInv => NoDeadKeys /\ \A p \in PathList, h \in Handle : ~Refused(p, registry[h])
  BY ConstantsAssumption DEF IInv, TypeOK, BoxesKept, NoDeadKeys, Refused
<1> QED BY <1>1, InvariantHolds, PTL

(* When all lists are collected and callers have given back what they      *)
(* added, only the native side's own references are left.                  *)
THEOREM NothingIsLeaked == ASSUME CarefulUse PROVE Spec => []NothingLeaks
<1>1. IInv => NothingLeaks
  <2> SUFFICES ASSUME IInv, alive,
                      \A p \in PathList : obj[p] \in {"unborn", "gone"} /\ added[p] = 0,
                      \A h \in Handle : unbooked[h] = 0,
                      \A a \in Actor : call[a].pc = "idle"
               PROVE  refs = pinned /\ registry = [h \in Handle |-> None]
    BY DEF NothingLeaks
  <2> USE ConstantsAssumption
  <2>1. \A p \in PathList : created[p] = 0
    <3> SUFFICES ASSUME NEW p \in PathList, created[p] = 1 PROVE FALSE
      BY DEF IInv, TypeOK
    <3>1. Born(p)
      BY DEF IInv, TypeOK, BoxesKept
    <3>2. obj[p] = "gone"
      BY <3>1 DEF Born
    <3> QED BY <3>2 DEF IInv, GoneIsReclaimed, Actor
  <2>2. \A h \in Handle : registry[h] = None
    BY <2>1 DEF IInv, BoxesKept, TypeOK
  <2>3. ASSUME NEW h \in Handle PROVE refs[h] = pinned[h]
    <3>1. ~Losing(h) /\ ~Gaining(h) /\ Booked(h) = 0
      BY <2>2 DEF Losing, Gaining, Booked
    <3>2. refs[h] \in Nat /\ pinned[h] \in Nat
      BY DEF IInv, TypeOK
    <3> QED BY <3>1, <3>2, Balance DEF IInv
  <2> QED BY <2>2, <2>3 DEF IInv, TypeOK
<1> QED BY <1>1, InvariantHolds, PTL

(* Only its own steps move the collector's call; of those only Settle ends *)
(* a call that has reached "settle".                                       *)
LEMMA CollectorSettles ==
  ASSUME IInv, Next, call[Collector].pc = "settle", call'[Collector].pc = "idle"
  PROVE  Settle(Collector)
<1> USE ConstantsAssumption
<1>1. call \in [Actor -> Calls] /\ Collector \in Actor /\ Collector \notin Thread
  BY DEF IInv, TypeOK, Actor
<1>3. ASSUME NEW t \in Thread, ThreadStep(t) PROVE FALSE
  <2>1. t \in Actor /\ t # Collector
    BY <1>1 DEF Actor
  <2>2. \E c : call' = [call EXCEPT ![t] = c]
    BY <1>3 DEF ThreadStep, Create, Track, AddReference, Count, DestroyHandle, DestroyObject,
                Release, ReleaseOwned, Enter, Return
  <2> QED BY <1>1, <2>1, <2>2
<1>4. ASSUME NEW a \in Actor, NativeRelease(a) \/ ReleaseRefused(a) PROVE FALSE
  <2>1. CASE a = Collector
    BY <1>4, <2>1 DEF NativeRelease, ReleaseRefused
  <2>2. CASE a # Collector
    BY <1>1, <1>4, <2>2 DEF NativeRelease, ReleaseRefused, Return
  <2> QED BY <2>1, <2>2
<1>5. ASSUME NEW a \in Actor, Settle(a), a # Collector PROVE FALSE
  BY <1>1, <1>5 DEF Settle, Return
<1>6. ASSUME NEW p \in PathList, Drop(p) \/ Finalize(p) PROVE FALSE
  BY <1>6 DEF Drop, Finalize
<1>7. ASSUME NEW w \in Wrapper, CloseWrapper(w) PROVE FALSE
  BY <1>7 DEF CloseWrapper
<1>8. ~DestroyStage
  BY DEF DestroyStage
<1>9. ASSUME NEW h \in Handle, Pin(h) \/ Unpin(h) PROVE FALSE
  BY <1>9 DEF Pin, Unpin
<1> QED BY <1>3, <1>4, <1>5, <1>6, <1>7, <1>8, <1>9 DEF Next

(* The finalizer takes the create reference of the list it collects and    *)
(* leaves the references callers added.                                    *)
THEOREM FinalizerCareful == ASSUME CarefulUse PROVE Spec => FinalizerKeepsAdded
<1>1. IInv /\ Next =>
        (call[Collector].pc = "settle" /\ call'[Collector].pc = "idle"
           => added' = added /\ unbooked' = unbooked)
  <2> SUFFICES ASSUME IInv, Next, call[Collector].pc = "settle",
                      call'[Collector].pc = "idle"
               PROVE  added' = added /\ unbooked' = unbooked
    OBVIOUS
  <2>1. Settle(Collector)
    BY CollectorSettles
  <2>2. /\ call[Collector].form \in {"object", "raw"}
        /\ call[Collector].owner \in PathList
        /\ created[call[Collector].owner] = 1
    BY DEF IInv, CallsInformed, CollectorKnows
  <2>3. TakesOwn(call[Collector].form, call[Collector].owner)
    BY <2>2 DEF TakesOwn
  <2> QED BY <2>1, <2>2, <2>3, ConstantsAssumption DEF Settle, Disown
<1>2. IInv /\ [Next]_vars =>
        [call[Collector].pc = "settle" /\ call'[Collector].pc = "idle"
           => added' = added /\ unbooked' = unbooked]_vars
  BY <1>1
<1> QED BY <1>2, InvariantHolds, PTL DEF Spec, FinalizerKeepsAdded

(* A list whose claim was released never gets it back.                     *)
THEOREM ReleasesFinal == ASSUME CarefulUse PROVE Spec => ReleasedForGood
<1>1. ASSUME CarefulUse, IInv, Next, NEW p \in PathList, Born(p), Released(p)
      PROVE  Released(p)'
  <2> USE ConstantsAssumption
  <2>1. box \in [PathList -> PathList] /\ created \in [PathList -> {0, 1}] /\ box[p] = p /\ created[p] = 0
    BY <1>1 DEF IInv, TypeOK, BoxesKept, Released
  <2>2. ASSUME NEW t \in Thread, Track(t) PROVE Released(p)'
    <3>1. call[t].list \in PathList /\ registry[call[t].handle] = None /\ call[t].list # p
      BY <1>1, <2>2 DEF Track, IInv, CallsInformed, TrackKnows, Born, Actor
    <3> QED BY <2>1, <2>2, <3>1 DEF Track, BoxFor, Released
  <2>3. ASSUME NEW a \in Actor, Settle(a) PROVE Released(p)'
    BY <2>1, <2>3 DEF Settle, Disown, GiveBackAdded, lists, books, Released
  <2>4. ASSUME UNCHANGED <<created, box>> PROVE Released(p)'
    BY <2>1, <2>4 DEF Released
  <2>5. ASSUME NEW t \in Thread, ThreadStep(t) PROVE Released(p)'
    BY <2>2, <2>4, <2>5 DEF ThreadStep, Create, AddReference, Count, DestroyHandle, DestroyObject,
                Release, books, lists
  <2>6. ASSUME NEW a \in Actor, NativeRelease(a) \/ ReleaseRefused(a) PROVE Released(p)'
    BY <2>4, <2>6 DEF NativeRelease, ReleaseRefused, books, lists
  <2>7. ASSUME NEW q \in PathList, Drop(q) \/ Finalize(q) PROVE Released(p)'
    BY <2>4, <2>7 DEF Drop, Finalize, books, lists
  <2>8. ASSUME NEW w \in Wrapper, CloseWrapper(w) PROVE Released(p)'
    BY <2>4, <2>8 DEF CloseWrapper, books, lists
  <2>9. CASE DestroyStage
    BY <2>4, <2>9 DEF DestroyStage, books, lists
  <2>10. ASSUME NEW h \in Handle, Pin(h) \/ Unpin(h) PROVE Released(p)'
    BY <2>4, <2>10 DEF Pin, Unpin, books, lists
  <2> QED BY <1>1, <2>3, <2>5, <2>6, <2>7, <2>8, <2>9, <2>10 DEF Next
<1>2. CarefulUse /\ IInv /\ [Next]_vars =>
        [\A p \in PathList : Born(p) /\ Released(p) => Released(p)']_vars
  BY <1>1
<1> QED BY <1>2, InvariantHolds, PTL DEF Spec, ReleasedForGood

-----------------------------------------------------------------------------
(* Refinement: each step of PathLists maps to one of PathListLedger, or to *)
(* a stutter.                                                              *)

(* A list that is being made has a call that is making it.                 *)
MintersTrack ==
  \A p \in PathList : obj[p] = "minting" =>
    \E a \in Actor : call[a].pc = "track" /\ call[a].list = p

(* Only create and _track begin and end the making of a list.              *)
LEMMA MintersTrackHolds ==
  ASSUME CarefulUse, IInv, MintersTrack, [Next]_vars
  PROVE  MintersTrack'
<1> USE ConstantsAssumption DEF MintersTrack
<1> SUFFICES ASSUME NEW p \in PathList, obj'[p] = "minting"
             PROVE  \E a \in Actor : call'[a].pc = "track" /\ call'[a].list = p
  OBVIOUS
<1>1. call \in [Actor -> Calls] /\ Thread \subseteq Actor /\ Collector \in Actor /\ DOMAIN obj = PathList
  BY DEF IInv, TypeOK, Actor
<1>2. ASSUME NEW t \in Thread, NEW w \in Wrapper, NEW q \in PathList, NEW h \in Handle,
             Create(t, w, q, h)
      PROVE  \E a \in Actor : call'[a].pc = "track" /\ call'[a].list = p
  BY <1>1, <1>2 DEF Create, Enter
<1>3. ASSUME NEW t \in Thread, Track(t)
      PROVE  \E a \in Actor : call'[a].pc = "track" /\ call'[a].list = p
  <2>1. call[t].list # p /\ obj[p] = "minting"
    BY <1>1, <1>3 DEF Track, IInv, CallsInformed, TrackKnows
  <2> QED BY <1>1, <1>3, <2>1 DEF Track, Return
<1>4. CASE \E a \in Actor : /\ call[a].pc # "track"
                            /\ \A b \in Actor \ {a} : call'[b] = call[b]
                            /\ obj'[p] = obj[p]
  BY <1>1, <1>4
<1>5. CASE call' = call /\ obj[p] = "minting"
  BY <1>5
<1>6. ASSUME NEW t \in Thread, NEW w \in Wrapper, NEW h \in Handle,
             AddReference(t, w, h) \/ DestroyHandle(t, w, h)
      PROVE  \E a \in Actor : call'[a].pc = "track" /\ call'[a].list = p
  BY <1>1, <1>4, <1>6 DEF AddReference, DestroyHandle, Enter, MayCall, lists
<1>7. ASSUME NEW t \in Thread, Count(t)
      PROVE  \E a \in Actor : call'[a].pc = "track" /\ call'[a].list = p
  BY <1>1, <1>4, <1>7 DEF Count, Return, lists
<1>8. ASSUME NEW t \in Thread, NEW w \in Wrapper, NEW q \in PathList,
             DestroyObject(t, w, q) \/ Release(t, q)
      PROVE  \E a \in Actor : call'[a].pc = "track" /\ call'[a].list = p
  BY <1>1, <1>4, <1>8 DEF DestroyObject, Release, ReleaseOwned, Enter, MayCall, lists
<1>9. ASSUME NEW a \in Actor, NativeRelease(a) \/ ReleaseRefused(a) \/ Settle(a)
      PROVE  \E b \in Actor : call'[b].pc = "track" /\ call'[b].list = p
  BY <1>1, <1>4, <1>9 DEF NativeRelease, ReleaseRefused, Settle, Return, lists
<1>10. ASSUME NEW q \in PathList, Drop(q)
      PROVE  \E a \in Actor : call'[a].pc = "track" /\ call'[a].list = p
  BY <1>1, <1>5, <1>10 DEF Drop
<1>11. ASSUME NEW q \in PathList, Finalize(q)
      PROVE  \E a \in Actor : call'[a].pc = "track" /\ call'[a].list = p
  BY <1>1, <1>4, <1>5, <1>11 DEF Finalize, ReleaseOwned, Enter
<1>12. CASE \/ UNCHANGED vars \/ DestroyStage
            \/ \E w \in Wrapper : CloseWrapper(w)
            \/ \E h \in Handle : Pin(h) \/ Unpin(h)
  BY <1>5, <1>12 DEF vars, DestroyStage, CloseWrapper, Pin, Unpin, lists
<1>13. ASSUME NEW t \in Thread, NEW q \in PathList, Release(t, q)
      PROVE  \E a \in Actor : call'[a].pc = "track" /\ call'[a].list = p
  BY <1>1, <1>4, <1>13 DEF Release, ReleaseOwned, Enter, MayCall, lists
<1> QED
  BY <1>2, <1>3, <1>6, <1>7, <1>8, <1>9, <1>10, <1>11, <1>12, <1>13 DEF Next, ThreadStep

(* While a list is being made it owns what its call was given.             *)
LEMMA TrackerOwns ==
  ASSUME IInv, NEW a \in Actor, NEW p \in PathList,
         call[a].pc = "track", call[a].list = p
  PROVE  alive /\ obj[p] = "minting" /\ Owned(p) = call[a].handle
<1>1. alive /\ obj[p] = "minting"
  BY DEF IInv, CallsApart, InCall, CallsInformed, TrackKnows
<1>2. a = CHOOSE b \in Actor : call[b].pc = "track" /\ call[b].list = p
  BY DEF IInv, CallsApart
<1> QED BY <1>1, <1>2 DEF Owned

(* How the mapping sees the calls when one of them, on handle h, moves on: *)
(* on other handles nothing changes, and on h there is no other.           *)
LEMMA CallViews ==
  ASSUME ConstantsAssumption, IInv, NEW a \in Actor, NEW h \in Handle,
         \A b \in Actor \ {a} : call'[b] = call[b],
         call'[a].handle = h \/ call'[a] = NoCall,
         \/ call[a].pc # "idle" /\ call[a].handle = h
         \/ call[a].pc = "idle" /\ ~Busy(h),
         call'[a].pc = "settle" =>
           call[a].pc = "release" /\ call'[a].form = call[a].form /\ call'[a].owner = call[a].owner,
         \A q \in PathList : Born(q) /\ handle[q] # h =>
           created'[q] = created[q] /\ added'[q] = added[q]
  PROVE  /\ \A g \in Handle \ {h} :
              (Lending(g)' <=> Lending(g)) /\ (TakingBack(g)' <=> TakingBack(g))
         /\ Lending(h) <=> call[a].pc = "count"
         /\ Lending(h)' <=> call'[a].pc = "count"
         /\ TakingBack(h) <=>
              call[a].pc = "settle" /\ (call[a].owner # None => ~TakesOwn(call[a].form, call[a].owner))
         /\ TakingBack(h)' <=>
              call'[a].pc = "settle" /\ (call'[a].owner # None => ~TakesOwn(call[a].form, call[a].owner)')
         /\ \A q \in PathList : Born(q) /\ handle[q] # h => (GivingUp(q)' <=> GivingUp(q))
         /\ \A q \in PathList : Born(q) /\ handle[q] = h =>
              (GivingUp(q) <=> call[a].pc = "settle" /\ call[a].owner = q /\ TakesOwn(call[a].form, q))
         /\ \A q \in PathList : Born(q) /\ handle[q] = h =>
              (GivingUp(q)' <=> call'[a].pc = "settle" /\ call'[a].owner = q /\ TakesOwn(call[a].form, q)')
<1>1. \A b \in Actor : b # a => call'[b] = call[b]
  OBVIOUS
<1>2. \A b \in Actor : b # a /\ call[b].pc # "idle" => call[b].handle # h
  BY DEF IInv, CallsApart, InCall, Busy
<1>3. None \notin Handle /\ None \notin PathList
  BY DEF ConstantsAssumption
<1>4. \A b \in Actor : call[b].pc = "settle" /\ call[b].owner # None =>
        /\ call[b].owner \in PathList /\ Born(call[b].owner)
        /\ handle[call[b].owner] = call[b].handle /\ call[b].handle \in Handle
  <2> SUFFICES ASSUME NEW b \in Actor, call[b].pc = "settle", call[b].owner # None
               PROVE  /\ call[b].owner \in PathList /\ Born(call[b].owner)
                      /\ handle[call[b].owner] = call[b].handle /\ call[b].handle \in Handle
    OBVIOUS
  <2>1. call[b] \in Calls /\ InCall(b) /\ minted \subseteq Handle
    BY DEF IInv, TypeOK, InCall
  <2>2. call[b].handle \in Handle /\ call[b].owner = registry[call[b].handle]
    BY <2>1 DEF IInv, CallsApart, CallsInformed, ReleaseKnows
  <2> QED BY <2>1, <2>2 DEF IInv, BoxesKept, Calls
<1>5. call'[a].pc = "settle" =>
        /\ call'[a].handle = h /\ call'[a].owner = registry[h] /\ call'[a].form = call[a].form /\ call'[a].owner = call[a].owner
        /\ call'[a].owner # None => call'[a].owner \in PathList /\ Born(call'[a].owner) /\ handle[call'[a].owner] = h
  <2> SUFFICES ASSUME call'[a].pc = "settle"
               PROVE  /\ call'[a].handle = h /\ call'[a].owner = registry[h] /\ call'[a].form = call[a].form /\ call'[a].owner = call[a].owner
                      /\ call'[a].owner # None => call'[a].owner \in PathList /\ Born(call'[a].owner) /\ handle[call'[a].owner] = h
    OBVIOUS
  <2>1. call[a] \in Calls /\ call[a].pc = "release" /\ call[a].handle = h
    BY DEF IInv, TypeOK
  <2>2. call[a].owner = registry[h]
    BY <2>1 DEF IInv, CallsInformed, ReleaseKnows
  <2> QED BY <2>1, <2>2 DEF Calls, NoCall, IInv, BoxesKept
<1>6. call'[a] = NoCall => call'[a].pc = "idle"
  BY DEF NoCall
<1>7. ASSUME NEW g \in Handle \ {h}
      PROVE  (Lending(g)' <=> Lending(g)) /\ (TakingBack(g)' <=> TakingBack(g))
  <2>1. Lending(g)' <=> Lending(g)
    BY <1>1, <1>3, <1>6, <1>7 DEF Lending
  <2>2. \A b \in Actor : call[b].pc = "settle" /\ call[b].handle = g /\ call[b].owner # None =>
          (TakesOwn(call[b].form, call[b].owner)' <=> TakesOwn(call[b].form, call[b].owner))
    BY <1>1, <1>4, <1>7 DEF TakesOwn
  <2> QED BY <1>1, <1>3, <1>6, <1>7, <2>1, <2>2 DEF TakingBack
<1>8. (Lending(h) <=> call[a].pc = "count") /\ (Lending(h)' <=> call'[a].pc = "count")
  BY <1>1, <1>2, <1>3, <1>6 DEF Lending, Busy
<1>9. TakingBack(h) <=>
        call[a].pc = "settle" /\ (call[a].owner # None => ~TakesOwn(call[a].form, call[a].owner))
  BY <1>2 DEF TakingBack, Busy
<1>10. TakingBack(h)' <=>
         call'[a].pc = "settle" /\ (call'[a].owner # None => ~TakesOwn(call[a].form, call[a].owner)')
  BY <1>1, <1>2, <1>3, <1>5, <1>6 DEF TakingBack, TakesOwn
<1>11. ASSUME NEW q \in PathList, Born(q), handle[q] # h
       PROVE  GivingUp(q)' <=> GivingUp(q)
  <2>1. call'[a].pc = "settle" => call'[a].owner # q
    BY <1>3, <1>5, <1>11
  <2>2. call[a].pc = "settle" => call[a].owner # q
    BY <1>3, <1>4, <1>11
  <2> QED BY <1>1, <1>11, <2>1, <2>2 DEF GivingUp, TakesOwn
<1>12. ASSUME NEW q \in PathList, Born(q), handle[q] = h
       PROVE  /\ GivingUp(q) <=> call[a].pc = "settle" /\ call[a].owner = q /\ TakesOwn(call[a].form, q)
              /\ GivingUp(q)' <=> call'[a].pc = "settle" /\ call'[a].owner = q /\ TakesOwn(call[a].form, q)'
  <2>1. \A b \in Actor : b # a => ~(call[b].pc = "settle" /\ call[b].owner = q)
    BY <1>2, <1>3, <1>4, <1>12
  <2> QED BY <1>1, <1>12, <2>1 DEF GivingUp, TakesOwn
<1> QED BY <1>7, <1>8, <1>9, <1>10, <1>11, <1>12

(* The same after a step.                                                  *)
LEMMA TrackerOwnsNext ==
  ASSUME IInv', NEW a \in Actor, NEW p \in PathList,
         call'[a].pc = "track", call'[a].list = p
  PROVE  alive' /\ obj'[p] = "minting" /\ Owned(p)' = call'[a].handle
<1>1. alive' /\ obj'[p] = "minting"
  BY DEF IInv, CallsApart, InCall, CallsInformed, TrackKnows
<1>2. a = CHOOSE b \in Actor : call'[b].pc = "track" /\ call'[b].list = p
  BY DEF IInv, CallsApart
<1> QED BY <1>1, <1>2 DEF Owned

(* A list owns what it owned if its claim, or the call that makes it, does *)
(* not change.                                                             *)
LEMMA OwnedKept ==
  ASSUME IInv, IInv', MintersTrack, alive' = alive, NEW q \in PathList,
         obj'[q] = "minting" <=> obj[q] = "minting",
         \A b \in Actor : call[b].pc = "track" /\ call[b].list = q => call'[b] = call[b],
         Born(q)' <=> Born(q),
         Born(q) => /\ handle'[q] = handle[q]
                    /\ (created'[q] = 1 /\ ~GivingUp(q)') <=> (created[q] = 1 /\ ~GivingUp(q))
  PROVE  Owned(q)' = Owned(q)
<1>1. CASE obj[q] = "minting"
  <2>1. PICK b \in Actor : call[b].pc = "track" /\ call[b].list = q
    BY <1>1 DEF MintersTrack
  <2>2. Owned(q) = call[b].handle
    BY <2>1, TrackerOwns
  <2>3. call'[b] = call[b]
    BY <2>1
  <2>4. Owned(q)' = call'[b].handle
    BY <2>1, <2>3, TrackerOwnsNext
  <2> QED BY <2>2, <2>3, <2>4
<1>2. CASE obj[q] # "minting"
  BY <1>2 DEF Owned
<1> QED BY <1>1, <1>2

(* The ledger stutters when nothing it sees has changed.                   *)
LEMMA Unmoved ==
  ASSUME refs' = refs, pinned' = pinned, alive' = alive,
         \A q \in PathList : obj'[q] = "unborn" <=> obj[q] = "unborn",
         \A q \in PathList : Owned(q)' = Owned(q),
         \A h \in Handle : Lent(h)' = Lent(h)
  PROVE  UNCHANGED Ledger!vars
<1>1. {q \in PathList : obj'[q] = "unborn"} = {q \in PathList : obj[q] = "unborn"}
  OBVIOUS
<1>2. [q \in PathList |-> Owned(q)'] = [q \in PathList |-> Owned(q)]
  OBVIOUS
<1>3. [h \in Handle |-> Lent(h)'] = [h \in Handle |-> Lent(h)]
  OBVIOUS
<1> QED BY <1>1, <1>2, <1>3 DEF Ledger!vars

(* Steps outside every call.                                               *)
LEMMA AtRest ==
  ASSUME IInv, IInv', MintersTrack, call' = call,
         UNCHANGED <<refs, pinned, unbooked, alive, registry, created, added, handle>>,
         \A q \in PathList : /\ obj'[q] = "unborn" <=> obj[q] = "unborn"
                             /\ obj'[q] = "minting" <=> obj[q] = "minting"
                             /\ Born(q)' <=> Born(q)
  PROVE  UNCHANGED Ledger!vars
<1>1. ASSUME NEW q \in PathList PROVE Owned(q)' = Owned(q)
  <2>1. GivingUp(q)' <=> GivingUp(q)
    BY DEF GivingUp, TakesOwn
  <2> QED BY <2>1, OwnedKept
<1>2. ASSUME NEW h \in Handle PROVE Lent(h)' = Lent(h)
  <2>1. (Lending(h)' <=> Lending(h)) /\ (TakingBack(h)' <=> TakingBack(h))
    BY DEF Lending, TakingBack, TakesOwn
  <2> QED BY <2>1 DEF Lent
<1> QED BY <1>1, <1>2, Unmoved

(* Steps that only start or give up a call.                                *)
LEMMA CallOnly ==
  ASSUME ConstantsAssumption, IInv, IInv', MintersTrack,
         NEW a \in Actor, NEW h \in Handle, NEW c \in Calls,
         call' = [call EXCEPT ![a] = c],
         c.handle = h \/ c = NoCall,
         \/ call[a].pc = "release" /\ call[a].handle = h
         \/ call[a].pc = "idle" /\ ~Busy(h),
         c.pc \in {"idle", "release"},
         UNCHANGED <<refs, pinned, unbooked, alive, registry, created, added, handle>>,
         \A q \in PathList : /\ obj'[q] = "unborn" <=> obj[q] = "unborn"
                             /\ obj'[q] = "minting" <=> obj[q] = "minting"
                             /\ Born(q)' <=> Born(q)
  PROVE  UNCHANGED Ledger!vars
<1>1. /\ \A g \in Handle : (Lending(g)' <=> Lending(g)) /\ (TakingBack(g)' <=> TakingBack(g))
      /\ \A q \in PathList : Born(q) => (GivingUp(q)' <=> GivingUp(q))
  <2>1. /\ \/ call[a].pc # "idle" /\ call[a].handle = h
           \/ call[a].pc = "idle" /\ ~Busy(h)
        /\ call[a].pc \notin {"count", "settle"} /\ c.pc \notin {"count", "settle"}
    OBVIOUS
  <2>2. \A q \in PathList : Born(q) /\ handle[q] # h =>
          created'[q] = created[q] /\ added'[q] = added[q]
    OBVIOUS
  <2> HIDE DEF Born, Busy
  <2>0. call'[a] = c /\ \A b \in Actor \ {a} : call'[b] = call[b]
    BY DEF IInv, TypeOK
  <2>3. /\ \A g \in Handle \ {h} :
              (Lending(g)' <=> Lending(g)) /\ (TakingBack(g)' <=> TakingBack(g))
        /\ ~Lending(h) /\ ~Lending(h)' /\ ~TakingBack(h) /\ ~TakingBack(h)'
        /\ \A q \in PathList : Born(q) /\ handle[q] # h => (GivingUp(q)' <=> GivingUp(q))
        /\ \A q \in PathList : Born(q) /\ handle[q] = h => ~GivingUp(q) /\ ~GivingUp(q)'
    BY <2>0, <2>1, <2>2, CallViews
  <2> QED BY <2>3
<1>2. ASSUME NEW q \in PathList PROVE Owned(q)' = Owned(q)
  <2>1. \A b \in Actor : call[b].pc = "track" /\ call[b].list = q => call'[b] = call[b]
    BY DEF IInv, TypeOK
  <2> QED BY <1>1, <2>1, OwnedKept
<1>3. ASSUME NEW g \in Handle PROVE Lent(g)' = Lent(g)
  BY <1>1 DEF Lent
<1> QED BY <1>2, <1>3, Unmoved

(* CallViews, for a call that returns.                                     *)
LEMMA ReturnViews ==
  ASSUME ConstantsAssumption, IInv, NEW a \in Actor, NEW h \in Handle,
         Return(a), call[a].pc # "idle", call[a].handle = h,
         \A q \in PathList : Born(q) /\ handle[q] # h =>
           created'[q] = created[q] /\ added'[q] = added[q]
  PROVE  /\ \A g \in Handle \ {h} :
              (Lending(g)' <=> Lending(g)) /\ (TakingBack(g)' <=> TakingBack(g))
         /\ (Lending(h) <=> call[a].pc = "count") /\ ~Lending(h)'
         /\ TakingBack(h) <=>
              call[a].pc = "settle" /\ (call[a].owner # None => ~TakesOwn(call[a].form, call[a].owner))
         /\ ~TakingBack(h)'
         /\ \A q \in PathList : Born(q) /\ handle[q] # h => (GivingUp(q)' <=> GivingUp(q))
         /\ \A q \in PathList : Born(q) /\ handle[q] = h =>
              (GivingUp(q) <=> call[a].pc = "settle" /\ call[a].owner = q /\ TakesOwn(call[a].form, q))
         /\ \A q \in PathList : Born(q) /\ handle[q] = h => ~GivingUp(q)'
<1>1. NoCall.pc = "idle"
  BY DEF NoCall
<1>2. call'[a] = NoCall /\ \A b \in Actor \ {a} : call'[b] = call[b]
  BY DEF Return, IInv, TypeOK
<1> QED BY <1>1, <1>2, CallViews

(* create_path_list: the native call mints.                                *)
LEMMA CreateMints ==
  ASSUME CarefulUse, IInv, IInv', MintersTrack, NEW t \in Thread, NEW w \in Wrapper,
         NEW p \in PathList, NEW h \in Handle, Create(t, w, p, h)
  PROVE  Ledger!Mint(p, h)
<1> USE ConstantsAssumption DEF CarefulUse
<1> DEFINE c == [pc |-> "track", form |-> "none", handle |-> h, list |-> p, owner |-> None]
<1>1. /\ t \in Actor /\ call[t].pc = "idle" /\ ~Busy(h) /\ alive /\ alive' /\ obj[p] = "unborn"
      /\ refs[h] = 0 /\ refs' = [refs EXCEPT ![h] = 1] /\ pinned' = pinned
      /\ unbooked' = unbooked /\ registry' = registry /\ created' = created /\ added' = added
      /\ handle' = handle /\ obj' = [obj EXCEPT ![p] = "minting"] /\ DOMAIN obj = PathList
  BY DEF Actor, Create, Fresh, books, IInv, TypeOK, CallsApart, InCall, Busy
<1>2. c \in Calls /\ c.pc = "track" /\ c.handle = h /\ c.list = p
  BY DEF Calls, Forms
<1>3. call' = [call EXCEPT ![t] = c]
  BY DEF Create, Enter
<1>4. call \in [Actor -> Calls]
  BY DEF IInv, TypeOK
<1> HIDE DEF c
<1>5. /\ \A g \in Handle : (Lending(g)' <=> Lending(g)) /\ (TakingBack(g)' <=> TakingBack(g))
      /\ \A q \in PathList : Born(q) => (GivingUp(q)' <=> GivingUp(q))
  <2>0. call'[t] = c /\ \A b \in Actor \ {t} : call'[b] = call[b]
    BY <1>1, <1>3, <1>4
  <2>1. /\ \A g \in Handle \ {h} :
              (Lending(g)' <=> Lending(g)) /\ (TakingBack(g)' <=> TakingBack(g))
        /\ ~Lending(h) /\ ~Lending(h)' /\ ~TakingBack(h) /\ ~TakingBack(h)'
        /\ \A q \in PathList : Born(q) /\ handle[q] # h => (GivingUp(q)' <=> GivingUp(q))
        /\ \A q \in PathList : Born(q) /\ handle[q] = h => ~GivingUp(q) /\ ~GivingUp(q)'
    BY <1>1, <1>2, <2>0, CallViews
  <2> QED BY <2>1
<1>6. ASSUME NEW q \in PathList \ {p} PROVE Owned(q)' = Owned(q)
  <2>1. (Born(q)' <=> Born(q)) /\ (obj'[q] = "minting" <=> obj[q] = "minting")
    BY <1>1 DEF Born
  <2>2. \A b \in Actor : call[b].pc = "track" /\ call[b].list = q => call'[b] = call[b]
    BY <1>1, <1>3, <1>4
  <2> QED BY <1>1, <1>5, <2>1, <2>2, OwnedKept
<1>7. Owned(p)' = h
  <2>1. call'[t] = c
    BY <1>1, <1>3, <1>4
  <2> QED BY <1>1, <1>2, <2>1, TrackerOwnsNext
<1>8. \A g \in Handle : Lent(g)' = Lent(g)
  BY <1>1, <1>5 DEF Lent
<1>9. {q \in PathList : obj'[q] = "unborn"} = {q \in PathList : obj[q] = "unborn"} \ {p}
  BY <1>1
<1>10. [q \in PathList |-> Owned(q)'] = [[q \in PathList |-> Owned(q)] EXCEPT ![p] = h]
  BY <1>6, <1>7
<1>11. [g \in Handle |-> Lent(g)'] = [g \in Handle |-> Lent(g)]
  BY <1>8
<1> QED BY <1>1, <1>9, <1>10, <1>11 DEF Ledger!Mint

(* _track books what the list owns since the native call.                  *)
LEMMA TrackStutters ==
  ASSUME CarefulUse, IInv, IInv', MintersTrack, NEW t \in Thread, Track(t)
  PROVE  UNCHANGED Ledger!vars
<1> USE ConstantsAssumption DEF CarefulUse
<1>0. PICK h \in Handle, p \in PathList :
        /\ call[t].handle = h /\ call[t].list = p /\ t \in Actor /\ call[t].pc = "track"
        /\ obj[p] = "minting" /\ alive
        /\ registry[h] = None /\ unbooked[h] = 0
        /\ created[p] = 0 /\ added[p] = 0 /\ BoxFor(p, h) = p
  <2>1. t \in Actor /\ InCall(t) /\ call[t].pc = "track"
    BY DEF Actor, InCall, Track
  <2>2. call[t].handle \in Handle /\ call[t].list \in PathList /\ TrackKnows(t)
    BY <2>1 DEF IInv, TypeOK, CallsApart, CallsInformed, TrackKnows
  <2> QED
    BY <2>1, <2>2 DEF IInv, TypeOK, CallsApart, TrackKnows, BoxesKept, Born, BoxFor
<1>1. /\ refs' = refs /\ pinned' = pinned /\ unbooked' = unbooked /\ alive' = alive /\ added' = added
      /\ registry' = [registry EXCEPT ![h] = p] /\ created' = [created EXCEPT ![p] = 1]
      /\ obj' = [obj EXCEPT ![p] = "live"] /\ handle' = [handle EXCEPT ![p] = h]
      /\ call' = [call EXCEPT ![t] = NoCall]
  BY <1>0 DEF Track, Return, native
<1>2. NoCall \in Calls /\ NoCall.pc = "idle" /\ NoCall.list = None /\ None \notin PathList
  BY DEF Calls, NoCall, Forms, ConstantsAssumption
<1>3. TypeOK
  BY DEF IInv
<1>4. \A q \in PathList : Born(q) => q # p
  BY <1>0 DEF Born
<1>5. /\ \A g \in Handle \ {h} :
            (Lending(g)' <=> Lending(g)) /\ (TakingBack(g)' <=> TakingBack(g))
      /\ ~Lending(h) /\ ~Lending(h)' /\ ~TakingBack(h) /\ ~TakingBack(h)'
      /\ \A q \in PathList : Born(q) /\ handle[q] # h => (GivingUp(q)' <=> GivingUp(q))
      /\ \A q \in PathList : Born(q) /\ handle[q] = h => ~GivingUp(q) /\ ~GivingUp(q)'
  <2>1. \A q \in PathList : Born(q) /\ handle[q] # h =>
          created'[q] = created[q] /\ added'[q] = added[q]
    BY <1>1, <1>3, <1>4 DEF TypeOK
  <2>2. Return(t)
    BY DEF Track
  <2> QED BY <1>0, <2>1, <2>2, ReturnViews
<1>6. ASSUME NEW q \in PathList \ {p} PROVE Owned(q)' = Owned(q)
  <2>1. /\ (Born(q)' <=> Born(q)) /\ (obj'[q] = "minting" <=> obj[q] = "minting")
        /\ created'[q] = created[q] /\ handle'[q] = handle[q]
    BY <1>1, <1>3 DEF Born, TypeOK
  <2>2. \A b \in Actor : call[b].pc = "track" /\ call[b].list = q => call'[b] = call[b]
    BY <1>0, <1>1, <1>3 DEF TypeOK
  <2>3. Born(q) => (GivingUp(q)' <=> GivingUp(q))
    BY <1>5
  <2> QED BY <1>1, <2>1, <2>2, <2>3, OwnedKept
<1>7. Owned(p)' = Owned(p)
  <2>1. Owned(p) = h
    BY <1>0, TrackerOwns
  <2>2. ~GivingUp(p)'
    <3>1. \A b \in Actor : call[b].pc = "settle" => call[b].owner # p
      <4> SUFFICES ASSUME NEW b \in Actor, call[b].pc = "settle", call[b].owner = p PROVE FALSE
        OBVIOUS
      <4>1. call[b].handle \in Handle /\ call[b].owner = registry[call[b].handle]
        BY <1>2 DEF IInv, TypeOK, CallsApart, InCall, CallsInformed, ReleaseKnows
      <4> QED BY <1>0, <1>2, <4>1 DEF IInv, BoxesKept, Born
    <3> QED BY <1>0, <1>1, <1>2, <1>3, <3>1 DEF GivingUp, TypeOK
  <2>3. Born(p)' /\ created'[p] = 1 /\ handle'[p] = h /\ obj'[p] = "live" /\ alive'
    BY <1>0, <1>1, <1>3 DEF Born, TypeOK
  <2> QED BY <2>1, <2>2, <2>3 DEF Owned
<1>8. ASSUME NEW g \in Handle PROVE Lent(g)' = Lent(g)
  <2>1. CASE g = h
    BY <1>0, <1>1, <1>2, <1>3, <1>5, <2>1 DEF Lent, TypeOK
  <2>2. CASE g # h
    BY <1>0, <1>1, <1>3, <1>5, <2>2 DEF Lent, TypeOK
  <2> QED BY <2>1, <2>2
<1>9. \A q \in PathList : obj'[q] = "unborn" <=> obj[q] = "unborn"
  BY <1>0, <1>1, <1>3 DEF TypeOK
<1> QED BY <1>1, <1>6, <1>7, <1>8, <1>9, Unmoved

(* add_path_list_reference: the native call lends.                         *)
LEMMA AddReferenceLends ==
  ASSUME CarefulUse, IInv, IInv', MintersTrack, NEW t \in Thread, NEW w \in Wrapper,
         NEW h \in Handle, AddReference(t, w, h)
  PROVE  Ledger!Lend(h)
<1> USE ConstantsAssumption DEF CarefulUse
<1> DEFINE c == [pc |-> "count", form |-> "none", handle |-> h, list |-> None, owner |-> None]
<1>1. /\ t \in Actor /\ call[t].pc = "idle" /\ ~Busy(h) /\ alive /\ alive'
      /\ refs[h] > 0 /\ refs' = [refs EXCEPT ![h] = @ + 1] /\ pinned' = pinned
      /\ unbooked' = unbooked /\ registry' = registry /\ created' = created /\ added' = added
      /\ handle' = handle /\ obj' = obj
  BY DEF Actor, AddReference, MayCall, books, lists
<1>2. c \in Calls /\ c.pc = "count" /\ c.handle = h
  BY DEF Calls, Forms
<1>3. call' = [call EXCEPT ![t] = c]
  BY DEF AddReference, Enter
<1>4. TypeOK
  BY DEF IInv
<1> HIDE DEF c
<1>5. /\ \A g \in Handle \ {h} :
            (Lending(g)' <=> Lending(g)) /\ (TakingBack(g)' <=> TakingBack(g))
      /\ ~Lending(h) /\ Lending(h)' /\ ~TakingBack(h) /\ ~TakingBack(h)'
      /\ \A q \in PathList : Born(q) /\ handle[q] # h => (GivingUp(q)' <=> GivingUp(q))
      /\ \A q \in PathList : Born(q) /\ handle[q] = h => ~GivingUp(q) /\ ~GivingUp(q)'
  <2>0. call'[t] = c /\ \A b \in Actor \ {t} : call'[b] = call[b]
    BY <1>1, <1>3, <1>4 DEF TypeOK
  <2> QED BY <1>1, <1>2, <2>0, CallViews
<1>6. ASSUME NEW q \in PathList PROVE Owned(q)' = Owned(q)
  <2>1. (Born(q)' <=> Born(q)) /\ (Born(q) => (GivingUp(q)' <=> GivingUp(q)))
    BY <1>1, <1>5 DEF Born
  <2>2. \A b \in Actor : call[b].pc = "track" /\ call[b].list = q => call'[b] = call[b]
    BY <1>1, <1>3, <1>4 DEF TypeOK
  <2> QED BY <1>1, <2>1, <2>2, OwnedKept
<1>7. \A g \in Handle \ {h} : Lent(g)' = Lent(g)
  BY <1>1, <1>5 DEF Lent
<1>8. Lent(h)' = Lent(h) + 1
  BY <1>1, <1>4, <1>5 DEF Lent, TypeOK
<1>9. [q \in PathList |-> Owned(q)'] = [q \in PathList |-> Owned(q)]
  BY <1>6
<1>10. [g \in Handle |-> Lent(g)'] = [[g \in Handle |-> Lent(g)] EXCEPT ![h] = @ + 1]
  BY <1>7, <1>8
<1> QED BY <1>1, <1>9, <1>10 DEF Ledger!Lend

(* The loan is booked.                                                     *)
LEMMA CountStutters ==
  ASSUME CarefulUse, IInv, IInv', MintersTrack, NEW t \in Thread, Count(t)
  PROVE  UNCHANGED Ledger!vars
<1> USE ConstantsAssumption DEF CarefulUse
<1>0. PICK h \in Handle :
        call[t].handle = h /\ t \in Actor /\ call[t].pc = "count" /\ alive
  BY DEF Actor, Count, InCall, IInv, TypeOK, CallsApart
<1>1. /\ refs' = refs /\ pinned' = pinned /\ alive' = alive /\ registry' = registry
      /\ created' = created /\ obj' = obj /\ handle' = handle
      /\ call' = [call EXCEPT ![t] = NoCall] /\ Return(t)
  BY DEF Count, Return, native, lists
<1>3. TypeOK
  BY DEF IInv
<1>4. \A q \in PathList : Born(q) /\ handle[q] # h =>
        created'[q] = created[q] /\ added'[q] = added[q]
  BY <1>0, <1>1, <1>3 DEF Count, IInv, BoxesKept, TypeOK
<1>5. /\ \A g \in Handle \ {h} :
            (Lending(g)' <=> Lending(g)) /\ (TakingBack(g)' <=> TakingBack(g))
      /\ Lending(h) /\ ~Lending(h)' /\ ~TakingBack(h) /\ ~TakingBack(h)'
      /\ \A q \in PathList : Born(q) /\ handle[q] # h => (GivingUp(q)' <=> GivingUp(q))
      /\ \A q \in PathList : Born(q) /\ handle[q] = h => ~GivingUp(q) /\ ~GivingUp(q)'
  BY <1>0, <1>1, <1>4, ReturnViews
<1>6. ASSUME NEW q \in PathList PROVE Owned(q)' = Owned(q)
  <2>1. (Born(q)' <=> Born(q)) /\ (Born(q) => (GivingUp(q)' <=> GivingUp(q)))
    BY <1>1, <1>5 DEF Born
  <2>2. \A b \in Actor : call[b].pc = "track" /\ call[b].list = q => call'[b] = call[b]
    BY <1>0, <1>1, <1>3 DEF TypeOK
  <2> QED BY <1>1, <2>1, <2>2, OwnedKept
<1>7. ASSUME NEW g \in Handle PROVE Lent(g)' = Lent(g)
  <2>1. CASE g # h
    <3>1. unbooked'[g] = unbooked[g]
      BY <1>0, <1>3, <2>1 DEF Count, TypeOK
    <3>2. registry[g] # None => added'[registry[g]] = added[registry[g]]
      BY <1>3, <1>4, <2>1 DEF IInv, BoxesKept, TypeOK
    <3> QED BY <1>1, <1>5, <2>1, <3>1, <3>2 DEF Lent
  <2>2. CASE g = h /\ registry[h] = None
    BY <1>0, <1>1, <1>3, <1>5, <2>2 DEF Count, Lent, TypeOK
  <2>3. CASE g = h /\ registry[h] # None
    BY <1>0, <1>1, <1>3, <1>5, <2>3 DEF Count, Lent, TypeOK
  <2> QED BY <2>1, <2>2, <2>3
<1> QED BY <1>1, <1>6, <1>7, Unmoved

(* A release looks up the books.                                           *)
LEMMA BeginStutters ==
  ASSUME CarefulUse, IInv, IInv', MintersTrack, NEW t \in Thread,
         \/ \E w \in Wrapper, h \in Handle : DestroyHandle(t, w, h)
         \/ \E w \in Wrapper, p \in PathList : DestroyObject(t, w, p)
         \/ \E p \in PathList : Release(t, p)
  PROVE  UNCHANGED Ledger!vars
<1> USE ConstantsAssumption DEF CarefulUse
<1>1. PICK h \in Handle, form \in Forms, p \in PathList \cup {None}, o \in PathList \cup {None} :
        MayCall(t, h) /\ Enter(t, "release", form, h, p, o)
  <2>1. TypeOK /\ t \in Actor /\ minted \subseteq Handle
    BY DEF IInv, Actor, TypeOK
  <2>2. ASSUME NEW w \in Wrapper, NEW h \in Handle, DestroyHandle(t, w, h)
        PROVE  \E o \in PathList \cup {None} : MayCall(t, h) /\ Enter(t, "release", "handle", h, None, o)
    BY <2>1, <2>2 DEF DestroyHandle, TypeOK
  <2>3. ASSUME NEW w \in Wrapper, NEW p \in PathList, DestroyObject(t, w, p)
        PROVE  /\ handle[p] \in Handle
               /\ \E o \in PathList \cup {None} :
                    MayCall(t, handle[p]) /\ Enter(t, "release", "object", handle[p], p, o)
    BY <2>1, <2>3 DEF DestroyObject, IInv, BoxesKept, Born, TypeOK
  <2>4. ASSUME NEW p \in PathList, Release(t, p)
        PROVE  /\ handle[p] \in Handle
               /\ \E form \in Forms, o \in PathList \cup {None} :
                    MayCall(t, handle[p]) /\ Enter(t, "release", form, handle[p], p, o)
    BY <2>1, <2>4 DEF Release, ReleaseOwned, OwnerToSettle, Forms, IInv, BoxesKept, Born, TypeOK
  <2>5. {"handle", "object"} \subseteq Forms
    BY DEF Forms
  <2> QED BY <2>2, <2>3, <2>4, <2>5
<1> DEFINE c == [pc |-> "release", form |-> form, handle |-> h, list |-> p, owner |-> o]
<1>2. t \in Actor /\ call[t].pc = "idle" /\ ~Busy(h) /\ call' = [call EXCEPT ![t] = c]
  BY <1>1 DEF MayCall, Enter, Actor
<1>3. c \in Calls /\ c.pc = "release" /\ c.handle = h
  BY DEF Calls
<1> HIDE DEF c
<1>4. UNCHANGED <<refs, pinned, unbooked, alive, registry, created, added, handle>> /\ obj' = obj
  BY DEF DestroyHandle, DestroyObject, Release, native, books, lists
<1>5. \A q \in PathList : Born(q)' <=> Born(q)
  BY <1>4 DEF Born
<1> QED BY <1>2, <1>3, <1>4, <1>5, CallOnly

(* Dropping a list, and starting its finalizer, release nothing.           *)
LEMMA CollectStutters ==
  ASSUME CarefulUse, IInv, IInv', MintersTrack, NEW p \in PathList, Drop(p) \/ Finalize(p)
  PROVE  UNCHANGED Ledger!vars
<1> USE ConstantsAssumption DEF CarefulUse
<1>1. UNCHANGED <<refs, pinned, unbooked, alive, registry, created, added, handle>>
  BY DEF Drop, Finalize, native, books
<1>2. \A q \in PathList : /\ obj'[q] = "unborn" <=> obj[q] = "unborn"
                          /\ obj'[q] = "minting" <=> obj[q] = "minting"
                          /\ Born(q)' <=> Born(q)
  BY DEF Drop, Finalize, Born, IInv, TypeOK
<1>3. CASE call' = call
  BY <1>1, <1>2, <1>3, AtRest
<1>4. CASE call' # call
  <2>1. /\ Finalize(p) /\ Born(p) /\ call[Collector].pc = "idle" /\ ~Busy(handle[p])
        /\ ReleaseOwned(Collector, p) /\ Collector \in Actor
    BY <1>4 DEF Drop, Finalize, Born, Actor
  <2>2. /\ handle[p] \in Handle /\ OwnerToSettle(p) \in PathList \cup {None}
    BY <2>1 DEF IInv, BoxesKept, TypeOK, OwnerToSettle
  <2> DEFINE c == [pc |-> "release", form |-> IF open[via[p]] THEN "object" ELSE "raw",
                   handle |-> handle[p], list |-> p, owner |-> OwnerToSettle(p)]
  <2>3. c \in Calls /\ c.pc = "release" /\ c.handle = handle[p]
    BY <2>2 DEF Calls, Forms
  <2>4. call' = [call EXCEPT ![Collector] = c]
    BY <2>1 DEF ReleaseOwned, Enter
  <2> HIDE DEF c
  <2> QED BY <1>1, <1>2, <2>1, <2>2, <2>3, <2>4, CallOnly
<1> QED BY <1>3, <1>4

(* A refused release moves no reference.                                   *)
LEMMA ReleaseRefusedStutters ==
  ASSUME CarefulUse, IInv, IInv', MintersTrack, NEW a \in Actor, ReleaseRefused(a)
  PROVE  UNCHANGED Ledger!vars
<1> USE ConstantsAssumption DEF CarefulUse
<1>1. PICK h \in Handle : call[a].handle = h /\ call[a].pc = "release"
  BY ReleaseBacked DEF ReleaseRefused
<1>2. /\ UNCHANGED <<refs, pinned, unbooked, alive, registry, created, added, handle, obj>>
      /\ call' = [call EXCEPT ![a] = NoCall]
  BY DEF ReleaseRefused, Return, native, books, lists
<1>3. \A q \in PathList : Born(q)' <=> Born(q)
  BY <1>2 DEF Born
<1>4. PICK c \in Calls : c.pc = "idle" /\ c = NoCall
  BY DEF Calls, NoCall, Forms
<1> QED BY <1>1, <1>2, <1>3, <1>4, CallOnly

(* The native release takes one reference of one owner: the one the books  *)
(* will settle on.                                                         *)
LEMMA NativeReleaseTakes ==
  ASSUME CarefulUse, IInv, IInv', MintersTrack, NEW a \in Actor, NativeRelease(a)
  PROVE  \/ \E p \in PathList : Ledger!GiveUp(p)
         \/ \E h \in Handle : Ledger!TakeBack(h)
<1> USE ConstantsAssumption DEF CarefulUse
<1>0. PICK h \in Handle :
        /\ call[a].handle = h /\ call[a].pc = "release" /\ alive /\ TypeOK
        /\ call[a].owner = registry[h] /\ ReleaseKnows(a)
  BY DEF NativeRelease, InCall, IInv, TypeOK, CallsApart, CallsInformed, ReleaseKnows
<1>1. UNCHANGED <<pinned, unbooked, alive, registry, created, added, handle, obj>>
  BY DEF NativeRelease, books, lists
<1>2. \A q \in PathList : Born(q)' <=> Born(q)
  BY <1>1 DEF Born
<1>3. /\ refs' = [refs EXCEPT ![h] = @ - 1] /\ refs[h] > 0
      /\ \A b \in Actor \ {a} : call'[b] = call[b]
      /\ call'[a].pc = "settle" /\ call'[a].handle = h
      /\ call'[a].form = call[a].form /\ call'[a].owner = call[a].owner
  BY <1>0 DEF NativeRelease, TypeOK, Calls
<1>4. /\ \A g \in Handle \ {h} :
            (Lending(g)' <=> Lending(g)) /\ (TakingBack(g)' <=> TakingBack(g))
      /\ ~Lending(h) /\ ~Lending(h)' /\ ~TakingBack(h)
      /\ TakingBack(h)' <=>
            (call[a].owner # None => ~TakesOwn(call[a].form, call[a].owner)')
      /\ \A q \in PathList : Born(q) /\ handle[q] # h => (GivingUp(q)' <=> GivingUp(q))
      /\ \A q \in PathList : Born(q) /\ handle[q] = h => ~GivingUp(q)
      /\ \A q \in PathList : Born(q) /\ handle[q] = h =>
           (GivingUp(q)' <=> call[a].owner = q /\ TakesOwn(call[a].form, q)')
  BY <1>0, <1>1, <1>3, CallViews
<1>6. \A b \in Actor, q \in PathList :
        call[b].pc = "track" /\ call[b].list = q => call'[b] = call[b]
  BY <1>0, <1>3
<1>7. ASSUME NEW q \in PathList, Born(q) => (GivingUp(q)' <=> GivingUp(q))
      PROVE  Owned(q)' = Owned(q)
  BY <1>1, <1>2, <1>6, <1>7, OwnedKept
<1>8. \A g \in Handle \ {h} : Lent(g)' = Lent(g)
  BY <1>1, <1>4 DEF Lent
<1>9. ASSUME TakingBack(h)', Lent(h) > 0,
             \A q \in PathList : Born(q) /\ handle[q] = h => ~GivingUp(q)'
      PROVE  Ledger!TakeBack(h)
  <2>1. [q \in PathList |-> Owned(q)'] = [q \in PathList |-> Owned(q)]
    BY <1>4, <1>7, <1>9
  <2>2. Lent(h)' = Lent(h) - 1
    BY <1>0, <1>1, <1>4, <1>9 DEF Lent, TypeOK
  <2>3. [g \in Handle |-> Lent(g)'] = [[g \in Handle |-> Lent(g)] EXCEPT ![h] = @ - 1]
    BY <1>8, <2>2
  <2> QED BY <1>0, <1>1, <1>3, <1>9, <2>1, <2>3 DEF Ledger!TakeBack
<1>10. CASE call[a].owner = None
  <2>1. unbooked[h] > 0 /\ registry[h] = None
    BY <1>0, <1>10 DEF ReleaseKnows
  <2>2. Lent(h) > 0
    BY <1>0, <1>4, <2>1 DEF Lent, TypeOK
  <2> QED BY <1>4, <1>9, <1>10, <2>2
<1>11. CASE call[a].owner # None
  <2>1. PICK o \in PathList : call[a].owner = o
    BY <1>0, <1>11 DEF TypeOK
  <2>2. /\ Born(o) /\ handle[o] = h /\ registry[h] = o /\ unbooked[h] = 0
        /\ created[o] + added[o] > 0 /\ created[o] \in {0, 1} /\ added[o] \in Nat
    <3>1. registry[h] = o /\ o # None
      BY <1>0, <1>11, <2>1
    <3>2. created[o] \in {0, 1} /\ added[o] \in Nat
      BY <1>0 DEF TypeOK
    <3> QED BY <3>1, <3>2 DEF IInv, BoxesKept
  <2>3. /\ TakingBack(h)' <=> ~TakesOwn(call[a].form, o)
        /\ GivingUp(o)' <=> TakesOwn(call[a].form, o)
        /\ \A q \in PathList : Born(q) /\ handle[q] = h /\ q # o => ~GivingUp(q)'
    <3>1. TakesOwn(call[a].form, o)' <=> TakesOwn(call[a].form, o)
      BY <1>0, <1>1, <1>3 DEF TakesOwn
    <3>2. TakesOwn(call[a].form, call[a].owner)' <=> TakesOwn(call[a].form, o)
      BY <1>0, <1>1, <1>3, <2>1 DEF TakesOwn
    <3> QED BY <1>4, <1>11, <2>1, <2>2, <3>1, <3>2
  <2>4. CASE TakesOwn(call[a].form, o)
    <3>1. created[o] = 1
      BY <1>0, <2>1, <2>2, <2>4, <1>11 DEF TakesOwn, ReleaseKnows
    <3>2. Owned(o) = h
      BY <1>0, <1>4, <2>2, <3>1 DEF Owned, Born
    <3>3. Owned(o)' = None
      BY <1>0, <1>1, <1>2, <1>4, <2>1, <2>2, <2>3, <2>4 DEF Owned, Born
    <3>4. \A q \in PathList \ {o} : Owned(q)' = Owned(q)
      BY <1>4, <1>7, <2>3
    <3>5. [q \in PathList |-> Owned(q)'] = [[q \in PathList |-> Owned(q)] EXCEPT ![o] = None]
      BY <3>3, <3>4
    <3>6. Lent(h)' = Lent(h)
      BY <1>1, <1>4, <2>3, <2>4 DEF Lent
    <3>7. [g \in Handle |-> Lent(g)'] = [g \in Handle |-> Lent(g)]
      BY <1>8, <3>6
    <3>8. h # None
      BY DEF ConstantsAssumption
    <3>9. Ledger!GiveUp(o)
      BY <1>0, <1>1, <1>3, <3>2, <3>5, <3>7, <3>8 DEF Ledger!GiveUp
    <3> QED BY <3>9
  <2>5. CASE ~TakesOwn(call[a].form, o)
    <3>1. added[o] > 0
      BY <2>2, <2>5 DEF TakesOwn
    <3>2. Lent(h) > 0
      BY <1>0, <1>4, <1>11, <2>2, <3>1 DEF Lent, TypeOK
    <3> QED BY <1>9, <2>3, <2>5, <3>2
  <2> QED BY <2>4, <2>5
<1> QED BY <1>10, <1>11

(* The books settle on the reference that was taken.                       *)
LEMMA SettleStutters ==
  ASSUME CarefulUse, IInv, IInv', MintersTrack, NEW a \in Actor, Settle(a)
  PROVE  UNCHANGED Ledger!vars
<1> USE ConstantsAssumption DEF CarefulUse
<1>0. PICK h \in Handle :
        /\ call[a].handle = h /\ call[a].pc = "settle" /\ alive /\ TypeOK
        /\ call[a].owner = registry[h] /\ ReleaseKnows(a)
  BY DEF Settle, InCall, IInv, TypeOK, CallsApart, CallsInformed, ReleaseKnows
<1>1. UNCHANGED <<refs, pinned, alive, handle, obj>> /\ Return(a)
  BY DEF Settle, native, lists
<1>2. \A q \in PathList : Born(q)' <=> Born(q)
  BY <1>1 DEF Born
<1>3. \A b \in Actor, q \in PathList :
        call[b].pc = "track" /\ call[b].list = q => call'[b] = call[b]
  BY <1>0, <1>1 DEF Return, TypeOK
<1>4. ASSUME NEW q \in PathList,
             Born(q) => ((created'[q] = 1 /\ ~GivingUp(q)') <=> (created[q] = 1 /\ ~GivingUp(q)))
      PROVE  Owned(q)' = Owned(q)
  BY <1>1, <1>2, <1>3, <1>4, OwnedKept
<1>5. CASE call[a].owner = None
  <2>1. /\ registry' = registry /\ created' = created /\ added' = added
        /\ registry[h] = None /\ unbooked[h] > 0
        /\ unbooked' = [unbooked EXCEPT ![h] = @ - 1]
    BY <1>0, <1>5 DEF Settle, books, ReleaseKnows, TypeOK
  <2>2. /\ \A g \in Handle \ {h} :
              (Lending(g)' <=> Lending(g)) /\ (TakingBack(g)' <=> TakingBack(g))
        /\ ~Lending(h) /\ ~Lending(h)' /\ TakingBack(h) /\ ~TakingBack(h)'
        /\ \A q \in PathList : Born(q) /\ handle[q] # h => (GivingUp(q)' <=> GivingUp(q))
        /\ \A q \in PathList : Born(q) /\ handle[q] = h =>
             (GivingUp(q) <=> call[a].owner = q /\ TakesOwn(call[a].form, q))
        /\ \A q \in PathList : Born(q) /\ handle[q] = h => ~GivingUp(q)'
    BY <1>0, <1>1, <1>5, <2>1, ReturnViews
  <2>3. \A q \in PathList : Owned(q)' = Owned(q)
    <3>1. \A q \in PathList : q # None
      BY DEF ConstantsAssumption
    <3> QED BY <1>4, <1>5, <2>1, <2>2, <3>1
  <2>4. ASSUME NEW g \in Handle PROVE Lent(g)' = Lent(g)
    <3>1. CASE g # h
      BY <1>0, <1>1, <2>1, <2>2, <3>1 DEF Lent, TypeOK
    <3>2. CASE g = h
      BY <1>0, <1>1, <2>1, <2>2, <3>2 DEF Lent, TypeOK
    <3> QED BY <3>1, <3>2
  <2> QED BY <1>1, <2>3, <2>4, Unmoved
<1>6. CASE call[a].owner # None
  <2>1. PICK o \in PathList : call[a].owner = o
    BY <1>0, <1>6 DEF TypeOK
  <2>2. /\ Born(o) /\ handle[o] = h /\ registry[h] = o /\ o # None
        /\ created[o] + added[o] > 0 /\ created[o] \in {0, 1} /\ added[o] \in Nat
        /\ unbooked[h] = 0
        /\ \A g \in Handle \ {h} : registry[g] # o
    <3>1. registry[h] = o /\ o # None
      BY <1>0, <1>6, <2>1
    <3>2. created[o] \in {0, 1} /\ added[o] \in Nat
      BY <1>0 DEF TypeOK
    <3> QED BY <3>1, <3>2 DEF IInv, BoxesKept
  <2>3. /\ unbooked' = unbooked
        /\ \A q \in PathList \ {o} : created'[q] = created[q] /\ added'[q] = added[q]
        /\ \A g \in Handle \ {h} : registry'[g] = registry[g]
    BY <1>0, <1>6, <2>1 DEF Settle, Disown, GiveBackAdded, Prune, TypeOK
  <2>4. /\ \A g \in Handle \ {h} :
              (Lending(g)' <=> Lending(g)) /\ (TakingBack(g)' <=> TakingBack(g))
        /\ ~Lending(h) /\ ~Lending(h)' /\ ~TakingBack(h)'
        /\ TakingBack(h) <=> ~TakesOwn(call[a].form, o)
        /\ \A q \in PathList : Born(q) /\ handle[q] # h => (GivingUp(q)' <=> GivingUp(q))
        /\ \A q \in PathList \ {o} : Born(q) /\ handle[q] = h => ~GivingUp(q)
        /\ GivingUp(o) <=> TakesOwn(call[a].form, o)
        /\ \A q \in PathList : Born(q) /\ handle[q] = h => ~GivingUp(q)'
    <3>1. \A q \in PathList : Born(q) /\ handle[q] # h =>
            created'[q] = created[q] /\ added'[q] = added[q]
      BY <2>2, <2>3
    <3>2. /\ \A g \in Handle \ {h} :
                (Lending(g)' <=> Lending(g)) /\ (TakingBack(g)' <=> TakingBack(g))
          /\ ~Lending(h) /\ ~Lending(h)' /\ ~TakingBack(h)'
          /\ TakingBack(h) <=> (call[a].owner # None => ~TakesOwn(call[a].form, call[a].owner))
          /\ \A q \in PathList : Born(q) /\ handle[q] # h => (GivingUp(q)' <=> GivingUp(q))
          /\ \A q \in PathList : Born(q) /\ handle[q] = h =>
               (GivingUp(q) <=> call[a].owner = q /\ TakesOwn(call[a].form, q))
          /\ \A q \in PathList : Born(q) /\ handle[q] = h => ~GivingUp(q)'
      BY <1>0, <1>1, <3>1, ReturnViews
    <3> QED BY <1>6, <2>1, <2>2, <3>2
  <2>5. \A q \in PathList \ {o} : Owned(q)' = Owned(q)
    BY <1>4, <2>3, <2>4
  <2>6. \A g \in Handle \ {h} : Lent(g)' = Lent(g)
    <3> SUFFICES ASSUME NEW g \in Handle \ {h} PROVE Lent(g)' = Lent(g)
      OBVIOUS
    <3>1. registry[g] # None => added'[registry[g]] = added[registry[g]]
      BY <1>0, <2>2, <2>3 DEF TypeOK
    <3> QED BY <1>1, <2>3, <2>4, <3>1 DEF Lent
  <2>7. CASE TakesOwn(call[a].form, o)
    <3>1. /\ created' = [created EXCEPT ![o] = 0] /\ added' = added
          /\ registry' = IF added[o] = 0 THEN [registry EXCEPT ![h] = None] ELSE registry
      BY <1>0, <1>6, <2>1, <2>2, <2>7 DEF Settle, Disown, Prune
    <3>2. Owned(o)' = Owned(o)
      <4>1. created'[o] = 0
        BY <1>0, <3>1 DEF TypeOK
      <4> QED BY <1>4, <2>4, <2>7, <4>1
    <3>3. Lent(h)' = Lent(h)
      BY <1>0, <1>1, <2>2, <2>3, <2>4, <2>7, <3>1 DEF Lent, TypeOK
    <3> QED BY <1>1, <2>5, <2>6, <3>2, <3>3, Unmoved
  <2>8. CASE ~TakesOwn(call[a].form, o)
    <3>1. /\ added' = [added EXCEPT ![o] = @ - 1] /\ created' = created /\ added[o] > 0
          /\ registry' = IF created[o] = 0 /\ added[o] - 1 = 0
                         THEN [registry EXCEPT ![h] = None] ELSE registry
      BY <1>0, <1>6, <2>1, <2>2, <2>8 DEF Settle, GiveBackAdded, Prune, TakesOwn
    <3>2. Owned(o)' = Owned(o)
      BY <1>4, <2>2, <2>4, <2>8, <3>1
    <3>3. Lent(h)' = Lent(h)
      BY <1>0, <1>1, <2>2, <2>3, <2>4, <2>8, <3>1 DEF Lent, TypeOK
    <3> QED BY <1>1, <2>5, <2>6, <3>2, <3>3, Unmoved
  <2> QED BY <2>7, <2>8
<1> QED BY <1>5, <1>6

(* Stage.destroy ends everything.                                          *)
LEMMA DestroyStageEnds ==
  ASSUME IInv, DestroyStage
  PROVE  Ledger!End
<1>1. [p \in PathList |-> Owned(p)'] = [p \in PathList |-> None]
  BY DEF DestroyStage, Owned
<1>2. [h \in Handle |-> Lent(h)'] = [h \in Handle |-> 0]
  BY DEF DestroyStage, Lent
<1> QED BY <1>1, <1>2 DEF DestroyStage, lists, Ledger!End

(* The native side's own references.                                       *)
LEMMA PinsPin ==
  ASSUME CarefulUse, IInv, IInv', MintersTrack, NEW h \in Handle, Pin(h) \/ Unpin(h)
  PROVE  Ledger!Pin(h) \/ Ledger!Unpin(h)
<1>1. UNCHANGED <<unbooked, alive, registry, created, added, handle, obj, call>> /\ alive
  BY DEF Pin, Unpin, books, lists
<1>2. [p \in PathList |-> Owned(p)'] = [p \in PathList |-> Owned(p)]
  <2> SUFFICES ASSUME NEW q \in PathList PROVE Owned(q)' = Owned(q)
    OBVIOUS
  <2>1. (GivingUp(q)' <=> GivingUp(q)) /\ (Born(q)' <=> Born(q))
    BY <1>1 DEF GivingUp, TakesOwn, Born
  <2> QED BY <1>1, <2>1, OwnedKept
<1>3. [g \in Handle |-> Lent(g)'] = [g \in Handle |-> Lent(g)]
  <2> SUFFICES ASSUME NEW g \in Handle PROVE Lent(g)' = Lent(g)
    OBVIOUS
  <2>1. (Lending(g)' <=> Lending(g)) /\ (TakingBack(g)' <=> TakingBack(g))
    BY <1>1 DEF Lending, TakingBack, TakesOwn
  <2> QED BY <1>1, <2>1 DEF Lent
<1>4. CASE Pin(h)
  BY <1>1, <1>2, <1>3, <1>4 DEF Pin, Ledger!Pin
<1>5. CASE Unpin(h)
  <2>1. refs[h] > 0 /\ pinned[h] > 0
    BY <1>1, <1>5, PinsBacked DEF OthersKeepTheirs, Unpin, IInv, TypeOK
  <2> QED BY <1>1, <1>2, <1>3, <1>5, <2>1 DEF Unpin, Ledger!Unpin
<1> QED BY <1>4, <1>5

(* At first nobody owns anything.                                          *)
LEMMA InitRefines == ASSUME ConstantsAssumption, Init PROVE Ledger!Init
<1>1. \A a \in Actor : call[a].pc = "idle"
  BY DEF Init, NoCall
<1>2. [p \in PathList |-> Owned(p)] = [p \in PathList |-> None]
  BY DEF Init, Owned, Born
<1>3. [h \in Handle |-> Lent(h)] = [h \in Handle |-> 0]
  BY <1>1 DEF Init, Lent, Lending, TakingBack
<1>4. {p \in PathList : obj[p] = "unborn"} = PathList
  BY DEF Init
<1> QED BY <1>2, <1>3, <1>4 DEF Init, Ledger!Init

(* Every step is one of the ledger, or a stutter.                          *)
LEMMA StepRefines ==
  ASSUME CarefulUse, IInv, MintersTrack, [Next]_vars
  PROVE  [Ledger!Next]_(Ledger!vars)
<1>1. IInv'
  BY StepKeeps
<1>2. ASSUME NEW t \in Thread, ThreadStep(t) PROVE Ledger!Next \/ UNCHANGED Ledger!vars
  BY <1>1, <1>2, CreateMints, TrackStutters, AddReferenceLends, CountStutters, BeginStutters
     DEF ThreadStep, Ledger!Next
<1>3. ASSUME NEW a \in Actor, NativeRelease(a) PROVE Ledger!Next
  BY <1>1, <1>3, NativeReleaseTakes DEF Ledger!Next
<1>4. ASSUME NEW a \in Actor, ReleaseRefused(a) \/ Settle(a) PROVE UNCHANGED Ledger!vars
  BY <1>1, <1>4, ReleaseRefusedStutters, SettleStutters
<1>5. ASSUME NEW p \in PathList, Drop(p) \/ Finalize(p) PROVE UNCHANGED Ledger!vars
  BY <1>1, <1>5, CollectStutters
<1>6. CASE UNCHANGED vars \/ \E w \in Wrapper : CloseWrapper(w)
  <2>1. UNCHANGED <<refs, pinned, unbooked, alive, registry, created, added, handle, obj, call>>
    BY <1>6 DEF vars, CloseWrapper, native, books, lists
  <2>2. \A q \in PathList : Born(q)' <=> Born(q)
    BY <2>1 DEF Born
  <2> QED BY <1>1, <2>1, <2>2, AtRest
<1>7. CASE DestroyStage
  BY <1>7, DestroyStageEnds DEF Ledger!Next
<1>8. ASSUME NEW h \in Handle, Pin(h) \/ Unpin(h) PROVE Ledger!Next
  BY <1>1, <1>8, PinsPin DEF Ledger!Next
<1> QED BY <1>2, <1>3, <1>4, <1>5, <1>6, <1>7, <1>8 DEF Next

(* Refinement, for any number of threads, lists, wrappers and handles:     *)
(* each public call of path_dictionary.py takes effect at its native call, *)
(* gives up one reference of one owner, and the books agree afterwards.    *)
THEOREM LedgerImplemented == ASSUME CarefulUse PROVE Spec => ImplementsLedger
<1>1. Init => Ledger!Init
  BY ConstantsAssumption, InitRefines
<1>2. Init => MintersTrack
  BY DEF Init, MintersTrack
<1>3. IInv /\ MintersTrack /\ [Next]_vars => MintersTrack'
  BY MintersTrackHolds
<1>4. IInv /\ MintersTrack /\ [Next]_vars => [Ledger!Next]_(Ledger!vars)
  BY StepRefines
<1> QED BY <1>1, <1>2, <1>3, <1>4, InvariantHolds, PTL DEF Spec, ImplementsLedger, Ledger!Spec

=============================================================================
