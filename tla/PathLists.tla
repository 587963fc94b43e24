------------------------------ MODULE PathLists ------------------------------
(***************************************************************************)
(* Ownership of path-list handles in ovstage's Python binding              *)
(* (src/python/ovstage/_src/path_dictionary.py).                           *)
(*                                                                         *)
(* The native dictionary counts references on a list handle without saying *)
(* whose they are.  The binding keeps the books: every Stage has one       *)
(* registry, keyed by handle, of "owner boxes" [created, added].  A        *)
(* PathList object shares the box of its handle; bare integers and other   *)
(* PathDictionary wrappers reach the same box through the registry.        *)
(*                                                                         *)
(* A call into the native library releases the interpreter lock, so a call *)
(* is modelled in the steps that other threads can come between: look up   *)
(* the books, change the native count, bring the books up to date.  Each   *)
(* of the three is one step here; each is short Python code or one native  *)
(* call.                                                                   *)
(***************************************************************************)
EXTENDS Naturals, FiniteSets

CONSTANTS
  Thread,      \* program threads that call the dictionary
  Collector,   \* the actor that runs PathList.__del__
  PathList,    \* PathList objects (and, each with its own, owner boxes)
  Wrapper,     \* PathDictionary wrappers over the one Stage
  Handle,      \* native path-list handles
  None,
  MaxAdded,    \* bound: references callers add on one handle
  MaxPins,     \* bound: references the native side itself keeps on one handle
  Reuse,       \* when the native side may hand out an erased handle again:
               \*   "never"; "settled": once the call that erased it has ended
               \*   (all a single thread can see); "anytime"
  StaleCalls,  \* TRUE: callers pass destroy_path_list a PathList already released
  CyclicGC     \* TRUE: a finalizer may run inside another call on its handle

Actor == Thread \cup {Collector}

ASSUME ConstantsAssumption ==
  /\ Collector \notin Thread
  /\ None \notin PathList \cup Handle \cup Wrapper
  /\ MaxAdded \in Nat
  /\ MaxPins \in Nat
  /\ Reuse \in {"never", "settled", "anytime"}
  /\ StaleCalls \in BOOLEAN
  /\ CyclicGC \in BOOLEAN

VARIABLES
  refs,      \* native reference count of each handle; 0: erased, or never made
  minted,    \* handles the native side has handed out so far
  pinned,    \* references the native side itself holds (queries, read groups)
  unbooked,  \* references callers added on handles the books do not know
  alive,     \* Stage._inst is set: the native dictionary exists
  open,      \* wrapper -> PathDictionary not destroyed
  registry,  \* Stage._path_list_refs: handle -> owner box, or None
  created,   \* box -> create reference outstanding (entry [_CREATED])
  added,     \* box -> references callers added (entry [_ADDED])
  obj,       \* life of a PathList: "unborn", "minting", "live", "dropped", "gone"
  handle,    \* PathList -> its integer value
  box,       \* PathList._owner
  via,       \* PathList._dictionary: the wrapper that made it
  call       \* actor -> the dictionary call it is in the middle of

native == <<refs, minted, pinned>>
books  == <<registry, created, added>>
lists  == <<obj, handle, box, via>>
vars   == <<native, unbooked, alive, open, books, lists, call>>

-----------------------------------------------------------------------------
(* The form of a release: of a bare handle or a PathList through a         *)
(* wrapper, or "raw", through the pointer a PathList captured.             *)
Forms == {"none", "handle", "object", "raw"}

NoCall ==
  [pc |-> "idle", form |-> "none", handle |-> None, list |-> None, owner |-> None]

Calls ==
  [pc : {"idle", "track", "count", "release", "settle"}, form : Forms,
   handle : Handle \cup {None}, list : PathList \cup {None},
   owner : PathList \cup {None}]

(* A PathList exists once _track has built it.                             *)
Born(p) == obj[p] \in {"live", "dropped", "gone"}

(* PathList.released                                                       *)
Released(p) == created[box[p]] = 0

Busy(h) == \E a \in Actor : call[a].pc # "idle" /\ call[a].handle = h

(* "own a given handle from one thread": calls on one handle do not        *)
(* overlap.                                                                *)
MayCall(a, h) == call[a].pc = "idle" /\ ~Busy(h)

Enter(a, pc, form, h, p, o) ==
  call' = [call EXCEPT ![a] =
             [pc |-> pc, form |-> form, handle |-> h, list |-> p, owner |-> o]]

Return(a) == call' = [call EXCEPT ![a] = NoCall]

-----------------------------------------------------------------------------
(* Slips the code is one edit away from.  None is part of the              *)
(* specification; each takes the place of the definition it names in one   *)
(* model-checking run, which must then fail.                               *)

(* Count, if a known handle's reference were not booked                    *)
CountForgets(t) ==
  /\ call[t].pc = "count"
  /\ IF registry[call[t].handle] = None
     THEN unbooked' = [unbooked EXCEPT ![call[t].handle] = @ + 1]
     ELSE UNCHANGED unbooked
  /\ Return(t)
  /\ UNCHANGED <<native, alive, open, books, lists>>

(* ReleaseRefused, if a refused release were booked like an accepted one   *)
RefusalBooked(a) ==
  /\ call[a].pc = "release"
  /\ refs[call[a].handle] = 0 \/ a \in Thread
  /\ call' = [call EXCEPT ![a].pc = "settle"]
  /\ UNCHANGED <<native, unbooked, alive, open, books, lists>>

(* Prune, if it looked at the count of added references only, or were not  *)
(* called                                                                   *)
PruneForgetsCreated(h, o, c, d) ==
  registry' = IF d = 0 /\ registry[h] = o
              THEN [registry EXCEPT ![h] = None] ELSE registry

PruneNever(h, o, c, d) == UNCHANGED registry

(* TakesOwn, without the fallback of a bare handle to the create reference,*)
(* or with added references always going first                             *)
TakesOwnNeverForHandle(form, o) == form = "raw" \/ (form = "object" /\ created[o] > 0)

TakesOwnLast(form, o) == form = "raw" \/ added[o] = 0

(* NothingToReclaim, if the finalizer gave up with its wrapper closed, or  *)
(* with callers' references still booked                                   *)
NothingOnceWrapperClosed(p) == Released(p) \/ ~alive \/ ~open[via[p]]

NothingWhileAddedTo(p) == Released(p) \/ ~alive \/ added[box[p]] > 0

-----------------------------------------------------------------------------
Init ==
  /\ refs = [h \in Handle |-> 0]
  /\ minted = {}
  /\ pinned = [h \in Handle |-> 0]
  /\ unbooked = [h \in Handle |-> 0]
  /\ alive = TRUE
  /\ open = [w \in Wrapper |-> TRUE]
  /\ registry = [h \in Handle |-> None]
  /\ created = [p \in PathList |-> 0]
  /\ added = [p \in PathList |-> 0]
  /\ obj = [p \in PathList |-> "unborn"]
  /\ handle = [p \in PathList |-> None]
  /\ box = [p \in PathList |-> p]
  /\ via = [p \in PathList |-> None]
  /\ call = [a \in Actor |-> NoCall]

-----------------------------------------------------------------------------
(* create_path_list and create_path_list_from_strings: the native call     *)
(* makes a list with one reference, then _track books it.                  *)

(* Handles create_* may return.  The headers promise "a fresh handle" and  *)
(* leave open whether an erased one comes back; the binding allows for it. *)
Fresh(h) ==
  /\ refs[h] = 0
  /\ \/ h \notin minted
     \/ Reuse = "settled" /\ ~Busy(h)
     \/ Reuse = "anytime"

Create(t, w, p, h) ==
  /\ alive /\ open[w] /\ call[t].pc = "idle"
  /\ obj[p] = "unborn" /\ Fresh(h)
  /\ refs' = [refs EXCEPT ![h] = 1]
  /\ minted' = minted \cup {h}
  /\ obj' = [obj EXCEPT ![p] = "minting"]
  /\ via' = [via EXCEPT ![p] = w]
  /\ Enter(t, "track", "none", h, p, None)
  /\ UNCHANGED <<pinned, unbooked, alive, open, books, handle, box>>

(* The box _track gives a list on handle h: the one the registry still     *)
(* has, or a new one.                                                      *)
BoxFor(p, h) == IF registry[h] = None THEN p ELSE registry[h]

Track(t) ==
  LET h == call[t].handle
      p == call[t].list
  IN  /\ call[t].pc = "track"
      /\ registry' = [registry EXCEPT ![h] = BoxFor(p, h)]
      /\ created' = [created EXCEPT ![BoxFor(p, h)] = 1]
      /\ obj' = [obj EXCEPT ![p] = "live"]
      /\ handle' = [handle EXCEPT ![p] = h]
      /\ box' = [box EXCEPT ![p] = BoxFor(p, h)]
      /\ Return(t)
      /\ UNCHANGED <<native, unbooked, alive, open, added, via>>

(* add_path_list_reference: the native count first, then the books.        *)
AddReference(t, w, h) ==
  /\ alive /\ open[w] /\ MayCall(t, h)
  /\ refs[h] > 0
  /\ (IF registry[h] = None THEN unbooked[h] ELSE added[registry[h]]) < MaxAdded
  /\ refs' = [refs EXCEPT ![h] = @ + 1]
  /\ Enter(t, "count", "none", h, None, None)
  /\ UNCHANGED <<minted, pinned, unbooked, alive, open, books, lists>>

Count(t) ==
  LET h == call[t].handle
      o == registry[h]
  IN  /\ call[t].pc = "count"
      /\ IF o = None
         THEN /\ unbooked' = [unbooked EXCEPT ![h] = @ + 1]
              /\ UNCHANGED added
         ELSE /\ added' = [added EXCEPT ![o] = @ + 1]
              /\ UNCHANGED unbooked
      /\ Return(t)
      /\ UNCHANGED <<native, alive, open, registry, created, lists>>

-----------------------------------------------------------------------------
(* destroy_path_list and PathList._release_owned                           *)

(* destroy_path_list's guard for a PathList argument: only an empty entry  *)
(* that is still in the registry makes it look at the object.              *)
Refused(p, o) == o # None /\ created[o] = 0 /\ added[o] = 0 /\ Released(p)

(* Callers release a bare handle when they hold a reference on it.         *)
CallerHolds(h) == registry[h] # None \/ unbooked[h] > 0

DestroyHandle(t, w, h) ==
  /\ alive /\ open[w] /\ MayCall(t, h)
  /\ CallerHolds(h)
  /\ Enter(t, "release", "handle", h, None, registry[h])
  /\ UNCHANGED <<native, unbooked, alive, open, books, lists>>

(* A PathList whose own reference is gone may still be passed to give back *)
(* an added reference; with none booked the call is a caller's mistake     *)
(* (StaleCalls).                                                           *)
DestroyObject(t, w, p) ==
  /\ alive /\ open[w] /\ obj[p] = "live" /\ MayCall(t, handle[p])
  /\ ~Refused(p, registry[handle[p]])
  /\ Released(p) => StaleCalls \/ (registry[handle[p]] = box[p] /\ added[box[p]] > 0)
  /\ Enter(t, "release", "object", handle[p], p, registry[handle[p]])
  /\ UNCHANGED <<native, unbooked, alive, open, books, lists>>

(* PathList._c_dictionary_alive, as _release_owned and __del__ ask it      *)
DictionaryAlive == alive

(* _release_owned: through the wrapper that made the list while that is    *)
(* open (its destroy_path_list finds the box in the registry), otherwise   *)
(* through the captured pointer with the list's own box.                   *)
OwnerToSettle(p) == IF open[via[p]] THEN registry[handle[p]] ELSE box[p]

ReleaseOwned(a, p) ==
  /\ ~Released(p) /\ DictionaryAlive
  /\ Enter(a, "release", IF open[via[p]] THEN "object" ELSE "raw",
           handle[p], p, OwnerToSettle(p))

(* PathList.release and PathList.__exit__                                  *)
Release(t, p) ==
  /\ obj[p] = "live" /\ MayCall(t, handle[p])
  /\ ReleaseOwned(t, p)
  /\ UNCHANGED <<native, unbooked, alive, open, books, lists>>

(* The native release.                                                     *)
NativeRelease(a) ==
  LET h == call[a].handle
  IN  /\ call[a].pc = "release" /\ refs[h] > 0
      /\ refs' = [refs EXCEPT ![h] = @ - 1]
      /\ call' = [call EXCEPT ![a].pc = "settle"]
      /\ UNCHANGED <<minted, pinned, unbooked, alive, open, books, lists>>

(* It is refused for an unknown handle, and may be refused otherwise:      *)
(* nothing is dropped, the exception leaves the books alone, and the caller*)
(* may try again.  Nobody could repeat the finalizer's, which is refused   *)
(* for an unknown handle only.                                             *)
ReleaseRefused(a) ==
  /\ call[a].pc = "release"
  /\ refs[call[a].handle] = 0 \/ a \in Thread
  /\ Return(a)
  /\ UNCHANGED <<native, unbooked, alive, open, books, lists>>

(* _prune: drop the entry when nothing about the handle is left, unless    *)
(* the registry has a newer one.                                           *)
Prune(h, o, c, d) ==
  registry' = IF c = 0 /\ d = 0 /\ registry[h] = o
              THEN [registry EXCEPT ![h] = None] ELSE registry

Disown(h, o) ==
  /\ created' = [created EXCEPT ![o] = 0]
  /\ Prune(h, o, 0, added[o])
  /\ UNCHANGED <<added, unbooked>>

GiveBackAdded(h, o) ==
  /\ added' = [added EXCEPT ![o] = @ - 1]
  /\ Prune(h, o, created[o], added[o] - 1)
  /\ UNCHANGED <<created, unbooked>>

(* Which booked reference a successful release was: the raw form always    *)
(* takes the create reference, the object form takes it while there is one,*)
(* and a bare handle takes an added reference first.                       *)
TakesOwn(form, o) ==
  \/ form = "raw"
  \/ form = "object" /\ created[o] > 0
  \/ added[o] = 0

Settle(a) ==
  LET h == call[a].handle
      o == call[a].owner
  IN  /\ call[a].pc = "settle"
      /\ IF o = None
         THEN /\ unbooked' = [unbooked EXCEPT ![h] = IF @ > 0 THEN @ - 1 ELSE 0]
              /\ UNCHANGED books
         ELSE IF TakesOwn(call[a].form, o) THEN Disown(h, o) ELSE GiveBackAdded(h, o)
      /\ Return(a)
      /\ UNCHANGED <<native, alive, open, lists>>

-----------------------------------------------------------------------------
(* Garbage collection of PathList objects                                  *)

(* The program drops its last reference; a call holds its argument.        *)
Drop(p) ==
  /\ obj[p] = "live"
  /\ \A a \in Actor : call[a].list # p
  /\ obj' = [obj EXCEPT ![p] = "dropped"]
  /\ UNCHANGED <<native, unbooked, alive, open, books, handle, box, via, call>>

(* __del__: silent when nothing is outstanding or the dictionary is gone.  *)
NothingToReclaim(p) == Released(p) \/ ~DictionaryAlive

Finalize(p) ==
  /\ obj[p] = "dropped" /\ call[Collector].pc = "idle"
  /\ CyclicGC \/ ~Busy(handle[p])
  /\ obj' = [obj EXCEPT ![p] = "gone"]
  /\ IF NothingToReclaim(p) THEN UNCHANGED call ELSE ReleaseOwned(Collector, p)
  /\ UNCHANGED <<native, unbooked, alive, open, books, handle, box, via>>

-----------------------------------------------------------------------------
(* Surroundings                                                            *)

(* PathDictionary.destroy, or its finalizer; not under a call.             *)
CloseWrapper(w) ==
  /\ open[w]
  /\ \A a \in Actor : call[a].pc = "idle"
  /\ open' = [open EXCEPT ![w] = FALSE]
  /\ UNCHANGED <<native, unbooked, alive, books, lists, call>>

(* Stage.destroy takes the dictionary and every reference with it; not     *)
(* under a call, a finalizer's included.                                   *)
DestroyStage ==
  /\ alive
  /\ \A a \in Actor : call[a].pc = "idle"
  /\ alive' = FALSE
  /\ refs' = [h \in Handle |-> 0]
  /\ pinned' = [h \in Handle |-> 0]
  /\ unbooked' = [h \in Handle |-> 0]
  /\ UNCHANGED <<minted, open, books, lists, call>>

(* A native query or read group takes a reference of its own on a list,    *)
(* or makes a list that callers borrow; and gives it back.                 *)
Pin(h) ==
  /\ alive /\ pinned[h] < MaxPins
  /\ refs[h] > 0 \/ Fresh(h)
  /\ refs' = [refs EXCEPT ![h] = @ + 1]
  /\ minted' = minted \cup {h}
  /\ pinned' = [pinned EXCEPT ![h] = @ + 1]
  /\ UNCHANGED <<unbooked, alive, open, books, lists, call>>

Unpin(h) ==
  /\ alive /\ pinned[h] > 0
  /\ refs' = [refs EXCEPT ![h] = IF @ > 0 THEN @ - 1 ELSE 0]
  /\ pinned' = [pinned EXCEPT ![h] = @ - 1]
  /\ UNCHANGED <<minted, unbooked, alive, open, books, lists, call>>

-----------------------------------------------------------------------------
ThreadStep(t) ==
  \/ \E w \in Wrapper, p \in PathList, h \in Handle : Create(t, w, p, h)
  \/ Track(t)
  \/ \E w \in Wrapper, h \in Handle : AddReference(t, w, h)
  \/ Count(t)
  \/ \E w \in Wrapper, h \in Handle : DestroyHandle(t, w, h)
  \/ \E w \in Wrapper, p \in PathList : DestroyObject(t, w, p)
  \/ \E p \in PathList : Release(t, p)

Next ==
  \/ \E t \in Thread : ThreadStep(t)
  \/ \E a \in Actor : NativeRelease(a) \/ ReleaseRefused(a) \/ Settle(a)
  \/ \E p \in PathList : Drop(p) \/ Finalize(p)
  \/ \E w \in Wrapper : CloseWrapper(w)
  \/ DestroyStage
  \/ \E h \in Handle : Pin(h) \/ Unpin(h)

Spec == Init /\ [][Next]_vars

(* A call that was started goes on, and the interpreter finalizes an       *)
(* object at once when its last reference goes, so no sequence of calls    *)
(* on the handle can keep the finalizer waiting for ever.                  *)
Fairness ==
  /\ \A t \in Thread : WF_vars(Track(t)) /\ WF_vars(Count(t))
  /\ \A a \in Actor : WF_vars(NativeRelease(a) \/ ReleaseRefused(a)) /\ WF_vars(Settle(a))
  /\ \A p \in PathList : SF_vars(Finalize(p))

FairSpec == Spec /\ Fairness

-----------------------------------------------------------------------------
(* Correctness                                                             *)

(* Every variable keeps to its type; in particular the books never go      *)
(* negative.                                                               *)
TypeOK ==
  /\ refs \in [Handle -> Nat]
  /\ minted \subseteq Handle
  /\ pinned \in [Handle -> Nat]
  /\ unbooked \in [Handle -> Nat]
  /\ alive \in BOOLEAN
  /\ open \in [Wrapper -> BOOLEAN]
  /\ registry \in [Handle -> PathList \cup {None}]
  /\ created \in [PathList -> {0, 1}]
  /\ added \in [PathList -> Nat]
  /\ obj \in [PathList -> {"unborn", "minting", "live", "dropped", "gone"}]
  /\ handle \in [PathList -> Handle \cup {None}]
  /\ box \in [PathList -> PathList]
  /\ via \in [PathList -> Wrapper \cup {None}]
  /\ call \in [Actor -> Calls]

(* References the books account to a handle.                               *)
Booked(h) == IF registry[h] = None THEN 0 ELSE created[registry[h]] + added[registry[h]]

(* A call on h that has changed the native count and not yet the books.    *)
Gaining(h) == \E a \in Actor : call[a].pc \in {"track", "count"} /\ call[a].handle = h
Losing(h)  == \E a \in Actor : call[a].pc = "settle" /\ call[a].handle = h

(* While the Stage lives, the native count of every handle is exactly what *)
(* the native side pins, what callers added on lists the binding did not   *)
(* make, and what the books say, give or take the one call in progress: no *)
(* path through create, add, destroy, release, with-exit or the finalizer  *)
(* drops a reference that is somebody else's, or forgets one, and a        *)
(* release that was refused ("a failed release dropped nothing") leaves    *)
(* both sides as they were.                                                *)
BooksMatchCount ==
  alive => \A h \in Handle :
    refs[h] + (IF Losing(h) THEN 1 ELSE 0)
      = pinned[h] + unbooked[h] + Booked(h) + (IF Gaining(h) THEN 1 ELSE 0)

(* A PathList that has not been released is the one its handle's entry     *)
(* belongs to, so releasing by integer or through another wrapper clears   *)
(* this object's claim, and no two unreleased lists compete for a handle.  *)
ClaimIsCurrent ==
  \A p \in PathList : Born(p) /\ ~Released(p) =>
    /\ registry[handle[p]] = box[p]
    /\ \A q \in PathList \ {p} : Born(q) /\ ~Released(q) => handle[q] # handle[p]

(* The registry keeps no entry with nothing outstanding: create/destroy    *)
(* cycles leave no dead keys behind (test_registry_does_not_grow...).      *)
NoDeadKeys ==
  \A h \in Handle : registry[h] # None => created[registry[h]] + added[registry[h]] > 0

(* The native side's own references -- queries and read groups in use --   *)
(* outlast every release the binding makes.                                *)
OthersKeepTheirs == alive => \A h \in Handle : refs[h] >= pinned[h]

(* Once every list is collected and callers have given back what they      *)
(* added, nothing but the native side's own pins keeps a list alive.       *)
NothingLeaks ==
  (/\ alive
   /\ \A p \in PathList : obj[p] \in {"unborn", "gone"} /\ added[p] = 0
   /\ \A h \in Handle : unbooked[h] = 0
   /\ \A a \in Actor : call[a].pc = "idle")
    => /\ refs = pinned
       /\ registry = [h \in Handle |-> None]

(* A released list stays released: nothing another list does brings its    *)
(* claim back (which would let it release a second time).                  *)
ReleasedForGood ==
  [][\A p \in PathList : Born(p) /\ Released(p) => Released(p)']_vars

(* __del__ reclaims exactly the reference create_path_list* made; added    *)
(* references are the caller's and survive it.                             *)
FinalizerKeepsAdded ==
  [][call[Collector].pc = "settle" /\ call'[Collector].pc = "idle"
       => added' = added /\ unbooked' = unbooked]_vars

(* Passing destroy_path_list a PathList whose own reference is gone, with  *)
(* no added reference booked, must not reach the native count: there is    *)
(* nothing of the caller's left to give.                                   *)
StaleObjectRefused ==
  [][\A t \in Thread :
       LET c == call[t]
       IN  /\ c.pc = "release" /\ call'[t].pc # "release"
           /\ c.form = "object" /\ Released(c.list)
           /\ (c.owner = None \/ added[c.owner] = 0)
           => refs' = refs]_vars

(* Every dropped list that was still owned gives its reference back.       *)
DroppedIsReclaimed ==
  \A p \in PathList : obj[p] = "dropped" ~> obj[p] = "gone" /\ (Released(p) \/ ~alive)

-----------------------------------------------------------------------------
(* The inductive invariant                                                 *)
(*                                                                         *)
(* BooksMatchCount is not inductive alone: it needs to know that a handle  *)
(* has at most one call in progress, that the call still sees the entry it *)
(* looked up, and which box an entry can be.                               *)

InCall(a) == call[a].pc # "idle"

(* One call at a time per handle, and none once the Stage is gone.         *)
CallsApart ==
  /\ \A a \in Actor : ~InCall(a) => call[a] = NoCall
  /\ \A a \in Actor : InCall(a) => alive /\ call[a].handle \in minted
  /\ \A a, b \in Actor : InCall(a) /\ call[a].handle = call[b].handle => a = b
  /\ \A a, b \in Actor :
       call[a].pc = "track" /\ call[b].pc = "track" /\ call[a].list = call[b].list => a = b

(* What a call knows at each of its steps.                                 *)
TrackKnows(a) ==
  /\ call[a].list \in PathList /\ obj[call[a].list] = "minting"
  /\ registry[call[a].handle] = None /\ unbooked[call[a].handle] = 0

ReleaseKnows(a) ==
  /\ call[a].owner = registry[call[a].handle]
  /\ call[a].owner = None => unbooked[call[a].handle] > 0 /\ call[a].form = "handle"
  /\ call[a].form = "raw" => created[call[a].owner] = 1

CollectorKnows ==
  call[Collector].pc \in {"release", "settle"} =>
    /\ call[Collector].form \in {"object", "raw"}
    /\ call[Collector].list \in PathList
    /\ call[Collector].owner = call[Collector].list
    /\ created[call[Collector].list] = 1

CallsInformed ==
  /\ \A a \in Actor : call[a].pc = "track" => TrackKnows(a)
  /\ \A a \in Actor : call[a].pc \in {"release", "settle"} => ReleaseKnows(a)
  /\ call[Collector].pc \notin {"track", "count"}
  /\ CollectorKnows

(* A box is its own list's, and is in the registry, under that list's      *)
(* handle, exactly while something about it is outstanding.                *)
BoxesKept ==
  /\ \A p \in PathList : box[p] = p
  /\ \A p \in PathList : Born(p) => handle[p] \in minted
  /\ \A p \in PathList : obj[p] # "unborn" => via[p] \in Wrapper
  /\ \A p \in PathList : created[p] + added[p] > 0 => Born(p) /\ registry[handle[p]] = p
  /\ \A h \in Handle : registry[h] # None =>
       /\ Born(registry[h]) /\ handle[registry[h]] = h
       /\ created[registry[h]] + added[registry[h]] > 0
       /\ unbooked[h] = 0

UnmintedUntouched ==
  \A h \in Handle \ minted : refs[h] = 0 /\ unbooked[h] = 0

(* A collected list was reclaimed, or the finalizer is at it.              *)
GoneIsReclaimed ==
  \A p \in PathList : alive /\ obj[p] = "gone" /\ created[p] = 1 =>
    call[Collector].pc \in {"release", "settle"} /\ call[Collector].list = p

IInv ==
  /\ TypeOK
  /\ CallsApart
  /\ CallsInformed
  /\ BoxesKept
  /\ UnmintedUntouched
  /\ GoneIsReclaimed
  /\ BooksMatchCount

=============================================================================
