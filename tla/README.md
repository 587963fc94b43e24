# ovstage Python binding: TLA+ models, checks and proofs

ovstage is a runtime for USD stages.  Its native library ships as a binary; the
program in this repository is the Python binding (`src/python/ovstage/_src`),
which turns a C API of opaque handles, reference counts, ordinals and
asynchronous operations into Python objects.  What can go wrong in it is
ownership (who may release which handle, how often, and when), memory that the
native side still reads when Python lets go of it, and the answers of
asynchronous calls.  These modules model that part, check it with TLC on small
instances and prove the central results with TLAPS for every instance.

Paths below are relative to `src/python/ovstage/_src` unless they start with
`src/`.

## 1. Inventory

| Component | State it keeps | Operations | Interacts with | Correct when |
|---|---|---|---|---|
| **Path-list ownership** (`path_dictionary.py`) | native reference count per list handle; registry of owner boxes `[created, added]` on the Stage; `PathList` objects sharing a box | `create_path_list*`, `add_path_list_reference`, `destroy_path_list` (by integer or object), `PathList.release`/`__exit__`/`__del__`, `PathDictionary.destroy` | Stage (`_inst`, `_path_list_refs`), native dictionary, every query and read group (they hold references too), the garbage collector | books and native count agree; nobody's reference is dropped by another's release; nothing leaks; no call after `Stage.destroy` |
| **Data-plane operations** (`types.py` `Operation`, `CloneOperation`; `stage.py` `_wait_and_release`) | native operation and its tracking state; `_consumed`, `_keepalive`; a clone's `_pending_report`, `_result`, `_error` | enqueue, `wait(timeout)`, `result`, `wait_op`/`release_op` by hand, `Stage.destroy` | native executor (dependency order), input arrays, other threads | inputs pinned while readable; released once and only when finished; the verdict is the truth, kept, and final |
| **Population operations** (`population.py`) | one FIFO stream per stage; failures reported once; `_keepalive`, `_payload` | `*_async` + `wait(timeout)`, blocking wrappers | native worker, other threads' waits | inputs pinned while readable; no failure swallowed; a wait's answer is about its own operation |
| **Handle wrappers** (`stage.py` `Query`, `Read`, `OrdinalQuery`, `Hierarchy`; `types.py` `ReadGroup`) | `_released` claims, handle 0 for a rejected call | acquire, `release`, `__exit__`, `__del__` | Stage, native handles, path lists | each native handle released exactly once; a refused release can be repeated |
| **Map sessions** (`Map`, `MapGroup`) | session handle, `_unmapped` of session and groups | `map_attribute`, `fetch_map_next`, `unmap_group`, `unmap_attribute`, exit with or without an exception | Stage, DLPack views | a group is committed at most once and never after the final unmap |
| **Stage lifecycle and process configuration** (`Stage.__init__`, `destroy`) | `_inst`, the process reference of `ovstage_initialize` | construct (three native calls, each may fail), `destroy`, `__del__` | everything above | every failure leaves the process references balanced |
| **Export destinations and export operations** (`population_export.py`) | `_closing`, `_closed`, native handle; per operation `_terminal`; the native FIFO of work | create, export, save, `close`, each also asynchronous; one-shot exports; waits; finalizer | native ordered work, Stage | the flags tell the truth, a close that failed can be repeated, nothing is left open unseen, a report is given once |
| **Calls and their arguments** (all modules; the checks of `types.py`) | `_keepalive` of each operation | every call that passes integers or buffers | ctypes, native side | an integer arrives as it was given or the call is refused; what the native side may still read is alive |
| **Write validation** (`Stage._build_write_data`, `check_*` in `types.py`) | none | count, index map, mask to a C structure | data-plane writes | the write carried out is the one asked for, and nothing is read out of bounds |
| **DLPack layouts** (`dlpack.py`) | tensor descriptors | `from_dlpack`, `make_dltensor`, folding, `typed_tensor_to_write`, export, `dltensor_to_numpy` | NumPy/Warp/Torch, maps, read groups, writes | a rewritten descriptor speaks of the same bits; a view stays inside its storage |
| **DLPack capsules** (`dlpack.py`) | capsule names, contexts, deleters, owners of consumed capsules | `__dlpack__`, `from_dlpack`, destructor, finalizer | other libraries, operations' keepalives, exceptions that propagate | each block is freed once, when nobody can look at it |
| **Selectors and filters** (`selectors.py`) | none (immutable graphs of predicates); per call memo and keepalive | construction, `build_descs` | population calls | the native side reads the trees the caller built |
| **Export rule construction** (`population_export.py`) | none | dictionaries to C arrays | exports | integers and lifetimes (with the calls); which key fills which field is data |
| **Log callbacks** (`bindings.py`) | the active trampoline, those retired | `set_log_callback`, `flush_log` | the native dispatcher thread | a trampoline that may still be called is not freed |
| **Instancing queries** (`instancing.py`) | none | one call, copy out, release | dictionary | temporary list released on every path |
| **ctypes bindings**, **test hooks** (`bindings.py`, `gates.py`) | loaded library | loading, symbols; gates for tests | all | not modelled: no behaviour of a program |
| **Native runtime** (headers under `src/include`) | the stage | all native calls | all | external: what the binding relies on is part of each module and marked external in `PROJECT.json` |

**Hard behaviours.**  A ctypes call releases the interpreter lock, so between a
Python method's guard, its native call and its bookkeeping other threads run.
Objects are finalized from `__del__`, after their wrapper or Stage may have
gone.  Operations run later than they were enqueued, on the native side, and
read Python memory until they do.  Waits time out and are retried; failures
come by status, by ids, or both, and may belong to another operation than the
awaited one.  The native side may hand out a handle value again.
`PROJECT.json` lists each hazard with its source line and the properties aimed
at it.

## 2. Modules

| Module | Models |
|---|---|
| `PathLists` | `path_dictionary.py`: ownership of list handles |
| `PathListLedger` | abstract specification: what that layer promises |
| `PathListsRefine` | the refinement mapping from `PathLists` to the ledger |
| `MCPathLists` | instances for TLC |
| `PathLists_proofs` | theorems about `PathLists` |
| `Operations`, `MCOperations`, `Operations_proofs` | waits for data-plane operations, instance, theorems |
| `WaitLedger` | abstract specification: what a wait promises |
| `OperationsRefine` | the refinement mapping from `Operations` to that ledger |
| `PopulationWaits`, `PopulationWaits_proofs` | waits for population operations, theorems |
| `StageLifecycle`, `StageLifecycle_proofs` | construction and destruction of Stages, theorem |
| `Handles`, `MCHandles`, `Handles_proofs` | handle wrappers and map sessions, on top of `StageLifecycle`; instance; theorems |
| `Exports`, `MCExports`, `Exports_proofs` | export destinations and their operations; instance; theorems |
| `Requests` | every call: its integers, its buffers, what is kept |
| `Writes` | count, index map and mask of a write, and what the write then does |
| `Tensors` | tensor descriptors and their conversions |
| `Capsules` | ownership of DLPack capsules |
| `Selectors` | predicates, selectors and their conversion |
| `LogCallbacks`, `LogCallbacks_proofs` | the log callback and its trampolines; theorem |
| `Boundary` | the last six side by side, and what they assume of their constants |
| `MCBoundary`, `Boundary_proofs` | instance; theorems about all six |

No module declares a recursive operator; recursion is by recursive functions
(`Spans`, `Total`, `Read`, `Meant`).  The operators called slips (in a section
of their own, or next to the definition and named `...Slip`) are not part of a
specification: each is a plausible slip in one definition, and the run that
checks a property must fail when the slip takes that definition's place.

### PathLists

*State.*  `refs`, `minted`, `pinned` are the native dictionary (external: count
of a handle, handles handed out, references of queries and read groups).
`registry`, `created`, `added` are the books: `Stage._path_list_refs` and the
two counters of an owner box.  A box is named by the list object it was made
for, so `box[p] = p` until two lists share one.  `obj`, `handle`, `box`, `via`
are the `PathList` objects, `open` the `PathDictionary` wrappers, `alive` is
`Stage._inst`, `call` the dictionary call each thread (and the collector, which
runs `__del__`) is in.  `unbooked` is a history variable: what callers added on
handles the binding did not make, which the code does not book.

*Steps.*  A call is look-up, native call, booking: `Create`–`Track`,
`AddReference`–`Count`, and `DestroyHandle` / `DestroyObject` / `Release` /
`Finalize` – `NativeRelease` – `Settle`.  `ReleaseRefused` is the error path of
the native release: it drops nothing, the exception leaves the books alone, and
the caller may try again.  A program's release may be refused at any time; that
of a finalizer, which nobody could repeat, only for an unknown handle.
`Settle` is the booking of `destroy_path_list` and of `_release_owned`, with `_disown` and
`_prune`.

*Callers.*  The module's docstring asks callers to "own a given handle from one
thread"; `MayCall` is that rule: calls on one handle do not overlap (calls on
different handles do).  A caller releases a bare handle when it holds a
reference on it, and, unless `StaleCalls`, does not pass a list already
released with nothing added.

*Environment switches.*  `Reuse` says when an erased handle value may come
back, `StaleCalls` and `CyclicGC` open two ways the code is open to; the
theorems assume `CarefulUse`: not `Reuse = "anytime"`, no `StaleCalls`, no
`CyclicGC`.

*Bounds.*  `MaxAdded` (references callers add on a handle) and `MaxPins`
(references of the native side on a handle).

### PathListLedger and the refinement

The ledger knows nothing of books: an object owns one reference from its
creation and gives it up once; references are lent and taken back; the native
side pins and unpins; each at one instant.  Under the mapping a call takes
effect at its native call, and `Track`, `Count`, `Settle`, `Drop`, `Finalize`
and `CloseWrapper` are stutters.  That the books decide, after the native call,
for the same reference the ledger gave up is the content of `ImplementsLedger`.

### Operations

*State.*  `run` and `tracked` are the native side; `Depends` is the order that
ordinals give; `consumed`, `kept`, `pendingReport`, `result`, `error` are the
fields of `Operation` and `CloneOperation`; `call` is each thread's place in
`wait`.

*Steps of one wait.*  `Begin` (entry; a clone's `wait` notes `_consumed`),
`Guards`, `Claim`, `NativeWait` or `TimeOut`, `Fetch` (a clone's report, which
lives only until the release), `Release`, `Leave` (the `finally` clause, then
the clone's bookkeeping).  `Guards` and `Claim` are two steps, since the lock
may change hands between two bytecodes.

*Native side.*  `Enqueue` (accepted or rejected), `Execute` (in dependency
order; success or failure), `ReleaseByHand` for programs that poll with
`wait_op` and call `release_op` themselves once the operation has completed,
`DestroyStage`.  `WaitResults` gives every combination of status and ids by
which a failure may be reported.

*Switch.*  `Shared` allows several threads inside `wait` of one object.  The
object's comments promise nothing about that explicitly, but their claims about
input buffers and verdicts are stated without exception; the runs show both
sides.

### WaitLedger and the refinement

The ledger knows neither threads nor the steps of a wait.  An operation is
enqueued or rejected, runs after its dependencies, is released once and only
with its chain over (`Conclude` by a wait, `Discard` by a program that polled),
and its inputs go after its release (`LetGo`).  `Conclude` settles what a
clone's `result()` says from then on, and says the truth about the chain.
Under the mapping a wait happens at its `Release`; a clone's verdict is what
`_result` and `_error` hold, or what the wait in its last step is about to
write there.  Guards, claims, timeouts, repeated waits and refused ones are
stutters.  A clone may be waited for again and again, and by different threads
in turn: that `CloneOperation.wait` then rewrites nothing is the content of
`ImplementsWaitLedger`.

### PopulationWaits

`population.Operation` is a class of its own: nothing is consumed, a wait
covers every earlier operation of the stream, and the native side reports a
failure once, to the first wait on any thread that covers it (`src/include/
ovstage/ovstage_population.h`).  `Enqueue`, `Begin`, `Finish`, `TimeOut` are
`_enqueue` and `wait`; `Async = FALSE` restricts programs to the blocking
wrappers.  `MaxOps` bounds the stream.

### StageLifecycle

*State.*  `refs`, `settings` are the native process state (external: a count,
and the settings fixed by the first reference); `captured` is what each
instance works with; `inst` and `holds` are `_inst` and `_holds_process_ref`;
`life` is how far each Stage is in `__init__` or `destroy`.

*Steps.*  One per native call, since other Stages may be built or destroyed
between two: `Initialize`, `CreateInstance` with `InitializeFails`,
`CreateFails` and the roll-back `Unwind`; `DestroyInstance`, `ShutDown`.  A
refused destruction leaves the Stage to be destroyed again, except from
`__del__` (`Lose`).

### Handles

*State.*  `Lifecycle` is an instance of `StageLifecycle` over the same
variables.  Per wrapper: `native` (its reservation), `claimed` (`_released` or
`_unmapped`), `obj` (the Python object); per thread the call it is in.
`Kind` tells "handle" (`Query`, `Read`, `OrdinalQuery`, `Hierarchy`) from
"map", "readGroup" and "mapGroup"; `Parent` is the Read or Map a group comes
from.

*Steps.*  `Acquire`; `BeginFetch`–`Fetch`; the releases, all of one shape:
`Release`, `Exit` or `Drop` claims and enters, then the native side does
`Accept` or `Refuse`, `Rollback` takes the claim back after a refusal, `Await`
is the wait of a `with` exit, `Leave` returns.  `Execute` is the native queue.
`StageStep` lets Stages be built and destroyed meanwhile.

*Callers.*  One wrapper is used from one thread at a time (`InCall`), so the
check and the claim are one step; different wrappers, of one session too, are
used at once.  If two threads released the same wrapper both could pass the
check, and the roll-back of the one that is refused would take the claim of the
other back.  Programs do not destroy a Stage under a call on it; between calls
they may, also inside a `with` block.  A map group keeps its session from being
collected (`MapGroup._mapping`); a read group keeps nothing.

*Native side (external).*  It may refuse any release (`Refuse` has no guard
beyond being in the call), rejects the commit of a group whose session it no
longer holds, and runs commits before the end of their session.

### Exports

*State.*  `life`, `issued` and the fields `run` and `stored` of an operation
are the native FIFO: what has become of each destination, the work accepted,
whether it ran and whether its result was consumed.  `closing`, `closed` are
the flags of `ExportDestination`, `held` and `terminal` the Python operation
object, `call` the call each thread is in.

*Steps.*  `Begin` looks at the flags, `Mark` is the `_closing = True` of the
blocking `close`, `Submit` or `Refuse` the native enqueue, `BookClosing` the
`_closing = True` of `close_async`, which comes after it; `Return` is the answer
to a blocking call.  A wait is `BeginWait`, then `TimeOut`, or `Consume` and
`Finish` with `creation_finished` or `close_finished`.  `Finalize` is
`__del__`: queue a destroy, best effort.  `ExportOnce` stands for the one-shot
exports, which involve no destination.

*Native side (external).*  FIFO order; any work may be refused or fail; after a
destroy was accepted nothing more is; a destroy that failed leaves the
destination as it was; a result is given once and then answered with
`INVALID_HANDLE`, as for a Stage that is gone.

*Callers.*  Two threads use one destination freely.  With `SharedWaits = FALSE`
they do not wait for one operation object at once (see the notes after the
findings).  A Stage is destroyed when no thread is in a call.
`MaxOps` bounds the FIFO.

### Requests

An entry point is a record: the check each integer gets and the C field it ends
in, the buffers whose addresses are passed, those the native side has read when
the call returns, and what the operation it returns keeps.  `Points` is what C
memory points at, `Refers` what Python objects keep alive; they differ where a
raw address is stored, in the array of `DLTensor`s.  All calls of `Stage`,
`population`, `population_export` and `PathDictionary` that pass integers or
buffers are entries, with and without a placement.  One behaviour is one call:
`Marshal` checks, then `Answer`, or `Enqueued` – `Complete` – `Wait`; a write
with an availability event is still read until `Fire`, so that its caller must
hold the data that long (`Forget`), as `types.py` says.  `Word` and `Long` are
2^32 and 2^64, narrowed to 2^5 and 2^6.

### Writes

The arguments of a write are marshalled as `_build_write_data` does, wrapping
where ctypes wraps; `Execute` is the native side's reading of the structure,
with zero count for "everything", map and mask read as far as the count says.
`Asked` says what the arguments mean, without the structure.  Integers are
narrowed to two bits, so that every wrap is a few values away.

### Tensors

The state is one descriptor, and the bits it spoke of when it came in
(`positions`, computed by the reference `Positions` from shape, strides, lanes
and offset).  Each conversion of `dlpack.py` is a step that rewrites the
descriptor or refuses: `Redescribe` (a NumPy array, for which the caller's word
is law, so that `positions` follows), `Fold`, `TypeForWrite`, `PassOn`
(exported as a capsule and taken in again), `ViewFlat`.  `TypeForWrite` and
`PassOn` convert scalars of a fraction of a byte too, as the code does; several
of them then lie elsewhere (lanes are packed, elements start at whole bytes),
and `positions` follows (`Moves`).  A descriptor is passed
on only if it is compact and its export describes no more than it has: the
capsule drops strides, and what a capsule says becomes the size that views are
checked against.  A negative dimension names no elements; where two of them
cancel, a flat view is of the raw buffer, and `positions` follows.

### Capsules

Capsules of the binding's own making (`Own`) and of others; each has a name, a
context, a holder, and a count of how often its block was freed.  `Import` is
`from_dlpack`, whose renaming may fail; `Enqueue` and `LetGo` are the references
of the program and of operations on a consumed tensor; `DestroyCapsule` is the
destructor, which may start with an exception pending and whose callback may
raise.

### Selectors

`Construct` and `Select` build predicates and selectors (a constructor that
refuses leaves no object), `Build` makes one C node, `Pass` the array of
selectors.  The native reader is `Read`: it chooses the union member by the
node's kind and finds an array only if the call keeps it; `Meant` is what the caller
composed, read from the predicate objects alone.

### LogCallbacks

`installed`, `running` are the native dispatcher's, `active`, `retired` the two
globals, `frame` the trampoline a call in progress holds.  `Install`, `Retire`,
`Activate` are the steps of `set_log_callback(f)`, `Disable`, `ReleaseAll` those
of `set_log_callback(None)`, `Flush`, `FlushReturns`, `ReleaseRetired` or
`FlushTimesOut` those of `flush_log`.  `Serialized` lets one caller in at a
time.

### Boundary and MCBoundary

The last six modules share no state in the code.  `Boundary` instantiates all
of them; the variable `part` says which one a behaviour is about, and the others
rest.  It also states, as named assumptions, what the theorems take for granted
of the constants; TLC evaluates them in the run `boundary`, whose values
`MCBoundary` gives.

## 3. Runs

All runs finish within three minutes.  `CHECK_DEADLOCK` is off throughout: a program
may stop, and with bounded lists and operations it eventually does.

| Run | Instance | Shows |
|---|---|---|
| `path_lists` | 2 threads + collector, 2 lists, 2 wrappers, 2 handles, `Reuse = "settled"` | type; books equal native counts at every moment, also when a release is refused and repeated (`BooksMatchCount`); an unreleased list owns its handle's entry; no dead registry keys; pins outlast releases; nothing leaks; `__del__` leaves added references alone; the ledger is implemented |
| `path_lists_reclaim` | 1 thread, fair | a dropped list is finalized and gives its reference back |
| `path_lists_stale` | `StaleCalls` | *violation*: see finding 1 |
| `operations` | 2 threads, 2 writes, a clone ordered after one; not shared | inputs pinned; nothing orphaned by timeouts; success is told truly; a clone's verdict is kept and final; the ledger of waits is implemented, so only finished work is released, once |
| `operations_shared_inputs` | one object, two threads | *violation*: finding 2 |
| `population_async` | 2 threads, 3 operations | inputs pinned across timeouts; no reported failure is swallowed |
| `population_blocking` | 1 thread, 6 operations | a call raises exactly when its own operation failed |
| `population_two_threads` | 2 threads, blocking wrappers | *violation*: finding 3 |
| `handles` | 2 threads; a Read with a group, a map session with a group; the Stage, built with a configuration, and a second one without | type; claims equal what the native side accepted (`ClaimMatchesNative`); a group that does not refuse access has its storage (`LiveGroupsPinned`); what is dropped is given back (`NothingStranded`); process references balance (`NoReferenceLeft`); a configured Stage gets its settings (`ConfigCaptured`) |
| `handles_exit` | the same | *violation*: finding 4 |
| `exports` | 2 threads, 1 destination, 3 pieces of work | every piece of work under its own id; the flags are true once everything was answered, and `_closed` never too early (`FlagsTruthful`); a collected destination is over, on its way, or its close failed unheard (`NothingStranded`); polling does not consume a report (`ReportKept`) |
| `boundary` | 2 callers, 3 trampolines, 3 messages; descriptors to rank 3, 3 conversions; 3 capsules, 2 of them own; 3 predicates and 2 selectors; counts, maps and masks of two bits; every entry point with one unusual integer | a trampoline that may be called is not freed (`TrampolinesLive`); descriptors keep their bits and views their bounds (`StorageRespected`); blocks are freed once (`ReleasedOnce`); the native side reads the trees composed (`SelectorsFaithful`); writes do what was asked (`WritesAsAsked`); integers arrive exactly or not at all (`ExactOrRefused`); what is still read is alive (`InputsLive`) |

**Why the bounds are enough to be interesting.**  Two lists and two handles are
the least at which one list can inherit the handle of another, share its box,
or be released through another's entry; two wrappers let a list outlive the
wrapper that made it while another is open; one added and one pinned reference
next to the create reference give every release three owners to be wrong about.
Two threads interleave every pair of calls; a third adds no new pair.  In
`operations` the clone depends on one write and not on the other, so that
failures of a producer and of a bystander are told apart.  In the population
runs a failed operation before, at and after the awaited one needs three.  In
`handles` a group of either kind next to its parent gives every pair of
releases that can disturb each other, and the second Stage is the one that can
fix or forget the process settings between two calls of the first.  In
`exports` three pieces of work are a creation, a close that fails and the next
one, or an export between; a second destination shares nothing with the first
but the order of the FIFO.  In `boundary` integers lie on both sides of every
bound of the narrowed words.  Shapes of rank three with a trailing dimension of
1, 2, 3 or 4 and up to four lanes give folds that are complete, partial and
impossible.  Three predicates are the least for a subtree shared by two parents
of one selector, two selectors share what was converted once, three capsules are one in each owner's hands, and with three
trampolines one is running, one installed and one retired.

**Fairness.**  `FairSpec` of `PathLists`: a call that was entered goes on (weak
fairness of the steps inside a call; a native call returns), and CPython's
reference counting finalizes an object when its last reference goes, so no
stream of calls on the same handle keeps the finalizer waiting (strong fairness
of `Finalize`, which is blocked only while such a call is in progress).
Nothing is assumed about what the program calls, drops or destroys.  No other
specification has fairness: whether a wait comes back is up to the native side
alone.

## 4. Findings

1. **The guard for released lists is dead** (`path_lists_stale`).
   `destroy_path_list` looks at the `PathList` only if the registry still has
   an entry with both counts zero, and `_prune` never leaves one.  A released
   list passed again reaches the native release, and succeeds when somebody
   else still holds the handle, although `tests/python/test_path_lists.py:110`
   calls for a rejection.  The test passes because nobody else holds its list.
   The docstring (`path_dictionary.py:514`) lets a handle "already fully
   released" pass straight through, as an integer nobody owns; of the object
   form it says that it releases "*its* reference".
2. **A second waiter unpins the inputs** (`operations_shared_inputs`).  The
   `finally` clause drops `_keepalive` after every error but a timeout,
   including the guard error that a second thread gets while the first is still
   waiting.
3. **A failure can be answered to the wrong call** (`population_two_threads`).
   The failure is reported to the first wait that covers it; the wait of the
   failed operation then returns a payload.
4. **A with exit can mask the error it should not mask** (`handles_exit`).
   `_HandleObject.__exit__` and `Map.__exit__` call `release()` (`unmap()`)
   before the `try` that protects the propagating exception.  When the Stage
   was destroyed inside the block the release raises and replaces it.
   `ReadGroup.__exit__` has the release inside the `try`.

Seen while modelling, without a run of their own:

* `Reuse = "anytime"`: if an erased handle value is handed out again before the
  thread that erased it has booked its release, `_track` shares the old box and
  the late booking evicts the newer list, which `_prune`'s identity check is
  there to prevent (`BooksMatchCount` and `ClaimIsCurrent` fail).  Needs a second thread and
  immediate reuse by the native side, which the headers neither promise nor
  exclude.
* `CyclicGC`: a list in a reference cycle, finalized by the cyclic collector
  inside another call on its handle; `OthersKeepTheirs` fails.
* `Shared`: a thread that entered `CloneOperation.wait` before the claim and met
  the guard after it stores the guard's error as the clone's, which the comment
  at `types.py:1283` rules out (`GuardsNeverPoison` fails); and two threads can
  both pass the guard before either claims.
* `SharedWaits`: of two threads in `DestinationOperation.wait` the native side
  answers one with the result and the other with `INVALID_HANDLE`; if that one
  reaches `_finish` first, a live destination is marked closed for good
  (`FlagsTruthful` fails).
* `Serialized = FALSE`: two threads in `set_log_callback` can append the same
  trampoline to the retired list and lose the other one (`TrampolinesLive`
  fails), since the globals have no lock.
* `_to_dlpack_capsule` leaves strides out.  That is right for the tensors of
  reads and maps, which are compact, and not for a strided one that a caller
  wraps in `ManagedDLTensor`.
* A fold refuses scalars of a fraction of a byte ("sub-byte element padding
  cannot be reinterpreted safely", `dlpack.py:836`); `typed_tensor_to_write` and
  `_to_dlpack_capsule` do not look.  The former is for "a known OVStage read/map
  descriptor", whose scalars are whole bytes.  A caller who describes an array
  as, say, 6 bit scalars of shape (N, 2) and types it gets two packed lanes,
  which are other bits; there `positions` starts again (`Moves` in `Tensors`),
  and `StorageRespected` says nothing of the change.
* `cuda_stream` and `cuda_event` of a write are stored without a check.
* A NumPy array described as larger than it is cannot be viewed; passed on as a
  capsule and taken in again, its description becomes the recorded size.
* `release_hierarchy` claims the wrapper before it looks its symbol up, and does
  not take the claim back if that raises.

## 5. Proofs

All proofs are checked by TLAPS for every value of the constants.  Each of the
components has an inductive invariant (`IInv`, in `PopulationWaits_proofs`
`Inv`), checked with TLC on the instances above before it was proved, and the
usual three facts: it holds initially, each step keeps it, it implies the
properties.

**`PathLists_proofs`** (assumes `CarefulUse`).  `BooksMatchCount` is not
inductive: to know that a release is charged to a reference that exists one
needs that a handle has one call in progress (`CallsApart`), that the call
still sees the entry it looked up (`CallsInformed`), that a box sits in the
registry under its own handle exactly while something about it is outstanding
(`BoxesKept`), and that the finalizer's claim is still there when it settles
(`GoneIsReclaimed`).  From the invariant: `TypeOK`, `BooksMatchCount`,
`ClaimIsCurrent`, `NoDeadKeys`, `OthersKeepTheirs`, `NothingLeaks`, and the
action properties `FinalizerKeepsAdded` and `ReleasedForGood`.  A refused release
changes nothing but the call that made it (`ReleaseRefusedKeeps`); only a
program's can be refused, since the invariant gives the finalizer a reference
(`ReleaseBacked`).  The assumption is needed: finding
1 and the notes on `Reuse` and `CyclicGC` are its three failures.

From the same invariant, `LedgerImplemented` states `ImplementsLedger`.  What the
mapping shows of a list or a handle depends on the calls in progress, so the
proof first says how one call that moves on changes that view (`CallViews`) and
which list owns what (`OwnedKept`; `MintersTrack` adds that a list being made has
its call).  Then creating maps to `Mint`, adding to `Lend`, a successful native
release to `GiveUp` or `TakeBack`, whichever the books will settle on, the
native side's own references and `Stage.destroy` to their namesakes, and
everything else stutters.

**`Operations_proofs`** (assumes `~Shared`).  The invariant says what a wait
knows at each of its steps (`InCall`, `InLeave`), that tracking lasts from
enqueue to release and pins the inputs (`TrackingKnown`), and that an operation
nobody waits for is either untouched or fully answered (`AtRest`).  From it:
`TypeOK`, `InputsPinned`, `NothingOrphaned`, `SuccessHolds`, `VerdictKept`,
`VerdictFinal`, and with them `ReleasesFinished`, `FailureHolds` and
`GuardsNeverPoison`, which no run checks by themselves.  Finding 2 and the note on `Shared` show the
assumption is needed.

From the same invariant, `WaitLedgerImplemented` states `ImplementsWaitLedger`.  A
step before the release shows the ledger nothing (`StutterOf`: it neither comes
from the end of a wait nor reaches it with a verdict), `Release` maps to
`Conclude`, because the invariant knows the chain settled and the answer to
match it (`ChainIsOver`), and `Leave` to `LetGo` or to nothing: what it writes
into `_result` and `_error` is what the ledger has been showing since the
release.

**`PopulationWaits_proofs`.**  `TypeOK`, `InputsPinned` and `FailureSurfaces` hold without
any assumption on the program; `OwnVerdict` for one thread that uses the
blocking wrappers (`Alone`), by the invariant that everything before the
operation in progress has been waited for.

**`StageLifecycle_proofs`** (assumes that the set of Stages is finite, so that
references can be counted).  The invariant is `Balanced`, the count is the
number of instances plus the number of Stages with a reference of their own,
with `LivesKnown`, who has which at each point of its life.  A Stage between
its two native calls therefore keeps the settings in force.

**`Handles_proofs`** (assumes only that groups have parents of their kind).  A
step moves one thread and one wrapper, so `OneWrapper` reduces each step to what
the thread knows (`CallKnown`) and how the wrapper, its reservation and its
Stage fit (`ObjectKnown`); the Stages' part comes from `StageLifecycle_proofs`
through the instance.  From it: `TypeOK`, `ClaimMatchesNative`,
`LiveGroupsPinned`, `NothingStranded`, `NoReferenceLeft`, `ConfigCaptured`.

**`Exports_proofs`** (assumes `~SharedWaits`).  The flags are written some time
after the native side has moved on, so the invariant (`Pointwise`) says why they
are as they are: a destination is over because its creation failed or a destroy
ran (`DestOK`), an answered creation or destroy has been booked (`OpOK`), a
destination that is closing has a call or an unanswered destroy to blame, and a
call knows its operation at each step (`CallOK`).
From it: `TypeOK`, `FlagsTruthful`, `NothingStranded`, `ReportKept`.

**`LogCallbacks_proofs`** (assumes `Serialized`).  What is installed or running
is the active trampoline, one that was retired, or the one the call in progress
holds; a completed flush, and a completed disable, come with the dispatcher past
everything retired.  From it: `TrampolinesLive`.

**`Boundary_proofs`** (assumes what `Boundary` states of its constants, and
`Serialized` for the trampolines).  The invariant of each part is guarded by
`part`; a step of one part leaves the others alone (`PartSteps`).

* *Capsules*: a capsule's name, its holder and the users of the binding's tensor
  fix whether its block has been freed.  From it: `ReleasedOnce`.
* *Writes*: what the checks let through does not wrap, and an accepted mask or
  map is as long as the count needs (`WriteStays`), so that what `Execute` reads
  is what `Asked` says (`WriteMeant`).  From it: `WritesAsAsked`, for every
  width of the integers.
* *Requests*: every check of every entry point is no wider than the field behind
  it, and what is kept reaches everything that what was passed points at.  Both
  are facts about the table of entry points (`EntriesFit`), found line by line.
  From it: `ExactOrRefused`, `InputsLive`.
* *Selectors*: a C node is the node of its predicate's kind, with an array the
  call keeps, or with copies of its children's nodes, which were built before.
  Predicates are numbered in the order they were made, so that `Read` and
  `Meant` agree by induction on that order (`TreesAgree`).  From it:
  `SelectorsFaithful`, for trees of every depth, however they are shared.
* *Tensors*: the invariant `TensorOK` says that the descriptor names the bits it
  named at first, or names since it moved, that a size which is known is not too
  large, and that what has lanes has one dimension.  It rests on a lemma for each
  conversion (`FoldKeeps`, `TypeKeeps`, `ExportKeeps`, `ViewKeeps`), and those on
  `CompactElement`: in a compact tensor the k-th element lies at offset k.  The
  code computes that offset digit by digit in the mixed radix of the shape;
  `MixedRadix` puts the digits together by induction over the dimensions.  From
  it: `StorageRespected`, for every rank, shape and stride; for folds with
  scalars of every width, for typed and exported tensors with scalars of whole
  bytes, or one to an element.

The library's induction theorems cannot be used (they take an operator), so
`LeastNat` and `Induction` derive induction over the naturals from the
well-foundedness of the strict subset ordering on finite sets
(`FS_StrictSubsetOrderingWellFounded`), and `StepsUp` gets from it that a
recursive function on `0 .. n` exists.  Both speak of sets and functions, and so
does every recursion the proofs are about.

**What the proofs found.**  `Writes`: a map of 2^32 entries or more would make the
count that is taken from it wrap (`stage.py:594` does not check that one), so
`WritesAssumption` bounds the length.  `Tensors`: two negative dimensions cancel
in a product, which the first model overlooked (the code's fold refuses them, its
view does not), and the size of what is passed on has to be that of the export,
whose padding differs.  In neither case does a run disagree with a statement of
the code.

**Only model-checked.**  Liveness (`DroppedIsReclaimed`), since the prover has no
rules for fairness and `ENABLED`.

## 6. Not modelled, and why

* Asynchronous exceptions (`KeyboardInterrupt` inside a native wait leaves an
  operation consumed and tracked): they may strike between any two bytecodes
  and the code makes no claim about them.
* Failures the headers leave no room for.  `fetch_clone_result` and `release_op`
  of an operation that completed well and is tracked (`stage.py:304`–312): the
  model lets both fail only once the operation was released under the wait.  If
  the fetch failed, a clone that succeeded would be remembered as failed; if the
  release failed, the operation would stay consumed and tracked.
  `ovstage_shutdown` with a reference held (`stage.py:128`, 224): the code gives
  its own claim up whatever the answer, so a refusal would leak the reference.
* A finalizer whose release is refused although the handle is known: nobody
  repeats it, and its reference stays until the Stage goes.
* A finalizer that the cyclic collector runs in one thread, past the check that
  the Stage lives (`path_dictionary.py:203`), while another thread destroys the
  Stage.  The program's own calls and `Stage.destroy` do not overlap.
* An `Operation` of either kind that is collected before anybody waited for it,
  and its buffers with it: the programs of the models keep what they enqueued.
* The data of reads and writes, and which key of a rule or a filter fills which
  field: opaque to waits, ownership and validation.
* Argument types other than integers (`isinstance` checks, enumeration classes),
  and the encoding and decoding of strings.  `path_to_string` grows its buffer
  and calls again; the loop is one call here.
* What the native runtime does beyond reference counts, execution order,
  failure reports, handle values, and the reading of the structures it is given.
* Raw integer handles passed in place of wrappers: nothing is tracked for them.
  The `Operation` that an explicit release returns is like any other
  (`Operations`).
* Failures of CPython itself: `PyCapsule_New` out of memory (the block would
  stay), an exception between the native installation of a trampoline and its
  booking.
* Instancing queries: the list they get from the native side is not in the
  registry, lists are not deduplicated by the dictionary, and their release in a
  `finally` clause passes straight through `destroy_path_list`.
* Library search, version probe, symbol tables, struct layouts, and the gates of
  `gates.py`, which only tests use.

## 7. Plan

Done: everything in section 2.  What is left, in this order:

1. Two destinations and a save between an export and a close in `exports`.
2. Rule and filter dictionaries: which key ends in which C field.
