# A verification development for the espy runtime

espy is a fork of PyPy: a Python 2.7 interpreter with Spanish keywords, written in
RPython (`pypy/`), together with the toolchain that translates RPython to C
(`rpython/`). What keeps a translated interpreter correct under load is its *runtime*:
the global interpreter lock, the garbage collector with its weakrefs, finalizers and
links to C objects, signals and asynchronous actions, thread locks, and the ordered
dictionary that every Python-level `dict` is made of. These are concurrent, incremental
or amortized algorithms whose interleavings no unit test enumerates. This directory
models them in TLA+, checks them with TLC and proves the central results with TLAPS.

Paths below are relative to the repository (`src/` in `PROJECT.json`); `incminimark.py`
is `rpython/memory/gc/incminimark.py`.

Contents: 1 the system, 2 the modules and the code, 3 the runs, 4 fairness, 5 the
proofs, 6 findings, 7 what is not modelled, 8 the plan, 9 running it.

## 1. The system and its parts

### 1.1 Modelled

**Global interpreter lock** (`rpython/translator/c/src/thread_gil.c`, `thread.h`, the
mutexes at the end of `thread_pthread.c`, `rpython/rlib/rgil.py`,
`pypy/module/thread/gil.py`).
*State*: the word `rpy_fastgil`, a mutex with a condition variable and a flag
(`mutex_gil`), the queue `mutex_gil_stealer`, the counter `rpy_waiting_threads`.
*Operations*: allocate, acquire (a fast path, then polling, queueing, stealing and timed
waits), release, yield, the fork handler.
*Hard*: each half is taken by a different protocol, and the lock is free as soon as
either is unlocked; a fork may happen in the middle of the slow path of others.
*Correct* when at most one thread owns it, it is never lost, the counter is exact and
each thread that asks gets to run.

**Garbage collector** (`incminimark.py`): generational, incremental, moving out of the
nursery, with pinned objects.
*State*: the nursery, the flags in the object headers, the lists
`old_objects_pointing_to_young`, `prebuilt_root_objects`, `objects_to_trace`,
`more_objects_to_trace`, the list of the sweep, `gc_state`; for pinning also the nursery
barriers, `old_objects_pointing_to_pinned`, the shadows.
*Operations*: malloc, the write barrier, `pin`, `unpin`, `id`, minor collection,
`major_collection_step` in four states.
*Hard*: the program runs between any two steps, may hide a white object behind a black
one, and the collector changes the place of objects.
*Correct* when it is invisible to the program and frees garbage in the end.

**Signals and asynchronous actions** (`rpython/translator/c/src/signals.c`,
`pypy/module/signal/interp_signal.py`, `pypy/interpreter/executioncontext.py`).
*State*: the bits and the counter of C, which is the ticker of the bytecode loop;
`pending_signal` and `fire_in_another_thread`; the list `fired_actions` and the `_fired`
flag of each action.
*Operations*: the C handler, the ticker's decrement at each bytecode, the dispatcher
(reset, poll, release the GIL, perform the actions), `fire`.
*Hard*: the handler interrupts anything, the decrement is a read and a write, only some
threads may report signals, handlers raise and dispatchers nest.
*Correct* when each signal received is reported, each action fired is performed.

**Thread locks** (`thread_pthread.c`, `rpython/rlib/rthread.py`,
`pypy/module/thread/os_lock.py`): a semaphore or a mutex with a condition variable,
depending on the platform, with timeouts and interruptions.
*State*: the semaphore, or `locked` with mutex and condition; who sleeps.
*Operations*: acquire (waiting, trying, limited in time, interruptible), release,
`locked`, `is_acquired`, the fork handler.
*Correct* when it keeps the contract of a lock and loses no wakeup.

**Weakrefs and finalizers in the collector** (`incminimark.py`,
`rpython/memory/gc/base.py`, the queue in `executioncontext.py`).
*State*: the lists of young and old weakrefs, of probably young and of old objects with
finalizers, the flags `GCFLAG_FINALIZATION_ORDERING` and `GCFLAG_IGNORE_FINALIZER`, the
deque of the queue.
*Operations*: malloc of a weakref, `register_finalizer`, `may_ignore_finalizer`, minor
collection, the end of marking, the sweep and its end (which may raise `MemoryError`),
the call of a finalizer.
*Hard*: a dying object may be brought back, by its own finalizer or by that of an object
that refers to it; the four-valued state of an object is split over two flags.
*Correct* when finalizers are queued once, those of parents first, nothing that a
finalizer or a live weakref can see is freed, and weakrefs are cleared before finalizers
see their targets.

**Calling and suspending finalizers** (`executioncontext.py`,
`pypy/module/gc/interp_gc.py`, `pypy/module/posix/app_posix.py`).
*State*: the queue, `enabled_at_app_level`, `finalizers_lock_count`,
`pending_with_disabled_del`, and where each thread is in the loops over them.
*Operations*: the `UserDelAction`, `gc.enable`, `gc.disable`, `gc.collect`, `popen`.
*Hard*: a finalizer is app-level code, in which other threads run and which calls the
same functions.
*Correct* when each object is called once, and only while it is allowed.

**rawrefcount** (`incminimark.py`, `pypy/module/cpyext/pyobject.py`, `state.py`).
*State*: `ob_refcnt` and `ob_pypy_link` of each PyObject, the lists and dictionaries of
links, the stack of those to deallocate.
*Operations*: creating a link in both directions, references taken and given back by C
code, minor and major collections, the deallocation action.
*Hard*: one number is the sum of the references of two worlds; either side may die
first, and the collector moves what a link points to.
*Correct* when counts are exact, what C code uses is kept, and both sides are freed in
the end.

**Ordered dictionaries** (`rpython/rtyper/lltypesystem/rordereddict.py`).
*State*: an array of entries, some deleted; an index table whose integers have one, two,
four or eight bytes; `num_live_items`, `num_ever_used_items`, `resize_counter`, the bits
of `lookup_function_no`.
*Operations*: set, delete, the two `popitem`, `move_to_end` in both directions,
iterators, `update`, `copy`, `clear`, growth, compaction, resizing.
*Hard*: four sizes that are kept apart by amortized counters; a compaction may come in
the middle of an insertion; memory may run out after the lookup has written its result.
*Correct* when it is an ordered map.

### 1.2 How they interact

* Every external call of every thread releases and takes the **GIL**. The locks rely on
  it: `RPyThreadReleaseLock` of the semaphore build is safe only because it runs with
  the GIL. Module `ThreadLock` has the GIL as one variable, with the safety that
  `GilImplementsLock` gives.
* A **switch of the GIL** calls `_after_thread_switch` (the link to signals), and a
  periodic **action** of the dispatcher yields the GIL (the link back, which the
  fairness of `Gil` uses).
* The **collector** runs with the GIL, inside malloc: its steps are atomic with respect
  to threads and interleave with the program only at allocations.
* A **lock** that is interrupted by a signal lets the handlers run and retries.
* The collector's **finalizer queue** fires an action, whose performance by the
  dispatcher `Signals` shows; `UserDel` begins where the queue ends. Modules
  `Finalizers` and `RawRefCount` take from `IncMiniMark` which objects a collection may
  keep: any set that holds what is reachable and what its members refer to.
* The deallocation of **PyObjects** is an action of the dispatcher as well.

### 1.3 Not modelled, and why

See section 7, and the components with status `not_modelled` in `PROJECT.json`.

## 2. Modules

| module | models | abstract counterpart |
|---|---|---|
| `Gil` | the two halves of the GIL, per access to shared memory | `GilLock` |
| `GilLock` | a lock with waiters, fair | - |
| `IncMiniMark` | the core of the collector | the heap itself (`CollectorInvisible`) |
| `Pinning` | pinned objects, nursery barriers, shadows | - |
| `Signals` | signals, ticker, dispatcher, actions | `owed`, a history variable |
| `ThreadLock` | both builds of thread locks and their callers | `LockContract` |
| `LockContract` | a lock: taken or not, what may be answered | - |
| `Finalizers` | weakrefs and finalizers in the collector | the order of `finalizer-order.rst` (`InOrder`) |
| `UserDel` | the calls of finalizers, and the module gc | `dead`, `called`, history variables |
| `RawRefCount` | links between objects and PyObjects | `owned`, a history variable |
| `OrderedDict` | entries and index table of a dictionary | `OrderedMap` |
| `OrderedMap` | a sequence of keys | - |
| `MC*` | symmetry sets for TLC | |
| `*Proofs` | theorems, see section 5 | |

`PROJECT.json` maps each definition to the lines that it models. The comment of a
definition names the function it stands for. Definitions under the word *Mutant* are
plausible slips of the definition that follows, which each property is tested against;
they are not part of any specification.

**Gil.** A thread's `pc` says where it is in `RPyGilAcquireSlowPath`,
`RPyGilYieldThread` or outside; `mut` and `stealer` are the holders of the two pthread
mutexes; `oldWaiting` and `polls` are the local variables of the polling loop. The
critical section of `mutex2_unlock` is one step, because the flag is touched with the
mutex held only. The time-dependent estimate of the number of polls is a constant set
`PollBudgets`. A fork follows the child: all other threads vanish and the pthread_atfork
handler runs.

**IncMiniMark.** An object is an address with one reference field: enough for cycles,
chains and every case of the barrier. The header flags are sets (`track` is
`GCFLAG_TRACK_YOUNG_PTRS`, `visited` is `GCFLAG_VISITED`, `noHeapPtrs` is
`GCFLAG_NO_HEAP_PTRS`), as are the address stacks. `Minor` is a complete minor
collection: survivors are found as in a trace from the roots and recorded objects,
placed outside the nursery by any injective choice, and each reference redirected. A
major step marks or sweeps an arbitrary number of objects; it is broken into a step per
object (`MarkStep`, `SweepStep`), with `MarkAll` for a step that empties the stack.
`afterMinor` says that a minor collection has just run, which the code guarantees before
a major step. A free address holds `NULL`, as new objects are zeroed. No place for
survivors ends the process (`OutOfMemory`).

**Pinning.** Nursery cells `1 .. NurserySize` are leaf objects (`pin` refuses objects
with references); old objects have a reference each. `free`, `barriers` are
`nursery_free` and `nursery_barriers`; `shadow` is `nursery_objects_shadows`; `handed`
records which id the program was given. `Ids` says whether the program takes ids of
pinned objects as well.

**Signals.** `bits` are `pypysig_flags_bits`, `ticker` the counter. `Arrive` and
`ForceTicker` are the two writes of the C handler; `Trace` and `Decrement` the read and
the write of `decrement_ticker`. `calls[t]` is the stack of calls made by dispatchers of
a thread, each with what is left of the local list of actions. `owed` collects the
signals received and not yet reported.

**ThreadLock.** `avail` is the semaphore's value or `~locked`. Critical sections under
the lock's mutex are one step, since the mutex is held for it. A wait ends by wakeup,
timeout or interruption; the callers in `rthread.py` and `os_lock.py` retry and convert
the result. The request and what the caller has been told are visible to `LockContract`.
Programs in which a thread waits for a lock that it holds itself are left out; `stray`
says that a thread released a lock it did not have.

**Finalizers.** Objects have any number of references; an object is its own address, as
the moves are the subject of `IncMiniMark`. Scanning and marking are one state, of which
only the end matters: `MarkedSets` are the sets that an incremental marking may end
with. `Walk` and `Decide` are the two loops of `deal_with_objects_with_finalizers`,
folded over the list in its order; the states 0 to 3 of the code are the combinations of
two sets, `seen` and `ordering`, as in the code they are of two flags. `current` is the
object in the local variable of `_run_finalizers`.

**UserDel.** Each thread has a stack of frames, one for each loop or function of this
part that is in progress, with the list it has taken. App-level code may run between two
frames' steps, and nothing else: between two pieces of app-level code the GIL is held.
Nothing is assumed of the program: any thread, and any finalizer, may call `gc.enable()`,
`gc.disable()`, `gc.collect()` and `popen` at any time, in the `gc.collect()` of another
caller too. `Refuse` is the `ValueError` of `enable_finalizers`, and `refused` counts
these; section 6 says what such programs meet with.

**RawRefCount.** Addresses are used again when what was there has died or moved: a
dictionary keyed by address that keeps an old key gives a wrong answer. An object moves
once, out of the nursery. `owned` says how many of a PyObject's references are C code's,
which no variable of the code does. A dying PyObject has the address of
`w_marker_deallocating` as its link, as in the code. cpyext makes no light links
and no proxies: `REFCNT_FROM_PYPY_LIGHT` and `create_link_pyobj` are modelled as the
collector offers them, for any client.

**OrderedDict.** Entries hold keys; their values go with them. Hashing and probing are
left out: a key has one slot of the index table, which holds what the table would
(`Stored` wraps at the width of its integers; of the widths only that of a byte is
limited here, a table of more slots is taken to hold any position), and `taken` counts
the slots that are not FREE, in the worst case in which a new key never takes a slot
that is DELETED. Numbers of the code are constants: `InitSize` (16), `Slack` (8),
`Spare` (16) and `ByteSize` (256), so that a few keys bring about what takes
hundreds. `TableOf` doubles the size of a table as the loop of `_ll_dict_resize_to` does.
`BytesAssumption` says how these numbers fit together, as those of the code do: the array
of entries that belongs to a full table of bytes can be numbered by bytes. Each operation that allocates may run out of
memory. Where that leaves something changed it is an action of its own: `SetFails`,
`UpdateFails` (for the first item or the second), `DeleteFails`, `PopLastFails` and
`PopFirstFails` (the item is gone, the table is not made smaller), `MoveToLastFails`,
`MoveToFirstFails`, `ClearFails`. Where it leaves only the first index it is `Lookup`, and
where it leaves nothing changed (the first index itself, the table or the array of a copy,
the prescaling of an `update`) it is a stutter. `ll_dict_clear` gives up the entries before
it allocates (1293-1298), so that after `ClearFails` the counters and the table speak of
an array that is not there. `Intact` tells such a dictionary by its size 0; what operations
other than `clear` do with it, reading and writing past the end of an array, is not
defined, and not modelled.

## 3. Runs

The state spaces are explored completely. Bounds are constants in the cfg files.

| run | module, instance | distinct states | shows |
|---|---|---|---|
| `gil` | 2 threads, up to 1 poll, 1 fork | 8,636 | one owner, never lost; everyone runs; refines `GilLock` with its fairness |
| `gc` | 1 nursery, 2 old cells, 1 prebuilt, 1 root | 731,609 | safety of the collector |
| `gc_liveness` | 1 nursery, 2 old cells, 2 roots | 92,893 | invisible; marking ends; garbage goes |
| `pinning` | 2 nursery, 2 old cells, 2 pins, 2 roots | 208,868 | pinned objects and ids |
| `pinning_shadow` | ids of pinned objects too | stops early | finding 1 |
| `signals` | 2 threads, 2 signals, 1 action, depth 1 | 71,185 | no signal is lost, each signal and action is performed |
| `lock` | 3 threads, both builds, 7 requests | about 1.0 million | contract, wakeups, no sleep on a free lock |
| `finalizers` | 3 objects, 3 references, 2 roots, symmetry | 1,055,924 | order, nothing dangles, weakrefs |
| `userdel` | 2 threads, 2 objects, depth 5, count 3 | 8,149 | each called once, when allowed, in the end |
| `rawrefcount` | 2 objects, 2 PyObjects, 1 nursery and 2 outer addresses | 132,333 | counts, dictionaries, both sides kept and freed |
| `ordereddict` | 3 keys, small sizes, symmetry | 65,272 | the index is right; an ordered map |
| `ordereddict_width` | 4 keys | stops early | finding 2 |

Every property of a passing run has in `PROJECT.json` a mutant, a plausible slip in the
code's operations under which it fails in the same run.

The type invariants (`TypeOK`, `DictTypeOK`) are not among the properties of the runs. They
have been checked on the same instances, and are proved (section 5). So have
`CalledOnce` of `Finalizers` and `PinnedCounted` of `Pinning`, of which the second is
proved.

**Why the bounds are enough.**
- *Two threads* at the GIL are an owner and a stealer. A third one would queue at the
  stealers' mutex or poll; safety with any number is proved in `GilProofs`.
- *One nursery cell and two old cells* let an object be promoted into the place of one
  that has been freed, a chain pass through both generations, and both a black and a
  white old object exist; one more kind of object (the prebuilt one) has a flag of its
  own. *Two nursery cells* have one pinned object and one that moves past it.
- *Two signals* are one pending and one in the bits. One thread has signals enabled, the
  other has not. Dispatchers that nest are in the proofs only, whose depth is arbitrary.
- *Three threads* at a lock are a holder and two that sleep.
- *Three objects with three references* are chains, cycles, shared children and two
  parents, each with finalizers or without. Two objects and a prebuilt one (173,090
  states) have been checked once for all but `OrderingCleared` (section 6).
- *Depth five* has a finalizer in `gc.collect()` in a finalizer, with `popen` around or
  inside it, and both cases of section 6; *count three* is `gc.disable()` with a `popen` in
  each thread. *Two objects* are one being finalized and one that dies meanwhile, or two
  of which one is set aside.
- *One nursery address* is used again after each minor collection; *two outer ones* are
  one for the object that moves and one for another that is there. `FromPypy` 10 and
  `Light` 20 are far enough from 0 and from each other for all the references of C code
  (`CountAssumption`); 10 is not special, as no step depends on more than the distance.
- *Three keys* with `InitSize` 1, `Slack` 2, `Spare` 0, `ByteSize` 11: tables of all
  sizes from 1 to 16, growth, both reasons to compact, shrinking. With three keys no
  position reaches what a table of up to 11 can hold, with four it does.

**Bounds in guards.** `MaxForks` (each fork is a new process), `MaxRoots` (handles of
the program), `MaxRefs` of `Finalizers` (references between objects) and of
`RawRefCount` (references of C code to a PyObject), `MaxPinned` (the constant of the
code), `MaxArrivals` (signals the process receives), `MaxDepth` (nesting of dispatchers
in `Signals`, of calls in `UserDel`), `MaxCount` of `UserDel` (how often the program
suspends finalizers without enabling them again), `PollBudgets`, `Interval` (the check
interval in units of decrement).

**Deadlock** is checked in the runs of the GIL, signals, finalizers (both modules),
rawrefcount and dictionaries. It is not in the others: the collectors' processes end
when no memory is left, and a child of a fork may wait for a lock whose holder was not
copied.

## 4. Fairness

* `Gil`: each thread that can proceed by itself does (weak). Taking `mut` and
  `mutex_gil_stealer` is strongly fair: pthread mutexes that become free again and again
  are obtained in the end; the comment before `mutex1_lock` expects "roughly
  first-in-first-out". `Yield` of *some* thread is strongly fair, since the release of
  the GIL is a periodic action of the bytecode loop. Releasing, returning from an
  external call, starting threads and forking are never forced.
* `IncMiniMark`: a program that goes on allocating brings about minor collections, each
  followed by a major step while a collection is under way. Steps of one object alone
  need not terminate: a program can go on rewriting a cycle. The code gives each step a
  budget, and a step that ends with half of it left visits the set-aside objects at once
  (2286-2297, "The idea is to ensure termination at the cost of some incrementality"):
  `AmpleStep` is such a step, and fairness asks for it.
* `Signals`: a C handler ends; a thread with the GIL goes on; a thread that wants the
  GIL gets it (this is `EveryoneRuns` of `Gil`); external calls and app-level handlers
  return, and bytecodes of a thread are executed between them. The process receives
  finitely many signals (`MaxArrivals`): `pypysig_poll` takes the lowest number first,
  so that an endless stream of one signal could keep back a higher one.
* `ThreadLock`: the C functions and their callers run on. No fairness for a release: the
  holder may keep the lock.
* `UserDel`: finalizers and `popen` return, also when they are interrupted by others
  again and again (strong, for each depth of the stack, as a call that returns may be
  followed by a new one at the same depth); the action is performed by some thread.
  `EventuallyCalled` assumes that `finalizers_lock_count` comes back to zero again and
  again. With finalizers enabled and no thread in `popen` it is zero, unless a call has
  raised; after a `gc.enable()` that raised, a suspension stays behind (section 6), and
  then the objects may stay set aside for ever.
* `RawRefCount`: minor collections come, and major ones that mark no more than is in
  use; the callback is invoked, the action performed, `tp_dealloc` returns.
  `EventuallyFreed` assumes that the stack of PyObjects to deallocate is empty again and
  again: the action takes the last one first, and under a stream of new ones the first
  may wait for ever.
* `Finalizers` and `OrderedDict` have no fairness: their properties are about what may
  not happen, and the refinement of `OrderedMap` is one of safety. That a finalizer is
  called in the end follows in the code from `GarbageFreed` (the collection ends),
  `ActionPerformed` (the action is performed) and `EventuallyCalled`, each of which is
  checked; the whole chain in one module is out of TLC's reach.

## 5. Proofs

`tlapm` checks each module to the last leaf. All theorems are for every value of the
constants under the named assumptions of the modules: threads and PyObjects are finitely
many, null values are none of the things they stand for, addresses split into disjoint
parts, bounds are natural numbers, the sizes of a dictionary are related as in the code.
Some theorems have a hypothesis on constants or on steps, which is named below.
`PROJECT.json` lists the theorems.

* **GilProofs.** `Inv` = types, `LockInv`, `Count`. Mutual exclusion is not inductive: a
  stealer takes a half because the other is locked, which is the case only if a second
  invariant holds (`NeverBothUnlocked`, `OwnerHasBothHalves`, `NeverLost`); the mutexes
  need `StealerHeld` and `MutHeld`, which tie them to program counters; a counter that
  may be -42 needs `SingleThreaded`. `Count` is about cardinality and has a lemma for
  each way a thread can enter or leave the slow path. `GilImplementsLock` takes each
  step to a step of `GilLock` or a stutter.
* **IncMiniMarkProofs.** `Inv` adds, to the invariants that TLC checks: `OldOnly` (no
  list of the major collection holds a young object), `KeptClosed` (what is not about to
  be swept refers only to such objects), `FreeIsClear` (a free address holds `NULL`),
  `Watched` (each old object is either caught by the barrier or recorded), `PrebuiltInv`
  (a prebuilt object that may refer to the heap is a root), `GrayRoots` (no root is
  white while marking goes on), `Phases` and `Quiet` (which lists are empty in which
  state). Reachability, a least closed set, is not inductive by itself; `KeptClosed` is,
  and `ReachedLeast` gives `NoDangling` and `SweepsGarbageOnly` from it. The longest
  proof is that of `MinorStep`, in which objects change their place. For
  `CollectorInvisible`, `MinorMoves` gives the map by which a minor collection moves what
  it keeps (`Live`, a closed set that holds all that the program reaches, and on which the
  map is injective), and `SameGraphBy` shows that such a map takes what was reached
  before the step to what is reached after it; for a step of a major collection it is
  the identity.
* **RuntimeProofs** has two parts that share nothing: the thread locks and the
  dictionaries.
* **RuntimeProofs, locks.** Two stages. `Inv` = types, `Flow` (which request is where),
  `ReleaseHasGil`, `Posts` (a post is due only when the value is 0), `NoLostWakeup`. On
  it rest `OneOwner` and `SomeOwner`, which say that ownership is neither doubled nor
  forgotten; `LockKeepsContract` then refines `LockContract` step by step.
* **SignalsProofs.** `Inv` = types, `HasGil`, `Depth`, `Armed`, `NoSignalLost`, `Lists`.
  `Armed` strengthens `PendingIsArmed` with what every other thread may be doing with
  the value that it has read. `Lists` says for each action in which call it is; the
  lemmas on pushing, popping and working on a call keep sequences out of the proof of a
  step. `SignalsUseTheLock` maps each step to a step of `GilLock` or a stutter, from a
  state in which every thread has asked for the GIL; with `GilImplementsLock` the two
  modules meet at `GilLock`.
* **RawRefCountProofs.** `Inv` = types, `Places` (no two objects share an address),
  `Links` (what is linked is alive on both sides, and in a list of its generation),
  `Unmade` (a PyObject that is not made yet has left no trace), `Stack` (who waits to be
  deallocated waits once, and is not freed), `Counts` (a form of `CountIsExact` without
  cardinalities), `Dicts` (each dictionary holds the addresses of the P links and no
  other). The count alone is not inductive: that a dropped link takes its share away needs
  the bound on the references of C code, which `Stack` and `Unmade` carry over the life
  of a PyObject; and `from_obj` finds the right PyObject because an address that is used
  again has left the dictionaries. `ForcedToStay` is an action property that needs the
  invariant in the state before the step, and that a count above the share of the link
  keeps `_rrc_free` away.
* **UserDelProofs.** `Inv` = types, `Finite`, `Suspension` (the list of what is set aside
  exists exactly while finalizers are suspended), `Each` (each dead object that has not
  been called is once in the queue, in what is set aside or in a frame of a thread),
  and, for the two theorems about suspension, `Account`: `finalizers_lock_count` plus the
  calls of `gc.collect()` that have enabled finalizers for their duration is the number of
  calls of `popen`, over all threads, plus one if the program has disabled finalizers,
  plus the calls that have raised `ValueError`. It is an equation over all threads and
  frames because the code's count does not say whose suspension is taken back: neither
  theorem holds thread by thread. Both are for every program. The lemmas count frames in
  stacks of any depth.
* **PinningProofs.** `Inv` = types, `Closed` (what has not been freed or swept refers
  only to such objects), `Blank` (free memory and shadows hold no reference), `Shadows`
  (a shadow belongs to one nursery object, which is not pinned), `Given` (the id of an
  object is its shadow or its place), `Lists` (the collector's lists hold only what will
  not be freed), `Phases`, `Stopped` (what a minor collection leaves behind), `Black`
  (the tricolour invariant), `ParentsRecorded`, `FreeCellsAreFree`.
  `NoReferenceDangles` rests on `Closed` and `Shadows`: the place to which a nursery
  object moves is its shadow, if it has one, and nobody else's. All theorems assume
  `Ids # "any"`, that the program takes no id of a pinned object: for programs that do,
  `NoDangling` is false, which is finding 1. Whether it takes ids of unpinned
  objects is left open.

* **FinalizersProofs.** `Inv` = types, `Closed` (what is not about to be swept is closed
  under references, and holds what the program holds), `Lists` (the lists of finalizers
  hold what is kept, and together every object that is still to be called), `Weak` (a
  weakref that no list has points to nothing that can be freed), `Phases`, `Apart`.
  `Apart` is what makes `WeakrefsClearedFirst` inductive: for each place in the queue
  there is a closed set that holds all the program can get at, the targets of its
  weakrefs and the objects *before* that place, and not the object in it. So neither a
  finalizer that is called nor what it resurrects gives a way to one that has yet to run.
  That the end of marking establishes it needs what the two loops compute. For the first,
  `Coloured` says that what is seen, and what is in state 3, are closed, and `Ordered`
  that an object of `marked` is in state 2 exactly when no other one of the list leads to
  it; for the second, `Deciding` says the same of the first elements of `marked`, and
  `Behind` gives the closed set for each object that is queued. `FinalizersInOrder` and
  `Apart` follow from these; the first holds for any order of the list and any cycles.
  The loops are folds and the searches recursive functions. What they compute is proved by
  induction over numbers, which the prover has only as a fact about sets of numbers
  (`Induction`, from the library's theorem that a well-founded relation has minimal
  elements): the states that a loop may be in after i turns are the i-th element of a
  family of sets. `ReachedWithin` stops after as many layers as there are objects;
  `Reached` shows, with cardinalities, that nothing is missing then.

* **RuntimeProofs, dictionaries.** Two inductive invariants: `DictInv`, that the counters
  agree with each other (`Consistent`) and that a dictionary with its entries is `Sound`,
  and `RightInv`, that one with its entries is also `Right`. After a `clear()` that ran out
  of memory only `Consistent` is left, and is enough for `ProbingEnds`, `SkipsOnlyDeleted`
  and `DictTyping`, which are theorems about all dictionaries. `Sound` holds whatever the
  integers of the table can hold. Its core is `Paid`: `resize_counter` plus three for each
  slot that is not `FREE` is at most twice the number of slots, and each live item has a
  slot. This is why a counter that only insertions lower, and that deletions do not give
  back, keeps a third of the table free (`ProbingEnds`); that it is positive, as the
  assertions say (`DictTyping`), needs that a table made by a resize is large enough for
  the items that it gets (`TableOf` is an induction over the sizes). `Sound` also has what
  the iterators rely on (`SkipsOnlyDeleted`), and that a dictionary without a table has no
  deleted entries.
  `Right` = `Distinct` (no key is in two entries), `Placed` (`IndexIsRight`) and `Fits` (a
  table of bytes can number all the entries that are *allocated*, not only those used; so
  nothing is lost when the array is filled up). `ll_dict_grow` keeps `Fits` by compacting
  where growth would break it, and `BytesAssumption` gives that compaction makes room
  there. `ll_dict_move_to_first` does not keep it: that is finding 2, and without a
  hypothesis `IndexIsRight` is false. It is proved in two forms. `IndexIsRightWhileRoomFits`
  is for behaviours in which each move to the front that makes room finds integers that
  can number it (`NewRoomsFit`, the check that the code lacks, and nothing about any other
  step). `IndexIsAlwaysRight` has no hypothesis on steps but few keys (`FewKeys`): the
  compaction with which `ll_dict_move_to_first` begins limits the deleted entries, so that
  up to 93 keys, with the numbers of the code, always fit; the instance of TLC's run
  satisfies `FewKeys` too.
  `DictIsAnOrderedMap` and `DictIsAlwaysAnOrderedMap` refine `OrderedMap` under the same
  two hypotheses. With both invariants, lookups find exactly the live keys, and each
  operation changes `Keys(d.entries)`, the order, as its counterpart does; iterators,
  copies, failed insertions, compactions and resizes leave it alone. With a `MemoryError`
  a `move_to_last` is a deletion, an `update` may be the insertion of its first item, and
  a `clear` is `Lose`, after which the order is `Lost`; no other step loses it, which is
  the second conjunct of `ImplementsOrderedMap`. The lemmas on `Keys` (of a sequence with one entry
  replaced, appended, put in front, without its trailing deleted ones) are inductions over
  sequences, made as in `FinalizersProofs`.

Some of the proved invariants are not properties of a run, since the theorem says more:
`NeverBothUnlocked`, `OwnerHasBothHalves`, the count of waiting threads and the absence
of aborts of `Gil`; `YoungPointersRecorded` and `NoMarksBetweenCollections` of
`IncMiniMark`; mutual exclusion, the binary semaphore and `TakenIsGiven` of
`ThreadLock`; `FiredIsListed` of `Signals`; `PinnedCounted` of `Pinning`; and the types
of all nine.

**Model-checked only.** Liveness (`EveryoneRuns`, `MarkingEnds`, `GarbageFreed`,
`SignalReported`, `ActionPerformed`, `FreeLockIsTaken`, `EventuallyCalled`,
`EventuallyFreed`) and the fairness part of `GilLock`: the prover does not handle
ENABLED under fairness. All other properties of the passing runs are proved, those of
`OrderedDict` that finding 2 refutes in general under the hypotheses above.

## 6. Findings

Each has a run that shows it.

1. *A live object may be freed with its shadow* (`pinning_shadow`,
   `incminimark.py:2056`). A pinned object has a shadow; a major collection marks the
   shadow and begins to sweep; the object is unpinned; the next minor collection copies
   the object over the shadow and clears the mark; the sweep frees it. The comment at
   1602-1604 asks for a double check of that mark.
2. *`move_to_end(key, last=False)` may store a position that does not fit*
   (`ordereddict_width`, `rordereddict.py:1498`). Moving to the first place makes room
   there, without the check for the width of the index table that `ll_dict_grow` makes
   (739-746). With the numbers of the code, 170 keys are in a table of 256 bytes; 70
   calls of `__pypy__.move_to_end(d, k, last=False)` on different keys take
   `num_ever_used_items` from 170 through 191, 214 and 239 to 266, and positions from
   254 on wrap, the first of them to `FREE`.

Observations made while modelling; no run is kept for them:

* *The debug check of the collector is too strict* (`incminimark.py:1265, 1293`;
  `DebugCheckNotWhite`). A prebuilt object that is written to during marking loses
  `NO_HEAP_PTRS` (1429-1431) and stays white, while a black object may refer to it.
  Harmless: the end of marking rescans `prebuilt_root_objects`. `NoBlackToWhite` is the
  invariant that really holds.
* *A signal may wait for the next signal* (`executioncontext.py:463`; `SignalReported`
  with `HasCounter` FALSE). Without threads nothing decrements the ticker. When two
  signals are pending and the handler of the first raises, the dispatcher is left with
  the ticker reset; the second, and all fired actions, wait until another signal
  arrives.
* *`is_acquired()` takes a free lock* (`rthread.py:172`; `IsAcquiredOnlyChecks`).
* *A flag of prebuilt objects stays set* (`OrderingCleared` with a prebuilt object).
  `GCFLAG_FINALIZATION_ORDERING` set on a prebuilt object with `NO_HEAP_PTRS`, which a
  dying object with a finalizer refers to, is not cleared, since the walk that would
  clear it does not enter such objects; the assertion at `incminimark.py:1305-1307`
  expects it to be clear. The other properties of the module hold all the same.
* *A `MemoryError` in `move_to_end` loses the key* (`ll_dict_move_to_last`; action
  `MoveToLastFails`): it has been taken out when the insertion fails.
* *`clear()` gives up the entries before it allocates* (`rordereddict.py:1293-1301`; action
  `ClearFails`). When there is no memory for the new table, `num_live_items`,
  `num_ever_used_items`, `resize_counter` and the old table stay as they were, over the
  empty array that has replaced the entries: `len(d)` is unchanged, and a lookup reads past
  the end of that array. Another `clear()` repairs the dictionary.
* *gc.enable() in the time of a gc.collect()* (`interp_gc.py:26-48`). Finalizers are
  disabled and a `gc.collect()` has enabled them for its duration; a finalizer that it
  calls, or another thread, calls `gc.enable()`. `enabled_at_app_level` becomes true,
  `enable_finalizers` finds the count at zero and raises `ValueError`, and the end of
  `gc.collect()` suspends finalizers again: from then on `gc.isenabled()` says that they
  are enabled, and they are set aside. "Enable finalizers now. [...] If they were
  disabled even several times, enable them anyway" (43-46) does not hold then.
  `EnabledIsEffective` therefore counts the calls that have raised, and `EventuallyCalled`
  has a hypothesis.
* *A finalizer may run between the two calls of `popen`* (`interp_gc.py:27-48, 61-72`).
  After `gc.disable()`, a `gc.collect()` in thread a calls a finalizer, with the count at
  zero. Thread b enters `popen` (the count is one), and another object is set aside. The
  finalizer in a calls `gc.enable()`: the count is zero again, and the object's finalizer
  is called before b forks. A second `gc.collect()` in place of `gc.enable()` does the
  same. The count does not know whose suspension it gives back, so that
  `CalledOnlyWhenAllowed` can only say that each suspension is matched by a `gc.collect()`
  in progress. `test_gc.py:43-49` asserts the rule for one thread.

## 7. What is left out

* **In the modelled parts.** Collector: card marking, sizes, thresholds and memory
  pressure, light destructors, `move_out_of_nursery`. Pinning: prebuilt objects, nursery
  objects with references. Signals: `checksignals()` outside the dispatcher,
  `setcheckinterval`, the wakeup fd, `reinit` after fork; a second delivery of a signal
  whose handler is running; actions that raise. Locks: deallocation; a timed wait that
  both times out and consumes a wakeup, which POSIX leaves to the implementation.
  Finalizers: old-style finalizers, light ones, several queues. UserDel: the heap
  functions of the module gc; old-style instances, whose finalizers register themselves.
  Dictionaries: probe sequences, values, iteration over a dictionary that changes,
  `__eq__` written by the user that changes the dictionary during a lookup.
* **Card marking, arenas, the pacing of the collector**: an optimization of the barrier,
  a layout of memory and numeric tuning; the collector modules leave open what these
  decide.
* **Thread bootstrapping, greenlets**: the first is a hand-over under its own lock; the
  switches of the second are written in assembler and are sequential within a thread.
* **JIT**: an optimizing compiler; its small state machines decide only when to compile.
* **Interpreter, builtin types, modules**: mostly sequential code under the GIL. Its
  large part in the repository is tables (`rpython/rlib/unicodedata`) and the standard
  library, which have no state to speak of.
* **Parser, compiler, annotator, rtyper, JIT optimizer and backends**: translations of
  programs, whose state does not outlive a call.
* **Standard library, vendored tools**: not this project's code.

## 8. Plan

Modelled and checked: `Gil`, `IncMiniMark`, `Pinning`, `Signals`, `ThreadLock`,
`Finalizers`, `UserDel`, `RawRefCount`, `OrderedDict`. Proved about: all of them. What is
left of the properties is liveness, which stays with TLC. If `ll_dict_move_to_first` gets
the check of `ll_dict_grow`, `NewRoomsFit` can be dropped from the two theorems.

Candidates for further modules, should they be wanted: card marking as an implementation
of `oldToYoung` of `IncMiniMark` for objects with several references; the start of
threads and `reinit` after a fork; the arenas with their incremental sweep.

## 9. Running

In this directory: `tlc -workers 2 -config X.cfg M` for a run of section 3 (module `M`
and `X.cfg` as in `PROJECT.json`), and `tlapm M.tla` for each module `*Proofs`.
