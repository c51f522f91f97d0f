------------------------------ MODULE Finalizers ------------------------------
(***************************************************************************)
(* Weak references and finalizers in the incremental collector:            *)
(* rpython/memory/gc/incminimark.py and base.py, and the queue of dead     *)
(* objects that the interpreter empties (executioncontext.py).             *)
(*                                                                         *)
(* An object here may refer to several others.  Which objects a minor      *)
(* collection keeps and which are marked when marking ends is taken from   *)
(* IncMiniMark: the young objects that are reached, and any set of old     *)
(* ones that holds what the program can reach and what its members refer   *)
(* to.  Places and barriers are not in this module: an object is its own   *)
(* address.                                                                *)
(* There is one finalizer queue, as in the interpreter.                    *)
(***************************************************************************)
EXTENDS Naturals, FiniteSets, Sequences, SequencesExt

CONSTANTS Obj,        \* objects that are allocated
          Prebuilt,   \* prebuilt objects: they are never freed
          NULL,
          MaxRefs,    \* bound: references between objects
          MaxRoots    \* bound: references the stack holds

All == Obj \cup Prebuilt

ASSUME ObjAssumption == IsFiniteSet(All) /\ Obj \cap Prebuilt = {} /\ NULL \notin All
ASSUME BoundsAssumption == MaxRefs \in Nat /\ MaxRoots \in Nat

VARIABLES
    alloc,       \* the objects that exist
    refs,        \* the references: pairs
    roots,       \* what the stack refers to
    noHeapPtrs,  \* GCFLAG_NO_HEAP_PTRS
    target,      \* what each weakref points to; NULL also for other objects
    weakrefs,    \* the objects that are weakrefs
    young,       \* the young objects
    youngWeak,   \* young_objects_with_weakrefs
    oldWeak,     \* old_objects_with_weakrefs
    final,       \* the objects on which register_finalizer has been called
    ignored,     \* GCFLAG_IGNORE_FINALIZER
    youngFinal,  \* probably_young_objects_with_finalizers
    oldFinal,    \* old_objects_with_finalizers
    ordering,    \* GCFLAG_FINALIZATION_ORDERING
    gcState,     \* gc_state
    doomed,      \* what the sweep is going to free
    queue,       \* the deque of the finalizer queue
    fired,       \* the UserDelAction is fired
    current,     \* the object whose finalizer _run_finalizers is calling
    called       \* history: the objects whose finalizer has been called

heap == <<alloc, refs, weakrefs, target>>
lists == <<young, youngWeak, oldWeak, youngFinal, oldFinal>>
major == <<ordering, gcState, doomed>>
calls == <<queue, fired, current, called>>
vars == <<heap, roots, noHeapPtrs, final, ignored, lists, major, calls>>

\* Scanning and marking are one: only the end of marking matters here.
States == {"MARKING", "SWEEPING", "FINALIZING"}

Init ==
    /\ alloc = Prebuilt
    /\ refs = {}
    /\ roots = {}
    /\ noHeapPtrs = Prebuilt
    /\ target = [w \in Obj |-> NULL]
    /\ weakrefs = {}
    /\ young = {} /\ youngWeak = {} /\ oldWeak = {}
    /\ final = {} /\ ignored = {}
    /\ youngFinal = <<>> /\ oldFinal = <<>>
    /\ ordering = {}
    /\ gcState = "MARKING"
    /\ doomed = {}
    /\ queue = <<>>
    /\ fired = FALSE
    /\ current = NULL
    /\ called = {}

Children(S) == {e[2] : e \in {r \in refs : r[1] \in S}}

\* What is reached from `seeds' through objects of `universe' only.
ReachedWithin(seeds, universe) ==
    LET f[n \in 0 .. Cardinality(All)] ==
            IF n = 0 THEN seeds \cap universe
            ELSE LET found == f[n - 1] IN found \cup (Children(found) \cap universe)
    IN  f[Cardinality(All)]

\* What the program can name without a read.
Handles == roots \cup Prebuilt \cup ({current} \ {NULL})

Reachable == ReachedWithin(Handles, All)

\* Mutant: enum_pending_finalizers is forgotten.
KeptWithoutQueue == Reachable

\* What a collection starts from: also the objects in the queue
\* (enum_pending_finalizers).
Kept == ReachedWithin(Handles \cup ToSet(queue), All)

-----------------------------------------------------------------------------
(* The program. *)

Room == Cardinality(roots) < MaxRoots

\* A new object is young and on the stack.
Born(x) ==
    /\ x \in Obj \ alloc
    /\ Room
    /\ alloc' = alloc \cup {x}
    /\ roots' = roots \cup {x}
    /\ young' = young \cup {x}
    /\ UNCHANGED <<refs, noHeapPtrs, final, ignored, oldWeak, youngFinal, oldFinal,
                   major, calls>>

Malloc(x) ==
    /\ Born(x)
    /\ UNCHANGED <<weakrefs, target, youngWeak>>

\* malloc_fixedsize with contains_weakptr: weakrefs are born in the nursery.
MallocWeakref(w, t) ==
    /\ t \in Handles
    /\ Born(w)
    /\ weakrefs' = weakrefs \cup {w}
    /\ target' = [target EXCEPT ![w] = t]
    /\ youngWeak' = youngWeak \cup {w}

\* register_finalizer puts any object in the list of the `probably young' ones.
RegisterFinalizer(x) ==
    /\ x \in roots \ (final \cup weakrefs)
    /\ final' = final \cup {x}
    /\ youngFinal' = Append(youngFinal, x)
    /\ UNCHANGED <<heap, roots, noHeapPtrs, ignored, young, youngWeak, oldWeak, oldFinal,
                   major, calls>>

\* may_ignore_finalizer, as a closed file or an exhausted generator does.
IgnoreFinalizer(x) ==
    /\ x \in (roots \cap final) \ ignored
    /\ ignored' = ignored \cup {x}
    /\ UNCHANGED <<heap, roots, noHeapPtrs, final, lists, major, calls>>

\* A prebuilt object that is written into becomes a root (write_barrier).
Write(x, y) ==
    /\ x \in Handles \ weakrefs
    /\ y \in Handles \ {x}
    /\ <<x, y>> \notin refs
    /\ Cardinality(refs) < MaxRefs
    /\ refs' = refs \cup {<<x, y>>}
    /\ noHeapPtrs' = noHeapPtrs \ {x}
    /\ UNCHANGED <<alloc, weakrefs, target, roots, final, ignored, lists, major, calls>>

Erase(x, y) ==
    /\ x \in Handles
    /\ <<x, y>> \in refs
    /\ refs' = refs \ {<<x, y>>}
    /\ UNCHANGED <<alloc, weakrefs, target, roots, noHeapPtrs, final, ignored, lists,
                   major, calls>>

\* The program takes hold of what it has read.
Hold(y) ==
    /\ y \in Obj \ roots
    /\ Room
    /\ roots' = roots \cup {y}
    /\ UNCHANGED <<heap, noHeapPtrs, final, ignored, lists, major, calls>>

Read(y) ==
    /\ y \in Children(Handles) \cup Handles
    /\ Hold(y)

\* The call of a weakref.
Deref(w) ==
    /\ w \in Handles \cap weakrefs
    /\ target[w] # NULL
    /\ Hold(target[w])

Drop(x) ==
    /\ x \in roots
    /\ roots' = roots \ {x}
    /\ UNCHANGED <<heap, noHeapPtrs, final, ignored, lists, major, calls>>

Mutator ==
    \/ \E x \in Obj : \/ Malloc(x)
                      \/ RegisterFinalizer(x)
                      \/ IgnoreFinalizer(x)
                      \/ Read(x)
                      \/ Deref(x)
                      \/ Drop(x)
    \/ \E w \in Obj, t \in All : MallocWeakref(w, t)
    \/ \E x, y \in All : Write(x, y) \/ Erase(x, y)

-----------------------------------------------------------------------------
(* The minor collection. *)

\* deal_with_young_objects_with_finalizers keeps these, reached or not.
Still(kept, x) == IF x \in ignored THEN kept ELSE Append(kept, x)
StillToFinalize(list) == FoldLeft(Still, <<>>, list)

\* The young objects reached from the stack, from old objects and from
\* those with a finalizer.
Survivors ==
    ReachedWithin(Handles \cup Children(alloc \ young)
                     \cup ToSet(StillToFinalize(youngFinal)), young)

\* What is freed: nothing of it is left.
Free(dead) ==
    /\ alloc' = alloc \ dead
    /\ refs' = {r \in refs : r[1] \notin dead}
    /\ weakrefs' = weakrefs \ dead
    /\ final' = final \ dead
    /\ ignored' = ignored \ dead
    /\ called' = called \ dead

\* Mutant: a forwarded target is not followed.
ValidOld(w) == target[w] \notin young

\* invalidate_young_weakrefs: which of the surviving weakrefs still point to
\* something that survives, and which of these are to be looked at again.
Valid(w) == target[w] \notin young \ Survivors
Remembered(w) == Valid(w) /\ target[w] \notin noHeapPtrs

Minor ==
    LET weak == youngWeak \cap Survivors
        dead == young \ Survivors
    IN  /\ young # {} \/ youngFinal # <<>>
        /\ Free(dead)
        /\ target' = [w \in Obj |-> IF w \in dead \/ (w \in weak /\ ~Valid(w))
                                    THEN NULL ELSE target[w]]
        /\ young' = {}
        /\ youngWeak' = {}
        /\ oldWeak' = oldWeak \cup {w \in weak : Remembered(w)}
        /\ youngFinal' = <<>>
        /\ oldFinal' = oldFinal \o StillToFinalize(youngFinal)
        /\ UNCHANGED <<roots, noHeapPtrs, major, queue, fired, current>>

-----------------------------------------------------------------------------
(* The end of marking. *)

StepAllowed(s) == gcState = s /\ young = {} /\ youngFinal = <<>>

\* The sets of objects that may be marked when marking ends.
MarkedSets ==
    {S \in SUBSET alloc :
        Kept \subseteq S /\ Children(S) \subseteq S}

\* One object of old_objects_with_finalizers in the first loop of
\* deal_with_objects_with_finalizers.  The states 0 to 3 of the code are the
\* four combinations of `seen' (GCFLAG_VISITED) and `ordering'.  From x on, what
\* is in state 0 goes to 1 and then to 2, and what is in state 2 goes to 3.
\* (If a reference to a prebuilt object is met twice in one walk, the flag of that
\* object depends on the order; here the state 3 is reached last.)
Walk(s, x) ==
    IF x \in ignored THEN s
    ELSE IF x \in s.seen THEN [s EXCEPT !.keep = Append(@, x)]
    ELSE LET from0to1 == ReachedWithin({x}, All \ (s.seen \cup s.ordering))
             flagged == s.ordering \cup from0to1
             from2to3 == ReachedWithin(Children(from0to1) \cap s.seen, flagged)
             from1to2 == ReachedWithin({x}, All \ (s.seen \cup noHeapPtrs))
         IN  [s EXCEPT !.seen = @ \cup from1to2,
                       !.ordering = flagged \ from2to3,
                       !.marked = Append(@, x)]

\* Mutant: the flag is cleared on the object alone.
DecideOne(s, x) ==
    IF x \in s.ordering
    THEN [s EXCEPT !.run = Append(@, x), !.ordering = @ \ {x}]
    ELSE [s EXCEPT !.keep = Append(@, x)]

\* Mutant: an object that has to wait for another one is forgotten.
DecideForgets(s, x) ==
    IF x \in s.ordering
    THEN [s EXCEPT !.run = Append(@, x),
                   !.ordering = @ \ ReachedWithin({x}, s.ordering)]
    ELSE s

\* One object of `marked' in the second loop.
Decide(s, x) ==
    IF x \in s.ordering
    THEN [s EXCEPT !.run = Append(@, x),
                   !.ordering = @ \ ReachedWithin({x}, s.ordering)]
    ELSE [s EXCEPT !.keep = Append(@, x)]

\* The two loops of deal_with_objects_with_finalizers.
Walked(S) ==
    FoldLeft(Walk, [seen |-> S \ noHeapPtrs, ordering |-> ordering,
                    marked |-> <<>>, keep |-> <<>>, run |-> <<>>], oldFinal)

Decided(walked) == FoldLeft(Decide, walked, walked.marked)

\* Mutant: the flag of the objects whose finalizer is about to be called is not
\* looked at.
StillPointedToVisited(walked) == walked.seen

\* invalidate_old_weakrefs: what the weakrefs that stay valid point to.
StillPointedTo(walked) == walked.seen \ walked.ordering

\* The last step of marking: finalizers, weakrefs, and what the sweep will free.
FinishMarkingWith(S) ==
    LET walked == Walked(S)
        decided == Decided(walked)
        weak == oldWeak \cap walked.seen
        lost == {w \in weak : target[w] \notin StillPointedTo(walked)}
    IN  /\ StepAllowed("MARKING")
        /\ S \in MarkedSets
        /\ target' = [w \in Obj |-> IF w \in lost THEN NULL ELSE target[w]]
        /\ oldWeak' = weak \ lost
        /\ queue' = queue \o decided.run
        /\ oldFinal' = decided.keep
        /\ ordering' = decided.ordering
        /\ doomed' = alloc \ (walked.seen \cup Prebuilt)
        /\ gcState' = "SWEEPING"
        /\ UNCHANGED <<alloc, refs, weakrefs, roots, noHeapPtrs, final, ignored, young,
                       youngWeak, youngFinal, fired, current, called>>

FinishMarking == \E S \in SUBSET All : FinishMarkingWith(S)

-----------------------------------------------------------------------------
(* Sweeping and calling. *)

\* The sweep, to its end.  Over max_heap_size it raises MemoryError: then the
\* finalizers are not called in this round.
SweepTo(s) ==
    /\ StepAllowed("SWEEPING")
    /\ Free(doomed)
    /\ target' = [w \in Obj |-> IF w \in doomed THEN NULL ELSE target[w]]
    /\ doomed' = {}
    /\ gcState' = s
    /\ UNCHANGED <<roots, noHeapPtrs, lists, ordering, queue, fired, current>>

Sweep == SweepTo("FINALIZING")
SweepAndRaise == SweepTo("MARKING")

\* execute_finalizers triggers the queue if there is something in it.
ExecuteFinalizers ==
    /\ StepAllowed("FINALIZING")
    /\ gcState' = "MARKING"
    /\ fired' = (fired \/ queue # <<>>)
    /\ UNCHANGED <<heap, roots, noHeapPtrs, final, ignored, lists, ordering, doomed,
                   queue, current, called>>

\* next_dead, and the call of the finalizer: it may do with the object whatever a
\* program may do.
TakeNext ==
    /\ IF queue = <<>>
       THEN /\ current' = NULL
            /\ UNCHANGED <<queue, called>>
       ELSE /\ current' = Head(queue)
            /\ queue' = Tail(queue)
            /\ called' = called \cup {Head(queue)}
    /\ UNCHANGED <<heap, roots, noHeapPtrs, final, ignored, lists, major>>

\* The UserDelAction is performed: _run_finalizers.
Perform == current = NULL /\ fired /\ fired' = FALSE /\ TakeNext

\* A finalizer returns; the loop goes on.
Return == current # NULL /\ TakeNext /\ UNCHANGED fired

\* gc.collect() runs the finalizers too, fired or not.
Collect == current = NULL /\ queue # <<>> /\ TakeNext /\ UNCHANGED fired

-----------------------------------------------------------------------------
Collector == Minor \/ FinishMarking \/ Sweep \/ SweepAndRaise \/ ExecuteFinalizers
Caller == Perform \/ Return \/ Collect

Next == Mutator \/ Collector \/ Caller

Spec == Init /\ [][Next]_vars

-----------------------------------------------------------------------------
(* Properties. *)

\* The types, the lists that hold young or old objects only, and that nothing is
\* queued, waits or has been called without register_finalizer.
TypeOK ==
    /\ Prebuilt \subseteq alloc /\ alloc \subseteq All
    /\ refs \subseteq alloc \X alloc
    /\ roots \subseteq Obj \cap alloc
    /\ noHeapPtrs \subseteq Prebuilt
    /\ weakrefs \subseteq Obj \cap alloc
    /\ target \in [Obj -> All \cup {NULL}]
    /\ young \subseteq Obj \cap alloc
    /\ youngWeak \subseteq young \cap weakrefs
    /\ oldWeak \subseteq weakrefs \ young
    /\ final \subseteq Obj \cap alloc /\ ignored \subseteq final /\ called \subseteq final
    /\ ordering \subseteq All
    /\ gcState \in States
    /\ doomed \subseteq Obj \cap alloc
    /\ current \in alloc \cup {NULL}
    /\ queue \in Seq(final) /\ oldFinal \in Seq(final) /\ youngFinal \in Seq(final)
    /\ fired \in BOOLEAN

\* Freeing is by reachability, but what is reachable changes with every finalizer that
\* is called and every weakref that is followed: neither what the program holds, nor
\* what a live weakref points to, nor an object with a finalizer that is due or will
\* be, nor anything that one of these refers to, has been freed or is about to be.
NoDangling ==
    LET pointedTo == {target[w] : w \in Reachable \cap weakrefs} \ {NULL}
        due == ToSet(queue) \cup ToSet(oldFinal) \cup ToSet(youngFinal)
    IN  ReachedWithin(Handles \cup pointedTo \cup due, All) \subseteq alloc \ doomed

\* "this will detach the finalizer": an object is in one list, once, and in none when
\* its finalizer has been called, though it has been made to survive and may have been
\* resurrected.
CalledOnce ==
    /\ (ToSet(youngFinal) \cup ToSet(oldFinal) \cup ToSet(queue)) \cap called = {}
    /\ IsInjective(youngFinal \o oldFinal \o queue)

\* An object with a finalizer is freed only when the finalizer has been called, or was
\* to be ignored: the lists of minor and major collections lose none, and one that has
\* to wait for another is seen again by the next collection.
FinalizedBeforeFreed ==
    [][\A x \in final : x \notin alloc' => x \in called \cup ignored]_vars

\* Weakrefs are cleared before finalizers are called: from the moment an object is
\* queued no weakref of the program leads to it, as the finalizer must not find itself
\* shared with code that does not know.
WeakrefsClearedFirst ==
    \A w \in weakrefs \ doomed : target[w] \notin ToSet(queue)

\* There is a path from a to b.
Leads(a, b) == b \in ReachedWithin({a}, All)

\* The order of pypy/doc/discussion/finalizer-order.rst: of the dying objects with
\* a finalizer those are queued that no other one leads to, except in a cycle, of
\* which one is queued; all others wait.
InOrder ==
    [][\A S \in SUBSET All : FinishMarkingWith(S) =>
          LET dying == ToSet(oldFinal) \ (S \cup ignored)
              queued == ToSet(queue') \ ToSet(queue)
              first == {x \in dying : \A a \in dying : Leads(a, x) => Leads(x, a)}
          IN  /\ queued \subseteq first
              /\ \A x \in first :
                    Cardinality({y \in queued : Leads(x, y) /\ Leads(y, x)}) = 1]_vars

\* A weakref stays valid as long as the program holds its target, through promotions,
\* collections that find it dead and finalizers that bring it back.
WeakrefsKept ==
    [][\A w \in weakrefs : target[w] \in Reachable \cap Obj /\ w \in alloc'
           => target'[w] = target[w]]_vars

\* "GCFLAG_FINALIZATION_ORDERING" is clear between two collections.  It holds where
\* Prebuilt is empty; see the README for what happens to prebuilt objects.
OrderingCleared == ordering = {}
=============================================================================
