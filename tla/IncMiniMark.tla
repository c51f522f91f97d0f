---------------------------- MODULE IncMiniMark ----------------------------
(***************************************************************************)
(* The incremental generational garbage collector:                         *)
(* rpython/memory/gc/incminimark.py.                                       *)
(*                                                                         *)
(* Objects are born in the nursery (or, if large, outside it, but young),  *)
(* and the minor collection moves the nursery's survivors out.  Old        *)
(* objects are collected by mark and sweep, in steps: one step follows a   *)
(* minor collection, and the program runs between steps.  A write barrier  *)
(* records the old objects the program writes into.                        *)
(*                                                                         *)
(* References are addresses and the collector moves objects, so a          *)
(* reference that is not updated shows as a reference to a free address.   *)
(* An object has one field that holds a reference.  The GIL is held during *)
(* a collection: a minor collection, and a major step, is atomic.          *)
(*                                                                         *)
(* Lists of the code whose order nothing depends on are sets.  Weakrefs,   *)
(* finalizers, pinning, shadows and card marking are not in this module.   *)
(***************************************************************************)
EXTENDS Naturals, FiniteSets

CONSTANTS Nursery,    \* addresses inside the nursery
          Old,        \* addresses outside it (ArenaCollection and raw_malloc)
          Prebuilt,   \* the prebuilt objects of the executable
          NULL,
          MaxRoots    \* bound: how many references the stack holds

Addr == Nursery \cup Old \cup Prebuilt
Ref == Addr \cup {NULL}

ASSUME AddrAssumption ==
    /\ Nursery \cap Old = {} /\ Nursery \cap Prebuilt = {} /\ Old \cap Prebuilt = {}
    /\ NULL \notin Addr
ASSUME RootsAssumption == MaxRoots \in Nat

VARIABLES
    alloc,          \* the addresses that hold an object
    field,          \* the reference inside each object
    roots,          \* the references on the stack and in static non-GC data
    youngRaw,       \* young_rawmalloced_objects
    track,          \* objects with GCFLAG_TRACK_YOUNG_PTRS
    noHeapPtrs,     \* objects with GCFLAG_NO_HEAP_PTRS
    visited,        \* objects with GCFLAG_VISITED
    oldToYoung,     \* old_objects_pointing_to_young
    prebuiltRoots,  \* prebuilt_root_objects
    gcState,        \* gc_state
    toTrace,        \* objects_to_trace
    moreToTrace,    \* more_objects_to_trace
    toSweep,        \* old objects the sweep has still to look at
    afterMinor      \* the program has not run since the last minor collection

program == <<alloc, field, roots, youngRaw>>
barrier == <<track, noHeapPtrs, oldToYoung, prebuiltRoots>>
major == <<gcState, toTrace, moreToTrace, toSweep>>
vars == <<program, barrier, major, visited, afterMinor>>

States == {"SCANNING", "MARKING", "SWEEPING", "FINALIZING"}

\* Prebuilt objects refer to each other only, and to nothing else at first.
Init ==
    /\ alloc = Prebuilt
    /\ field \in [Addr -> Prebuilt \cup {NULL}]
    /\ \A a \in Addr \ Prebuilt : field[a] = NULL
    /\ roots = {}
    /\ youngRaw = {}
    /\ track = Prebuilt
    /\ noHeapPtrs = Prebuilt
    /\ visited = {}
    /\ oldToYoung = {}
    /\ prebuiltRoots = {}
    /\ gcState = "SCANNING"
    /\ toTrace = {}
    /\ moreToTrace = {}
    /\ toSweep = {}
    /\ afterMinor = FALSE

\* The objects the program can name: those on its stack, and the prebuilt ones,
\* whose addresses are in the code.
Handles == roots \cup Prebuilt

Young == (alloc \cap Nursery) \cup youngRaw

\* A set of objects that holds what its objects refer to, within `universe'.
Closed(S, universe) == \A x \in S : field[x] \in universe => field[x] \in S

\* The objects of `universe' reached from `seeds' without leaving it.
ReachedWithin(seeds, universe) ==
    {o \in universe : \A S \in SUBSET universe :
        seeds \cap universe \subseteq S /\ Closed(S, universe) => o \in S}

Fields(S) == {field[x] : x \in S} \ {NULL}

-----------------------------------------------------------------------------
(* The program. *)

\* A new object is referred to from the stack.
Born(a) ==
    /\ a \notin alloc
    /\ Cardinality(roots) < MaxRoots
    /\ alloc' = alloc \cup {a}
    /\ roots' = roots \cup {a}
    /\ afterMinor' = FALSE
    /\ UNCHANGED <<field, visited, major>>

\* malloc_fixedsize and malloc_varsize, in the nursery.
MallocNursery(a) ==
    /\ a \in Nursery
    /\ Born(a)
    /\ UNCHANGED <<youngRaw, barrier>>

\* external_malloc(alloc_young=True): a large object, young where it is.
MallocYoungRaw(a) ==
    /\ a \in Old
    /\ Born(a)
    /\ youngRaw' = youngRaw \cup {a}
    /\ UNCHANGED barrier

\* external_malloc(alloc_young=False): an object with a finalizer, born old.
MallocOld(a) ==
    /\ a \in Old
    /\ Born(a)
    /\ track' = track \cup {a}
    /\ UNCHANGED <<youngRaw, noHeapPtrs, oldToYoung, prebuiltRoots>>

Read(x) ==
    /\ x \in Handles
    /\ field[x] # NULL
    /\ Cardinality(roots \cup {field[x]}) <= MaxRoots
    /\ roots' = roots \cup {field[x]}
    /\ afterMinor' = FALSE
    /\ UNCHANGED <<alloc, field, youngRaw, barrier, major, visited>>

Drop(x) ==
    /\ x \in roots
    /\ roots' = roots \ {x}
    /\ afterMinor' = FALSE
    /\ UNCHANGED <<alloc, field, youngRaw, barrier, major, visited>>

\* write_barrier and remember_young_pointer.
WriteBarrier(x) ==
    IF x \in track
    THEN /\ track' = track \ {x}
         /\ oldToYoung' = oldToYoung \cup {x}
         /\ noHeapPtrs' = noHeapPtrs \ {x}
         /\ prebuiltRoots' = prebuiltRoots \cup ({x} \cap noHeapPtrs)
    ELSE UNCHANGED barrier

Write(x, v) ==
    /\ x \in Handles
    /\ v \in Handles \cup {NULL}
    /\ WriteBarrier(x)
    /\ field' = [field EXCEPT ![x] = v]
    /\ afterMinor' = FALSE
    /\ UNCHANGED <<alloc, roots, youngRaw, major, visited>>

-----------------------------------------------------------------------------
(* The minor collection. *)

\* Mutant: the recorded old objects are not traced.
SurvivorsOfRoots == ReachedWithin(roots, Young)

\* What collect_roots_in_nursery and collect_oldrefs_to_nursery find: the young
\* objects reached from the stack and from the recorded old objects.
Survivors == ReachedWithin(roots \cup Fields(oldToYoung), Young)

\* Mutant: _visit_young_rawmalloced_object does not record the object.
TracedOldOnly == oldToYoung

\* trace_and_drag_out_of_nursery: what is traced where it is, the recorded old
\* objects and the young ones that survive outside the nursery.
Traced == oldToYoung \cup (Survivors \cap youngRaw)

\* _malloc_out_of_nursery: every survivor gets free memory of its own.
NewPlaces ==
    LET moving == Survivors \cap Nursery
    IN  {f \in [moving -> Old \ alloc] :
            \A a, b \in moving : f[a] = f[b] => a = b}

\* Mutant: the black objects that were written into stay black.
ModifiedNone == {}

\* _add_to_more_objects_to_trace_if_black: while marking, the black objects that
\* were written into are gray again.
Modified == IF gcState = "MARKING" THEN oldToYoung \cap visited ELSE {}

\* Mutant: _trace_drag_out1 is the callback in every state.
WhiteRootsNone(rs, black) == {}

\* _trace_drag_out1_marking_phase: while marking, the roots that are not black
\* are gray.
WhiteRoots(rs, black) == IF gcState = "MARKING" THEN rs \ black ELSE {}

\* _minor_collection.  References are updated in the roots and in what is
\* traced, that is in the recorded old objects and in the survivors, only.
Minor ==
    \E place \in NewPlaces :
        LET moved == DOMAIN place
            Move(a) == IF a \in moved THEN place[a] ELSE a
            Origin(a) == CHOOSE b \in moved : place[b] = a
            promoted == {place[a] : a \in moved}
            stayed == Survivors \cap youngRaw
        IN  /\ alloc' = (alloc \ Young) \cup promoted \cup stayed
            /\ roots' = {Move(a) : a \in roots}
            /\ field' = [a \in Addr |->
                   IF a \in promoted THEN Move(field[Origin(a)])
                   ELSE IF a \in Traced THEN Move(field[a])
                   ELSE IF a \in Young THEN NULL
                   ELSE field[a]]
            /\ youngRaw' = {}
            /\ track' = track \cup promoted \cup Traced
            /\ oldToYoung' = {}
            /\ visited' = visited \ Modified
            /\ moreToTrace' = moreToTrace \cup Modified
                                 \cup WhiteRoots(roots', visited')
            /\ afterMinor' = TRUE
            /\ UNCHANGED <<noHeapPtrs, prebuiltRoots, gcState, toTrace, toSweep>>

-----------------------------------------------------------------------------
(* The major collection: major_collection_step, case by case on gc_state.   *)

StepAllowed(s) == afterMinor /\ gcState = s

\* collect_roots: the stack and the prebuilt objects that have been modified.
StartMarking ==
    /\ StepAllowed("SCANNING")
    /\ gcState' = "MARKING"
    /\ toTrace' = roots \cup prebuiltRoots
    /\ moreToTrace' = {}
    /\ UNCHANGED <<program, barrier, visited, toSweep, afterMinor>>

Skipped == visited \cup noHeapPtrs

\* visit: an object that is seen for the first time becomes black, and what it
\* refers to gray.  A step whose budget is used up after one object; a longer
\* one is several of these with nothing in between.
MarkStep(o) ==
    /\ StepAllowed("MARKING")
    /\ o \in toTrace
    /\ IF o \in Skipped
       THEN /\ toTrace' = toTrace \ {o}
            /\ UNCHANGED <<visited, track>>
       ELSE /\ toTrace' = (toTrace \ {o}) \cup Fields({o})
            /\ visited' = visited \cup {o}
            /\ track' = track \cup {o}
    /\ UNCHANGED <<program, noHeapPtrs, oldToYoung, prebuiltRoots, gcState,
                   moreToTrace, toSweep, afterMinor>>

\* visit_all_objects: everything white that is reached from `gray' becomes black.
VisitAll(gray) ==
    LET marked == ReachedWithin(gray, alloc \ Skipped)
    IN  /\ visited' = visited \cup marked
        /\ track' = track \cup marked

\* A step whose budget is large enough to empty objects_to_trace.
MarkAll ==
    /\ StepAllowed("MARKING")
    /\ toTrace # {}
    /\ VisitAll(toTrace)
    /\ toTrace' = {}
    /\ UNCHANGED <<program, noHeapPtrs, oldToYoung, prebuiltRoots, gcState,
                   moreToTrace, toSweep, afterMinor>>

\* Mutant: the rest is only put where the next step finds it.
FinishMarkingSwap ==
    /\ StepAllowed("MARKING")
    /\ toTrace = {}
    /\ moreToTrace' = {}
    /\ IF moreToTrace # {}
       THEN /\ toTrace' = moreToTrace
            /\ UNCHANGED <<visited, track, toSweep, gcState>>
       ELSE /\ VisitAll(prebuiltRoots)
            /\ toSweep' = alloc \ Prebuilt
            /\ gcState' = "SWEEPING"
            /\ UNCHANGED toTrace
    /\ UNCHANGED <<program, noHeapPtrs, oldToYoung, prebuiltRoots, afterMinor>>

\* Nothing left in objects_to_trace: more_objects_to_trace takes its place and
\* is visited to the end, then the modified prebuilt objects once more.
FinishMarking ==
    /\ StepAllowed("MARKING")
    /\ toTrace = {}
    /\ VisitAll(moreToTrace \cup prebuiltRoots)
    /\ moreToTrace' = {}
    /\ toSweep' = alloc \ Prebuilt
    /\ gcState' = "SWEEPING"
    /\ UNCHANGED <<program, noHeapPtrs, oldToYoung, prebuiltRoots, toTrace, afterMinor>>

\* Mutant: a surviving object keeps its mark.
SweepStepKeepMark(o) ==
    /\ StepAllowed("SWEEPING")
    /\ o \in toSweep
    /\ toSweep' = toSweep \ {o}
    /\ IF o \in visited
       THEN UNCHANGED <<alloc, field, track, visited>>
       ELSE /\ alloc' = alloc \ {o}
            /\ field' = [field EXCEPT ![o] = NULL]
            /\ track' = track \ {o}
            /\ UNCHANGED visited
    /\ UNCHANGED <<roots, youngRaw, noHeapPtrs, oldToYoung, prebuiltRoots, gcState,
                   toTrace, moreToTrace, afterMinor>>

\* free_rawmalloced_object_if_unvisited and _free_if_unvisited, an object at a
\* time: it loses its mark or its memory.
SweepStep(o) ==
    /\ StepAllowed("SWEEPING")
    /\ o \in toSweep
    /\ toSweep' = toSweep \ {o}
    /\ IF o \in visited
       THEN /\ visited' = visited \ {o}
            /\ UNCHANGED <<alloc, field, track>>
       ELSE /\ alloc' = alloc \ {o}
            /\ field' = [field EXCEPT ![o] = NULL]
            /\ track' = track \ {o}
            /\ UNCHANGED visited
    /\ UNCHANGED <<roots, youngRaw, noHeapPtrs, oldToYoung, prebuiltRoots, gcState,
                   toTrace, moreToTrace, afterMinor>>

\* The end of the sweep.  Over max_heap_size it raises MemoryError and the next
\* step starts anew; else the finalizers are next.
FinishSweeping ==
    /\ StepAllowed("SWEEPING")
    /\ toSweep = {}
    /\ visited' = visited \ prebuiltRoots
    /\ gcState' \in {"FINALIZING", "SCANNING"}
    /\ UNCHANGED <<program, barrier, toTrace, moreToTrace, toSweep, afterMinor>>

FinishFinalizing ==
    /\ StepAllowed("FINALIZING")
    /\ gcState' = "SCANNING"
    /\ UNCHANGED <<program, barrier, visited, toTrace, moreToTrace, toSweep, afterMinor>>

-----------------------------------------------------------------------------
Mutator ==
    \/ \E a \in Addr : MallocNursery(a) \/ MallocYoungRaw(a) \/ MallocOld(a)
    \/ \E x \in Addr : Read(x) \/ Drop(x)
    \/ \E x \in Addr, v \in Ref : Write(x, v)

AmpleStep ==
    \/ StartMarking
    \/ MarkAll
    \/ FinishMarking
    \/ \E o \in Addr : SweepStep(o)
    \/ FinishSweeping
    \/ FinishFinalizing

MajorStep == AmpleStep \/ \E o \in Addr : MarkStep(o)

Next == Mutator \/ Minor \/ MajorStep

Spec == Init /\ [][Next]_vars

(***************************************************************************)
(* minor_collection_with_major_progress: a program that goes on allocating *)
(* brings about minor collections, and a minor collection is followed by a *)
(* major step whenever a major collection is under way or the threshold is *)
(* reached, as it is in the end if the old objects grow or gc.collect() is *)
(* called.  The budget of a marking step is gc_increment_step bytes or     *)
(* more; it is assumed to be enough, time and again, for what is gray.     *)
(* (With one visit in a step a program that writes into the same cycle of  *)
(* objects before every step keeps objects_to_trace non-empty for ever.)   *)
(***************************************************************************)
Fairness == WF_vars(Minor) /\ SF_vars(AmpleStep)

LiveSpec == Spec /\ Fairness

-----------------------------------------------------------------------------
(* Properties. *)

TypeOK ==
    /\ alloc \subseteq Addr /\ Prebuilt \subseteq alloc
    /\ field \in [Addr -> Ref]
    /\ roots \subseteq Addr
    /\ youngRaw \subseteq Old \cap alloc
    /\ track \subseteq alloc
    /\ noHeapPtrs \subseteq Prebuilt
    /\ visited \subseteq alloc
    /\ oldToYoung \subseteq alloc
    /\ prebuiltRoots \subseteq Prebuilt
    /\ gcState \in States
    /\ toTrace \subseteq Addr
    /\ moreToTrace \subseteq Addr
    /\ toSweep \subseteq Old
    /\ afterMinor \in BOOLEAN

\* What the program can reach.
Reachable == ReachedWithin(Handles, Addr)

\* No reference the program can get hold of points to memory that was freed or
\* to a place an object has been moved away from.
NoDangling == \A x \in Reachable : x \in alloc /\ field[x] \in alloc \cup {NULL}

\* What the sweep in progress is not going to free.
Kept == alloc \ (toSweep \ visited)

\* "If a prebuilt GcStruct contains a pointer to a young object, then the
\* write_barrier must have ensured that [it] is in the list"
\* (incminimark.py:1829-1832), and so for every old object.
YoungPointersRecorded ==
    \A x \in Kept \ Young : field[x] \in Young => x \in oldToYoung

\* "A black object.  Should NEVER point to a white object" (incminimark.py:1265),
\* with what makes it true: the object is recorded and will be gray again at the
\* next minor collection, or the white one is a prebuilt object, which is either
\* never followed or visited again when marking ends.
NoBlackToWhite ==
    gcState = "MARKING" =>
        \A x \in visited \ oldToYoung :
            field[x] \in visited \cup toTrace \cup moreToTrace \cup Prebuilt \cup {NULL}

\* What the debugging code asserts before every step (_debug_check_not_white,
\* incminimark.py:1277-1293): here a modified prebuilt object counts as white.
DebugCheckNotWhite ==
    gcState = "MARKING" /\ afterMinor =>
        \A x \in Reachable \cap visited :
            field[x] \in visited \cup toTrace \cup moreToTrace \cup noHeapPtrs \cup {NULL}

\* What the sweep will free is garbage, also after the program has run between
\* two of its steps.
SweepsGarbageOnly == Reachable \cap toSweep \subseteq visited

\* "The GCFLAG_VISITED should not be set between collections"
\* (incminimark.py:1341): a mark left behind would keep its object, and hide what
\* it refers to, in the next collection.
NoMarksBetweenCollections == gcState \in {"SCANNING", "FINALIZING"} => visited = {}

\* The minor collection cannot place its survivors: out_of_memory() ends the process.
OutOfMemory == NewPlaces = {}

\* Marking ends although the program keeps writing into black objects and thereby
\* gives the collector more to trace: "the idea is to ensure termination"
\* (incminimark.py:2292).
MarkingEnds == gcState = "MARKING" ~> (gcState = "SWEEPING" \/ OutOfMemory)

\* Garbage that has become old is freed, if not by the collection under way then
\* by the next one, unless the process runs out of memory first.
GarbageFreed ==
    \A a \in Old :
        a \in alloc \ Reachable ~> (a \notin alloc \/ OutOfMemory)

\* Two graphs are the same up to the place of the objects in the nursery.
SameGraph ==
    \E f \in [Reachable -> Reachable'] :
        /\ \A a, b \in Reachable : f[a] = f[b] => a = b
        /\ \A a \in Reachable \ Nursery : f[a] = a
        /\ roots' = {f[a] : a \in roots}
        /\ \A a \in Reachable :
              field'[f[a]] = IF field[a] = NULL THEN NULL ELSE f[field[a]]

\* The collector is invisible: none of its steps changes what the program sees.
CollectorInvisible == [][Minor \/ MajorStep => SameGraph]_vars
=============================================================================
