------------------------------ MODULE Pinning ------------------------------
(***************************************************************************)
(* Pinned objects and shadows in rpython/memory/gc/incminimark.py: the two *)
(* ways in which an object that is still in the nursery has an address     *)
(* that must not change.                                                   *)
(*                                                                         *)
(* A pinned object stays where it is until unpin(), also when the nursery  *)
(* around it is emptied and used again.  A shadow is the place outside the *)
(* nursery reserved for an object when its id is taken; the object goes    *)
(* there when it moves.  Objects with references in them cannot be pinned, *)
(* so the nursery holds leaves here, of one cell each; the objects with a  *)
(* reference are born old.  Prebuilt objects are left out, and FINALIZING, *)
(* in which nothing here changes, is part of SCANNING.                     *)
(***************************************************************************)
EXTENDS Naturals, FiniteSets

CONSTANTS NurserySize,   \* cells of the nursery
          Old,           \* addresses outside it
          NULL,
          MaxPinned,     \* max_number_of_pinned_objects
          MaxRoots,      \* bound: how many references the stack holds
          Ids            \* bound: whose id the program takes, nobody's, that of
                         \* objects that are not pinned meanwhile, or anybody's

Nursery == 1 .. NurserySize
End == NurserySize + 1
Addr == Nursery \cup Old

ASSUME SizeAssumption ==
    NurserySize \in Nat \ {0} /\ MaxPinned \in Nat /\ MaxRoots \in Nat
ASSUME AddrAssumption == Old \cap (0 .. End) = {} /\ NULL \notin Addr
ASSUME IdsAssumption == Ids \in {"none", "unpinned", "any"}

VARIABLES
    alloc,            \* the addresses that hold an object
    field,            \* the reference in each object outside the nursery
    roots,            \* the references on the stack
    free,             \* nursery_free
    barriers,         \* nursery_top and nursery_barriers
    pinned,           \* objects with GCFLAG_PINNED
    pinnedCount,      \* pinned_objects_in_nursery
    shadow,           \* nursery_objects_shadows
    handed,           \* the id that the program has been given of an object
    track,            \* objects with GCFLAG_TRACK_YOUNG_PTRS
    pointingToYoung,  \* old_objects_pointing_to_young
    pointingToPinned, \* old_objects_pointing_to_pinned
    visited,          \* objects with GCFLAG_VISITED
    gcState,
    gray,             \* objects_to_trace and more_objects_to_trace
    toSweep,          \* objects the sweep has still to look at
    afterMinor        \* the program has not run since the last minor collection

program == <<alloc, field, roots>>
nursery == <<free, barriers, pinned, pinnedCount>>
ids == <<shadow, handed>>
lists == <<track, pointingToYoung, pointingToPinned>>
major == <<gcState, gray, toSweep>>
vars == <<program, nursery, ids, lists, major, visited, afterMinor>>

Init ==
    /\ alloc = {}
    /\ field = [a \in Old |-> NULL]
    /\ roots = {}
    /\ free = 1
    /\ barriers = {End}
    /\ pinned = {}
    /\ pinnedCount = 0
    /\ shadow = [a \in Nursery |-> NULL]
    /\ handed = [a \in Addr |-> NULL]
    /\ track = {}
    /\ pointingToYoung = {}
    /\ pointingToPinned = {}
    /\ visited = {}
    /\ gcState = "SCANNING"
    /\ gray = {}
    /\ toSweep = {}
    /\ afterMinor = FALSE

-----------------------------------------------------------------------------
(* The program. *)

\* malloc_fixedsize and collect_and_reserve: the object gets the first cell from
\* nursery_free on that is not behind nursery_top, jumping over the barriers.
\* (Without one there is a minor collection, then the same again.)
Malloc(a) ==
    /\ Cardinality(roots) < MaxRoots
    /\ a >= free /\ a \notin barriers
    /\ \A c \in free .. a - 1 : c \in barriers
    /\ free' = a + 1
    /\ barriers' = {b \in barriers : b > a}
    /\ alloc' = alloc \cup {a}
    /\ roots' = roots \cup {a}
    /\ afterMinor' = FALSE
    /\ UNCHANGED <<field, pinned, pinnedCount, ids, lists, major, visited>>

\* external_malloc(alloc_young=False)
MallocOld(a) ==
    /\ Cardinality(roots) < MaxRoots
    /\ a \in Old \ alloc
    /\ alloc' = alloc \cup {a}
    /\ roots' = roots \cup {a}
    /\ track' = track \cup {a}
    /\ afterMinor' = FALSE
    /\ UNCHANGED <<field, nursery, ids, pointingToYoung, pointingToPinned, major, visited>>

Drop(a) ==
    /\ a \in roots
    /\ roots' = roots \ {a}
    /\ afterMinor' = FALSE
    /\ UNCHANGED <<alloc, field, nursery, ids, lists, major, visited>>

Read(x) ==
    /\ x \in roots \cap Old
    /\ field[x] # NULL
    /\ Cardinality(roots \cup {field[x]}) <= MaxRoots
    /\ roots' = roots \cup {field[x]}
    /\ afterMinor' = FALSE
    /\ UNCHANGED <<alloc, field, nursery, ids, lists, major, visited>>

\* An assignment with its write barrier.  Only what was born with a reference
\* has one, and those have GCFLAG_TRACK_YOUNG_PTRS or are recorded.
Write(x, v) ==
    /\ x \in roots \cap (track \cup pointingToYoung)
    /\ v \in roots \cup {NULL}
    /\ field' = [field EXCEPT ![x] = v]
    /\ track' = track \ {x}
    /\ pointingToYoung' = pointingToYoung \cup {x}
    /\ afterMinor' = FALSE
    /\ UNCHANGED <<alloc, roots, nursery, ids, pointingToPinned, major, visited>>

Pin(a) ==
    /\ a \in roots \cap Nursery
    /\ a \notin pinned
    /\ pinnedCount < MaxPinned
    /\ Ids = "unpinned" => shadow[a] = NULL
    /\ pinned' = pinned \cup {a}
    /\ pinnedCount' = pinnedCount + 1
    /\ afterMinor' = FALSE
    /\ UNCHANGED <<program, free, barriers, ids, lists, major, visited>>

Unpin(a) ==
    /\ a \in roots \cap pinned
    /\ pinned' = pinned \ {a}
    /\ pinnedCount' = pinnedCount - 1
    /\ afterMinor' = FALSE
    /\ UNCHANGED <<program, free, barriers, ids, lists, major, visited>>

\* id() of an object in the nursery for the first time: _allocate_shadow.
TakeId(a, s) ==
    /\ Ids # "none"
    /\ Ids = "unpinned" => a \notin pinned
    /\ a \in roots \cap Nursery
    /\ shadow[a] = NULL
    /\ s \in Old \ alloc
    /\ alloc' = alloc \cup {s}
    /\ shadow' = [shadow EXCEPT ![a] = s]
    /\ handed' = [handed EXCEPT ![a] = s]
    /\ afterMinor' = FALSE
    /\ UNCHANGED <<field, roots, nursery, lists, major, visited>>

-----------------------------------------------------------------------------
(* The minor collection. *)

Fields(S) == {field[x] : x \in S} \ {NULL}

\* Mutant: the old objects known for pointing to pinned ones are forgotten.
TracedYoungOnly == pointingToYoung

\* _visit_old_objects_pointing_to_pinned and collect_oldrefs_to_nursery: the old
\* objects whose references are looked at.
Traced == pointingToYoung \cup pointingToPinned

Survivors == (roots \cup Fields(Traced)) \cap Nursery

\* surviving_pinned_objects
KeptInPlace == Survivors \cap pinned

\* Mutant: the id is not looked at when the object moves.
NewPlacesNoShadow ==
    LET moving == Survivors \ pinned
    IN  {f \in [moving -> Old \ alloc] : \A a, b \in moving : f[a] = f[b] => a = b}

\* _trace_drag_out: where each survivor that is not pinned goes, to its shadow
\* or to free memory of its own.
NewPlaces ==
    LET moving == Survivors \ pinned
    IN  {f \in [moving -> Old] :
            /\ \A a \in moving :
                  IF shadow[a] # NULL THEN f[a] = shadow[a] ELSE f[a] \notin alloc
            /\ \A a, b \in moving : f[a] = f[b] => a = b}

\* Mutant: black objects that point to an unpinned object stay black.
ModifiedYoungOnly == IF gcState = "MARKING" THEN pointingToYoung \cap visited ELSE {}

\* While marking, the black objects that were written into and those that point
\* to objects which may not be pinned any more are gray again.
Modified == IF gcState = "MARKING" THEN Traced \cap visited ELSE {}

\* Mutant: only what the stack refers to is protected.
NurseryBarriersOfRoots(kept) == (kept \cap roots) \cup {End}

\* The pinned objects are the barriers that the allocator jumps over.
NurseryBarriers(kept) == kept \cup {End}

\* _trace_drag_out records the old objects that refer to a pinned one.
PointingToPinned(kept) == {x \in Traced : field'[x] \in kept}

\* _minor_collection.  The header of an object that goes to its shadow is copied
\* with it, and the shadows of the objects that stay are marked.
Minor ==
    \E place \in NewPlaces :
        LET moved == DOMAIN place
            Move(a) == IF a \in moved THEN place[a] ELSE a
            copies == {place[a] : a \in moved}
            kept == KeptInPlace
            keptShadows == {shadow[a] : a \in {b \in kept : shadow[b] # NULL}}
        IN  /\ alloc' = (alloc \cap Old) \cup copies \cup kept
            /\ roots' = {Move(a) : a \in roots}
            /\ field' = [x \in Old |-> IF x \in Traced THEN Move(field[x]) ELSE field[x]]
            /\ handed' = [x \in Addr |->
                   IF x \in copies THEN handed[CHOOSE a \in moved : place[a] = x]
                   ELSE IF x \in Old \cup kept THEN handed[x] ELSE NULL]
            /\ pinned' = kept
            /\ pinnedCount' = Cardinality(kept)
            /\ shadow' = [a \in Nursery |-> IF a \in kept THEN shadow[a] ELSE NULL]
            /\ free' = 1
            /\ barriers' = NurseryBarriers(kept)
            /\ track' = track \cup pointingToYoung
            /\ pointingToYoung' = {}
            /\ pointingToPinned' = PointingToPinned(kept)
            /\ visited' = ((visited \ Modified) \ copies) \cup keptShadows
            /\ gray' = IF gcState = "MARKING"
                       THEN gray \cup Modified \cup (roots' \ (visited' \cup kept))
                       ELSE gray
            /\ afterMinor' = TRUE
            /\ UNCHANGED <<gcState, toSweep>>

-----------------------------------------------------------------------------
(* The major collection. *)

\* _collect_obj: objects in the nursery are left to the minor collections.
Collected(S) == S \ Nursery

StartMarking ==
    /\ afterMinor /\ gcState = "SCANNING"
    /\ gcState' = "MARKING"
    /\ gray' = Collected(roots)
    /\ UNCHANGED <<program, nursery, ids, lists, visited, toSweep, afterMinor>>

\* visit
MarkStep(o) ==
    /\ afterMinor /\ gcState = "MARKING"
    /\ o \in gray
    /\ IF o \in visited
       THEN gray' = gray \ {o} /\ UNCHANGED visited
       ELSE /\ gray' = (gray \ {o}) \cup Collected(Fields({o} \cap Old))
            /\ visited' = visited \cup {o}
    /\ UNCHANGED <<program, nursery, ids, lists, gcState, toSweep, afterMinor>>

\* Mutant: dead objects stay in old_objects_pointing_to_pinned.
FinishMarkingKeepParents ==
    /\ afterMinor /\ gcState = "MARKING"
    /\ gray = {}
    /\ gcState' = "SWEEPING"
    /\ toSweep' = alloc \cap Old
    /\ UNCHANGED <<program, nursery, ids, lists, visited, gray, afterMinor>>

\* The end of marking.  Dead objects leave old_objects_pointing_to_pinned.
FinishMarking ==
    /\ afterMinor /\ gcState = "MARKING"
    /\ gray = {}
    /\ gcState' = "SWEEPING"
    /\ toSweep' = alloc \cap Old
    /\ pointingToPinned' = pointingToPinned \cap visited
    /\ UNCHANGED <<program, nursery, ids, track, pointingToYoung, visited, gray, afterMinor>>

SweepStep(o) ==
    /\ afterMinor /\ gcState = "SWEEPING"
    /\ o \in toSweep
    /\ toSweep' = toSweep \ {o}
    /\ IF o \in visited
       THEN visited' = visited \ {o} /\ UNCHANGED <<alloc, field, handed, track>>
       ELSE /\ alloc' = alloc \ {o}
            /\ field' = [field EXCEPT ![o] = NULL]
            /\ handed' = [handed EXCEPT ![o] = NULL]
            /\ track' = track \ {o}
            /\ UNCHANGED visited
    /\ UNCHANGED <<roots, nursery, shadow, pointingToYoung, pointingToPinned, gcState,
                   gray, afterMinor>>

FinishSweeping ==
    /\ afterMinor /\ gcState = "SWEEPING"
    /\ toSweep = {}
    /\ gcState' = "SCANNING"
    /\ UNCHANGED <<program, nursery, ids, lists, visited, gray, toSweep, afterMinor>>

-----------------------------------------------------------------------------
Mutator ==
    \/ \E a \in Nursery : Malloc(a) \/ Pin(a) \/ Unpin(a)
    \/ \E a \in Nursery, s \in Old : TakeId(a, s)
    \/ \E x \in Old : MallocOld(x) \/ Read(x)
    \/ \E x \in Addr : Drop(x)
    \/ \E x \in Old, v \in Addr \cup {NULL} : Write(x, v)

Collector ==
    \/ Minor
    \/ StartMarking \/ FinishMarking \/ FinishSweeping
    \/ \E o \in Addr : MarkStep(o) \/ SweepStep(o)

Next == Mutator \/ Collector

Spec == Init /\ [][Next]_vars

-----------------------------------------------------------------------------
(* Properties. *)

TypeOK ==
    /\ alloc \subseteq Addr
    /\ field \in [Old -> Addr \cup {NULL}]
    /\ roots \subseteq Addr
    /\ free \in 1 .. End
    /\ barriers \subseteq 1 .. End
    /\ pinned \subseteq alloc \cap Nursery
    /\ pinnedCount \in 0 .. MaxPinned
    /\ shadow \in [Nursery -> Old \cup {NULL}]
    /\ handed \in [Addr -> Old \cup {NULL}]
    /\ track \cup pointingToYoung \cup pointingToPinned \subseteq Old
    /\ visited \cup gray \cup toSweep \subseteq Old
    /\ gcState \in {"SCANNING", "MARKING", "SWEEPING"}
    /\ afterMinor \in BOOLEAN

\* What the program can reach.
Reachable ==
    {o \in Addr : \A S \in SUBSET Addr :
        (roots \subseteq S /\ \A x \in S \cap Old : field[x] \in S \cup {NULL}) => o \in S}

\* No reference the program can reach points to freed memory.
NoDangling == Reachable \subseteq alloc

\* An object that is not about to be freed and refers to an object in the nursery
\* is in a list that the next minor collection looks at: without its own list a
\* pinned object would be lost at the second minor collection.
ParentsRecorded ==
    \A x \in (alloc \cap Old) \ (toSweep \ visited) :
        field[x] \in Nursery => x \in pointingToYoung \cup pointingToPinned

\* No list of the collector holds an object that has been freed
\* (test_object_pinning.py, test_objects_to_trace_bug and test_pin_bug1).
NoDeadEntries == pointingToYoung \cup pointingToPinned \cup gray \cup toSweep \subseteq alloc

\* What the allocator takes for free nursery is free: the barriers hide every
\* pinned object, and every object that has been unpinned since.
FreeCellsAreFree == \A c \in Nursery : c >= free /\ c \notin barriers => c \notin alloc

\* pinned_objects_in_nursery is the number of pinned objects, dead ones included.
PinnedCounted == pinnedCount = Cardinality(pinned)

\* The id of an object: its address, or the one it is going to have.
Id(x) == IF x \in Nursery THEN shadow[x] ELSE x

\* An object keeps the id that was given away, and no other object has it.
IdsAreStable ==
    \A x \in Reachable : handed[x] # NULL =>
        /\ handed[x] = Id(x)
        /\ \A y \in Reachable \ {x} : handed[x] # Id(y)

\* "The code that succeeded in pinning obj can assume that it won't move until
\* the corresponding call to unpin(obj)" (rgc.py:31-33): no step of the collector
\* moves or frees a pinned object in use, or a reference to it.
PinnedStayPut ==
    [][Collector =>
        \A a \in pinned \cap Reachable :
            /\ a \in pinned' /\ a \in alloc'
            /\ a \in roots => a \in roots'
            /\ \A x \in Reachable \cap Old : field[x] = a => field'[x] = a]_vars
=============================================================================
