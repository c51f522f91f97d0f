------------------------- MODULE IncMiniMarkProofs -------------------------
(***************************************************************************)
(* Proofs about IncMiniMark, for every set of addresses and every bound on *)
(* the roots: the safety invariants, from one inductive invariant.         *)
(***************************************************************************)
EXTENDS IncMiniMark, TLAPS

\* Only the old objects have colours, flags and places in the lists.
OldOnly ==
    /\ track \cup visited \cup oldToYoung \cup toTrace \cup moreToTrace \subseteq alloc \ Young
    /\ toSweep \subseteq alloc \ Young

\* What is not going to be freed is closed under the references, and holds all
\* that the program or a minor collection starts from.
KeptClosed ==
    /\ Handles \cup oldToYoung \subseteq Kept
    /\ \A x \in Kept : field[x] \in Kept \cup {NULL}

\* A new object refers to nothing.
FreeIsClear == \A a \in Addr \ alloc : field[a] = NULL

\* The write barrier is armed for every old object that is not recorded.
Watched == alloc \ Young \subseteq track \cup oldToYoung

\* A prebuilt object that may refer to the heap is a root, the others do not
\* have to be looked at.
PrebuiltInv ==
    /\ noHeapPtrs \subseteq track \ visited
    /\ \A x \in noHeapPtrs : field[x] \in Prebuilt \cup {NULL}
    /\ Prebuilt \ noHeapPtrs \subseteq prebuiltRoots

\* When marking goes on, no root is white.
GrayRoots ==
    gcState = "MARKING" /\ afterMinor =>
        roots \subseteq visited \cup toTrace \cup moreToTrace \cup Prebuilt

\* What each phase leaves empty.
Phases ==
    /\ gcState # "MARKING" => toTrace = {} /\ moreToTrace = {}
    /\ gcState # "SWEEPING" => toSweep = {}
    /\ gcState \in {"SCANNING", "FINALIZING"} => visited = {}
    /\ gcState = "SWEEPING" => visited \subseteq toSweep \cup prebuiltRoots

\* A minor collection leaves nothing young and nothing recorded.
Quiet == afterMinor => Young = {} /\ oldToYoung = {}

Inv ==
    /\ TypeOK
    /\ OldOnly
    /\ KeptClosed
    /\ FreeIsClear
    /\ YoungPointersRecorded
    /\ Watched
    /\ PrebuiltInv
    /\ NoBlackToWhite
    /\ GrayRoots
    /\ Phases
    /\ Quiet
-----------------------------------------------------------------------------

(* `ReachedWithin' is the least closed set that holds the seeds. *)

\* It holds the seeds.
LEMMA ReachedSeeds ==
    ASSUME NEW seeds, NEW universe
    PROVE  seeds \cap universe \subseteq ReachedWithin(seeds, universe)
BY DEF ReachedWithin

\* It holds what its members refer to.
LEMMA ReachedClosed ==
    ASSUME NEW seeds, NEW universe
    PROVE  Closed(ReachedWithin(seeds, universe), universe)
<1> SUFFICES ASSUME NEW x \in ReachedWithin(seeds, universe),
                    field[x] \in universe,
                    NEW S \in SUBSET universe,
                    seeds \cap universe \subseteq S, Closed(S, universe)
             PROVE  field[x] \in S
  BY DEF Closed, ReachedWithin
<1>1. x \in S
  BY DEF ReachedWithin
<1> QED BY <1>1 DEF Closed

\* No closed set with the seeds is smaller.
LEMMA ReachedLeast ==
    ASSUME NEW seeds, NEW universe,
           NEW S \in SUBSET universe, seeds \cap universe \subseteq S, Closed(S, universe)
    PROVE  ReachedWithin(seeds, universe) \subseteq S
BY DEF ReachedWithin

\* It does not leave the universe.
LEMMA ReachedInside ==
    ASSUME NEW seeds, NEW universe
    PROVE  ReachedWithin(seeds, universe) \subseteq universe
BY DEF ReachedWithin

\* The prebuilt heap satisfies the invariant: every object is watched and no root.
LEMMA InitInv == Init => Inv
BY AddrAssumption DEF Init, Inv, TypeOK, OldOnly, KeptClosed, FreeIsClear,
       YoungPointersRecorded, Watched, PrebuiltInv, NoBlackToWhite, GrayRoots, Phases, Quiet,
       Addr, Ref, States, Young, Kept, Handles

\* A new nursery object is young, so it needs no flag, and clear, so it adds no
\* reference to what is kept.
LEMMA MallocNurseryStep ==
    ASSUME Inv, NEW a \in Addr, MallocNursery(a)
    PROVE  Inv'
<1> USE AddrAssumption DEF Inv, MallocNursery, Born,
        Addr, Young, Kept, Handles, program, barrier, major
<1>1. TypeOK'
  BY DEF TypeOK, Ref, States
<1>2. OldOnly'
  BY DEF TypeOK, OldOnly, Quiet
<1>3. KeptClosed' /\ FreeIsClear'
  BY DEF TypeOK, OldOnly, KeptClosed, FreeIsClear, Quiet, Phases
<1>4. YoungPointersRecorded' /\ Watched'
  BY DEF TypeOK, OldOnly, KeptClosed, FreeIsClear, Quiet, Watched,
         YoungPointersRecorded
<1>5. PrebuiltInv'
  BY DEF TypeOK, OldOnly, Quiet, Phases, PrebuiltInv
<1>6. NoBlackToWhite' /\ GrayRoots'
  BY DEF TypeOK, OldOnly, KeptClosed, FreeIsClear, Watched, Quiet, Phases,
         PrebuiltInv, NoBlackToWhite, GrayRoots
<1>7. Phases' /\ Quiet'
  BY DEF TypeOK, Phases, Quiet, OldOnly
<1> QED BY <1>1, <1>2, <1>3, <1>4, <1>5, <1>6, <1>7

\* The same for a large object.  Its address is free, so it is not being swept.
LEMMA MallocYoungRawStep ==
    ASSUME Inv, NEW a \in Addr, MallocYoungRaw(a)
    PROVE  Inv'
<1> USE AddrAssumption DEF Inv, MallocYoungRaw, Born,
        Addr, Young, Kept, Handles, program, barrier, major
<1>1. TypeOK'
  BY DEF TypeOK, Ref, States
<1>2. OldOnly'
  BY DEF TypeOK, OldOnly, Quiet
<1>3. KeptClosed' /\ FreeIsClear'
  BY DEF TypeOK, OldOnly, KeptClosed, FreeIsClear, Quiet, Phases
<1>4. YoungPointersRecorded' /\ Watched'
  BY DEF TypeOK, OldOnly, KeptClosed, FreeIsClear, Quiet, Watched,
         YoungPointersRecorded
<1>5. PrebuiltInv'
  BY DEF TypeOK, OldOnly, Quiet, Phases, PrebuiltInv
<1>6. NoBlackToWhite' /\ GrayRoots'
  BY DEF TypeOK, OldOnly, KeptClosed, FreeIsClear, Watched, Quiet, Phases,
         PrebuiltInv, NoBlackToWhite, GrayRoots
<1>7. Phases' /\ Quiet'
  BY DEF TypeOK, Phases, Quiet, OldOnly
<1> QED BY <1>1, <1>2, <1>3, <1>4, <1>5, <1>6, <1>7

\* An object born old is watched from the start.
LEMMA MallocOldStep ==
    ASSUME Inv, NEW a \in Addr, MallocOld(a)
    PROVE  Inv'
<1> USE AddrAssumption DEF Inv, MallocOld, Born,
        Addr, Young, Kept, Handles, program, barrier, major
<1>1. TypeOK'
  BY DEF TypeOK, Ref, States
<1>2. OldOnly'
  BY DEF TypeOK, OldOnly, Quiet
<1>3. KeptClosed' /\ FreeIsClear'
  BY DEF TypeOK, OldOnly, KeptClosed, FreeIsClear, Quiet, Phases
<1>4. YoungPointersRecorded' /\ Watched'
  BY DEF TypeOK, OldOnly, KeptClosed, FreeIsClear, Quiet, Watched,
         YoungPointersRecorded
<1>5. PrebuiltInv'
  BY DEF TypeOK, OldOnly, Quiet, Phases, PrebuiltInv
<1>6. NoBlackToWhite' /\ GrayRoots'
  BY DEF TypeOK, OldOnly, KeptClosed, FreeIsClear, Watched, Quiet, Phases,
         PrebuiltInv, NoBlackToWhite, GrayRoots
<1>7. Phases' /\ Quiet'
  BY DEF TypeOK, Phases, Quiet, OldOnly
<1> QED BY <1>1, <1>2, <1>3, <1>4, <1>5, <1>6, <1>7

\* What is read is kept, because what the program names is.
LEMMA ReadStep ==
    ASSUME Inv, NEW x \in Addr, Read(x)
    PROVE  Inv'
<1> USE AddrAssumption DEF Inv, Read,
        Addr, Young, Kept, Handles, program, barrier, major
<1>1. TypeOK'
  BY DEF TypeOK, Ref, States
<1>2. OldOnly'
  BY DEF TypeOK, OldOnly, Quiet
<1>3. KeptClosed' /\ FreeIsClear'
  BY DEF TypeOK, OldOnly, KeptClosed, FreeIsClear, Quiet, Phases
<1>4. YoungPointersRecorded' /\ Watched'
  BY DEF TypeOK, OldOnly, KeptClosed, FreeIsClear, Quiet, Watched,
         YoungPointersRecorded
<1>5. PrebuiltInv'
  BY DEF TypeOK, OldOnly, Quiet, Phases, PrebuiltInv
<1>6. NoBlackToWhite' /\ GrayRoots'
  BY DEF TypeOK, OldOnly, KeptClosed, FreeIsClear, Watched, Quiet, Phases,
         PrebuiltInv, NoBlackToWhite, GrayRoots
<1>7. Phases' /\ Quiet'
  BY DEF TypeOK, Phases, Quiet, OldOnly
<1> QED BY <1>1, <1>2, <1>3, <1>4, <1>5, <1>6, <1>7

\* Less on the stack asks for less.
LEMMA DropStep ==
    ASSUME Inv, NEW x \in Addr, Drop(x)
    PROVE  Inv'
<1> USE AddrAssumption DEF Inv, Drop,
        Addr, Young, Kept, Handles, program, barrier, major
<1>1. TypeOK'
  BY DEF TypeOK, Ref, States
<1>2. OldOnly'
  BY DEF TypeOK, OldOnly, Quiet
<1>3. KeptClosed' /\ FreeIsClear'
  BY DEF TypeOK, OldOnly, KeptClosed, FreeIsClear, Quiet, Phases
<1>4. YoungPointersRecorded' /\ Watched'
  BY DEF TypeOK, OldOnly, KeptClosed, FreeIsClear, Quiet, Watched,
         YoungPointersRecorded
<1>5. PrebuiltInv'
  BY DEF TypeOK, OldOnly, Quiet, Phases, PrebuiltInv
<1>6. NoBlackToWhite' /\ GrayRoots'
  BY DEF TypeOK, OldOnly, KeptClosed, FreeIsClear, Watched, Quiet, Phases,
         PrebuiltInv, NoBlackToWhite, GrayRoots
<1>7. Phases' /\ Quiet'
  BY DEF TypeOK, Phases, Quiet, OldOnly
<1> QED BY <1>1, <1>2, <1>3, <1>4, <1>5, <1>6, <1>7

\* The barrier records an object that was watched; one that was not is young or
\* recorded already, and its colour is of no importance until the next minor collection.
LEMMA WriteStep ==
    ASSUME Inv, NEW x \in Addr, NEW v \in Ref, Write(x, v)
    PROVE  Inv'
<1> USE AddrAssumption DEF Inv, Write, WriteBarrier, Ref,
        Addr, Young, Kept, Handles, program, barrier, major
<1>1. TypeOK'
  BY DEF TypeOK, Ref, States
<1>2. OldOnly'
  BY DEF TypeOK, OldOnly, Quiet
<1>3. KeptClosed' /\ FreeIsClear'
  BY DEF TypeOK, OldOnly, KeptClosed, FreeIsClear, Quiet, Phases
<1>4. YoungPointersRecorded' /\ Watched'
  BY DEF TypeOK, OldOnly, KeptClosed, FreeIsClear, Quiet, Watched,
         YoungPointersRecorded
<1>5. PrebuiltInv'
  BY DEF TypeOK, OldOnly, Quiet, Phases, PrebuiltInv
<1>6. NoBlackToWhite' /\ GrayRoots'
  BY DEF TypeOK, OldOnly, KeptClosed, FreeIsClear, Watched, Quiet, Phases,
         PrebuiltInv, NoBlackToWhite, GrayRoots
<1>7. Phases' /\ Quiet'
  BY DEF TypeOK, Phases, Quiet, OldOnly
<1> QED BY <1>1, <1>2, <1>3, <1>4, <1>5, <1>6, <1>7

\* Marking begins with nothing black and every root gray.
LEMMA StartMarkingStep ==
    ASSUME Inv, StartMarking
    PROVE  Inv'
<1> USE AddrAssumption DEF Inv, StartMarking, StepAllowed,
        Addr, Young, Kept, Handles, program, barrier, major
<1>1. TypeOK'
  BY DEF TypeOK, Ref, States, OldOnly, KeptClosed, Quiet, Phases, PrebuiltInv
<1>2. OldOnly'
  BY DEF TypeOK, OldOnly, KeptClosed, Quiet, Phases, PrebuiltInv
<1>3. KeptClosed' /\ FreeIsClear'
  BY DEF TypeOK, OldOnly, KeptClosed, FreeIsClear, Quiet, Phases
<1>4. YoungPointersRecorded' /\ Watched'
  BY DEF TypeOK, OldOnly, KeptClosed, FreeIsClear, Quiet, Watched,
         YoungPointersRecorded
<1>5. PrebuiltInv'
  BY DEF TypeOK, OldOnly, Quiet, Phases, PrebuiltInv
<1>6. NoBlackToWhite' /\ GrayRoots'
  BY DEF TypeOK, OldOnly, KeptClosed, FreeIsClear, Watched, Quiet, Phases,
         PrebuiltInv, NoBlackToWhite, GrayRoots
<1>7. Phases' /\ Quiet'
  BY DEF TypeOK, Phases, Quiet, OldOnly
<1> QED BY <1>1, <1>2, <1>3, <1>4, <1>5, <1>6, <1>7

\* The object visited becomes black after its references have become gray.
LEMMA MarkStepStep ==
    ASSUME Inv, NEW o \in Addr, MarkStep(o)
    PROVE  Inv'
<1> USE AddrAssumption DEF Inv, MarkStep, StepAllowed, Skipped, Fields,
        Addr, Young, Kept, Handles, program, barrier, major
<1>1. TypeOK'
  BY DEF TypeOK, Ref, States, OldOnly, KeptClosed, Quiet, Phases, PrebuiltInv
<1>2. OldOnly'
  BY DEF TypeOK, OldOnly, KeptClosed, Quiet, Phases, PrebuiltInv
<1>3. KeptClosed' /\ FreeIsClear'
  BY DEF TypeOK, OldOnly, KeptClosed, FreeIsClear, Quiet, Phases
<1>4. YoungPointersRecorded' /\ Watched'
  BY DEF TypeOK, OldOnly, KeptClosed, FreeIsClear, Quiet, Watched,
         YoungPointersRecorded
<1>5. PrebuiltInv'
  BY DEF TypeOK, OldOnly, Quiet, Phases, PrebuiltInv
<1>6. NoBlackToWhite' /\ GrayRoots'
  BY DEF TypeOK, OldOnly, KeptClosed, FreeIsClear, Watched, Quiet, Phases,
         PrebuiltInv, NoBlackToWhite, GrayRoots
<1>7. Phases' /\ Quiet'
  BY DEF TypeOK, Phases, Quiet, OldOnly
<1> QED BY <1>1, <1>2, <1>3, <1>4, <1>5, <1>6, <1>7

\* What is freed was not kept, and what loses its mark leaves the sweep.
LEMMA SweepStepStep ==
    ASSUME Inv, NEW o \in Addr, SweepStep(o)
    PROVE  Inv'
<1> USE AddrAssumption DEF Inv, SweepStep, StepAllowed,
        Addr, Young, Kept, Handles, program, barrier, major
<1>1. TypeOK'
  BY DEF TypeOK, Ref, States, OldOnly, KeptClosed, Quiet, Phases, PrebuiltInv
<1>2. OldOnly'
  BY DEF TypeOK, OldOnly, KeptClosed, Quiet, Phases, PrebuiltInv
<1>3. KeptClosed' /\ FreeIsClear'
  BY DEF TypeOK, OldOnly, KeptClosed, FreeIsClear, Quiet, Phases
<1>4. YoungPointersRecorded' /\ Watched'
  BY DEF TypeOK, OldOnly, KeptClosed, FreeIsClear, Quiet, Watched,
         YoungPointersRecorded
<1>5. PrebuiltInv'
  BY DEF TypeOK, OldOnly, Quiet, Phases, PrebuiltInv
<1>6. NoBlackToWhite' /\ GrayRoots'
  BY DEF TypeOK, OldOnly, KeptClosed, FreeIsClear, Watched, Quiet, Phases,
         PrebuiltInv, NoBlackToWhite, GrayRoots
<1>7. Phases' /\ Quiet'
  BY DEF TypeOK, Phases, Quiet, OldOnly
<1> QED BY <1>1, <1>2, <1>3, <1>4, <1>5, <1>6, <1>7

\* After the sweep only prebuilt roots have marks left, and they lose them.
LEMMA FinishSweepingStep ==
    ASSUME Inv, FinishSweeping
    PROVE  Inv'
<1> USE AddrAssumption DEF Inv, FinishSweeping, StepAllowed, States,
        Addr, Young, Kept, Handles, program, barrier, major
<1>1. TypeOK'
  BY DEF TypeOK, Ref, States
<1>2. OldOnly'
  BY DEF TypeOK, OldOnly, Quiet
<1>3. KeptClosed' /\ FreeIsClear'
  BY DEF TypeOK, OldOnly, KeptClosed, FreeIsClear, Quiet, Phases
<1>4. YoungPointersRecorded' /\ Watched'
  BY DEF TypeOK, OldOnly, KeptClosed, FreeIsClear, Quiet, Watched,
         YoungPointersRecorded
<1>5. PrebuiltInv'
  BY DEF TypeOK, OldOnly, Quiet, Phases, PrebuiltInv
<1>6. NoBlackToWhite' /\ GrayRoots'
  BY DEF TypeOK, OldOnly, KeptClosed, FreeIsClear, Watched, Quiet, Phases,
         PrebuiltInv, NoBlackToWhite, GrayRoots
<1>7. Phases' /\ Quiet'
  BY DEF TypeOK, Phases, Quiet, OldOnly
<1> QED BY <1>1, <1>2, <1>3, <1>4, <1>5, <1>6, <1>7

\* Nothing but gc_state changes.
LEMMA FinishFinalizingStep ==
    ASSUME Inv, FinishFinalizing
    PROVE  Inv'
<1> USE AddrAssumption DEF Inv, FinishFinalizing, StepAllowed, States,
        Addr, Young, Kept, Handles, program, barrier, major
<1>1. TypeOK'
  BY DEF TypeOK, Ref, States
<1>2. OldOnly'
  BY DEF TypeOK, OldOnly, Quiet
<1>3. KeptClosed' /\ FreeIsClear'
  BY DEF TypeOK, OldOnly, KeptClosed, FreeIsClear, Quiet, Phases
<1>4. YoungPointersRecorded' /\ Watched'
  BY DEF TypeOK, OldOnly, KeptClosed, FreeIsClear, Quiet, Watched,
         YoungPointersRecorded
<1>5. PrebuiltInv'
  BY DEF TypeOK, OldOnly, Quiet, Phases, PrebuiltInv
<1>6. NoBlackToWhite' /\ GrayRoots'
  BY DEF TypeOK, OldOnly, KeptClosed, FreeIsClear, Watched, Quiet, Phases,
         PrebuiltInv, NoBlackToWhite, GrayRoots
<1>7. Phases' /\ Quiet'
  BY DEF TypeOK, Phases, Quiet, OldOnly
<1> QED BY <1>1, <1>2, <1>3, <1>4, <1>5, <1>6, <1>7

\* What visit_all_objects marks: everything in `gray', and what it leads to.
LEMMA MarkedFacts ==
    ASSUME TypeOK, NEW gray, NEW marked,
           marked = ReachedWithin(gray, alloc \ Skipped)
    PROVE  /\ marked \subseteq alloc \ Skipped
           /\ gray \cap alloc \subseteq marked \cup Skipped
           /\ \A x \in marked : field[x] \in alloc => field[x] \in marked \cup Skipped
<1>1. marked \subseteq alloc \ Skipped
  BY ReachedInside
<1>2. gray \cap (alloc \ Skipped) \subseteq marked
  BY ReachedSeeds
<1>3. Closed(marked, alloc \ Skipped)
  BY ReachedClosed
<1> QED BY <1>1, <1>2, <1>3 DEF Closed

\* A marking step that empties objects_to_trace blackens all that is gray, so that
\* only what the barrier and the roots have set aside is left.
LEMMA MarkAllStep ==
    ASSUME Inv, MarkAll
    PROVE  Inv'
<1> DEFINE marked == ReachedWithin(toTrace, alloc \ Skipped)
<1>1. /\ marked \subseteq alloc \ Skipped
      /\ toTrace \cap alloc \subseteq marked \cup Skipped
      /\ \A x \in marked : field[x] \in alloc => field[x] \in marked \cup Skipped
  BY MarkedFacts DEF Inv
<1>2. /\ visited' = visited \cup marked
      /\ track' = track \cup marked
      /\ toTrace' = {}
      /\ gcState = "MARKING" /\ afterMinor
      /\ UNCHANGED <<program, noHeapPtrs, oldToYoung, prebuiltRoots, gcState,
                     moreToTrace, toSweep, afterMinor>>
  BY DEF MarkAll, StepAllowed, VisitAll
<1> HIDE DEF marked
<1> USE <1>1, <1>2, AddrAssumption DEF Inv, Addr, Young, Kept, Handles, program, Skipped
<1>3. TypeOK' /\ OldOnly'
  BY DEF TypeOK, Ref, States, OldOnly, Quiet
<1>4. KeptClosed' /\ FreeIsClear'
  BY DEF TypeOK, KeptClosed, FreeIsClear, Phases
<1>5. YoungPointersRecorded' /\ Watched'
  BY DEF TypeOK, Quiet, Watched, YoungPointersRecorded
<1>6. PrebuiltInv'
  BY DEF TypeOK, PrebuiltInv
<1>7. NoBlackToWhite'
  BY DEF TypeOK, OldOnly, KeptClosed, Quiet, Phases, NoBlackToWhite
<1>8. GrayRoots'
  BY DEF TypeOK, OldOnly, GrayRoots
<1>9. Phases' /\ Quiet'
  BY DEF Phases, Quiet
<1> QED BY <1>3, <1>4, <1>5, <1>6, <1>7, <1>8, <1>9

\* The end of marking: all that is kept is closed, so what is swept is garbage.
LEMMA FinishMarkingStep ==
    ASSUME Inv, FinishMarking
    PROVE  Inv'
<1> DEFINE marked == ReachedWithin(moreToTrace \cup prebuiltRoots, alloc \ Skipped)
<1>1. /\ marked \subseteq alloc \ Skipped
      /\ (moreToTrace \cup prebuiltRoots) \cap alloc \subseteq marked \cup Skipped
      /\ \A x \in marked : field[x] \in alloc => field[x] \in marked \cup Skipped
  BY MarkedFacts DEF Inv
<1>2. /\ visited' = visited \cup marked
      /\ track' = track \cup marked
      /\ toTrace = {} /\ toTrace' = {} /\ moreToTrace' = {}
      /\ toSweep' = alloc \ Prebuilt
      /\ gcState = "MARKING" /\ gcState' = "SWEEPING" /\ afterMinor
      /\ UNCHANGED <<program, noHeapPtrs, oldToYoung, prebuiltRoots, afterMinor>>
  BY DEF FinishMarking, StepAllowed, VisitAll
<1> HIDE DEF marked
<1> USE <1>1, <1>2, AddrAssumption DEF Inv, Addr, Young, Kept, Handles, program, Skipped
<1>3. TypeOK' /\ OldOnly'
  BY DEF TypeOK, Ref, States, OldOnly, Quiet
<1>4. Kept' = Prebuilt \cup visited'
  BY DEF TypeOK
<1>5. roots \subseteq Kept'
  BY <1>4 DEF TypeOK, OldOnly, GrayRoots, PrebuiltInv
<1>6. ASSUME NEW x \in Kept'
      PROVE  field[x] \in Kept' \cup {NULL}
  <2>1. field[x] \in alloc \cup {NULL}
    BY DEF TypeOK, KeptClosed, Phases
  <2>2. CASE x \in noHeapPtrs
    BY <2>2, <1>4 DEF PrebuiltInv
  <2>3. CASE x \in marked
    BY <2>1, <2>3, <1>4 DEF PrebuiltInv, TypeOK
  <2>4. CASE x \in visited
    BY <2>4, <2>1, <1>4 DEF NoBlackToWhite, Quiet, OldOnly, PrebuiltInv, TypeOK
  <2>5. x \in noHeapPtrs \cup marked \cup visited
    BY <1>4 DEF PrebuiltInv, TypeOK
  <2> QED BY <2>2, <2>3, <2>4, <2>5
<1>7. KeptClosed' /\ FreeIsClear'
  BY <1>4, <1>5, <1>6 DEF KeptClosed, FreeIsClear, Quiet
<1>8. YoungPointersRecorded' /\ Watched'
  BY DEF TypeOK, Quiet, Watched, YoungPointersRecorded
<1>9. PrebuiltInv'
  BY DEF TypeOK, PrebuiltInv
<1>10. NoBlackToWhite' /\ GrayRoots' /\ Quiet'
  BY DEF NoBlackToWhite, GrayRoots, Quiet
<1>11. Phases'
  BY DEF Phases, TypeOK, PrebuiltInv
<1> QED BY <1>3, <1>7, <1>8, <1>9, <1>10, <1>11

\* What the minor collection keeps: the young objects that a root, a recorded
\* object or another survivor refers to.
LEMMA SurvivorFacts ==
    ASSUME TypeOK
    PROVE  /\ Survivors \subseteq Young
           /\ roots \cap Young \subseteq Survivors
           /\ \A x \in Survivors \cup oldToYoung : field[x] \in Young => field[x] \in Survivors
<1>1. Survivors \subseteq Young
  BY ReachedInside DEF Survivors
<1>2. (roots \cup Fields(oldToYoung)) \cap Young \subseteq Survivors
  BY ReachedSeeds DEF Survivors
<1>3. Closed(Survivors, Young)
  BY ReachedClosed DEF Survivors
<1>4. NULL \notin Young
  BY AddrAssumption DEF TypeOK, Young, Addr
<1> QED BY <1>1, <1>2, <1>3, <1>4 DEF Closed, Fields

\* A minor collection moves the survivors and redirects every reference to them.
LEMMA MinorStep ==
    ASSUME Inv, Minor
    PROVE  Inv'
<1> PICK place \in NewPlaces :
        LET moved == DOMAIN place
            Move(a) == IF a \in moved THEN place[a] ELSE a
            Origin(a) == CHOOSE b \in moved : place[b] = a
            promoted == {place[a] : a \in moved}
            stayed == Survivors \cap youngRaw
        IN  /\ alloc' = (alloc \ Young) \cup promoted \cup stayed
            /\ roots' = {Move(a) : a \in roots}
            /\ field' = [a \in Addr |->
                   IF a \in promoted THEN Move(field[Origin(a)])
                   ELSE IF a \in Traced THEN Move(field[a])
                   ELSE IF a \in Young THEN NULL
                   ELSE field[a]]
            /\ youngRaw' = {}
            /\ track' = track \cup promoted \cup Traced
            /\ oldToYoung' = {}
            /\ visited' = visited \ Modified
            /\ moreToTrace' = moreToTrace \cup Modified
                                 \cup WhiteRoots(roots', visited')
            /\ afterMinor' = TRUE
            /\ UNCHANGED <<noHeapPtrs, prebuiltRoots, gcState, toTrace, toSweep>>
  BY DEF Minor
<1> DEFINE moved == Survivors \cap Nursery
           stayed == Survivors \cap youngRaw
           promoted == {place[a] : a \in moved}
           Move(a) == IF a \in moved THEN place[a] ELSE a
           Origin(a) == CHOOSE b \in moved : place[b] = a
\* The survivors, and where they are going.
<1>1. /\ place \in [moved -> Old \ alloc]
      /\ \A a, b \in moved : place[a] = place[b] => a = b
  BY DEF NewPlaces
<1>2. DOMAIN place = moved
  BY <1>1
<1>3. /\ Survivors \subseteq Young
      /\ roots \cap Young \subseteq Survivors
      /\ \A x \in Survivors \cup oldToYoung : field[x] \in Young => field[x] \in Survivors
  BY SurvivorFacts DEF Inv
<1>4. /\ promoted \subseteq Old \ alloc
      /\ stayed \subseteq Old \cap alloc
      /\ moved \cup stayed = Survivors
  BY <1>1, <1>3 DEF Inv, TypeOK, Young
\* What Minor does, in these terms.
<1>5. /\ alloc' = (alloc \ Young) \cup promoted \cup stayed
      /\ roots' = {Move(a) : a \in roots}
      /\ youngRaw' = {}
      /\ track' = track \cup promoted \cup oldToYoung \cup stayed
      /\ oldToYoung' = {}
      /\ visited' = visited \ Modified
      /\ moreToTrace' = moreToTrace \cup Modified \cup WhiteRoots(roots', visited')
      /\ afterMinor' = TRUE
      /\ UNCHANGED <<noHeapPtrs, prebuiltRoots, gcState, toTrace, toSweep>>
  BY <1>2 DEF Traced
<1>6. field' = [a \in Addr |->
                   IF a \in promoted THEN Move(field[Origin(a)])
                   ELSE IF a \in oldToYoung \cup stayed THEN Move(field[a])
                   ELSE IF a \in Young THEN NULL
                   ELSE field[a]]
  BY <1>2 DEF Traced
<1>7. ASSUME NEW a \in promoted
      PROVE  \E b \in moved : place[b] = a /\ field'[a] = Move(field[b])
  <2>1. PICK b \in moved : place[b] = a
    OBVIOUS
  <2>2. Origin(a) \in moved /\ place[Origin(a)] = a
    BY <2>1
  <2>3. a \in Addr
    BY <1>4 DEF Addr
  <2> QED BY <2>2, <2>3, <1>6
<1>8. /\ \A a \in oldToYoung \cup stayed : field'[a] = Move(field[a])
      /\ \A a \in Addr \ (promoted \cup oldToYoung \cup stayed) :
            field'[a] = IF a \in Young THEN NULL ELSE field[a]
  <2>1. oldToYoung \cup stayed \subseteq Addr \ promoted
    BY <1>4 DEF Inv, TypeOK
  <2> QED BY <2>1, <1>6
<1> HIDE DEF promoted, stayed, moved, Origin
\* Nothing is young any more, and everything worth keeping is kept.
<1>9. /\ Young' = {}
      /\ Kept' = (Kept \ Young) \cup promoted \cup stayed
  <2>1. promoted \cap Nursery = {} /\ stayed \cap Nursery = {}
    BY <1>4, AddrAssumption
  <2>2. Young' = {}
    BY <2>1, <1>5 DEF Young
  <2>3. toSweep' \ visited' = toSweep \ visited
    BY <1>5 DEF Modified, Inv, Phases
  <2>4. (promoted \cup stayed) \cap toSweep = {}
    BY <1>4, <1>3 DEF Inv, OldOnly, stayed
  <2> QED BY <2>2, <2>3, <2>4, <1>5 DEF Kept
\* Every reference that is followed leads to an object, where it is now.
<1>10. ASSUME NEW v \in Kept \cup {NULL}, v \in Young => v \in Survivors
       PROVE  Move(v) \in Kept' \cup {NULL}
  <2>1. CASE v \in moved
    BY <2>1, <1>9 DEF promoted
  <2>2. CASE v \in stayed
    <3>1. v \notin moved
      BY <2>2, <1>4, AddrAssumption DEF moved
    <3> QED BY <2>2, <3>1, <1>9
  <2>3. CASE v \notin Survivors
    BY <2>3, <1>10, <1>9, <1>4
  <2> QED BY <2>1, <2>2, <2>3, <1>4
<1>11. ASSUME NEW x \in Kept'
       PROVE  field'[x] \in Kept' \cup {NULL}
  <2>1. CASE x \in promoted
    <3>1. PICK b \in moved : field'[x] = Move(field[b])
      BY <2>1, <1>7
    <3>2. b \in Survivors /\ b \in Kept
      BY <1>4, <1>3 DEF Inv, OldOnly, TypeOK, Kept, Young
    <3>3. field[b] \in Kept \cup {NULL} /\ (field[b] \in Young => field[b] \in Survivors)
      BY <3>2, <1>3 DEF Inv, KeptClosed
    <3> QED BY <3>1, <3>3, <1>10
  <2>2. CASE x \in oldToYoung \cup stayed
    <3>1. x \in Kept
      BY <2>2, <1>4, <1>3 DEF Inv, KeptClosed, OldOnly, Kept, Young
    <3>2. x \in Survivors \cup oldToYoung
      BY <2>2, <1>4
    <3>3. field[x] \in Kept \cup {NULL} /\ (field[x] \in Young => field[x] \in Survivors)
      BY <3>1, <3>2, <1>3 DEF Inv, KeptClosed
    <3>4. field'[x] = Move(field[x])
      BY <2>2, <1>8
    <3> QED BY <3>3, <3>4, <1>10
  <2>3. CASE x \notin promoted \cup oldToYoung \cup stayed
    <3>1. x \in Kept \ Young /\ x \in Addr
      BY <2>3, <1>9 DEF Inv, TypeOK, Kept
    <3>2. field'[x] = field[x]
      BY <2>3, <3>1, <1>8
    <3>3. field[x] \in (Kept \ Young) \cup {NULL}
      BY <2>3, <3>1 DEF Inv, KeptClosed, YoungPointersRecorded
    <3> QED BY <3>2, <3>3, <1>9
  <2> QED BY <2>1, <2>2, <2>3
<1>12. roots' \subseteq Kept'
  <2> SUFFICES ASSUME NEW a \in roots PROVE Move(a) \in Kept'
    BY <1>5
  <2>1. a \in Kept /\ (a \in Young => a \in Survivors) /\ a # NULL
    BY <1>3, AddrAssumption DEF Inv, KeptClosed, Handles, TypeOK
  <2>2. Move(a) # NULL
    BY <2>1, <1>4, AddrAssumption DEF promoted, Addr
  <2> QED BY <2>1, <2>2, <1>10
<1>13. ASSUME NEW x \in Addr
       PROVE  field'[x] \in Ref
  <2>1. CASE x \in Kept'
    BY <2>1, <1>11, <1>5, <1>4 DEF Kept, Inv, TypeOK, Ref, Addr
  <2>2. CASE x \notin Kept'
    <3>1. x \notin promoted \cup stayed \cup oldToYoung
      BY <2>2, <1>9 DEF Inv, KeptClosed, OldOnly
    <3> QED BY <3>1, <1>8 DEF Inv, TypeOK, Ref
  <2> QED BY <2>1, <2>2
<1>14. roots' \subseteq alloc' /\ Kept' \subseteq alloc' /\ alloc' \subseteq Addr
  BY <1>12, <1>5, <1>4 DEF Kept, Inv, TypeOK, Addr
<1>15. (alloc \ Young) \subseteq alloc' \ Young' /\ Modified \subseteq oldToYoung
  BY <1>5, <1>9 DEF Modified
<1> USE DEF Inv
<1>16. TypeOK'
  <2>1. field' \in [Addr -> Ref]
    BY <1>6, <1>13
  <2>2. Prebuilt \subseteq alloc'
    BY <1>15, AddrAssumption DEF TypeOK, Young
  <2>3. track' \subseteq alloc' /\ visited' \subseteq alloc' /\ moreToTrace' \subseteq alloc'
    BY <1>5, <1>14, <1>15 DEF OldOnly, WhiteRoots
  <2> QED BY <2>1, <2>2, <2>3, <1>5, <1>14 DEF TypeOK, States
<1>17. OldOnly'
  BY <1>5, <1>9, <1>14, <1>15 DEF OldOnly, WhiteRoots
<1>18. KeptClosed'
  <2>1. Prebuilt \subseteq Kept'
    BY <1>9, AddrAssumption DEF KeptClosed, Handles, Young, TypeOK
  <2> QED BY <2>1, <1>5, <1>11, <1>12 DEF KeptClosed, Handles
<1>19. FreeIsClear'
  <2> SUFFICES ASSUME NEW a \in Addr, a \notin alloc' PROVE field'[a] = NULL
    BY DEF FreeIsClear
  <2>1. a \notin promoted \cup oldToYoung \cup stayed
    BY <1>5, <1>15, <1>14 DEF OldOnly
  <2> QED BY <2>1, <1>8, <1>15 DEF FreeIsClear, TypeOK
<1>20. YoungPointersRecorded'
  BY <1>9 DEF YoungPointersRecorded
<1>21. Watched'
  BY <1>5, <1>9 DEF Watched
<1>22. PrebuiltInv'
  <2>1. ASSUME NEW x \in noHeapPtrs PROVE field'[x] \in Prebuilt \cup {NULL}
    <3>1. x \in Addr /\ x \notin promoted /\ x \notin Young
      BY <1>4, AddrAssumption DEF TypeOK, Addr, Young
    <3>2. field[x] \in Prebuilt \cup {NULL} /\ Move(field[x]) = field[x]
      BY AddrAssumption DEF PrebuiltInv, moved, Addr
    <3> QED BY <3>1, <3>2, <1>8
  <2> QED BY <2>1, <1>5 DEF PrebuiltInv
<1>23. NoBlackToWhite'
  <2> SUFFICES ASSUME gcState = "MARKING", NEW x \in visited'
               PROVE  field'[x] \in visited' \cup toTrace' \cup moreToTrace'
                                       \cup Prebuilt \cup {NULL}
    BY <1>5 DEF NoBlackToWhite
  <2>1. x \in visited /\ x \notin oldToYoung
    BY <1>5 DEF Modified
  <2>2. x \in alloc \ Young /\ x \in Addr
    BY <2>1 DEF OldOnly, TypeOK
  <2>3. field'[x] = field[x]
    BY <2>1, <2>2, <1>3, <1>4, <1>8
  <2> QED BY <2>1, <2>3, <1>5 DEF NoBlackToWhite
<1>24. GrayRoots'
  BY <1>5 DEF GrayRoots, WhiteRoots
<1>25. Phases'
  BY <1>5 DEF Phases, Modified, WhiteRoots
<1>26. Quiet'
  BY <1>5, <1>9 DEF Quiet
<1> QED BY <1>16, <1>17, <1>18, <1>19, <1>20, <1>21, <1>22, <1>23, <1>24, <1>25, <1>26

-----------------------------------------------------------------------------
\* The invariant speaks of the variables only.
LEMMA Stutter ==
    ASSUME Inv, UNCHANGED vars
    PROVE  Inv'
BY DEF Inv, vars, program, barrier, major, TypeOK, OldOnly, KeptClosed, FreeIsClear,
       YoungPointersRecorded, Watched, PrebuiltInv, NoBlackToWhite, GrayRoots, Phases,
       Quiet, Young, Kept, Handles

\* The inductive invariant holds in every state.
LEMMA Invariance == Spec => []Inv
<1>1. Init => Inv
  BY InitInv
<1>2. ASSUME Inv, Next PROVE Inv'
  <2>1. ASSUME NEW a \in Addr, MallocNursery(a) \/ MallocYoungRaw(a) \/ MallocOld(a)
        PROVE  Inv'
    BY <1>2, <2>1, MallocNurseryStep, MallocYoungRawStep, MallocOldStep
  <2>2. ASSUME NEW x \in Addr, Read(x) \/ Drop(x)
        PROVE  Inv'
    BY <1>2, <2>2, ReadStep, DropStep
  <2>3. ASSUME NEW x \in Addr, NEW v \in Ref, Write(x, v)
        PROVE  Inv'
    BY <1>2, <2>3, WriteStep
  <2>4. CASE Minor
    BY <1>2, <2>4, MinorStep
  <2>5. CASE StartMarking \/ MarkAll \/ FinishMarking \/ FinishSweeping \/ FinishFinalizing
    BY <1>2, <2>5, StartMarkingStep, MarkAllStep, FinishMarkingStep, FinishSweepingStep,
       FinishFinalizingStep
  <2>6. ASSUME NEW o \in Addr, MarkStep(o) \/ SweepStep(o)
        PROVE  Inv'
    BY <1>2, <2>6, MarkStepStep, SweepStepStep
  <2> QED BY <1>2, <2>1, <2>2, <2>3, <2>4, <2>5, <2>6 DEF Next, Mutator, MajorStep, AmpleStep
<1>3. ASSUME Inv, UNCHANGED vars PROVE Inv'
  BY <1>3, Stutter
<1> QED BY <1>1, <1>2, <1>3, PTL DEF Spec

\* What the program can reach is kept: `Kept' is closed and holds the handles.
LEMMA ReachableKept ==
    ASSUME Inv
    PROVE  Reachable \subseteq Kept
<1>1. Kept \in SUBSET Addr
  BY DEF Inv, TypeOK, Kept
<1>2. Handles \subseteq Kept /\ Closed(Kept, Addr)
  BY AddrAssumption DEF Inv, KeptClosed, Closed
<1> QED BY <1>1, <1>2, ReachedLeast DEF Reachable

\* Every variable keeps to its type.
THEOREM Typing == Spec => []TypeOK
<1>1. Inv => TypeOK
  BY DEF Inv
<1> QED BY <1>1, Invariance, PTL

\* No reference the program can reach, from its stack or from the prebuilt
\* objects, leads to memory that was freed or moved away from.
THEOREM NothingDangles == Spec => []NoDangling
<1>1. Inv => NoDangling
  BY ReachableKept DEF Inv, KeptClosed, NoDangling, Kept
<1> QED BY <1>1, Invariance, PTL

\* What the sweep has not looked at and will free is out of the program's reach.
THEOREM OnlyGarbageIsSwept == Spec => []SweepsGarbageOnly
<1>1. Inv => SweepsGarbageOnly
  BY ReachableKept DEF SweepsGarbageOnly, Kept
<1> QED BY <1>1, Invariance, PTL

\* The write barrier records every old object that refers to a young one.
THEOREM BarrierRecords == Spec => []YoungPointersRecorded
<1>1. Inv => YoungPointersRecorded
  BY DEF Inv
<1> QED BY <1>1, Invariance, PTL

\* Marking is tri-coloured: no black object that a minor collection is not about
\* to make gray refers to a white one that still has to be found.
THEOREM TriColour == Spec => []NoBlackToWhite
<1>1. Inv => NoBlackToWhite
  BY DEF Inv
<1> QED BY <1>1, Invariance, PTL

\* A collection leaves no mark behind for the next one.
THEOREM MarksAreCleared == Spec => []NoMarksBetweenCollections
<1>1. Inv => NoMarksBetweenCollections
  BY DEF Inv, Phases, NoMarksBetweenCollections
<1> QED BY <1>1, Invariance, PTL

-----------------------------------------------------------------------------
(* The collector is invisible. *)

\* What the program can reach, and what a minor collection leaves to it.
Live == {x \in Kept : x \in Young => x \in Survivors}

LEMMA LiveFacts ==
    ASSUME Inv
    PROVE  /\ Live \subseteq alloc /\ alloc \subseteq Addr /\ NULL \notin Addr
           /\ Handles \subseteq Live
           /\ \A x \in Live : field[x] \in Live \cup {NULL}
           /\ Reachable \subseteq Live
<1>1. /\ Live \subseteq alloc /\ alloc \subseteq Addr /\ NULL \notin Addr
      /\ Prebuilt \cap Young = {}
  BY AddrAssumption DEF Inv, TypeOK, Live, Kept, Addr, Young
<1>2. /\ roots \cap Young \subseteq Survivors
      /\ \A x \in Survivors \cup oldToYoung : field[x] \in Young => field[x] \in Survivors
  BY SurvivorFacts DEF Inv
<1>3. Handles \subseteq Live
  BY <1>1, <1>2 DEF Inv, KeptClosed, Live, Handles
<1>4. ASSUME NEW x \in Live PROVE field[x] \in Live \cup {NULL}
  <2>1. x \in Kept /\ field[x] \in Kept \cup {NULL}
    BY DEF Live, Inv, KeptClosed
  <2>2. field[x] \in Young => x \in Survivors \cup oldToYoung
    BY <2>1 DEF Live, Inv, YoungPointersRecorded
  <2> QED
    BY <1>2, <2>1, <2>2 DEF Live
<1>5. Live \in SUBSET Addr /\ Handles \cap Addr \subseteq Live /\ Closed(Live, Addr)
  BY <1>1, <1>3, <1>4 DEF Closed
<1>6. Reachable \subseteq Live
  BY <1>5, ReachedLeast DEF Reachable
<1> QED
  BY <1>1, <1>3, <1>4, <1>6

\* Where a minor collection puts the objects.
LEMMA MinorMoves ==
    ASSUME Inv, Minor
    PROVE  \E move \in [Ref -> Ref] :
              /\ \A a, b \in Live : move[a] = move[b] => a = b
              /\ \A a \in Ref \ Nursery : move[a] = a
              /\ \A a \in Live : move[a] \in Addr
              /\ roots' = {move[a] : a \in roots}
              /\ \A a \in Live : field'[move[a]] = move[field[a]]
<1> DEFINE moved == Survivors \cap Nursery
           stayed == Survivors \cap youngRaw
           Promoted(place) == {place[a] : a \in moved}
           Move(place, a) == IF a \in moved THEN place[a] ELSE a
           Origin(place, a) == CHOOSE b \in moved : place[b] = a
<1>1. PICK place \in NewPlaces :
         /\ DOMAIN place = moved
         /\ roots' = {Move(place, a) : a \in roots}
         /\ field' = [a \in Addr |->
               IF a \in Promoted(place) THEN Move(place, field[Origin(place, a)])
               ELSE IF a \in oldToYoung \cup stayed THEN Move(place, field[a])
               ELSE IF a \in Young THEN NULL
               ELSE field[a]]
  <2>1. PICK place \in NewPlaces :
        LET there == DOMAIN place
            To(a) == IF a \in there THEN place[a] ELSE a
            From(a) == CHOOSE b \in there : place[b] = a
            promoted == {place[a] : a \in there}
        IN  /\ roots' = {To(a) : a \in roots}
            /\ field' = [a \in Addr |->
                   IF a \in promoted THEN To(field[From(a)])
                   ELSE IF a \in Traced THEN To(field[a])
                   ELSE IF a \in Young THEN NULL
                   ELSE field[a]]
    BY DEF Minor
  <2>2. DOMAIN place = moved
    BY DEF NewPlaces
  <2>3. Traced = oldToYoung \cup stayed
    BY DEF Traced
  <2> QED
    BY <2>1, <2>2, <2>3
<1>2. /\ place \in [moved -> Old \ alloc]
      /\ \A a, b \in moved : place[a] = place[b] => a = b
  BY DEF NewPlaces
<1>3. /\ Survivors \subseteq Young
      /\ \A x \in Survivors \cup oldToYoung : field[x] \in Young => field[x] \in Survivors
  BY SurvivorFacts DEF Inv
<1>4. /\ Live \subseteq alloc /\ alloc \subseteq Addr /\ NULL \notin Addr
      /\ Handles \subseteq Live /\ \A x \in Live : field[x] \in Live \cup {NULL}
  BY LiveFacts
<1>5. /\ field \in [Addr -> Ref] /\ youngRaw \subseteq Old \cap alloc
      /\ Young = (alloc \cap Nursery) \cup youngRaw
      /\ Addr = Nursery \cup Old \cup Prebuilt /\ Ref = Addr \cup {NULL} /\ Nursery \cap Old = {}
      /\ oldToYoung \subseteq alloc \ Young
  BY AddrAssumption DEF Inv, TypeOK, OldOnly, Young, Addr, Ref
<1> DEFINE move == [a \in Ref |-> Move(place, a)]
<1>6. move \in [Ref -> Ref]
  BY <1>2, <1>5
<1>7. \A a \in Ref : move[a] = IF a \in moved THEN place[a] ELSE a
  OBVIOUS
<1>8. ASSUME NEW a \in Promoted(place)
      PROVE  \E b \in moved : place[b] = a /\ field'[a] = Move(place, field[b])
  <2>1. PICK b \in moved : place[b] = a
    OBVIOUS
  <2>2. Origin(place, a) \in moved /\ place[Origin(place, a)] = a
    BY <2>1
  <2>3. a \in Addr
    BY <1>2, <1>5
  <2> QED
    BY <1>1, <2>2, <2>3
<1>9. ASSUME NEW a \in Addr, a \notin Promoted(place)
      PROVE  field'[a] = IF a \in oldToYoung \cup stayed THEN Move(place, field[a])
                         ELSE IF a \in Young THEN NULL ELSE field[a]
  BY <1>1, <1>9
<1>10. \A a \in moved : place[a] \in Promoted(place) /\ place[a] \notin alloc
                           /\ place[a] \in Addr
  BY <1>2, <1>5
<1>11. \A a \in Promoted(place) : a \notin alloc
  BY <1>2
<1>12. \A a \in Live : a \in Ref /\ a \in alloc
  BY <1>4, <1>5
<1>13. \A v \in Live \cup {NULL} : move[v] = Move(place, v)
  BY <1>5, <1>12
<1> HIDE DEF move
<1>14. ASSUME NEW a \in Live, NEW b \in Live, move[a] = move[b] PROVE a = b
  BY <1>2, <1>7, <1>10, <1>12, <1>14
<1>15. \A a \in Ref \ Nursery : move[a] = a
  BY <1>7
<1>16. ASSUME NEW a \in Live PROVE move[a] \in Addr
  BY <1>4, <1>7, <1>10, <1>12
<1>17. roots' = {move[a] : a \in roots}
  BY <1>1, <1>4, <1>13 DEF Handles
<1>18. ASSUME NEW a \in Live PROVE field'[move[a]] = move[field[a]]
  <2>1. field[a] \in Live \cup {NULL} /\ move[field[a]] = Move(place, field[a])
    BY <1>4, <1>13
  <2>2. CASE a \in moved
    <3>1. move[a] = place[a] /\ place[a] \in Promoted(place)
      BY <1>7, <1>10, <1>12, <2>2
    <3>2. PICK b \in moved : place[b] = place[a] /\ field'[place[a]] = Move(place, field[b])
      BY <1>8, <3>1
    <3>3. b = a
      BY <1>2, <2>2, <3>2
    <3> QED
      BY <2>1, <3>1, <3>2, <3>3
  <2>3. CASE a \notin moved
    <3>1. move[a] = a /\ a \in Addr /\ a \notin Promoted(place)
      BY <1>4, <1>7, <1>11, <1>12, <2>3
    <3>2. CASE a \in oldToYoung \cup stayed
      BY <1>9, <2>1, <3>1, <3>2
    <3>3. CASE a \notin oldToYoung \cup stayed
      <4>1. a \notin Young
        BY <1>3, <1>5, <2>3, <3>3 DEF Live
      <4>2. field'[a] = field[a]
        BY <1>9, <3>1, <3>3, <4>1
      <4>3. field[a] \notin moved
        <5>1. field[a] \notin Young
          BY <3>3, <4>1 DEF Live, Inv, YoungPointersRecorded
        <5> QED
          BY <1>3, <5>1
      <4> QED
        BY <2>1, <3>1, <4>2, <4>3
    <3> QED
      BY <3>2, <3>3
  <2> QED
    BY <2>2, <2>3
<1> QED
  BY <1>6, <1>14, <1>15, <1>16, <1>17, <1>18

\* After a step, what is reached is the same as before under a map of the objects.
LEMMA SameGraphBy ==
    ASSUME Inv, NEW move \in [Ref -> Ref],
           \A a, b \in Reachable : move[a] = move[b] => a = b,
           \A a \in Ref \ Nursery : move[a] = a,
           \A a \in Reachable : move[a] \in Addr,
           roots' = {move[a] : a \in roots},
           \A a \in Reachable : field'[move[a]] = move[field[a]]
    PROVE  SameGraph
<1>1. /\ Reachable \subseteq Addr /\ Handles \cap Addr \subseteq Reachable
      /\ Closed(Reachable, Addr)
  BY ReachedSeeds, ReachedClosed, ReachedInside DEF Reachable
<1>2. /\ Handles \subseteq Addr /\ NULL \notin Addr /\ Ref = Addr \cup {NULL}
      /\ Prebuilt \subseteq Ref \ Nursery /\ NULL \in Ref \ Nursery
      /\ field \in [Addr -> Ref]
  BY AddrAssumption DEF Inv, TypeOK, Handles, Addr, Ref
<1>3. \A a \in Reachable : field[a] \in Reachable \cup {NULL}
  BY <1>1, <1>2 DEF Closed
<1>4. ASSUME NEW x, x \in Reachable', field'[x] \in Addr PROVE field'[x] \in Reachable'
  <2> SUFFICES ASSUME NEW S \in SUBSET Addr, Handles' \cap Addr \subseteq S,
                      \A y \in S : field'[y] \in Addr => field'[y] \in S
               PROVE  field'[x] \in S
    BY <1>4 DEF Reachable, ReachedWithin, Closed
  <2>1. x \in S
    BY <1>4 DEF Reachable, ReachedWithin, Closed
  <2> QED
    BY <1>4, <2>1
<1>5. Handles' \cap Addr \subseteq Reachable'
  BY DEF Reachable, ReachedWithin
<1> DEFINE T == {a \in Reachable : move[a] \in Reachable'}
<1>6. Handles \cap Addr \subseteq T
  <2>1. ASSUME NEW a \in roots PROVE a \in T
    <3>1. a \in Reachable /\ move[a] \in roots' /\ move[a] \in Addr
      BY <1>1, <1>2 DEF Handles
    <3> QED
      BY <1>5, <3>1 DEF Handles
  <2>2. ASSUME NEW a \in Prebuilt PROVE a \in T
    <3>1. a \in Reachable /\ move[a] = a /\ a \in Addr
      BY <1>1, <1>2 DEF Handles
    <3> QED
      BY <1>5, <3>1 DEF Handles
  <2> QED
    BY <2>1, <2>2 DEF Handles
<1>7. Closed(T, Addr)
  <2> SUFFICES ASSUME NEW a \in T, field[a] \in Addr PROVE field[a] \in T
    BY DEF Closed
  <2>1. field[a] \in Reachable
    BY <1>2, <1>3
  <2>2. field'[move[a]] = move[field[a]] /\ move[field[a]] \in Addr
    BY <2>1
  <2>3. move[field[a]] \in Reachable'
    BY <1>4, <2>2
  <2> QED
    BY <2>1, <2>3
<1>8. T \in SUBSET Addr
  BY <1>1
<1>9. Reachable \subseteq T
  <2> HIDE DEF T
  <2> QED
    BY <1>6, <1>7, <1>8, ReachedLeast DEF Reachable
<1> DEFINE f == [a \in Reachable |-> move[a]]
<1>10. f \in [Reachable -> Reachable']
  BY <1>9
<1>11. \A a \in Reachable : f[a] = move[a]
  OBVIOUS
<1> HIDE DEF f, T
<1>12. \A a, b \in Reachable : f[a] = f[b] => a = b
  BY <1>11
<1>13. \A a \in Reachable \ Nursery : f[a] = a
  BY <1>1, <1>2, <1>11
<1>14. roots' = {f[a] : a \in roots}
  <2>1. \A a \in roots : f[a] = move[a]
    BY <1>1, <1>2, <1>11 DEF Handles
  <2> QED
    BY <2>1
<1>15. ASSUME NEW a \in Reachable
       PROVE  field'[f[a]] = IF field[a] = NULL THEN NULL ELSE f[field[a]]
  <2>1. field'[f[a]] = move[field[a]] /\ field[a] \in Reachable \cup {NULL}
    BY <1>3, <1>11
  <2>2. move[NULL] = NULL
    BY <1>2
  <2> QED
    BY <1>1, <1>2, <1>11, <2>1, <2>2
<1> QED
  BY <1>10, <1>12, <1>13, <1>14, <1>15 DEF SameGraph

\* No step of the collector changes what the program sees: the graph of what it reaches is
\* the same after the step, up to the places of objects that have left the nursery.
THEOREM CollectorIsInvisible == Spec => CollectorInvisible
<1>1. ASSUME Inv, Minor PROVE SameGraph
  <2>1. PICK move \in [Ref -> Ref] :
           /\ \A a, b \in Live : move[a] = move[b] => a = b
           /\ \A a \in Ref \ Nursery : move[a] = a
           /\ \A a \in Live : move[a] \in Addr
           /\ roots' = {move[a] : a \in roots}
           /\ \A a \in Live : field'[move[a]] = move[field[a]]
    BY <1>1, MinorMoves
  <2>2. Reachable \subseteq Live
    BY <1>1, LiveFacts
  <2>3. /\ \A a, b \in Reachable : move[a] = move[b] => a = b
        /\ \A a \in Reachable : move[a] \in Addr
        /\ \A a \in Reachable : field'[move[a]] = move[field[a]]
    BY <2>1, <2>2
  <2> QED
    BY <1>1, <2>1, <2>3, SameGraphBy
<1>2. ASSUME Inv, MajorStep PROVE SameGraph
  <2>1. Reachable \subseteq Kept /\ Reachable \subseteq Addr
    BY <1>2, ReachableKept, ReachedInside DEF Reachable
  <2>2. roots' = roots /\ \A a \in Reachable : field'[a] = field[a]
    <3>1. ASSUME NEW o \in Addr, SweepStep(o)
          PROVE  roots' = roots /\ \A a \in Reachable : field'[a] = field[a]
      <4>1. roots' = roots /\ (field' = field \/ (o \notin Kept /\ field' = [field EXCEPT ![o] = NULL]))
        BY <3>1 DEF SweepStep, Kept
      <4>2. field \in [Addr -> Ref]
        BY <1>2 DEF Inv, TypeOK
      <4> QED
        BY <2>1, <4>1, <4>2
    <3>2. CASE UNCHANGED program
      BY <3>2 DEF program
    <3>3. UNCHANGED program \/ \E o \in Addr : SweepStep(o)
      BY <1>2 DEF MajorStep, AmpleStep, StartMarking, MarkAll, FinishMarking, FinishSweeping,
             FinishFinalizing, MarkStep
    <3> QED
      BY <3>1, <3>2, <3>3
  <2> DEFINE move == [a \in Ref |-> a]
  <2>3. move \in [Ref -> Ref] /\ \A a \in Ref : move[a] = a
    OBVIOUS
  <2>4. Addr \subseteq Ref /\ roots \subseteq Ref /\ \A a \in Addr : field[a] \in Ref
    BY <1>2 DEF Inv, TypeOK, Ref
  <2> HIDE DEF move
  <2>5. roots' = {move[a] : a \in roots}
    BY <2>2, <2>3, <2>4
  <2>6. /\ \A a, b \in Reachable : move[a] = move[b] => a = b
        /\ \A a \in Reachable : move[a] \in Addr
        /\ \A a \in Reachable : field'[move[a]] = move[field[a]]
    BY <2>1, <2>2, <2>3, <2>4
  <2> QED
    BY <1>2, <2>3, <2>5, <2>6, SameGraphBy
<1>3. Inv => [Minor \/ MajorStep => SameGraph]_vars
  BY <1>1, <1>2
<1> QED
  BY <1>3, Invariance, PTL DEF CollectorInvisible
=============================================================================
