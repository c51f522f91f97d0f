---------------------------- MODULE PinningProofs ----------------------------
(***************************************************************************)
(* Proofs about Pinning, for every size of the nursery, every set of       *)
(* addresses outside it and every number of pinned objects.                *)
(*                                                                         *)
(* For a program that does not take the id of an object while it is        *)
(* pinned, nor pins one after: with such ids NoDangling fails, as the run  *)
(* pinning_shadow shows.                                                   *)
(***************************************************************************)
EXTENDS Pinning, FiniteSetTheorems, TLAPS

-----------------------------------------------------------------------------
(* The inductive invariant. *)

\* The shadows: no object is there yet.
Reserved == {shadow[a] : a \in Nursery} \ {NULL}

\* What the sweep is going to free.
Dying == toSweep \ visited

\* What the program may refer to.
Usable == alloc \ (Dying \cup Reserved)

Types ==
    /\ alloc \subseteq Addr
    /\ field \in [Old -> Addr \cup {NULL}]
    /\ roots \subseteq Addr
    /\ free \in 1 .. End
    /\ barriers \subseteq 1 .. End
    /\ pinned \subseteq alloc \cap Nursery
    /\ shadow \in [Nursery -> Old \cup {NULL}]
    /\ handed \in [Addr -> Old \cup {NULL}]
    /\ track \cup pointingToYoung \cup pointingToPinned \subseteq Old
    /\ visited \cup gray \cup toSweep \subseteq Old
    /\ gcState \in {"SCANNING", "MARKING", "SWEEPING"}
    /\ afterMinor \in BOOLEAN

\* The program gets from what it may refer to only to such objects.
Closed ==
    /\ roots \subseteq Usable
    /\ \A x \in Usable \cap Old : field[x] \in Usable \cup {NULL}

\* Free memory and shadows hold no reference.
Blank == \A x \in Old : x \notin alloc \/ x \in Reserved => field[x] = NULL

\* A shadow belongs to one object of the nursery, which is not pinned.
Shadows ==
    /\ Ids = "none" => \A a \in Nursery : shadow[a] = NULL
    /\ \A a \in Nursery : shadow[a] # NULL =>
          a \in alloc /\ a \notin pinned /\ shadow[a] \in alloc
    /\ \A a, b \in Nursery : shadow[a] # NULL /\ shadow[a] = shadow[b] => a = b

Given ==
    /\ \A a \in Nursery : handed[a] = shadow[a]
    /\ \A x \in Old : handed[x] # NULL => x \in alloc /\ handed[x] = x

\* The lists of the collector hold only what is not going to be freed.
Lists ==
    /\ pointingToYoung \cup pointingToPinned \cup gray \cup visited \subseteq Usable
    /\ toSweep \subseteq alloc \ Reserved

Phases ==
    /\ gcState # "MARKING" => gray = {}
    /\ gcState # "SWEEPING" => toSweep = {}
    /\ gcState = "SCANNING" => visited = {}
    /\ gcState = "SWEEPING" => visited \subseteq toSweep

\* What a minor collection leaves behind.
Stopped ==
    afterMinor =>
        /\ pointingToYoung = {}
        /\ Reserved = {}
        /\ gcState = "MARKING" => roots \cap Old \subseteq visited \cup gray

\* A black object that has not been written into refers to nothing white.
Black ==
    gcState = "MARKING" =>
        \A x \in visited \ pointingToYoung :
            field[x] \in visited \cup gray \cup Nursery \cup {NULL}

Inv == /\ Types /\ Closed /\ Blank /\ Shadows /\ Given /\ Lists /\ Phases /\ Stopped /\ Black
       /\ ParentsRecorded /\ FreeCellsAreFree

-----------------------------------------------------------------------------
(* The actions of the program. *)

LEMMA AddrFacts ==
    /\ Old \cap Nursery = {} /\ NULL \notin Old /\ NULL \notin Nursery
    /\ Addr = Nursery \cup Old /\ NULL \notin Addr
  BY AddrAssumption, SizeAssumption DEF Addr, Nursery, End

LEMMA InNursery ==
    /\ End \in Nat /\ End >= 1 /\ End \notin Nursery
    /\ \A a \in Nursery : a \in Nat /\ a \in 1 .. End /\ a + 1 \in 1 .. End
    /\ \A a \in Nursery : a + 1 \in Nat
  BY SizeAssumption DEF Nursery, End

LEMMA ReservedFacts ==
    ASSUME Inv
    PROVE  /\ \A a \in Nursery : shadow[a] # NULL => shadow[a] \in Reserved
           /\ \A s \in Reserved : s \in Old /\ s \in alloc
                                  /\ \E a \in Nursery : shadow[a] = s /\ s # NULL /\ a \notin pinned
           /\ Dying \subseteq Old /\ Reserved \cap Nursery = {} /\ Dying \cap Nursery = {}
<1>1. \A s : s \in Reserved <=> s # NULL /\ \E a \in Nursery : shadow[a] = s
  BY DEF Reserved
<1>2. Dying \subseteq Old
  BY DEF Inv, Types, Dying
<1>3. \A s \in Reserved : s \in Old /\ s \in alloc
                          /\ \E a \in Nursery : shadow[a] = s /\ s # NULL /\ a \notin pinned
  BY <1>1 DEF Inv, Types, Shadows
<1> QED
  BY <1>1, <1>2, <1>3, AddrFacts

\* A step of the program that neither creates nor moves anything.
LEMMA QuietStep ==
    ASSUME Inv, UNCHANGED <<alloc, field, ids, track, pointingToYoung, pointingToPinned, major,
                            visited, free, barriers>>,
           roots' \subseteq Usable, pinned' \subseteq alloc \cap Nursery,
           \A a \in pinned' : shadow[a] = NULL, afterMinor' = FALSE
    PROVE  Inv'
<1>1. /\ alloc' = alloc /\ field' = field /\ shadow' = shadow /\ handed' = handed
      /\ track' = track /\ pointingToYoung' = pointingToYoung
      /\ pointingToPinned' = pointingToPinned /\ gcState' = gcState /\ gray' = gray
      /\ toSweep' = toSweep /\ visited' = visited /\ free' = free /\ barriers' = barriers
  BY DEF ids, major
<1>2. Reserved' = Reserved /\ Dying' = Dying /\ Usable' = Usable
  BY <1>1 DEF Reserved, Dying, Usable
<1>3. Types'
  BY <1>1 DEF Inv, Types, Usable
<1>4. Closed' /\ Blank' /\ Given' /\ Lists' /\ Phases' /\ Stopped' /\ Black'
  BY <1>1, <1>2 DEF Inv, Closed, Blank, Given, Lists, Phases, Stopped, Black
<1>5. Shadows'
  BY <1>1 DEF Inv, Shadows
<1>6. ParentsRecorded' /\ FreeCellsAreFree'
  BY <1>1 DEF Inv, ParentsRecorded, FreeCellsAreFree
<1> QED
  BY <1>3, <1>4, <1>5, <1>6 DEF Inv

LEMMA DropStep == ASSUME Inv, NEW a, Drop(a) PROVE Inv'
<1>1. /\ UNCHANGED <<alloc, field, ids, track, pointingToYoung, pointingToPinned, major,
                     visited, free, barriers>>
      /\ roots' \subseteq roots /\ pinned' = pinned /\ afterMinor' = FALSE
  BY DEF Drop, lists, nursery
<1> QED
  BY <1>1, QuietStep DEF Inv, Closed, Types, Shadows

LEMMA ReadStep == ASSUME Inv, NEW x \in Old, Read(x) PROVE Inv'
<1>1. /\ UNCHANGED <<alloc, field, ids, track, pointingToYoung, pointingToPinned, major,
                     visited, free, barriers>>
      /\ x \in roots /\ field[x] # NULL
      /\ roots' = roots \cup {field[x]} /\ pinned' = pinned /\ afterMinor' = FALSE
  BY DEF Read, lists, nursery
<1>2. roots' \subseteq Usable
  BY <1>1 DEF Inv, Closed
<1> QED
  BY <1>1, <1>2, QuietStep DEF Inv, Types, Shadows

LEMMA PinStep == ASSUME Ids # "any", Inv, NEW a \in Nursery, Pin(a) PROVE Inv'
<1>1. /\ UNCHANGED <<alloc, field, ids, track, pointingToYoung, pointingToPinned, major,
                     visited, free, barriers>>
      /\ a \in roots /\ (Ids = "unpinned" => shadow[a] = NULL)
      /\ roots' = roots /\ pinned' = pinned \cup {a} /\ afterMinor' = FALSE
  BY DEF Pin, lists, nursery, program
<1>2. shadow[a] = NULL
  BY <1>1, IdsAssumption DEF Inv, Shadows
<1>3. roots' \subseteq Usable /\ roots \subseteq alloc
  BY <1>1 DEF Inv, Closed, Usable
<1>4. \A b \in pinned : shadow[b] = NULL
  BY DEF Inv, Shadows, Types
<1> QED
  BY <1>1, <1>2, <1>3, <1>4, QuietStep DEF Inv, Types

LEMMA UnpinStep == ASSUME Inv, NEW a \in Nursery, Unpin(a) PROVE Inv'
<1>1. /\ UNCHANGED <<alloc, field, ids, track, pointingToYoung, pointingToPinned, major,
                     visited, free, barriers>>
      /\ roots' = roots /\ pinned' = pinned \ {a} /\ afterMinor' = FALSE
  BY DEF Unpin, lists, nursery, program
<1>2. roots' \subseteq Usable
  BY <1>1 DEF Inv, Closed
<1>3. \A b \in pinned : shadow[b] = NULL
  BY DEF Inv, Shadows, Types
<1> QED
  BY <1>1, <1>2, <1>3, QuietStep DEF Inv, Types

LEMMA MallocStep == ASSUME Inv, NEW a \in Nursery, Malloc(a) PROVE Inv'
<1>1. /\ a >= free /\ a \notin barriers /\ free' = a + 1
      /\ barriers' = {b \in barriers : b > a}
      /\ alloc' = alloc \cup {a} /\ roots' = roots \cup {a} /\ afterMinor' = FALSE
      /\ field' = field /\ pinned' = pinned /\ shadow' = shadow /\ handed' = handed
      /\ track' = track /\ pointingToYoung' = pointingToYoung
      /\ pointingToPinned' = pointingToPinned /\ gcState' = gcState /\ gray' = gray
      /\ toSweep' = toSweep /\ visited' = visited
  BY DEF Malloc, ids, lists, major
<1>2. a \notin Old /\ a \notin Reserved /\ a \notin Dying
  BY AddrFacts, ReservedFacts
<1>3. Reserved' = Reserved /\ Dying' = Dying
  BY <1>1 DEF Reserved, Dying
<1>4. Usable' = Usable \cup {a}
  BY <1>1, <1>2, <1>3 DEF Usable
<1>5. Types'
  BY <1>1, AddrFacts, InNursery DEF Inv, Types
<1>6. Closed' /\ Blank' /\ Given' /\ Lists' /\ Phases' /\ Stopped' /\ Black'
  BY <1>1, <1>2, <1>3, <1>4 DEF Inv, Closed, Blank, Given, Lists, Phases, Stopped, Black
<1>7. Shadows'
  BY <1>1 DEF Inv, Shadows
<1>8. ParentsRecorded'
  BY <1>1, <1>2 DEF Inv, ParentsRecorded
<1>9. FreeCellsAreFree'
  <2> SUFFICES ASSUME NEW c \in Nursery, c >= free', c \notin barriers' PROVE c \notin alloc'
    BY DEF FreeCellsAreFree
  <2>1. a \in Nat /\ c \in Nat /\ free \in Nat
    BY InNursery, SizeAssumption DEF Inv, Types, End
  <2>2. c > a /\ c >= free /\ c # a /\ c \notin barriers
    BY <1>1, <2>1
  <2> QED
    BY <1>1, <2>2 DEF Inv, FreeCellsAreFree
<1> QED
  BY <1>5, <1>6, <1>7, <1>8, <1>9 DEF Inv

LEMMA MallocOldStep == ASSUME Inv, NEW a \in Old, MallocOld(a) PROVE Inv'
<1>1. /\ a \notin alloc
      /\ alloc' = alloc \cup {a} /\ roots' = roots \cup {a} /\ afterMinor' = FALSE
      /\ track' = track \cup {a}
      /\ free' = free /\ barriers' = barriers
      /\ field' = field /\ pinned' = pinned /\ shadow' = shadow /\ handed' = handed
      /\ pointingToYoung' = pointingToYoung
      /\ pointingToPinned' = pointingToPinned /\ gcState' = gcState /\ gray' = gray
      /\ toSweep' = toSweep /\ visited' = visited
  BY DEF MallocOld, ids, nursery, major
<1>2. a \notin Nursery /\ a \notin Reserved /\ a \notin Dying /\ a # NULL
  BY <1>1, AddrFacts, ReservedFacts DEF Inv, Lists, Dying
<1>3. Reserved' = Reserved /\ Dying' = Dying
  BY <1>1 DEF Reserved, Dying
<1>4. Usable' = Usable \cup {a} /\ field[a] = NULL
  BY <1>1, <1>2, <1>3 DEF Usable, Inv, Blank
<1>5. Types'
  BY <1>1, AddrFacts DEF Inv, Types
<1>6. Closed' /\ Blank' /\ Given' /\ Lists' /\ Phases' /\ Stopped' /\ Black'
  BY <1>1, <1>2, <1>3, <1>4 DEF Inv, Closed, Blank, Given, Lists, Phases, Stopped, Black
<1>7. Shadows'
  BY <1>1 DEF Inv, Shadows
<1>8. ParentsRecorded' /\ FreeCellsAreFree'
  BY <1>1, <1>2, <1>4, AddrFacts DEF Inv, ParentsRecorded, FreeCellsAreFree
<1> QED
  BY <1>5, <1>6, <1>7, <1>8 DEF Inv

LEMMA WriteStep == ASSUME Inv, NEW x \in Old, NEW v, Write(x, v) PROVE Inv'
<1>1. /\ x \in roots /\ v \in roots \cup {NULL}
      /\ field' = [field EXCEPT ![x] = v]
      /\ track' = track \ {x} /\ pointingToYoung' = pointingToYoung \cup {x}
      /\ afterMinor' = FALSE
      /\ alloc' = alloc /\ roots' = roots /\ free' = free /\ barriers' = barriers
      /\ pinned' = pinned /\ shadow' = shadow /\ handed' = handed
      /\ pointingToPinned' = pointingToPinned /\ gcState' = gcState /\ gray' = gray
      /\ toSweep' = toSweep /\ visited' = visited
  BY DEF Write, ids, nursery, major
<1>2. /\ \A y \in Old : field'[y] = IF y = x THEN v ELSE field[y]
      /\ v \in Usable \cup {NULL} /\ x \in Usable
      /\ x \in alloc /\ x \notin Dying /\ x \notin Reserved
  BY <1>1 DEF Inv, Types, Closed, Usable
<1>3. Reserved' = Reserved /\ Dying' = Dying /\ Usable' = Usable
  BY <1>1 DEF Reserved, Dying, Usable
<1>4. Types'
  BY <1>1, <1>2 DEF Inv, Types
<1>5. Closed'
  BY <1>1, <1>2, <1>3 DEF Inv, Closed
<1>6. Blank'
  BY <1>1, <1>2, <1>3 DEF Inv, Blank
<1>7. Given' /\ Lists' /\ Phases' /\ Stopped'
  BY <1>1, <1>2, <1>3 DEF Inv, Given, Lists, Phases, Stopped
<1>8. Black'
  BY <1>1, <1>2, AddrFacts DEF Inv, Black, Types
<1>9. Shadows'
  BY <1>1 DEF Inv, Shadows
<1>10. ParentsRecorded' /\ FreeCellsAreFree'
  BY <1>1, <1>2 DEF Inv, ParentsRecorded, FreeCellsAreFree
<1> QED
  BY <1>4, <1>5, <1>6, <1>7, <1>8, <1>9, <1>10 DEF Inv

LEMMA TakeIdStep ==
    ASSUME Ids # "any", Inv, NEW a \in Nursery, NEW s \in Old, TakeId(a, s)
    PROVE  Inv'
<1>1. /\ Ids # "none" /\ (Ids = "unpinned" => a \notin pinned)
      /\ a \in roots /\ shadow[a] = NULL /\ s \notin alloc
      /\ alloc' = alloc \cup {s}
      /\ shadow' = [shadow EXCEPT ![a] = s] /\ handed' = [handed EXCEPT ![a] = s]
      /\ afterMinor' = FALSE /\ field' = field /\ roots' = roots
      /\ free' = free /\ barriers' = barriers /\ pinned' = pinned
      /\ track' = track /\ pointingToYoung' = pointingToYoung
      /\ pointingToPinned' = pointingToPinned /\ gcState' = gcState /\ gray' = gray
      /\ toSweep' = toSweep /\ visited' = visited
  BY DEF TakeId, nursery, lists, major
<1>2. /\ \A b \in Nursery : shadow'[b] = IF b = a THEN s ELSE shadow[b]
      /\ \A x \in Addr : handed'[x] = IF x = a THEN s ELSE handed[x]
      /\ a \notin pinned /\ a \in alloc /\ s # NULL /\ s \notin Nursery /\ a \notin Old
      /\ s \notin Dying /\ s \notin Usable /\ s \notin Reserved
  BY <1>1, IdsAssumption, AddrFacts, ReservedFacts DEF Inv, Types, Closed, Usable, Lists, Dying
<1>3. Reserved' = Reserved \cup {s} /\ Dying' = Dying
  <2>1. \A x : x \in Reserved' <=> x \in Reserved \/ x = s
    BY <1>1, <1>2 DEF Reserved
  <2> QED
    BY <1>1, <2>1 DEF Dying
<1>4. Usable' = Usable /\ field[s] = NULL
  BY <1>1, <1>2, <1>3 DEF Inv, Usable, Blank
<1>5. Types'
  <2>1. shadow' \in [Nursery -> Old \cup {NULL}] /\ handed' \in [Addr -> Old \cup {NULL}]
    BY <1>1 DEF Inv, Types
  <2>2. alloc' \subseteq Addr /\ pinned' \subseteq alloc' \cap Nursery
    BY <1>1, AddrFacts DEF Inv, Types
  <2> QED
    BY <1>1, <2>1, <2>2 DEF Inv, Types
<1>6. Closed' /\ Blank'
  BY <1>1, <1>3, <1>4 DEF Inv, Closed, Blank
<1>7. Lists' /\ Phases' /\ Stopped' /\ Black'
  BY <1>1, <1>2, <1>3, <1>4 DEF Inv, Lists, Phases, Stopped, Black
<1>8. Given'
  BY <1>1, <1>2, AddrFacts DEF Inv, Given
<1>9. Shadows'
  BY <1>1, <1>2 DEF Inv, Shadows
<1>10. ParentsRecorded' /\ FreeCellsAreFree'
  BY <1>1, <1>2, <1>4, AddrFacts DEF Inv, ParentsRecorded, FreeCellsAreFree
<1> QED
  BY <1>5, <1>6, <1>7, <1>8, <1>9, <1>10 DEF Inv

-----------------------------------------------------------------------------
(* The major collection. *)

LEMMA StartMarkingStep == ASSUME Inv, StartMarking PROVE Inv'
<1>1. /\ gcState = "SCANNING" /\ gcState' = "MARKING" /\ gray' = roots \ Nursery /\ afterMinor
      /\ alloc' = alloc /\ field' = field /\ roots' = roots /\ free' = free
      /\ barriers' = barriers /\ pinned' = pinned /\ shadow' = shadow /\ handed' = handed
      /\ track' = track /\ pointingToYoung' = pointingToYoung
      /\ pointingToPinned' = pointingToPinned
      /\ visited' = visited /\ toSweep' = toSweep /\ afterMinor' = afterMinor
  BY DEF StartMarking, Collected, program, nursery, ids, lists
<1>2. Reserved' = Reserved /\ Dying' = Dying /\ Usable' = Usable
  BY <1>1 DEF Reserved, Dying, Usable
<1>3. Types'
  BY <1>1, AddrFacts DEF Inv, Types
<1>4. Closed' /\ Blank' /\ Given' /\ Lists'
  BY <1>1, <1>2 DEF Inv, Closed, Blank, Given, Lists
<1>5. Phases' /\ Stopped' /\ Black'
  BY <1>1, <1>2, AddrFacts DEF Inv, Phases, Stopped, Black
<1>6. Shadows' /\ ParentsRecorded' /\ FreeCellsAreFree'
  BY <1>1 DEF Inv, Shadows, ParentsRecorded, FreeCellsAreFree
<1> QED
  BY <1>3, <1>4, <1>5, <1>6 DEF Inv

LEMMA MarkStepStep == ASSUME Inv, NEW o, MarkStep(o) PROVE Inv'
<1>1. /\ gcState = "MARKING" /\ gcState' = "MARKING" /\ afterMinor /\ o \in gray
      /\ \/ o \in visited /\ gray' = gray \ {o} /\ visited' = visited
         \/ /\ o \notin visited /\ visited' = visited \cup {o}
            /\ gray' = (gray \ {o}) \cup Collected(Fields({o} \cap Old))
      /\ alloc' = alloc /\ field' = field /\ roots' = roots /\ free' = free
      /\ barriers' = barriers /\ pinned' = pinned /\ shadow' = shadow /\ handed' = handed
      /\ track' = track /\ pointingToYoung' = pointingToYoung
      /\ pointingToPinned' = pointingToPinned
      /\ toSweep' = toSweep /\ afterMinor' = afterMinor
  BY DEF MarkStep, program, nursery, ids, lists
<1>2. /\ o \in Old /\ o \in Usable /\ toSweep = {} /\ Dying = {} /\ pointingToYoung = {}
  BY <1>1 DEF Inv, Types, Lists, Phases, Stopped, Dying
<1>3. /\ Collected(Fields({o} \cap Old)) = {field[o]} \ (Nursery \cup {NULL})
      /\ {field[o]} \ (Nursery \cup {NULL}) \subseteq Usable \cap Old
  BY <1>2, AddrFacts DEF Inv, Types, Closed, Collected, Fields
<1>4. /\ visited \subseteq visited' /\ visited' \subseteq visited \cup {o}
      /\ visited \cup gray \subseteq visited' \cup gray'
      /\ gray' \subseteq Usable \cap Old
      /\ o \notin visited => field[o] \in gray' \cup Nursery \cup {NULL}
  BY <1>1, <1>3 DEF Inv, Lists, Types
<1>5. Reserved' = Reserved /\ Dying' = {}
  BY <1>1, <1>2 DEF Reserved, Dying
<1>6. Usable' = Usable
  BY <1>1, <1>2, <1>5 DEF Usable
<1>7. Types'
  BY <1>1, <1>2, <1>4 DEF Inv, Types
<1>8. Closed' /\ Blank' /\ Given' /\ Lists'
  BY <1>1, <1>2, <1>4, <1>5, <1>6 DEF Inv, Closed, Blank, Given, Lists
<1>9. Phases' /\ Stopped'
  BY <1>1, <1>2, <1>4, <1>5 DEF Inv, Phases, Stopped
<1>10. Black'
  BY <1>1, <1>2, <1>4 DEF Inv, Black
<1>11. Shadows' /\ FreeCellsAreFree'
  BY <1>1 DEF Inv, Shadows, FreeCellsAreFree
<1>12. ParentsRecorded'
  BY <1>1, <1>2 DEF Inv, ParentsRecorded
<1> QED
  BY <1>7, <1>8, <1>9, <1>10, <1>11, <1>12 DEF Inv

LEMMA FinishMarkingStep == ASSUME Inv, FinishMarking PROVE Inv'
<1>1. /\ gcState = "MARKING" /\ gcState' = "SWEEPING" /\ afterMinor /\ gray = {}
      /\ toSweep' = alloc \cap Old /\ pointingToPinned' = pointingToPinned \cap visited
      /\ alloc' = alloc /\ field' = field /\ roots' = roots /\ free' = free
      /\ barriers' = barriers /\ pinned' = pinned /\ shadow' = shadow /\ handed' = handed
      /\ track' = track /\ pointingToYoung' = pointingToYoung
      /\ gray' = gray /\ visited' = visited /\ afterMinor' = afterMinor
  BY DEF FinishMarking, program, nursery, ids
<1>2. /\ toSweep = {} /\ Dying = {} /\ pointingToYoung = {} /\ Reserved = {}
      /\ roots \cap Old \subseteq visited /\ Usable = alloc /\ visited \subseteq Old
      /\ roots \subseteq alloc /\ visited \subseteq alloc
  BY <1>1 DEF Inv, Phases, Stopped, Dying, Usable, Types, Closed, Lists
<1>3. /\ Reserved' = {} /\ Dying' = (alloc \cap Old) \ visited
      /\ Usable' = (alloc \ Old) \cup visited
  BY <1>1, <1>2 DEF Reserved, Dying, Usable
<1>4. \A x \in visited : field[x] \in visited \cup (Nursery \cap alloc) \cup {NULL}
  BY <1>1, <1>2 DEF Inv, Black, Closed
<1>5. Types'
  BY <1>1 DEF Inv, Types
<1>6. Closed'
  BY <1>1, <1>2, <1>3, <1>4, AddrFacts DEF Inv, Closed
<1>7. Blank' /\ Given'
  BY <1>1, <1>2, <1>3 DEF Inv, Blank, Given
<1>8. Lists' /\ Phases' /\ Stopped' /\ Black'
  BY <1>1, <1>2, <1>3 DEF Lists, Phases, Stopped, Black
<1>9. Shadows' /\ FreeCellsAreFree'
  BY <1>1 DEF Inv, Shadows, FreeCellsAreFree
<1>10. ParentsRecorded'
  BY <1>1, <1>2 DEF Inv, ParentsRecorded
<1> QED
  BY <1>5, <1>6, <1>7, <1>8, <1>9, <1>10 DEF Inv

LEMMA SweepStepStep == ASSUME Inv, NEW o, SweepStep(o) PROVE Inv'
<1>1. /\ gcState = "SWEEPING" /\ gcState' = "SWEEPING" /\ afterMinor /\ o \in toSweep
      /\ toSweep' = toSweep \ {o}
      /\ \/ /\ o \in visited /\ visited' = visited \ {o}
            /\ alloc' = alloc /\ field' = field /\ handed' = handed /\ track' = track
         \/ /\ o \notin visited /\ visited' = visited
            /\ alloc' = alloc \ {o} /\ field' = [field EXCEPT ![o] = NULL]
            /\ handed' = [handed EXCEPT ![o] = NULL] /\ track' = track \ {o}
      /\ roots' = roots /\ free' = free
      /\ barriers' = barriers /\ pinned' = pinned /\ shadow' = shadow
      /\ pointingToYoung' = pointingToYoung /\ pointingToPinned' = pointingToPinned
      /\ gray' = gray /\ afterMinor' = afterMinor
  BY DEF SweepStep, nursery
<1>2. /\ o \in Old /\ o \in alloc /\ o \notin Nursery /\ Reserved = {} /\ gray = {}
      /\ visited \subseteq toSweep
  BY <1>1, AddrFacts DEF Inv, Types, Lists, Stopped, Phases
<1>3. Reserved' = {}
  BY <1>1, <1>2 DEF Reserved
<1>4. CASE o \in visited
  <2>1. /\ visited' = visited \ {o} /\ toSweep' = toSweep \ {o}
        /\ alloc' = alloc /\ field' = field /\ handed' = handed /\ track' = track
    BY <1>1, <1>4
  <2>2. Dying' = Dying /\ Usable' = Usable
    BY <1>2, <1>3, <2>1, <1>4 DEF Dying, Usable
  <2>3. Types'
    BY <1>1, <2>1 DEF Inv, Types
  <2>4. Closed' /\ Blank' /\ Given'
    BY <1>1, <1>2, <1>3, <2>1, <2>2 DEF Inv, Closed, Blank, Given
  <2>5. Lists' /\ Phases' /\ Stopped' /\ Black'
    BY <1>1, <1>2, <1>3, <2>1, <2>2 DEF Inv, Lists, Phases, Stopped, Black
  <2>6. Shadows' /\ FreeCellsAreFree'
    BY <1>1, <2>1 DEF Inv, Shadows, FreeCellsAreFree
  <2>7. ParentsRecorded'
    BY <1>1, <1>4, <2>1 DEF Inv, ParentsRecorded
  <2> QED
    BY <2>3, <2>4, <2>5, <2>6, <2>7 DEF Inv
<1>5. CASE o \notin visited
  <2>1. /\ visited' = visited /\ alloc' = alloc \ {o} /\ track' = track \ {o}
        /\ field' = [field EXCEPT ![o] = NULL] /\ handed' = [handed EXCEPT ![o] = NULL]
    BY <1>1, <1>5
  <2>2. /\ \A x \in Old : field'[x] = IF x = o THEN NULL ELSE field[x]
        /\ \A x \in Addr : handed'[x] = IF x = o THEN NULL ELSE handed[x]
    BY <2>1 DEF Inv, Types
  <2>3. Dying' = Dying \ {o} /\ Usable' = Usable /\ o \notin Usable
    BY <1>1, <1>2, <1>3, <2>1, <1>5 DEF Dying, Usable
  <2>4. Types'
    BY <1>1, <1>2, <2>1 DEF Inv, Types
  <2>5. Closed' /\ Blank'
    BY <1>1, <1>2, <1>3, <2>1, <2>2, <2>3 DEF Inv, Closed, Blank
  <2>6. Given'
    BY <1>1, <1>2, <2>1, <2>2, AddrFacts DEF Inv, Given
  <2>7. Lists' /\ Phases' /\ Stopped' /\ Black'
    BY <1>1, <1>2, <1>3, <1>5, <2>1, <2>3 DEF Inv, Lists, Phases, Stopped, Black
  <2>8. Shadows'
    <3>1. \A a \in Nursery : shadow[a] = NULL
      BY <1>2, ReservedFacts
    <3> QED
      BY <1>1, <3>1 DEF Shadows
  <2>9. FreeCellsAreFree'
    BY <1>1, <2>1 DEF Inv, FreeCellsAreFree
  <2>10. ParentsRecorded'
    BY <1>1, <1>5, <2>1, <2>2, AddrFacts DEF Inv, ParentsRecorded
  <2> QED
    BY <2>4, <2>5, <2>6, <2>7, <2>8, <2>9, <2>10 DEF Inv
<1> QED
  BY <1>4, <1>5

LEMMA FinishSweepingStep == ASSUME Inv, FinishSweeping PROVE Inv'
<1>1. /\ gcState = "SWEEPING" /\ gcState' = "SCANNING" /\ toSweep = {}
      /\ alloc' = alloc /\ field' = field /\ roots' = roots /\ free' = free
      /\ barriers' = barriers /\ pinned' = pinned /\ shadow' = shadow /\ handed' = handed
      /\ track' = track /\ pointingToYoung' = pointingToYoung
      /\ pointingToPinned' = pointingToPinned /\ gray' = gray
      /\ visited' = visited /\ toSweep' = toSweep /\ afterMinor' = afterMinor
  BY DEF FinishSweeping, program, nursery, ids, lists
<1>2. Reserved' = Reserved /\ Dying' = Dying /\ Usable' = Usable
  BY <1>1 DEF Reserved, Dying, Usable
<1>3. Types'
  BY <1>1 DEF Inv, Types
<1>4. Closed' /\ Blank' /\ Given' /\ Lists'
  BY <1>1, <1>2 DEF Inv, Closed, Blank, Given, Lists
<1>5. Phases' /\ Stopped' /\ Black'
  BY <1>1, <1>2 DEF Inv, Phases, Stopped, Black
<1>6. Shadows' /\ ParentsRecorded' /\ FreeCellsAreFree'
  BY <1>1 DEF Inv, Shadows, ParentsRecorded, FreeCellsAreFree
<1> QED
  BY <1>3, <1>4, <1>5, <1>6 DEF Inv

-----------------------------------------------------------------------------
(* The minor collection. *)

\* Where what the program may refer to goes.
LEMMA Places ==
    ASSUME Inv, NEW place \in NewPlaces
    PROVE  LET moved == Survivors \ pinned
               copies == {place[a] : a \in moved}
           IN  /\ DOMAIN place = moved
               /\ moved \cap KeptInPlace = {} /\ moved \cup KeptInPlace = Survivors
               /\ \A a \in moved : /\ a \in Nursery /\ place[a] \in Old
                                   /\ shadow[a] # NULL => shadow[a] = place[a]
                                   /\ shadow[a] = NULL => place[a] \notin alloc
               /\ \A c \in copies : /\ c \in Old /\ c \notin Usable /\ c \notin toSweep
                                    /\ field[c] = NULL
                                    /\ \E a \in moved : c = place[a]
               /\ KeptInPlace \subseteq pinned \cap alloc \cap Nursery
               /\ \A a \in KeptInPlace : shadow[a] = NULL
<1> DEFINE moved == Survivors \ pinned
           copies == {place[a] : a \in moved}
<1>1. /\ place \in [moved -> Old]
      /\ \A a \in moved : IF shadow[a] # NULL THEN place[a] = shadow[a] ELSE place[a] \notin alloc
  BY DEF NewPlaces
<1>2. moved \subseteq Nursery
  BY DEF Survivors
<1>3. ASSUME NEW a \in moved
      PROVE  /\ place[a] \in Old /\ place[a] \notin Usable /\ place[a] \notin toSweep
             /\ field[place[a]] = NULL
  <2>1. place[a] \in Old
    BY <1>1
  <2>2. CASE shadow[a] # NULL
    <3>1. place[a] \in Reserved
      BY <1>1, <1>2, <2>2, ReservedFacts
    <3> QED
      BY <2>1, <3>1 DEF Inv, Usable, Lists, Blank
  <2>3. CASE shadow[a] = NULL
    <3>1. place[a] \notin alloc
      BY <1>1, <2>3
    <3> QED
      BY <2>1, <3>1 DEF Inv, Usable, Lists, Blank
  <2> QED
    BY <2>2, <2>3
<1>4. KeptInPlace \subseteq pinned \cap alloc \cap Nursery
  BY DEF KeptInPlace, Inv, Types
<1>5. \A a \in KeptInPlace : shadow[a] = NULL
  BY <1>4 DEF Inv, Shadows
<1>6. moved \cap KeptInPlace = {} /\ moved \cup KeptInPlace = Survivors
  BY DEF KeptInPlace
<1> QED
  BY <1>1, <1>2, <1>3, <1>4, <1>5, <1>6

LEMMA MinorStep == ASSUME Inv, Minor PROVE Inv'
<1> PICK place \in NewPlaces :
        LET moved == DOMAIN place
            Move(a) == IF a \in moved THEN place[a] ELSE a
            copies == {place[a] : a \in moved}
            kept == KeptInPlace
            keptShadows == {shadow[a] : a \in {b \in kept : shadow[b] # NULL}}
        IN  /\ alloc' = (alloc \cap Old) \cup copies \cup kept
            /\ roots' = {Move(a) : a \in roots}
            /\ field' = [x \in Old |-> IF x \in Traced THEN Move(field[x]) ELSE field[x]]
            /\ handed' = [x \in Addr |->
                   IF x \in copies THEN handed[CHOOSE a \in moved : place[a] = x]
                   ELSE IF x \in Old \cup kept THEN handed[x] ELSE NULL]
            /\ pinned' = kept
            /\ pinnedCount' = Cardinality(kept)
            /\ shadow' = [a \in Nursery |-> IF a \in kept THEN shadow[a] ELSE NULL]
            /\ free' = 1
            /\ barriers' = NurseryBarriers(kept)
            /\ track' = track \cup pointingToYoung
            /\ pointingToYoung' = {}
            /\ pointingToPinned' = PointingToPinned(kept)
            /\ visited' = ((visited \ Modified) \ copies) \cup keptShadows
            /\ gray' = IF gcState = "MARKING"
                       THEN gray \cup Modified \cup (roots' \ (visited' \cup kept))
                       ELSE gray
            /\ afterMinor' = TRUE
            /\ UNCHANGED <<gcState, toSweep>>
  BY DEF Minor
<1> DEFINE moved == Survivors \ pinned
           Move(a) == IF a \in moved THEN place[a] ELSE a
           copies == {place[a] : a \in moved}
           kept == KeptInPlace
<1>1. /\ DOMAIN place = moved
      /\ moved \cap kept = {} /\ moved \cup kept = Survivors
      /\ \A a \in moved : /\ a \in Nursery /\ place[a] \in Old
                          /\ shadow[a] # NULL => shadow[a] = place[a]
                          /\ shadow[a] = NULL => place[a] \notin alloc
      /\ \A c \in copies : /\ c \in Old /\ c \notin Usable /\ c \notin toSweep
                           /\ field[c] = NULL
                           /\ \E a \in moved : c = place[a]
      /\ kept \subseteq pinned \cap alloc \cap Nursery
      /\ \A a \in kept : shadow[a] = NULL
  BY Places
<1>2. /\ alloc' = (alloc \cap Old) \cup copies \cup kept
      /\ roots' = {Move(a) : a \in roots}
      /\ field' = [x \in Old |-> IF x \in Traced THEN Move(field[x]) ELSE field[x]]
      /\ handed' = [x \in Addr |->
             IF x \in copies THEN handed[CHOOSE a \in moved : place[a] = x]
             ELSE IF x \in Old \cup kept THEN handed[x] ELSE NULL]
      /\ pinned' = kept
      /\ shadow' = [a \in Nursery |-> IF a \in kept THEN shadow[a] ELSE NULL]
      /\ free' = 1 /\ barriers' = NurseryBarriers(kept)
      /\ track' = track \cup pointingToYoung /\ pointingToYoung' = {}
      /\ pointingToPinned' = PointingToPinned(kept)
      /\ visited' = ((visited \ Modified) \ copies)
                       \cup {shadow[a] : a \in {b \in kept : shadow[b] # NULL}}
      /\ gray' = IF gcState = "MARKING"
                 THEN gray \cup Modified \cup (roots' \ (visited' \cup kept))
                 ELSE gray
      /\ afterMinor' = TRUE /\ gcState' = gcState /\ toSweep' = toSweep
  BY <1>1
<1> HIDE DEF moved, copies, kept
<1>3. visited' = visited \ Modified
  BY <1>1, <1>2 DEF Inv, Lists
<1>4. Traced \subseteq Usable \cap Old /\ Modified \subseteq visited \cap Traced
  BY DEF Traced, Modified, Inv, Lists, Types
<1>5. /\ \A a \in Survivors : a \in Usable /\ a \in Nursery
      /\ \A a \in Usable : a \in roots \cap Nursery => a \in Survivors
      /\ \A x \in Traced : field[x] \in Nursery => field[x] \in Survivors
  BY <1>4, AddrFacts DEF Survivors, Fields, Inv, Closed
<1>6. /\ \A a \in Old : Move(a) = a
      /\ Move(NULL) = NULL
      /\ \A a \in Survivors : Move(a) \in copies \cup kept
      /\ \A a \in Survivors : Move(a) \in Nursery => a \in kept /\ Move(a) = a
  BY <1>1, AddrFacts DEF copies
<1>7. \A x \in Old : field'[x] = IF x \in Traced THEN Move(field[x]) ELSE field[x]
  BY <1>2
<1>8. /\ \A r \in roots' : \E a \in roots : r = Move(a)
      /\ \A a \in roots : Move(a) \in roots'
  BY <1>2
<1> HIDE DEF Move
<1>9. \A a \in Nursery : shadow'[a] = NULL
  BY <1>1, <1>2
<1>10. Reserved' = {}
  BY <1>9 DEF Reserved
<1>11. Dying' = Dying
  BY <1>2, <1>3 DEF Dying, Modified, Inv, Phases
<1>12. /\ copies \cap Dying = {} /\ kept \cap Dying = {}
       /\ Usable' = ((alloc \cap Old) \ Dying) \cup copies \cup kept
  BY <1>1, <1>2, <1>10, <1>11, AddrFacts DEF Usable, Dying, Inv, Types
<1>13. \A a \in Usable : /\ a \in Old => a \in Usable'
                         /\ a \in Survivors => Move(a) \in Usable'
  BY <1>6, <1>12 DEF Usable
<1>14. \A a \in roots : Move(a) \in Usable'
  BY <1>5, <1>6, <1>13, AddrFacts DEF Inv, Closed, Types
<1>15. ASSUME NEW x \in Old, x \notin Dying
       PROVE  /\ field'[x] \in Usable' \cup {NULL}
              /\ field'[x] \in Nursery => x \in pointingToPinned'
              /\ x \notin Traced => field'[x] = field[x] /\ field[x] \notin Nursery
              /\ x \notin Usable => field'[x] = NULL
  <2>1. CASE x \in Traced
    <3>1. field'[x] = Move(field[x]) /\ x \in Usable /\ field[x] \in Usable \cup {NULL}
      BY <1>4, <1>7, <2>1 DEF Inv, Closed
    <3>2. CASE field[x] \in Nursery
      <4>1. field[x] \in Survivors
        BY <1>5, <2>1, <3>2
      <4>2. field'[x] \in Nursery => field'[x] \in kept
        BY <1>6, <3>1, <4>1
      <4>3. field'[x] \in Usable'
        BY <1>13, <3>1, <3>2, <4>1, AddrFacts
      <4>4. field'[x] \in kept => x \in pointingToPinned'
        BY <1>2, <2>1 DEF PointingToPinned
      <4> QED
        BY <2>1, <3>1, <4>2, <4>3, <4>4
    <3>3. CASE field[x] \notin Nursery
      BY <1>6, <1>13, <2>1, <3>1, <3>3, AddrFacts DEF Inv, Types
    <3> QED
      BY <3>2, <3>3
  <2>2. CASE x \notin Traced
    <3>1. field'[x] = field[x]
      BY <1>7, <2>2
    <3>2. CASE x \in Usable
      <4>1. x \in alloc
        BY <3>2 DEF Usable
      <4>2. field[x] \notin Nursery
        BY <1>15, <2>2, <4>1 DEF Inv, ParentsRecorded, Dying, Traced
      <4> QED
        BY <1>13, <2>2, <3>1, <3>2, <4>2, AddrFacts DEF Inv, Closed, Types
    <3>3. CASE x \notin Usable
      <4>1. field[x] = NULL
        BY <1>15, <3>3 DEF Inv, Blank, Usable
      <4> QED
        BY <2>2, <3>1, <3>3, <4>1, AddrFacts
    <3> QED
      BY <3>2, <3>3
  <2> QED
    BY <2>1, <2>2
<1>16. roots' \subseteq Usable'
  BY <1>8, <1>14
<1>17. Usable' \subseteq Addr /\ alloc' \subseteq Addr /\ kept \subseteq alloc'
  BY <1>1, <1>2, <1>12, AddrFacts DEF Inv, Types
<1>18. gray' \subseteq Usable' \cap Old /\ visited' \subseteq Usable' \cap Old
  <2>1. visited' \subseteq Usable' \cap Old
    BY <1>3, <1>13 DEF Inv, Lists, Types
  <2>2. roots' \ kept \subseteq Old
    <3> SUFFICES ASSUME NEW r \in roots', r \notin kept PROVE r \in Old
      OBVIOUS
    <3>1. PICK a \in roots : r = Move(a)
      BY <1>8
    <3> QED
      BY <1>1, <1>5, <1>6, <3>1, AddrFacts DEF Inv, Types, Closed
  <2>3. gray \cup Modified \subseteq Usable' \cap Old
    BY <1>4, <1>13 DEF Inv, Lists, Types
  <2> QED
    BY <1>2, <1>16, <2>1, <2>2, <2>3
<1>19. Types'
  <2>1. field' \in [Old -> Addr \cup {NULL}]
    <3>1. \A x \in Old : field'[x] \in Addr \cup {NULL}
      <4> TAKE x \in Old
      <4>1. CASE x \in Dying
        BY <1>4, <1>7, <4>1 DEF Inv, Types, Usable
      <4> QED
        BY <1>15, <1>17, <4>1
    <3> QED
      BY <1>2, <3>1
  <2>2. handed' \in [Addr -> Old \cup {NULL}]
    <3>1. ASSUME NEW x \in Addr PROVE handed'[x] \in Old \cup {NULL}
      <4>1. CASE x \in copies
        <5>1. (CHOOSE a \in moved : place[a] = x) \in Nursery
          BY <1>1, <4>1
        <5> QED
          BY <1>2, <4>1, <5>1, AddrFacts DEF Inv, Types
      <4> QED
        BY <1>2, <4>1 DEF Inv, Types
    <3> QED
      BY <1>2, <3>1
  <2>3. /\ shadow' \in [Nursery -> Old \cup {NULL}]
        /\ pinned' \subseteq alloc' \cap Nursery
    BY <1>1, <1>2, <1>9
  <2>4. free' \in 1 .. End /\ barriers' \subseteq 1 .. End
    BY <1>1, <1>2, InNursery DEF NurseryBarriers
  <2>5. track' \cup pointingToYoung' \cup pointingToPinned' \subseteq Old
    BY <1>2, <1>4 DEF PointingToPinned, Inv, Types
  <2> QED
    BY <1>2, <1>16, <1>17, <1>18, <2>1, <2>2, <2>3, <2>4, <2>5 DEF Inv, Types
<1>20. Closed'
  BY <1>12, <1>15, <1>16 DEF Closed, Usable
<1>21. Blank'
  <2> SUFFICES ASSUME NEW x \in Old, x \notin alloc' PROVE field'[x] = NULL
    BY <1>10 DEF Blank
  <2>1. x \notin alloc /\ x \notin Dying /\ x \notin Usable
    BY <1>2 DEF Usable, Dying, Inv, Lists
  <2> QED
    BY <1>15, <2>1
<1>22. Shadows'
  BY <1>9 DEF Shadows
<1>23. Given'
  <2>1. \A a \in Nursery : handed'[a] = NULL
    BY <1>1, <1>2, AddrFacts DEF Inv, Given
  <2>2. ASSUME NEW x \in Old, handed'[x] # NULL PROVE x \in alloc' /\ handed'[x] = x
    <3>1. CASE x \in copies
      <4> DEFINE a == CHOOSE b \in moved : place[b] = x
      <4>1. a \in moved /\ place[a] = x
        BY <1>1, <3>1
      <4>2. handed'[x] = handed[a]
        BY <1>2, <3>1, AddrFacts
      <4> HIDE DEF a
      <4>3. handed[a] = shadow[a] /\ (shadow[a] # NULL => shadow[a] = x)
        BY <1>1, <4>1 DEF Inv, Given
      <4> QED
        BY <1>2, <2>2, <3>1, <4>2, <4>3
    <3>2. CASE x \notin copies
      BY <1>2, <2>2, <3>2, AddrFacts DEF Inv, Given
    <3> QED
      BY <3>1, <3>2
  <2> QED
    BY <1>9, <2>1, <2>2 DEF Given
<1>24. Lists'
  <2>1. pointingToPinned' \subseteq Usable'
    BY <1>2, <1>4, <1>13 DEF PointingToPinned
  <2>2. toSweep' \subseteq alloc'
    BY <1>2 DEF Inv, Lists, Types
  <2> QED
    BY <1>2, <1>10, <1>18, <2>1, <2>2 DEF Lists
<1>25. Phases'
  BY <1>2, <1>3 DEF Inv, Phases, Modified
<1>26. Stopped'
  <2>1. gcState' = "MARKING" => roots' \cap Old \subseteq visited' \cup gray'
    BY <1>1, <1>2, AddrFacts
  <2> QED
    BY <1>2, <1>10, <2>1 DEF Stopped
<1>27. Black'
  <2> SUFFICES ASSUME gcState = "MARKING", NEW x \in visited'
               PROVE  field'[x] \in visited' \cup gray' \cup Nursery \cup {NULL}
    BY <1>2 DEF Black
  <2>1. x \in visited /\ x \notin Traced /\ x \in Old /\ x \notin Dying /\ Modified = Traced \cap visited
    BY <1>3 DEF Modified, Inv, Types, Dying
  <2>2. x \notin pointingToYoung
    BY <2>1 DEF Traced
  <2>3. field'[x] = field[x] /\ field[x] \in visited \cup gray \cup {NULL}
    BY <1>15, <2>1, <2>2 DEF Inv, Black
  <2>4. gray \cup Modified \subseteq gray'
    BY <1>2
  <2> QED
    BY <1>3, <2>3, <2>4
<1>28. ParentsRecorded'
  BY <1>2, <1>11, <1>15 DEF ParentsRecorded, Dying
<1>29. FreeCellsAreFree'
  BY <1>1, <1>2, AddrFacts DEF FreeCellsAreFree, NurseryBarriers
<1> QED
  BY <1>19, <1>20, <1>21, <1>22, <1>23, <1>24, <1>25, <1>26, <1>27, <1>28, <1>29 DEF Inv

-----------------------------------------------------------------------------
(* The theorems. *)

LEMMA InvInit == Init => Inv
<1> SUFFICES ASSUME Init PROVE Inv
  OBVIOUS
<1>1. /\ alloc = {} /\ field = [a \in Old |-> NULL] /\ roots = {} /\ free = 1 /\ barriers = {End}
      /\ pinned = {} /\ shadow = [a \in Nursery |-> NULL] /\ handed = [a \in Addr |-> NULL]
      /\ track = {} /\ pointingToYoung = {} /\ pointingToPinned = {} /\ visited = {}
      /\ gcState = "SCANNING" /\ gray = {} /\ toSweep = {} /\ afterMinor = FALSE
  BY DEF Init
<1>2. Reserved = {} /\ Dying = {} /\ Usable = {}
  BY <1>1 DEF Reserved, Dying, Usable
<1>3. Types
  <2>1. /\ field \in [Old -> Addr \cup {NULL}] /\ shadow \in [Nursery -> Old \cup {NULL}]
        /\ handed \in [Addr -> Old \cup {NULL}]
    BY <1>1
  <2>2. free \in 1 .. End /\ barriers \subseteq 1 .. End
    BY <1>1, InNursery
  <2> QED
    BY <1>1, <2>1, <2>2 DEF Types
<1>4. Closed /\ Blank /\ Shadows /\ Given
  BY <1>1, <1>2, AddrFacts DEF Closed, Blank, Shadows, Given
<1>5. Lists /\ Phases /\ Stopped /\ Black /\ ParentsRecorded /\ FreeCellsAreFree
  BY <1>1, <1>2 DEF Lists, Phases, Stopped, Black, ParentsRecorded, FreeCellsAreFree
<1> QED
  BY <1>3, <1>4, <1>5 DEF Inv

LEMMA InvNext == ASSUME Ids # "any" PROVE Inv /\ [Next]_vars => Inv'
<1> SUFFICES ASSUME Inv, [Next]_vars PROVE Inv'
  OBVIOUS
<1>1. CASE Mutator
  BY <1>1, MallocStep, PinStep, UnpinStep, TakeIdStep, MallocOldStep, ReadStep, DropStep, WriteStep
     DEF Mutator
<1>2. CASE Collector
  BY <1>2, MinorStep, StartMarkingStep, FinishMarkingStep, FinishSweepingStep, MarkStepStep,
     SweepStepStep DEF Collector
<1>3. CASE UNCHANGED vars
  <2>1. /\ alloc' = alloc /\ field' = field /\ roots' = roots /\ free' = free
        /\ barriers' = barriers /\ pinned' = pinned /\ shadow' = shadow /\ handed' = handed
        /\ track' = track /\ pointingToYoung' = pointingToYoung
        /\ pointingToPinned' = pointingToPinned /\ gcState' = gcState /\ gray' = gray
        /\ toSweep' = toSweep /\ visited' = visited /\ afterMinor' = afterMinor
    BY <1>3 DEF vars, program, nursery, ids, lists, major
  <2>2. Reserved' = Reserved /\ Dying' = Dying /\ Usable' = Usable
    BY <2>1 DEF Reserved, Dying, Usable
  <2>3. Types' /\ Closed' /\ Blank' /\ Given'
    BY <2>1, <2>2 DEF Inv, Types, Closed, Blank, Given
  <2>4. Lists' /\ Phases' /\ Stopped' /\ Black'
    BY <2>1, <2>2 DEF Inv, Lists, Phases, Stopped, Black
  <2>5. Shadows' /\ ParentsRecorded' /\ FreeCellsAreFree'
    BY <2>1 DEF Inv, Shadows, ParentsRecorded, FreeCellsAreFree
  <2> QED
    BY <2>3, <2>4, <2>5 DEF Inv
<1> QED
  BY <1>1, <1>2, <1>3 DEF Next

LEMMA InvAlways == ASSUME Ids # "any" PROVE Spec => []Inv
<1>1. Init => Inv
  BY InvInit
<1>2. Inv /\ [Next]_vars => Inv'
  BY InvNext
<1> QED
  BY <1>1, <1>2, PTL DEF Spec

\* All that the program reaches is in what it may refer to, and what it reaches in the
\* nursery it reaches from the stack or from an old object.
LEMMA ReachableFacts ==
    ASSUME Inv
    PROVE  /\ Reachable \subseteq Usable
           /\ \A a \in Reachable : a \in roots \/ \E x \in Reachable \cap Old : field[x] = a
<1> DEFINE Closes(S) == roots \subseteq S /\ \A x \in S \cap Old : field[x] \in S \cup {NULL}
<1>1. \A S \in SUBSET Addr : Closes(S) => Reachable \subseteq S
  BY DEF Reachable
<1>2. Usable \in SUBSET Addr /\ Closes(Usable)
  BY DEF Inv, Types, Closed, Usable
<1>3. Reachable \in SUBSET Addr /\ roots \subseteq Reachable
  BY DEF Reachable, Inv, Types
<1>4. \A x \in Reachable \cap Old : field[x] \in Reachable \cup {NULL}
  <2> SUFFICES ASSUME NEW x \in Reachable \cap Old, field[x] # NULL PROVE field[x] \in Reachable
    OBVIOUS
  <2>1. field[x] \in Addr
    BY DEF Inv, Types
  <2>2. ASSUME NEW S \in SUBSET Addr, Closes(S) PROVE field[x] \in S
    BY <1>1, <2>2
  <2> QED
    BY <2>1, <2>2 DEF Reachable
<1>5. ASSUME NEW a \in Reachable, a \notin roots, \A x \in Reachable \cap Old : field[x] # a
      PROVE  FALSE
  <2> DEFINE S == Reachable \ {a}
  <2>1. S \in SUBSET Addr
    BY <1>3
  <2>2. Closes(S)
    BY <1>3, <1>4, <1>5
  <2>3. a \in S
    BY <1>1, <1>5, <2>1, <2>2
  <2> QED
    BY <2>3
<1>6. Reachable \subseteq Usable
  BY <1>1, <1>2
<1> QED
  BY <1>5, <1>6

\* Whatever is pinned, moved, marked and swept in between, the program never reaches freed
\* memory: no reference is left behind when an object moves, and none to what is swept.
THEOREM NoReferenceDangles == ASSUME Ids # "any" PROVE Spec => []NoDangling
<1>1. Inv => NoDangling
  BY ReachableFacts DEF NoDangling, Usable
<1> QED
  BY <1>1, InvAlways, PTL

\* An object outside the nursery that refers into it is looked at by the next minor
\* collection, also when what it refers to has been pinned for several of them.
THEOREM ParentsAreRecorded == ASSUME Ids # "any" PROVE Spec => []ParentsRecorded
<1>1. Inv => ParentsRecorded
  BY DEF Inv
<1> QED
  BY <1>1, InvAlways, PTL

\* No list of the collector keeps an object beyond the sweep that frees it.
THEOREM ListsHoldNoDead == ASSUME Ids # "any" PROVE Spec => []NoDeadEntries
<1>1. Inv => NoDeadEntries
  BY DEF Inv, Lists, Usable, NoDeadEntries
<1> QED
  BY <1>1, InvAlways, PTL

\* The allocator never hands out a cell of a pinned object, or of one that was unpinned
\* since the last minor collection.
THEOREM AllocatesFreeCells == ASSUME Ids # "any" PROVE Spec => []FreeCellsAreFree
<1>1. Inv => FreeCellsAreFree
  BY DEF Inv
<1> QED
  BY <1>1, InvAlways, PTL

\* The id that id() gave of an object is that of the same object ever after, wherever it
\* has been moved, and of no other.
THEOREM IdsStayStable == ASSUME Ids # "any" PROVE Spec => []IdsAreStable
<1>1. Inv => IdsAreStable
  <2> SUFFICES ASSUME Inv, NEW x \in Reachable, handed[x] # NULL
               PROVE  /\ handed[x] = Id(x)
                      /\ \A y \in Reachable \ {x} : handed[x] # Id(y)
    BY DEF IdsAreStable
  <2>1. \A y \in Reachable : y \in Addr /\ y \notin Reserved
    BY ReachableFacts DEF Usable, Inv, Types
  <2>2. CASE x \in Nursery
    <3>1. handed[x] = shadow[x] /\ Id(x) = shadow[x]
      BY <2>2 DEF Inv, Given, Id
    <3>2. \A y \in Reachable \ {x} : handed[x] # Id(y)
      BY <2>1, <2>2, <3>1, ReservedFacts DEF Inv, Shadows, Id
    <3> QED
      BY <3>1, <3>2
  <2>3. CASE x \notin Nursery
    <3>1. x \in Old /\ handed[x] = x /\ Id(x) = x
      BY <2>1, <2>3, AddrFacts DEF Inv, Given, Id
    <3>2. \A y \in Reachable \ {x} : handed[x] # Id(y)
      BY <2>1, <3>1, AddrFacts, ReservedFacts DEF Id
    <3> QED
      BY <3>1, <3>2
  <2> QED
    BY <2>2, <2>3
<1> QED
  BY <1>1, InvAlways, PTL

\* No step of the collector moves or frees a pinned object that the program reaches, or
\* changes a reference to it.
THEOREM PinnedObjectsStay == ASSUME Ids # "any" PROVE Spec => PinnedStayPut
<1> DEFINE Kept == \A a \in pinned \cap Reachable :
                      /\ a \in pinned' /\ a \in alloc'
                      /\ a \in roots => a \in roots'
                      /\ \A x \in Reachable \cap Old : field[x] = a => field'[x] = a
<1>1. Inv /\ [Next]_vars => (Collector => Kept)
  <2> SUFFICES ASSUME Inv, Collector, NEW a \in pinned \cap Reachable
               PROVE  /\ a \in pinned' /\ a \in alloc'
                      /\ a \in roots => a \in roots'
                      /\ \A x \in Reachable \cap Old : field[x] = a => field'[x] = a
    OBVIOUS
  <2>1. a \in alloc /\ a \in Nursery /\ a \notin Old /\ a # NULL
    BY AddrFacts DEF Inv, Types
  <2>2. CASE Minor
    <3>1. a \in KeptInPlace
      <4>1. CASE a \in roots
        BY <2>1, <4>1 DEF KeptInPlace, Survivors
      <4>2. CASE a \notin roots
        <5>1. PICK x \in Reachable \cap Old : field[x] = a
          BY <4>2, ReachableFacts
        <5>2. x \in Traced
          BY <2>1, <5>1, ReachableFacts DEF Usable, Dying, Inv, ParentsRecorded, Traced
        <5> QED
          BY <2>1, <5>1, <5>2 DEF KeptInPlace, Survivors, Fields
      <4> QED
        BY <4>1, <4>2
    <3>2. PICK place \in NewPlaces :
            LET Move(b) == IF b \in DOMAIN place THEN place[b] ELSE b
            IN  /\ alloc' = (alloc \cap Old) \cup {place[b] : b \in DOMAIN place} \cup KeptInPlace
                /\ roots' = {Move(b) : b \in roots}
                /\ field' = [x \in Old |-> IF x \in Traced THEN Move(field[x]) ELSE field[x]]
                /\ pinned' = KeptInPlace
      BY <2>2 DEF Minor
    <3> DEFINE Move(b) == IF b \in DOMAIN place THEN place[b] ELSE b
    <3>3. Move(a) = a
      BY <3>1, Places
    <3>4. /\ roots' = {Move(b) : b \in roots}
          /\ \A x \in Old : field'[x] = IF x \in Traced THEN Move(field[x]) ELSE field[x]
      BY <3>2
    <3> HIDE DEF Move
    <3>5. /\ a \in roots => a \in roots'
          /\ \A x \in Reachable \cap Old : field[x] = a => field'[x] = a
      BY <3>3, <3>4
    <3> QED
      BY <3>1, <3>2, <3>5
  <2>3. CASE ~Minor
    <3>1. /\ pinned' = pinned /\ roots' = roots
          /\ \/ alloc' = alloc /\ field' = field
             \/ \E o \in Dying : alloc' = alloc \ {o} /\ field' = [field EXCEPT ![o] = NULL]
      BY <2>3 DEF Collector, StartMarking, FinishMarking, FinishSweeping, MarkStep, SweepStep,
         program, nursery, Dying
    <3>2. \A o \in Dying : o \in Old /\ o \notin Reachable
      BY ReachableFacts DEF Usable, Inv, Types, Dying
    <3> QED
      BY <2>1, <3>1, <3>2 DEF Inv, Types
  <2> QED
    BY <2>2, <2>3
<1>2. [][Collector => Kept]_vars <=> PinnedStayPut
  BY DEF PinnedStayPut
<1> HIDE DEF Kept
<1> QED
  BY <1>1, <1>2, InvAlways, PTL DEF Spec

\* pinned_objects_in_nursery counts the pinned objects, those that died since the last minor
\* collection included, and stays within max_number_of_pinned_objects.
Count == IsFiniteSet(pinned) /\ pinnedCount = Cardinality(pinned) /\ pinnedCount <= MaxPinned

LEMMA CountNext == Inv /\ Count /\ [Next]_vars => Count'
<1> SUFFICES ASSUME Inv, Count, [Next]_vars PROVE Count'
  OBVIOUS
<1>1. Cardinality(pinned) \in Nat /\ MaxPinned \in Nat /\ pinnedCount \in Nat
  BY FS_CardinalityType, SizeAssumption DEF Count
<1>2. ASSUME NEW a \in Nursery, Pin(a) PROVE Count'
  <2>1. /\ a \notin pinned /\ pinnedCount < MaxPinned /\ pinned' = pinned \cup {a}
        /\ pinnedCount' = pinnedCount + 1
    BY <1>2 DEF Pin
  <2>2. IsFiniteSet(pinned') /\ Cardinality(pinned') = Cardinality(pinned) + 1
    BY <2>1, FS_AddElement DEF Count
  <2> QED
    BY <1>1, <2>1, <2>2 DEF Count
<1>3. ASSUME NEW a \in Nursery, Unpin(a) PROVE Count'
  <2>1. a \in pinned /\ pinned' = pinned \ {a} /\ pinnedCount' = pinnedCount - 1
    BY <1>3 DEF Unpin
  <2>2. IsFiniteSet(pinned') /\ Cardinality(pinned') = Cardinality(pinned) - 1
    BY <2>1, FS_RemoveElement DEF Count
  <2> QED
    BY <1>1, <2>1, <2>2 DEF Count
<1>4. CASE Minor
  <2>1. pinned' = KeptInPlace /\ pinnedCount' = Cardinality(KeptInPlace)
    BY <1>4 DEF Minor
  <2>2. KeptInPlace \subseteq pinned
    BY DEF KeptInPlace
  <2>3. /\ IsFiniteSet(KeptInPlace) /\ Cardinality(KeptInPlace) \in Nat
        /\ Cardinality(KeptInPlace) <= Cardinality(pinned)
    BY <2>2, FS_Subset, FS_CardinalityType DEF Count
  <2> QED
    BY <1>1, <2>1, <2>3 DEF Count
<1>5. CASE UNCHANGED <<pinned, pinnedCount>>
  BY <1>5 DEF Count
<1>6. \/ \E a \in Nursery : Pin(a) \/ Unpin(a)
      \/ Minor
      \/ UNCHANGED <<pinned, pinnedCount>>
  <2>1. CASE Mutator
    BY <2>1 DEF Mutator, Malloc, TakeId, MallocOld, Read, Drop, Write, nursery
  <2>2. CASE Collector
    BY <2>2 DEF Collector, StartMarking, FinishMarking, FinishSweeping, MarkStep, SweepStep, nursery
  <2>3. CASE UNCHANGED vars
    BY <2>3 DEF vars, nursery
  <2> QED
    BY <2>1, <2>2, <2>3 DEF Next
<1> QED
  BY <1>2, <1>3, <1>4, <1>5, <1>6

\* The types of all that the collector keeps, and that pinned_objects_in_nursery is the
\* number of the pinned objects, never above the maximum.
THEOREM TypeCorrectness == ASSUME Ids # "any" PROVE Spec => [](TypeOK /\ PinnedCounted)
<1>1. Init => Count
  BY FS_EmptySet, SizeAssumption DEF Init, Count
<1>2. Inv /\ Count => TypeOK /\ PinnedCounted
  BY FS_CardinalityType, SizeAssumption DEF Inv, Count, Types, TypeOK, PinnedCounted
<1> QED
  BY <1>1, <1>2, CountNext, InvAlways, PTL DEF Spec

=============================================================================
