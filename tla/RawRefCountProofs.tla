-------------------------- MODULE RawRefCountProofs --------------------------
(***************************************************************************)
(* Proofs about RawRefCount, for every set of objects and addresses and    *)
(* every number of references: types, exact counts, exact dictionaries,    *)
(* and that a collection keeps what C code uses.                           *)
(***************************************************************************)
EXTENDS RawRefCount, SequenceTheorems, FiniteSetTheorems, TLAPS

-----------------------------------------------------------------------------
(* Sequences without repetitions, as the stack `pending' is one. *)

Once(s) == \A i, j \in 1 .. Len(s) : s[i] = s[j] => i = j

\* SetToSeq lists every member of a finite set once.
LEMMA SetToSeqOnce ==
    ASSUME NEW S, IsFiniteSet(S)
    PROVE  /\ SetToSeq(S) \in Seq(S)
           /\ Once(SetToSeq(S))
           /\ ToSet(SetToSeq(S)) = S
<1> DEFINE n == Cardinality(S)
           F == [1 .. n -> S]
<1>1. n \in Nat /\ ExistsBijection(1 .. n, S)
  BY FS_CardinalityType
<1>2. PICK b \in F : IsInjective(b)
  BY <1>1 DEF ExistsBijection, Bijection, Injection
<1>3. SetToSeq(S) \in F /\ IsInjective(SetToSeq(S))
  BY <1>2 DEF SetToSeq
<1> DEFINE f == SetToSeq(S)
<1>4. f \in Seq(S) /\ Len(f) = n
  BY <1>1, <1>3
<1>5. IsFiniteSet(1 .. n) /\ Cardinality(1 .. n) = n
  BY <1>1, FS_Interval
<1>6. f \in Injection(1 .. n, S)
  BY <1>3 DEF Injection
<1>7. f \in Surjection(1 .. n, S)
  BY <1>5, <1>6, FS_Injection
<1>8. ToSet(f) = S
  BY <1>3, <1>7 DEF Surjection, ToSet
<1> QED
  BY <1>3, <1>4, <1>8 DEF Once, IsInjective

\* One stack put on another.
LEMMA ConcatOnce ==
    ASSUME NEW S, NEW s \in Seq(S), NEW t \in Seq(S), Once(s), Once(t),
           ToSet(s) \cap ToSet(t) = {}
    PROVE  /\ s \o t \in Seq(S)
           /\ Once(s \o t)
           /\ ToSet(s \o t) = ToSet(s) \cup ToSet(t)
<1>1. s \o t \in Seq(S) /\ Len(s \o t) = Len(s) + Len(t)
  OBVIOUS
<1>2. \A i \in 1 .. Len(s) : (s \o t)[i] = s[i]
  OBVIOUS
<1>3. \A i \in 1 .. Len(t) : (s \o t)[Len(s) + i] = t[i]
  OBVIOUS
<1>4. \A i \in 1 .. Len(s \o t) :
         \/ i \in 1 .. Len(s)
         \/ \E j \in 1 .. Len(t) : i = Len(s) + j
  <2> SUFFICES ASSUME NEW i \in 1 .. Len(s \o t), i \notin 1 .. Len(s)
               PROVE  \E j \in 1 .. Len(t) : i = Len(s) + j
    OBVIOUS
  <2>1. i - Len(s) \in 1 .. Len(t) /\ i = Len(s) + (i - Len(s))
    BY <1>1
  <2> QED
    BY <2>1
<1>5. \A i \in 1 .. Len(s), j \in 1 .. Len(t) : s[i] # t[j]
  BY DEF ToSet
<1>6. Once(s \o t)
  <2> SUFFICES ASSUME NEW i \in 1 .. Len(s \o t), NEW j \in 1 .. Len(s \o t),
                      (s \o t)[i] = (s \o t)[j]
               PROVE  i = j
    BY DEF Once
  <2>1. CASE i \in 1 .. Len(s) /\ j \in 1 .. Len(s)
    BY <1>2, <2>1 DEF Once
  <2>2. CASE i \notin 1 .. Len(s) /\ j \notin 1 .. Len(s)
    <3>1. PICK k \in 1 .. Len(t) : i = Len(s) + k
      BY <1>4, <2>2
    <3>2. PICK l \in 1 .. Len(t) : j = Len(s) + l
      BY <1>4, <2>2
    <3>3. t[k] = t[l]
      BY <1>3, <3>1, <3>2
    <3> QED
      BY <3>1, <3>2, <3>3 DEF Once
  <2>3. CASE i \in 1 .. Len(s) /\ j \notin 1 .. Len(s)
    BY <1>2, <1>3, <1>4, <1>5, <2>3
  <2>4. CASE i \notin 1 .. Len(s) /\ j \in 1 .. Len(s)
    BY <1>2, <1>3, <1>4, <1>5, <2>4
  <2> QED
    BY <2>1, <2>2, <2>3, <2>4
<1>7. ToSet(s \o t) = ToSet(s) \cup ToSet(t)
  <2>1. DOMAIN (s \o t) = 1 .. Len(s \o t) /\ DOMAIN s = 1 .. Len(s) /\ DOMAIN t = 1 .. Len(t)
    BY <1>1
  <2>2. \A j \in 1 .. Len(t) : Len(s) + j \in 1 .. Len(s \o t)
    BY <1>1
  <2>3. 1 .. Len(s) \subseteq 1 .. Len(s \o t)
    BY <1>1
  <2>4. ToSet(s \o t) \subseteq ToSet(s) \cup ToSet(t)
    BY <1>2, <1>3, <1>4, <2>1 DEF ToSet
  <2>5. ToSet(s) \subseteq ToSet(s \o t)
    BY <1>2, <2>1, <2>3 DEF ToSet
  <2>6. ToSet(t) \subseteq ToSet(s \o t)
    BY <1>3, <2>1, <2>2 DEF ToSet
  <2> QED
    BY <2>4, <2>5, <2>6
<1> QED
  BY <1>1, <1>6, <1>7

\* The last one taken from a stack.
LEMMA FrontOnce ==
    ASSUME NEW S, NEW s \in Seq(S), Once(s), s # <<>>
    PROVE  /\ Last(s) \in ToSet(s)
           /\ Front(s) \in Seq(S)
           /\ Once(Front(s))
           /\ ToSet(Front(s)) = ToSet(s) \ {Last(s)}
<1> DEFINE n == Len(s)
<1>1. n \in Nat /\ n >= 1
  OBVIOUS
<1>2. Front(s) = SubSeq(s, 1, n - 1) /\ Last(s) = s[n]
  BY DEF Front, Last
<1>3. /\ Front(s) \in Seq(S) /\ Len(Front(s)) = n - 1
      /\ \A i \in 1 .. n - 1 : Front(s)[i] = s[i]
  <2>1. \A i \in 1 .. n - 1 : s[i] \in S
    BY <1>1
  <2>2. n - 1 \in Int /\ 1 \in Int
    BY <1>1
  <2>3. /\ SubSeq(s, 1, n - 1) \in Seq(S)
        /\ Len(SubSeq(s, 1, n - 1)) = IF 1 <= n - 1 THEN (n - 1) - 1 + 1 ELSE 0
        /\ \A i \in 1 .. (n - 1) - 1 + 1 : SubSeq(s, 1, n - 1)[i] = s[1 + i - 1]
    BY <2>1, <2>2, SubSeqProperties
  <2>4. \A i \in 1 .. n - 1 : 1 + i - 1 = i
    BY <1>1
  <2>5. (n - 1) - 1 + 1 = n - 1 /\ (IF 1 <= n - 1 THEN (n - 1) - 1 + 1 ELSE 0) = n - 1
    <3>1. \A k \in Nat : k >= 1 =>
             /\ (k - 1) - 1 + 1 = k - 1
             /\ (IF 1 <= k - 1 THEN (k - 1) - 1 + 1 ELSE 0) = k - 1
      OBVIOUS
    <3> QED
      BY ONLY <1>1, <3>1
  <2>6. \A i \in 1 .. n - 1 : SubSeq(s, 1, n - 1)[i] = s[i]
    <3> TAKE i \in 1 .. n - 1
    <3>1. SubSeq(s, 1, n - 1)[i] = s[1 + i - 1]
      BY ONLY <1>1, <2>3, <2>5, i \in 1 .. n - 1
    <3> QED
      BY ONLY <2>4, <3>1, i \in 1 .. n - 1
  <2>7. Len(SubSeq(s, 1, n - 1)) = n - 1
    BY ONLY <2>3, <2>5
  <2> QED
    BY <1>2, <2>3, <2>6, <2>7
<1>4. DOMAIN Front(s) = 1 .. n - 1 /\ DOMAIN s = 1 .. n
  BY <1>3
<1>5. Once(Front(s))
  BY <1>1, <1>3 DEF Once
<1>6. Last(s) \in ToSet(s)
  BY <1>1, <1>2, <1>4 DEF ToSet
<1>7. ToSet(Front(s)) = ToSet(s) \ {Last(s)}
  <2>1. ASSUME NEW i \in 1 .. n - 1 PROVE Front(s)[i] \in ToSet(s) \ {Last(s)}
    BY <1>1, <1>2, <1>3, <1>4 DEF ToSet, Once
  <2>2. ASSUME NEW i \in 1 .. n, s[i] # Last(s) PROVE s[i] \in ToSet(Front(s))
    <3>1. i \in 1 .. n - 1
      BY <1>1, <1>2, <2>2
    <3> QED
      BY <1>3, <1>4, <3>1 DEF ToSet
  <2> QED
    BY <1>4, <2>1, <2>2 DEF ToSet
<1> QED
  BY <1>3, <1>5, <1>6, <1>7

\* How often a member occurs.
LEMMA CountOnce ==
    ASSUME NEW S, NEW s \in Seq(S), Once(s), NEW u
    PROVE  Cardinality({i \in DOMAIN s : s[i] = u}) = IF u \in ToSet(s) THEN 1 ELSE 0
<1>1. DOMAIN s = 1 .. Len(s)
  OBVIOUS
<1>2. CASE u \in ToSet(s)
  <2>1. PICK i \in DOMAIN s : s[i] = u
    BY <1>2 DEF ToSet
  <2>2. {j \in DOMAIN s : s[j] = u} = {i}
    BY <1>1, <2>1 DEF Once
  <2> QED
    BY <1>2, <2>2, FS_Singleton
<1>3. CASE u \notin ToSet(s)
  <2>1. {j \in DOMAIN s : s[j] = u} = {}
    BY <1>3 DEF ToSet
  <2> QED
    BY <1>3, <2>1, FS_EmptySet
<1> QED
  BY <1>2, <1>3

-----------------------------------------------------------------------------
(* The inductive invariant. *)

Waits == ToSet(pending)
PLinked == pYoung \cup pOld
OLinked == oYoung \cup oOld

Types ==
    /\ at \in [Obj -> Addr \cup {NULL}]
    /\ young \subseteq Obj /\ held \subseteq Obj
    /\ made \subseteq PyObj /\ freed \subseteq made
    /\ refcnt \in [PyObj -> Nat]
    /\ link \in [PyObj -> Addr \cup {NULL, Marker}]
    /\ owned \in [PyObj -> 0 .. MaxRefs]
    /\ pDict \in [Outer -> PyObj \cup {NULL}]
    /\ pDictNurs \in [Nursery -> PyObj \cup {NULL}]
    /\ pending \in Seq(PyObj)
    /\ fired \in BOOLEAN

\* Objects do not share addresses, and only young ones are in the nursery.
Places ==
    /\ \A x, y \in Obj : at[x] = at[y] => x = y \/ at[x] = NULL
    /\ \A x \in young \cup held : Exists(x)
    /\ \A x \in Obj : InNursery(x) => x \in young

\* What is linked is alive, and so is the object that it is linked to; the lists for young
\* objects are apart from those for old ones.
Links ==
    /\ Linked \subseteq made \ freed
    /\ \A u \in Linked : \E x \in Obj : at[x] = link[u] /\ Exists(x)
    /\ \A u \in pYoung \cup oYoung, x \in Obj : at[x] = link[u] => x \in young
    /\ \A u \in pOld \cup oOld, x \in Obj : at[x] = link[u] => x \notin young
    /\ \A u \in (made \ freed) \ Linked : link[u] \in {NULL, Marker}

\* A PyObject that is not made yet has left no trace.
Unmade == \A u \in PyObj \ made : owned[u] = 0 /\ link[u] = NULL

\* A PyObject waits once, and is not freed while it waits.
Stack == Once(pending) /\ Waits \subseteq made \ freed

\* The references to a PyObject that are not the share of its link.
Base(u) == owned[u] + (IF u \in Waits THEN 1 ELSE 0)

Counts ==
    \A u \in made \ freed :
        /\ u \in Linked => refcnt[u] = Base(u) + FromPypy \/ refcnt[u] = Base(u) + Light
        /\ u \notin Linked => refcnt[u] = Base(u)
        /\ link[u] = Marker => refcnt[u] = 0

\* The dictionaries hold the P links, and nothing else.
Dicts ==
    /\ \A a \in Outer, u \in PyObj : pDict[a] = u <=> u \in PLinked /\ link[u] = a
    /\ \A a \in Nursery, u \in PyObj : pDictNurs[a] = u <=> u \in PLinked /\ link[u] = a

Inv ==
    /\ Types
    /\ Places
    /\ Links
    /\ Unmade
    /\ Stack
    /\ Counts
    /\ Dicts

-----------------------------------------------------------------------------
(* The actions of the interpreter and of C code. *)

\* What the lists and the stack say does not change with them.
LEMMA ListsKept == UNCHANGED lists => Linked' = Linked /\ PLinked' = PLinked
  BY DEF lists, Linked, PLinked

LEMMA StackKept == Stack /\ UNCHANGED <<pending, made, freed>> => Stack' /\ Waits' = Waits
  BY DEF Stack, Waits, Once

\* The address of a linked PyObject is that of an object.
LEMMA LinkedAddress ==
    ASSUME Types, Links, NEW u \in Linked
    PROVE  u \in PyObj /\ link[u] \in Addr
<1>1. u \in PyObj
  BY DEF Types, Links
<1>2. PICK x \in Obj : at[x] = link[u] /\ at[x] # NULL
  BY DEF Links, Exists
<1>3. at[x] \in Addr
  BY <1>2 DEF Types
<1> QED
  BY <1>1, <1>2, <1>3

\* A PyObject that is not linked is in no list and in no dictionary.
LEMMA NotLinked == ASSUME NEW u, u \notin Linked PROVE u \notin PLinked
  BY DEF Linked, PLinked

LEMMA MallocPlaces ==
    ASSUME Types, Places, Links, Unmade, NEW x \in Obj, NEW a \in Addr, Malloc(x, a)
    PROVE  /\ at' \in [Obj -> Addr \cup {NULL}] /\ young' \subseteq Obj /\ held' \subseteq Obj
           /\ Places'
           /\ \A u \in Linked : link[u] # a
           /\ \A y \in Obj : y # x => at'[y] = at[y]
           /\ at'[x] = a /\ Exists(x)'
           /\ young' = young \cup {x}
           /\ \A u \in Linked, y \in Obj : at'[y] = link[u] => y # x /\ at[y] = link[u]
<1>1. /\ at[x] = NULL /\ \A y \in Obj : at[y] # a
      /\ at' = [at EXCEPT ![x] = a] /\ young' = young \cup {x} /\ held' = held \cup {x}
  <2>1. \A y \in Obj : Exists(y) => at[y] # a
    BY DEF Malloc, Free, ObjAt
  <2> QED
    BY <2>1, AddrAssumption DEF Malloc, Exists, Addr
<1>2. at' \in [Obj -> Addr \cup {NULL}]
  BY <1>1 DEF Types
<1>3. a # NULL
  BY AddrAssumption DEF Addr
<1>4. \A y \in Obj : at'[y] = IF y = x THEN a ELSE at[y]
  BY <1>1 DEF Types
<1>5. Places'
  <2>1. \A y, z \in Obj : at'[y] = at'[z] => y = z \/ at'[y] = NULL
    BY <1>1, <1>4 DEF Places
  <2>2. \A y \in young' \cup held' : at'[y] # NULL
    BY <1>1, <1>3, <1>4 DEF Places, Types, Exists
  <2>3. \A y \in Obj : at'[y] \in Nursery => y \in young'
    BY <1>1, <1>4 DEF Places, InNursery
  <2> QED
    BY <2>1, <2>2, <2>3 DEF Places, Exists, InNursery
<1>6. \A u \in Linked : link[u] # a
  BY <1>1 DEF Links
<1> QED
  BY <1>1, <1>2, <1>3, <1>4, <1>5, <1>6 DEF Types, Exists

LEMMA NewStep ==
    ASSUME Inv, NEW x \in Obj, NEW a \in Addr, New(x, a)
    PROVE  Inv'
<1> USE DEF Inv
<1>1. /\ UNCHANGED <<made, freed, refcnt, link, owned, pending, fired>>
      /\ UNCHANGED <<pYoung, pOld, oYoung, oOld, pDict, pDictNurs>>
  BY DEF New, lists, dicts
<1>2. UNCHANGED lists
  BY <1>1 DEF lists
<1>3. Malloc(x, a)
  BY DEF New
<1>4. Types'
  BY <1>1, <1>3, MallocPlaces DEF Types
<1>5. Places'
  BY <1>3, MallocPlaces
<1>6. Links'
  <2>1. Linked' = Linked /\ \A u \in Linked : u \in PyObj
    BY <1>2, ListsKept, LinkedAddress
  <2>2. \A u \in Linked : \E y \in Obj : at'[y] = link[u] /\ at'[y] # NULL
    BY <1>3, MallocPlaces DEF Links, Exists, Malloc
  <2>3. pYoung \cup oYoung \subseteq Linked /\ pOld \cup oOld \subseteq Linked
    BY DEF Linked
  <2>4. \A u \in pYoung \cup oYoung, y \in Obj : at'[y] = link[u] => y \in young'
    BY <1>3, <2>3, MallocPlaces DEF Links
  <2>5. \A u \in pOld \cup oOld, y \in Obj : at'[y] = link[u] => y \notin young'
    BY <1>3, <2>3, MallocPlaces DEF Links
  <2> QED
    BY <1>1, <2>1, <2>2, <2>4, <2>5 DEF Links, Exists
<1>7. Unmade'
  BY <1>1 DEF Unmade
<1>8. Stack' /\ Waits' = Waits
  BY <1>1, StackKept
<1>9. Counts'
  BY <1>1, <1>2, <1>8, ListsKept DEF Counts, Base
<1>10. Dicts'
  BY <1>1, <1>2, ListsKept DEF Dicts
<1> QED
  BY <1>4, <1>5, <1>6, <1>7, <1>8, <1>9, <1>10

LEMMA DropStep ==
    ASSUME Inv, NEW x \in Obj, Drop(x)
    PROVE  Inv'
<1> USE DEF Inv
<1>1. UNCHANGED <<at, young, made, freed, refcnt, link, owned, lists, dicts, pending, fired>>
  BY DEF Drop, objects
<1>2. UNCHANGED <<pYoung, pOld, oYoung, oOld, pDict, pDictNurs>>
  BY <1>1 DEF lists, dicts
<1>3. held' \subseteq held
  BY DEF Drop
<1>4. Types'
  BY <1>1, <1>2, <1>3 DEF Types
<1>5. Places'
  BY <1>1, <1>3 DEF Places, Exists, InNursery
<1>6. Links'
  BY <1>1, <1>2, ListsKept DEF Links, Exists
<1>7. Unmade'
  BY <1>1 DEF Unmade
<1>8. Stack' /\ Waits' = Waits
  BY <1>1, StackKept
<1>9. Counts'
  BY <1>1, <1>8, ListsKept DEF Counts, Base
<1>10. Dicts'
  BY <1>1, <1>2, ListsKept DEF Dicts
<1> QED
  BY <1>4, <1>5, <1>6, <1>7, <1>8, <1>9, <1>10

LEMMA ToObjStep ==
    ASSUME Inv, NEW u \in PyObj, ToObj(u)
    PROVE  Inv'
<1> USE DEF Inv
<1>1. UNCHANGED <<at, young, made, freed, refcnt, link, owned, lists, dicts, pending, fired>>
  BY DEF ToObj, objects
<1>2. UNCHANGED <<pYoung, pOld, oYoung, oOld, pDict, pDictNurs>>
  BY <1>1 DEF lists, dicts
<1>3. held' = held \cup ObjAt(link[u])
  BY DEF ToObj
<1>4. Types'
  BY <1>1, <1>2, <1>3 DEF Types, ObjAt
<1>5. Places'
  BY <1>1, <1>3 DEF Places, Exists, InNursery, ObjAt
<1>6. Links'
  BY <1>1, <1>2, ListsKept DEF Links, Exists
<1>7. Unmade'
  BY <1>1 DEF Unmade
<1>8. Stack' /\ Waits' = Waits
  BY <1>1, StackKept
<1>9. Counts'
  BY <1>1, <1>8, ListsKept DEF Counts, Base
<1>10. Dicts'
  BY <1>1, <1>2, ListsKept DEF Dicts
<1> QED
  BY <1>4, <1>5, <1>6, <1>7, <1>8, <1>9, <1>10

LEMMA InvokeCallbackStep ==
    ASSUME Inv, InvokeCallback
    PROVE  Inv'
<1> USE DEF Inv
<1>1. UNCHANGED <<at, young, held, made, freed, refcnt, link, owned, lists, dicts, pending>>
  BY DEF InvokeCallback, objects
<1>2. UNCHANGED <<pYoung, pOld, oYoung, oOld, pDict, pDictNurs>>
  BY <1>1 DEF lists, dicts
<1>3. fired' \in BOOLEAN
  BY DEF InvokeCallback
<1>4. Types'
  BY <1>1, <1>2, <1>3 DEF Types
<1>5. Places'
  BY <1>1 DEF Places, Exists, InNursery
<1>6. Links'
  BY <1>1, <1>2, ListsKept DEF Links, Exists
<1>7. Unmade'
  BY <1>1 DEF Unmade
<1>8. Stack' /\ Waits' = Waits
  BY <1>1, StackKept
<1>9. Counts'
  BY <1>1, <1>8, ListsKept DEF Counts, Base
<1>10. Dicts'
  BY <1>1, <1>2, ListsKept DEF Dicts
<1> QED
  BY <1>4, <1>5, <1>6, <1>7, <1>8, <1>9, <1>10

\* One more reference of C code.
LEMMA Incremented ==
    ASSUME Inv, NEW u \in made \ freed, link[u] # Marker, owned[u] < MaxRefs,
           refcnt' = [refcnt EXCEPT ![u] = @ + 1],
           owned' = [owned EXCEPT ![u] = @ + 1],
           UNCHANGED <<objects, held, made, freed, link, lists, dicts, pending, fired>>
    PROVE  Inv'
<1> USE DEF Inv
<1>1. UNCHANGED <<at, young, held, made, freed, link, lists, dicts, pending, fired>>
  BY DEF objects
<1>2. UNCHANGED <<pYoung, pOld, oYoung, oOld, pDict, pDictNurs>>
  BY <1>1 DEF lists, dicts
<1>3. u \in PyObj /\ owned[u] \in Nat /\ owned[u] + 1 \in 0 .. MaxRefs /\ refcnt[u] \in Nat
  BY CountAssumption DEF Types
<1>4. /\ refcnt' \in [PyObj -> Nat] /\ owned' \in [PyObj -> 0 .. MaxRefs]
      /\ \A v \in PyObj : refcnt'[v] = IF v = u THEN refcnt[v] + 1 ELSE refcnt[v]
      /\ \A v \in PyObj : owned'[v] = IF v = u THEN owned[v] + 1 ELSE owned[v]
  BY <1>3 DEF Types
<1>5. Types'
  BY <1>1, <1>2, <1>4 DEF Types
<1>6. Places'
  BY <1>1 DEF Places, Exists, InNursery
<1>7. Links'
  BY <1>1, <1>2, ListsKept DEF Links, Exists
<1>8. Unmade'
  BY <1>1, <1>4 DEF Unmade
<1>9. Stack' /\ Waits' = Waits
  BY <1>1, StackKept
<1>10. Counts'
  <2>1. Linked' = Linked
    BY <1>1, ListsKept
  <2>2. \A v \in PyObj : v # u => refcnt'[v] = refcnt[v] /\ Base(v)' = Base(v)
    BY <1>4, <1>9 DEF Base
  <2>3. refcnt'[u] = refcnt[u] + 1 /\ Base(u)' = Base(u) + 1 /\ Base(u) \in Nat
    BY <1>3, <1>4, <1>9 DEF Base
  <2>4. /\ u \in Linked => refcnt[u] = Base(u) + FromPypy \/ refcnt[u] = Base(u) + Light
        /\ u \notin Linked => refcnt[u] = Base(u)
    BY DEF Counts
  <2>5. /\ u \in Linked => \/ refcnt'[u] = Base(u)' + FromPypy
                           \/ refcnt'[u] = Base(u)' + Light
        /\ u \notin Linked => refcnt'[u] = Base(u)'
    BY <2>3, <2>4, CountAssumption
  <2>6. ASSUME NEW v \in made \ freed, v # u
        PROVE  /\ v \in Linked => \/ refcnt'[v] = Base(v)' + FromPypy
                                  \/ refcnt'[v] = Base(v)' + Light
               /\ v \notin Linked => refcnt'[v] = Base(v)'
               /\ link[v] = Marker => refcnt'[v] = 0
    BY <2>2, <2>6 DEF Counts, Types
  <2>7. made' = made /\ freed' = freed /\ link' = link
    BY <1>1
  <2> QED
    BY <2>1, <2>5, <2>6, <2>7 DEF Counts
<1>11. Dicts'
  BY <1>1, <1>2, ListsKept DEF Dicts
<1> QED
  BY <1>5, <1>6, <1>7, <1>8, <1>9, <1>10, <1>11

\* What the dictionaries find is linked.
LEMMA FoundIsLinked ==
    ASSUME Inv, NEW x \in Obj, Exists(x), FromObj(x) # NULL
    PROVE  FromObj(x) \in Linked /\ FromObj(x) \in made \ freed /\ link[FromObj(x)] = at[x]
<1>1. at[x] \in Nursery \cup Outer
  BY DEF Inv, Types, Exists, Addr
<1>2. FromObj(x) \in PyObj
  BY <1>1 DEF Inv, Types, FromObj, InNursery
<1>3. FromObj(x) \in PLinked /\ link[FromObj(x)] = at[x]
  BY <1>1, <1>2 DEF Inv, Dicts, FromObj, InNursery
<1> QED
  BY <1>3 DEF Inv, Links, Linked, PLinked

LEMMA MakeRefStep ==
    ASSUME Inv, NEW x \in Obj, MakeRef(x)
    PROVE  Inv'
<1>1. x \in held /\ FromObj(x) # NULL /\ Exists(x)
  BY DEF MakeRef, Inv, Places
<1>2. FromObj(x) \in made \ freed /\ link[FromObj(x)] = at[x]
  BY <1>1, FoundIsLinked
<1>3. at[x] # Marker
  BY <1>1, AddrAssumption DEF Inv, Types
<1> QED
  BY <1>2, <1>3, Incremented DEF MakeRef

LEMMA IncRefStep ==
    ASSUME Inv, NEW u \in PyObj, IncRef(u)
    PROVE  Inv'
  BY Incremented DEF IncRef, Usable, Live, Dying

\* One reference is given back.
LEMMA Decremented ==
    ASSUME Inv, NEW u \in made \ freed, Dec(u), Base(u) >= 1,
           \A v \in PyObj : Base(v)' = IF v = u THEN Base(v) - 1 ELSE Base(v),
           UNCHANGED <<objects, held, made, freed, lists, dicts>>,
           owned' \in [PyObj -> 0 .. MaxRefs], \A v \in PyObj \ made : owned'[v] = 0,
           pending' \in Seq(PyObj), Stack', fired' \in BOOLEAN
    PROVE  Inv'
<1> USE DEF Inv
<1>1. UNCHANGED <<at, young, held, made, freed, lists, dicts>>
  BY DEF objects
<1>2. UNCHANGED <<pYoung, pOld, oYoung, oOld, pDict, pDictNurs>>
  BY <1>1 DEF lists, dicts
<1>3. u \in PyObj /\ refcnt[u] \in Nat /\ Base(u) \in Nat
  BY DEF Types, Base
<1>4. /\ u \in Linked => refcnt[u] = Base(u) + FromPypy \/ refcnt[u] = Base(u) + Light
      /\ u \notin Linked => refcnt[u] = Base(u)
  BY DEF Counts
<1>5. refcnt[u] >= 1 /\ (u \in Linked => refcnt[u] > 1)
  BY <1>3, <1>4, CountAssumption
<1>6. refcnt' = [refcnt EXCEPT ![u] = @ - 1] /\ refcnt[u] - 1 \in Nat
  BY <1>3, <1>5 DEF Dec
<1>7. /\ refcnt' \in [PyObj -> Nat]
      /\ \A v \in PyObj : refcnt'[v] = IF v = u THEN refcnt[v] - 1 ELSE refcnt[v]
  BY <1>3, <1>6 DEF Types
<1>8. /\ link' \in [PyObj -> Addr \cup {NULL, Marker}]
      /\ \A v \in PyObj : link'[v] = IF v = u /\ refcnt[u] = 1 THEN Marker ELSE link[v]
  BY <1>3 DEF Types, Dec
<1>9. \A v \in Linked : link'[v] = link[v] /\ v \in PyObj
  BY <1>5, <1>8, LinkedAddress
<1>10. Linked' = Linked /\ PLinked' = PLinked /\ PLinked \subseteq Linked
  BY <1>1, ListsKept DEF Linked, PLinked
<1>11. Types'
  BY <1>1, <1>2, <1>7, <1>8 DEF Types
<1>12. Places'
  BY <1>1 DEF Places, Exists, InNursery
<1>13. Links'
  <2>1. pYoung \cup oYoung \subseteq Linked /\ pOld \cup oOld \subseteq Linked
    BY DEF Linked
  <2>2. \A v \in (made \ freed) \ Linked : link'[v] \in {NULL, Marker}
    BY <1>8 DEF Links, Types
  <2> QED
    BY <1>1, <1>2, <1>9, <1>10, <2>1, <2>2 DEF Links, Exists
<1>14. Unmade'
  BY <1>1, <1>8 DEF Unmade
<1>15. Counts'
  <2>1. Base(u)' = Base(u) - 1 /\ refcnt'[u] = refcnt[u] - 1
    BY <1>3, <1>7
  <2>2. /\ u \in Linked => refcnt'[u] = Base(u)' + FromPypy \/ refcnt'[u] = Base(u)' + Light
        /\ u \notin Linked => refcnt'[u] = Base(u)'
    BY <1>3, <1>4, <2>1, CountAssumption
  <2>3. link'[u] = Marker => refcnt'[u] = 0
    <3>1. CASE refcnt[u] = 1
      BY <2>1, <3>1
    <3>2. CASE refcnt[u] # 1
      BY <1>3, <1>5, <1>8, <3>2 DEF Counts
    <3> QED
      BY <3>1, <3>2
  <2>4. ASSUME NEW v \in made \ freed, v # u
        PROVE  /\ v \in Linked => \/ refcnt'[v] = Base(v)' + FromPypy
                                  \/ refcnt'[v] = Base(v)' + Light
               /\ v \notin Linked => refcnt'[v] = Base(v)'
               /\ link'[v] = Marker => refcnt'[v] = 0
    <3>1. v \in PyObj
      BY DEF Types
    <3>2. refcnt'[v] = refcnt[v] /\ Base(v)' = Base(v) /\ link'[v] = link[v]
      BY <1>7, <1>8, <2>4, <3>1
    <3> QED
      BY <3>2 DEF Counts
  <2>5. made' = made /\ freed' = freed
    BY <1>1
  <2> QED
    BY <1>10, <2>2, <2>3, <2>4, <2>5 DEF Counts
<1>16. Dicts'
  <2>1. \A v \in PLinked : link'[v] = link[v]
    BY <1>9, <1>10
  <2> QED
    BY <1>2, <1>10, <2>1 DEF Dicts
<1> QED
  BY <1>11, <1>12, <1>13, <1>14, <1>15, <1>16

LEMMA DecRefStep ==
    ASSUME Inv, NEW u \in PyObj, DecRef(u)
    PROVE  Inv'
<1>1. u \in made \ freed /\ owned[u] > 0 /\ owned' = [owned EXCEPT ![u] = @ - 1]
  BY DEF DecRef, Live
<1>2. /\ owned' \in [PyObj -> 0 .. MaxRefs]
      /\ \A v \in PyObj : owned'[v] = IF v = u THEN owned[v] - 1 ELSE owned[v]
  BY <1>1, CountAssumption DEF Inv, Types
<1>3. UNCHANGED <<pending, made, freed, fired>>
  BY DEF DecRef
<1>4. Stack' /\ Waits' = Waits
  BY <1>3, StackKept DEF Inv
<1>5. \A v \in PyObj : owned[v] \in Nat
  BY DEF Inv, Types
<1>6. /\ Base(u) >= 1
      /\ \A v \in PyObj : Base(v)' = IF v = u THEN Base(v) - 1 ELSE Base(v)
  BY <1>1, <1>2, <1>4, <1>5 DEF Base
<1>7. \A v \in PyObj \ made : owned'[v] = 0
  BY <1>1, <1>2 DEF Inv, Unmade
<1>8. pending' \in Seq(PyObj) /\ fired' \in BOOLEAN
  BY <1>3 DEF Inv, Types
<1> QED
  BY <1>1, <1>2, <1>4, <1>6, <1>7, <1>8, Decremented DEF DecRef

LEMMA PerformStep ==
    ASSUME Inv, Perform
    PROVE  Inv'
<1>1. CASE pending = <<>>
  <2>1. UNCHANGED <<at, young, held, made, freed, refcnt, link, owned, lists, dicts, pending>>
    BY <1>1 DEF Perform, objects
  <2>2. UNCHANGED <<pYoung, pOld, oYoung, oOld, pDict, pDictNurs>>
    BY <2>1 DEF lists, dicts
  <2>3. fired' \in BOOLEAN
    BY <1>1 DEF Perform
  <2>4. Types'
    BY <2>1, <2>2, <2>3 DEF Inv, Types
  <2>5. Places'
    BY <2>1 DEF Inv, Places, Exists, InNursery
  <2>6. Links'
    BY <2>1, <2>2, ListsKept DEF Inv, Links, Exists
  <2>7. Unmade'
    BY <2>1 DEF Inv, Unmade
  <2>8. Stack' /\ Waits' = Waits
    BY <2>1, StackKept DEF Inv
  <2>9. Counts'
    BY <2>1, <2>8, ListsKept DEF Inv, Counts, Base
  <2>10. Dicts'
    BY <2>1, <2>2, ListsKept DEF Inv, Dicts
  <2> QED
    BY <2>4, <2>5, <2>6, <2>7, <2>8, <2>9, <2>10 DEF Inv
<1>2. CASE pending # <<>>
  <2> DEFINE u == Last(pending)
  <2>1. /\ pending' = Front(pending) /\ Dec(u)
        /\ UNCHANGED <<objects, held, made, freed, owned, lists, dicts, fired>>
    BY <1>2 DEF Perform
  <2>2. /\ u \in Waits /\ pending' \in Seq(PyObj)
        /\ Once(pending') /\ Waits' = Waits \ {u}
    BY <1>2, <2>1, FrontOnce DEF Inv, Types, Stack, Waits
  <2>3. u \in made \ freed
    BY <2>2 DEF Inv, Stack
  <2>4. Stack'
    BY <2>1, <2>2 DEF Inv, Stack
  <2>5. \A v \in PyObj : owned[v] \in Nat /\ owned'[v] = owned[v]
    BY <2>1 DEF Inv, Types
  <2>6. u \in PyObj
    BY <2>3 DEF Inv, Types
  <2>7. /\ Base(u) >= 1
        /\ \A v \in PyObj : Base(v)' = IF v = u THEN Base(v) - 1 ELSE Base(v)
    <3> HIDE DEF u
    <3> QED
      BY <2>2, <2>5, <2>6 DEF Base
  <2>8. /\ \A v \in PyObj \ made : owned'[v] = 0
        /\ owned' \in [PyObj -> 0 .. MaxRefs] /\ fired' \in BOOLEAN
    BY <2>1 DEF Inv, Unmade, Types
  <2> QED
    BY <2>1, <2>2, <2>3, <2>4, <2>7, <2>8, Decremented
<1> QED
  BY <1>1, <1>2

LEMMA NewPyObjStep ==
    ASSUME Inv, NEW u \in PyObj, NewPyObj(u)
    PROVE  Inv'
<1> USE DEF Inv
<1>1. /\ UNCHANGED <<at, young, held, freed, link, lists, dicts, pending, fired>>
      /\ u \notin made /\ made' = made \cup {u}
  BY DEF NewPyObj, objects
<1>2. UNCHANGED <<pYoung, pOld, oYoung, oOld, pDict, pDictNurs>>
  BY <1>1 DEF lists, dicts
<1>3. /\ refcnt' \in [PyObj -> Nat] /\ owned' \in [PyObj -> 0 .. MaxRefs]
      /\ \A v \in PyObj : refcnt'[v] = IF v = u THEN 1 ELSE refcnt[v]
      /\ \A v \in PyObj : owned'[v] = IF v = u THEN 1 ELSE owned[v]
  BY CountAssumption DEF NewPyObj, Types
<1>4. link[u] = NULL /\ u \notin Linked /\ u \notin Waits /\ NULL # Marker
  BY <1>1, AddrAssumption DEF Unmade, Links, Stack
<1>5. Types'
  BY <1>1, <1>2, <1>3 DEF Types
<1>6. Places'
  BY <1>1 DEF Places, Exists, InNursery
<1>7. Links'
  BY <1>1, <1>2, <1>4, ListsKept DEF Links, Exists
<1>8. Unmade'
  BY <1>1, <1>3 DEF Unmade
<1>9. Waits' = Waits /\ Stack'
  BY <1>1 DEF Stack, Waits, Once
<1>10. Counts'
  <2>1. Linked' = Linked
    BY <1>1, ListsKept
  <2>2. refcnt'[u] = Base(u)' /\ u \notin Linked' /\ link'[u] # Marker
    BY <1>1, <1>3, <1>4, <1>9, <2>1 DEF Base
  <2>3. ASSUME NEW v \in made \ freed
        PROVE  refcnt'[v] = refcnt[v] /\ Base(v)' = Base(v) /\ link'[v] = link[v]
    <3>1. v \in PyObj /\ v # u
      BY <1>1 DEF Types
    <3> QED
      BY <1>1, <1>3, <1>9, <3>1 DEF Base
  <2>4. made' \ freed' \subseteq (made \ freed) \cup {u}
    BY <1>1
  <2> QED
    BY <2>1, <2>2, <2>3, <2>4 DEF Counts
<1>11. Dicts'
  BY <1>1, <1>2, ListsKept DEF Dicts
<1> QED
  BY <1>5, <1>6, <1>7, <1>8, <1>9, <1>10, <1>11

LEMMA FinishDeallocStep ==
    ASSUME Inv, NEW u \in PyObj, FinishDealloc(u)
    PROVE  Inv'
<1> USE DEF Inv
<1>1. /\ UNCHANGED <<at, young, held, made, refcnt, link, owned, lists, dicts, pending, fired>>
      /\ u \in made \ freed /\ link[u] = Marker /\ freed' = freed \cup {u}
  BY DEF FinishDealloc, Dying, Live, objects
<1>2. UNCHANGED <<pYoung, pOld, oYoung, oOld, pDict, pDictNurs>>
  BY <1>1 DEF lists, dicts
<1>3. u \notin Linked
  BY <1>1, LinkedAddress, AddrAssumption
<1>4. u \notin Waits
  <2>1. refcnt[u] = 0 /\ refcnt[u] = Base(u) /\ owned[u] \in Nat
    BY <1>1, <1>3 DEF Counts, Types
  <2> QED
    BY <2>1 DEF Base
<1>5. Types'
  BY <1>1, <1>2 DEF Types
<1>6. Places'
  BY <1>1 DEF Places, Exists, InNursery
<1>7. Links'
  BY <1>1, <1>2, <1>3, ListsKept DEF Links, Exists
<1>8. Unmade'
  BY <1>1 DEF Unmade
<1>9. Waits' = Waits /\ Stack'
  BY <1>1, <1>4 DEF Stack, Waits, Once
<1>10. Counts'
  BY <1>1, <1>9, ListsKept DEF Counts, Base
<1>11. Dicts'
  BY <1>1, <1>2, ListsKept DEF Dicts
<1> QED
  BY <1>5, <1>6, <1>7, <1>8, <1>9, <1>10, <1>11

\* A PyObject that was not linked is linked to an object at an address that no other P
\* link leads to.
LEMMA LinkedDicts ==
    ASSUME Inv, NEW u \in PyObj, NEW a \in Addr, NEW isYoung \in BOOLEAN,
           CreateLinkPypy(u, a, isYoung), u \notin Linked,
           \A v \in PLinked : link[v] # a
    PROVE  /\ Dicts'
           /\ link' \in [PyObj -> Addr \cup {NULL, Marker}]
           /\ \A v \in PyObj : link'[v] = IF v = u THEN a ELSE link[v]
           /\ pDict' \in [Outer -> PyObj \cup {NULL}]
           /\ pDictNurs' \in [Nursery -> PyObj \cup {NULL}]
           /\ Linked' = Linked \cup {u}
           /\ pYoung' = IF isYoung THEN pYoung \cup {u} ELSE pYoung
           /\ pOld' = IF isYoung THEN pOld ELSE pOld \cup {u}
           /\ UNCHANGED <<oYoung, oOld>>
<1> USE DEF Inv
<1>1. /\ link' \in [PyObj -> Addr \cup {NULL, Marker}]
      /\ \A v \in PyObj : link'[v] = IF v = u THEN a ELSE link[v]
  BY DEF CreateLinkPypy, Types
<1>2. /\ pYoung' = IF isYoung THEN pYoung \cup {u} ELSE pYoung
      /\ pOld' = IF isYoung THEN pOld ELSE pOld \cup {u}
      /\ UNCHANGED <<oYoung, oOld>>
  BY DEF CreateLinkPypy
<1>3. Linked' = Linked \cup {u} /\ PLinked' = PLinked \cup {u}
  BY <1>2 DEF Linked, PLinked
<1>4. /\ pDict' \in [Outer -> PyObj \cup {NULL}]
      /\ pDictNurs' \in [Nursery -> PyObj \cup {NULL}]
      /\ \A b \in Outer : pDict'[b] = IF b = a /\ a \notin Nursery THEN u ELSE pDict[b]
      /\ \A b \in Nursery : pDictNurs'[b] = IF b = a THEN u ELSE pDictNurs[b]
  BY DEF CreateLinkPypy, Types
<1>5. u \notin PLinked
  BY NotLinked
<1>6. \A b \in Outer, v \in PyObj : pDict'[b] = v <=> v \in PLinked' /\ link'[v] = b
  <2> TAKE b \in Outer, v \in PyObj
  <2>1. pDict[b] = v <=> v \in PLinked /\ link[v] = b
    BY DEF Dicts
  <2>2. b = a => a \notin Nursery
    BY AddrAssumption
  <2> QED
    BY <1>1, <1>3, <1>4, <1>5, <2>1, <2>2
<1>7. \A b \in Nursery, v \in PyObj : pDictNurs'[b] = v <=> v \in PLinked' /\ link'[v] = b
  <2> TAKE b \in Nursery, v \in PyObj
  <2>1. pDictNurs[b] = v <=> v \in PLinked /\ link[v] = b
    BY DEF Dicts
  <2> QED
    BY <1>1, <1>3, <1>4, <1>5, <2>1
<1>8. Dicts'
  BY <1>6, <1>7 DEF Dicts
<1> QED
  BY <1>1, <1>2, <1>3, <1>4, <1>8

LEMMA CreateRefStep ==
    ASSUME Inv, NEW x \in Obj, NEW u \in PyObj, NEW bump \in {FromPypy, Light},
           CreateRef(x, u, bump)
    PROVE  Inv'
<1> USE DEF Inv
<1> DEFINE isYoung == x \in young
<1>1. /\ UNCHANGED <<at, young, held, freed, owned, pending, fired>>
      /\ u \notin made /\ made' = made \cup {u}
      /\ CreateLinkPypy(u, at[x], x \in young)
      /\ refcnt' = [refcnt EXCEPT ![u] = bump]
      /\ x \in held /\ FromObj(x) = NULL
  BY DEF CreateRef, objects
<1>2. at[x] \in Addr /\ Exists(x)
  BY <1>1 DEF Places, Types, Exists
<1>3. u \notin Linked /\ u \notin Waits /\ owned[u] = 0
  BY <1>1 DEF Links, Stack, Unmade
<1>4. \A v \in PLinked : link[v] # at[x]
  <2> SUFFICES ASSUME NEW v \in PLinked, link[v] = at[x] PROVE FALSE
    OBVIOUS
  <2>1. v \in PyObj
    BY DEF Types, Links, Linked, PLinked
  <2>2. FromObj(x) = v
    BY <1>2, <2>1 DEF Dicts, FromObj, InNursery, Addr
  <2> QED
    BY <1>1, <2>1, <2>2, AddrAssumption
<1>5. (x \in young) \in BOOLEAN
  OBVIOUS
<1>6. /\ Dicts'
      /\ link' \in [PyObj -> Addr \cup {NULL, Marker}]
      /\ \A v \in PyObj : link'[v] = IF v = u THEN at[x] ELSE link[v]
      /\ pDict' \in [Outer -> PyObj \cup {NULL}]
      /\ pDictNurs' \in [Nursery -> PyObj \cup {NULL}]
      /\ Linked' = Linked \cup {u}
      /\ pYoung' = IF x \in young THEN pYoung \cup {u} ELSE pYoung
      /\ pOld' = IF x \in young THEN pOld ELSE pOld \cup {u}
      /\ UNCHANGED <<oYoung, oOld>>
  BY <1>1, <1>2, <1>3, <1>4, <1>5, LinkedDicts
<1>7. /\ refcnt' \in [PyObj -> Nat]
      /\ \A v \in PyObj : refcnt'[v] = IF v = u THEN bump ELSE refcnt[v]
  BY <1>1, CountAssumption DEF Types
<1>8. Types'
  BY <1>1, <1>6, <1>7 DEF Types
<1>9. Places'
  BY <1>1 DEF Places, Exists, InNursery
<1>10. Links'
  <2>1. Linked' \subseteq made' \ freed'
    BY <1>1, <1>6 DEF Links, Types
  <2>2. \A v \in Linked : v # u /\ v \in PyObj /\ link'[v] = link[v]
    BY <1>3, <1>6, LinkedAddress
  <2>3. link'[u] = at[x]
    BY <1>6
  <2>4. \A v \in Linked' : \E y \in Obj : at[y] = link'[v] /\ Exists(y)
    BY <1>2, <1>6, <2>2, <2>3 DEF Links
  <2>5. \A y \in Obj : at[y] = at[x] => y = x
    BY <1>2 DEF Places, Exists
  <2>6. pYoung \cup oYoung \subseteq Linked /\ pOld \cup oOld \subseteq Linked
    BY DEF Linked
  <2>7. \A v \in pYoung' \cup oYoung', y \in Obj : at[y] = link'[v] => y \in young
    BY <1>6, <2>2, <2>3, <2>5, <2>6 DEF Links
  <2>8. \A v \in pOld' \cup oOld', y \in Obj : at[y] = link'[v] => y \notin young
    BY <1>6, <2>2, <2>3, <2>5, <2>6 DEF Links
  <2>9. \A v \in (made' \ freed') \ Linked' : link'[v] \in {NULL, Marker}
    BY <1>1, <1>6 DEF Links, Types
  <2> QED
    BY <1>1, <2>1, <2>4, <2>7, <2>8, <2>9 DEF Links, Exists
<1>11. Unmade'
  BY <1>1, <1>6 DEF Unmade
<1>12. Waits' = Waits /\ Stack'
  BY <1>1 DEF Stack, Waits, Once
<1>13. Counts'
  <2>1. refcnt'[u] = bump /\ Base(u)' = 0 /\ link'[u] # Marker
    BY <1>1, <1>2, <1>3, <1>6, <1>7, <1>12, AddrAssumption DEF Base
  <2>2. refcnt'[u] = Base(u)' + FromPypy \/ refcnt'[u] = Base(u)' + Light
    BY <2>1, CountAssumption
  <2>3. ASSUME NEW v \in made \ freed
        PROVE  /\ refcnt'[v] = refcnt[v] /\ Base(v)' = Base(v) /\ link'[v] = link[v]
               /\ v \in Linked' <=> v \in Linked
    <3>1. v \in PyObj /\ v # u
      BY <1>1 DEF Types
    <3> QED
      BY <1>1, <1>6, <1>7, <1>12, <3>1 DEF Base
  <2>4. made' \ freed' \subseteq (made \ freed) \cup {u} /\ u \in Linked'
    BY <1>1, <1>6
  <2> QED
    BY <2>1, <2>2, <2>3, <2>4 DEF Counts
<1> QED
  BY <1>6, <1>8, <1>9, <1>10, <1>11, <1>12, <1>13

\* A PyObject that was not linked is linked to a new object, by either kind of link.
LEMMA Realized ==
    ASSUME Inv, NEW u \in made \ freed, link[u] = NULL, NEW x \in Obj, NEW a \in Addr,
           NEW bump \in {FromPypy, Light}, Malloc(x, a),
           refcnt' = [refcnt EXCEPT ![u] = @ + bump],
           link' \in [PyObj -> Addr \cup {NULL, Marker}],
           \A v \in PyObj : link'[v] = IF v = u THEN a ELSE link[v],
           Linked' = Linked \cup {u},
           pYoung' \cup oYoung' = pYoung \cup oYoung \cup {u},
           pOld' \cup oOld' = pOld \cup oOld,
           pDict' \in [Outer -> PyObj \cup {NULL}],
           pDictNurs' \in [Nursery -> PyObj \cup {NULL}],
           Dicts',
           UNCHANGED <<made, freed, owned, pending, fired>>
    PROVE  Inv'
<1> USE DEF Inv
<1>1. u \notin Linked /\ u \in PyObj /\ a # Marker
  BY LinkedAddress, AddrAssumption DEF Types, Addr
<1>2. /\ refcnt' \in [PyObj -> Nat]
      /\ \A v \in PyObj : refcnt'[v] = IF v = u THEN refcnt[u] + bump ELSE refcnt[v]
  <2>1. refcnt[u] \in Nat /\ bump \in Nat
    BY <1>1, CountAssumption DEF Types
  <2>2. refcnt[u] + bump \in Nat
    BY <2>1
  <2> QED
    BY <1>1, <2>2 DEF Types
<1>3. Types' /\ Places'
  BY <1>2, MallocPlaces DEF Types
<1>4. Links'
  <2>1. \A v \in Linked : v # u /\ v \in PyObj /\ link'[v] = link[v]
    BY <1>1, LinkedAddress
  <2>2. link'[u] = a /\ at'[x] = a /\ at'[x] # NULL /\ x \in young'
    BY <1>1, MallocPlaces DEF Exists
  <2>3. \A v \in Linked' : \E y \in Obj : at'[y] = link'[v] /\ at'[y] # NULL
    <3>1. \A v \in Linked : \E y \in Obj : at'[y] = link[v] /\ at'[y] # NULL
      BY MallocPlaces DEF Links, Exists, Malloc
    <3> QED
      BY <2>1, <2>2, <3>1
  <2>4. \A y \in Obj : at'[y] = a => y = x
    BY <1>3, <2>2 DEF Places
  <2>5. pYoung \cup oYoung \subseteq Linked /\ pOld \cup oOld \subseteq Linked
    BY DEF Linked
  <2>6. \A v \in Linked, y \in Obj : at'[y] = link[v] => at[y] = link[v] /\ y # x
    BY MallocPlaces
  <2>7. young' = young \cup {x}
    BY MallocPlaces
  <2>8. \A v \in pYoung \cup oYoung \cup {u}, y \in Obj : at'[y] = link'[v] => y \in young'
    BY <2>1, <2>2, <2>4, <2>5, <2>6, <2>7 DEF Links
  <2>9. \A v \in pOld \cup oOld, y \in Obj : at'[y] = link'[v] => y \notin young'
    BY <2>1, <2>5, <2>6, <2>7 DEF Links
  <2>10. \A v \in (made \ freed) \ Linked' : link'[v] \in {NULL, Marker}
    BY DEF Links, Types
  <2>11. Linked' \subseteq made \ freed
    BY DEF Links
  <2> QED
    BY <2>3, <2>8, <2>9, <2>10, <2>11 DEF Links, Exists
<1>5. Unmade'
  BY DEF Unmade
<1>6. Stack' /\ Waits' = Waits
  BY StackKept
<1>7. Counts'
  <2>1. \A v \in PyObj : Base(v)' = Base(v) /\ Base(v) \in Nat
    BY <1>6 DEF Base, Types
  <2>2. refcnt[u] = Base(u)
    BY <1>1 DEF Counts
  <2>3. refcnt'[u] = Base(u)' + FromPypy \/ refcnt'[u] = Base(u)' + Light
    BY <1>1, <1>2, <2>1, <2>2
  <2>4. ASSUME NEW v \in made \ freed, v # u
        PROVE  /\ refcnt'[v] = refcnt[v] /\ Base(v)' = Base(v) /\ link'[v] = link[v]
               /\ v \in Linked' <=> v \in Linked
    <3>1. v \in PyObj
      BY DEF Types
    <3> QED
      BY <1>2, <2>1, <2>4, <3>1
  <2>5. u \in Linked' /\ link'[u] # Marker
    BY <1>1
  <2>6. made' = made /\ freed' = freed
    OBVIOUS
  <2> QED
    BY <2>3, <2>4, <2>5, <2>6 DEF Counts
<1> QED
  BY <1>3, <1>4, <1>5, <1>6, <1>7

LEMMA RealizeStep ==
    ASSUME Inv, NEW u \in PyObj, NEW x \in Obj, NEW a \in Addr, Realize(u, x, a)
    PROVE  Inv'
<1>1. /\ u \in made \ freed /\ link[u] = NULL /\ Malloc(x, a)
      /\ refcnt' = [refcnt EXCEPT ![u] = @ + FromPypy]
      /\ CreateLinkPypy(u, a, TRUE)
      /\ UNCHANGED <<made, freed, owned, pending, fired>>
  BY DEF Realize, Usable, Live
<1>2. u \notin Linked
  BY <1>1, LinkedAddress, AddrAssumption DEF Inv
<1>3. \A v \in Linked : link[v] # a
  BY <1>1, MallocPlaces DEF Inv
<1>4. \A v \in PLinked : link[v] # a
  BY <1>3 DEF PLinked, Linked
<1>5. /\ Dicts'
      /\ link' \in [PyObj -> Addr \cup {NULL, Marker}]
      /\ \A v \in PyObj : link'[v] = IF v = u THEN a ELSE link[v]
      /\ pDict' \in [Outer -> PyObj \cup {NULL}]
      /\ pDictNurs' \in [Nursery -> PyObj \cup {NULL}]
      /\ Linked' = Linked \cup {u}
      /\ pYoung' = pYoung \cup {u}
      /\ pOld' = pOld
      /\ UNCHANGED <<oYoung, oOld>>
  BY <1>1, <1>2, <1>4, LinkedDicts
<1>6. /\ pYoung' \cup oYoung' = pYoung \cup oYoung \cup {u}
      /\ pOld' \cup oOld' = pOld \cup oOld
  BY <1>5
<1> QED
  BY <1>1, <1>5, <1>6, Realized

LEMMA RealizeProxyStep ==
    ASSUME Inv, NEW u \in PyObj, NEW x \in Obj, NEW a \in Addr,
           NEW bump \in {FromPypy, Light}, RealizeProxy(u, x, a, bump)
    PROVE  Inv'
<1>1. /\ u \in made \ freed /\ link[u] = NULL /\ Malloc(x, a)
      /\ refcnt' = [refcnt EXCEPT ![u] = @ + bump]
      /\ link' = [link EXCEPT ![u] = a] /\ oYoung' = oYoung \cup {u}
      /\ UNCHANGED <<pYoung, pOld, oOld>> /\ UNCHANGED <<pDict, pDictNurs>>
      /\ UNCHANGED <<made, freed, owned, pending, fired>>
  BY DEF RealizeProxy, Usable, Live, dicts
<1>2. u \notin Linked
  BY <1>1, LinkedAddress, AddrAssumption DEF Inv
<1>3. /\ link' \in [PyObj -> Addr \cup {NULL, Marker}]
      /\ \A v \in PyObj : link'[v] = IF v = u THEN a ELSE link[v]
  BY <1>1 DEF Inv, Types
<1>4. /\ Linked' = Linked \cup {u} /\ PLinked' = PLinked
      /\ pYoung' \cup oYoung' = pYoung \cup oYoung \cup {u}
      /\ pOld' \cup oOld' = pOld \cup oOld
  BY <1>1 DEF Linked, PLinked
<1>5. /\ pDict' \in [Outer -> PyObj \cup {NULL}]
      /\ pDictNurs' \in [Nursery -> PyObj \cup {NULL}]
  BY <1>1 DEF Inv, Types
<1>6. \A v \in PLinked : v # u /\ v \in PyObj
  BY <1>2, NotLinked DEF Inv, Types, Links, Linked, PLinked
<1>7. Dicts'
  BY <1>1, <1>3, <1>4, <1>6 DEF Inv, Dicts
<1> QED
  BY <1>1, <1>3, <1>4, <1>5, <1>7, Realized

-----------------------------------------------------------------------------
(* The collections. *)

\* What the count of a linked PyObject tells of its link and of its other references.
LEMMA RestIsBase ==
    ASSUME Inv, NEW u \in Linked
    PROVE  /\ Base(u) \in Nat
           /\ Rest(u) = Base(u)
           /\ refcnt[u] = Base(u) + (IF IsLight(u) THEN Light ELSE FromPypy)
           /\ refcnt[u] \in {FromPypy, Light} <=> Base(u) = 0
<1>1. u \in PyObj /\ u \in made \ freed
  BY DEF Inv, Types, Links
<1>2. owned[u] \in 0 .. MaxRefs
  BY <1>1 DEF Inv, Types
<1>3. Base(u) \in Nat /\ Base(u) <= MaxRefs + 1
  BY <1>2, CountAssumption DEF Base
<1>4. refcnt[u] = Base(u) + FromPypy \/ refcnt[u] = Base(u) + Light
  BY <1>1 DEF Inv, Counts
<1> QED
  BY <1>3, <1>4, CountAssumption DEF Rest, IsLight

\* _rrc_free leaves each dead PyObject to C code, to its deallocation, or to nobody.
LEMMA RrcFreed ==
    ASSUME Inv, NEW dead \in SUBSET Linked, RrcFree(dead), UNCHANGED <<owned, made>>,
           Linked' = Linked \ dead,
           \A u \in dead : link'[u] = NULL,
           \A u \in Linked \ dead : link'[u] \in Addr,
           \A u \in PyObj \ Linked : link'[u] = link[u]
    PROVE  /\ refcnt' \in [PyObj -> Nat]
           /\ freed' \subseteq made
           /\ pending' \in Seq(PyObj)
           /\ \A u \in freed' : u \in freed \/ (u \in dead /\ refcnt'[u] = 0)
           /\ \A u \in PyObj \ dead : refcnt'[u] = refcnt[u]
           /\ Linked' \subseteq made' \ freed'
           /\ \A u \in (made' \ freed') \ Linked' : link'[u] \in {NULL, Marker}
           /\ Stack'
           /\ Counts'
<1> USE DEF Inv
<1> DEFINE once == FreedAtOnce(dead)
           todo == ToDealloc(dead)
<1>1. /\ dead \subseteq PyObj /\ dead \subseteq made \ freed
      /\ Linked \subseteq PyObj /\ Linked \subseteq made \ freed
  BY DEF Links, Types
<1>2. /\ refcnt' = [u \in PyObj |-> IF u \in dead THEN RcLeft(u) ELSE refcnt[u]]
      /\ freed' = freed \cup once
      /\ pending' = pending \o SetToSeq(todo)
  BY DEF RrcFree
<1>3. \A u \in dead : /\ u \in once <=> IsLight(u) /\ Base(u) = 0
                      /\ u \in todo <=> ~IsLight(u) /\ Base(u) = 0
                      /\ RcLeft(u) = IF u \in todo THEN 1 ELSE Base(u)
                      /\ Base(u) \in Nat
  BY RestIsBase DEF FreedAtOnce, ToDealloc, RcLeft
<1>4. once \subseteq dead /\ todo \subseteq dead
  BY DEF FreedAtOnce, ToDealloc
<1> HIDE DEF once, todo
<1>5. \A u \in dead : Base(u) = 0 => u \notin Waits /\ owned[u] = 0
  <2> TAKE u \in dead
  <2>1. owned[u] \in Nat
    BY <1>1 DEF Types
  <2> QED
    BY <2>1 DEF Base
<1>6. IsFiniteSet(todo)
  BY <1>1, <1>4, PyObjAssumption, FS_Subset
<1>7. /\ SetToSeq(todo) \in Seq(PyObj) /\ Once(SetToSeq(todo))
      /\ ToSet(SetToSeq(todo)) = todo
  <2>1. /\ SetToSeq(todo) \in Seq(todo) /\ Once(SetToSeq(todo))
        /\ ToSet(SetToSeq(todo)) = todo
    BY <1>6, SetToSeqOnce
  <2>2. todo \subseteq PyObj
    BY <1>1, <1>4
  <2>3. SetToSeq(todo) \in Seq(PyObj)
    BY <2>1, <2>2
  <2> QED
    BY <2>1, <2>3
<1>8. Waits \cap todo = {}
  BY <1>3, <1>4, <1>5
<1>9. /\ pending' \in Seq(PyObj) /\ Once(pending')
      /\ Waits' = Waits \cup todo
  <2>1. pending \in Seq(PyObj) /\ Once(pending) /\ ToSet(pending) \cap ToSet(SetToSeq(todo)) = {}
    BY <1>7, <1>8 DEF Types, Stack, Waits
  <2>2. /\ pending \o SetToSeq(todo) \in Seq(PyObj)
        /\ Once(pending \o SetToSeq(todo))
        /\ ToSet(pending \o SetToSeq(todo)) = ToSet(pending) \cup ToSet(SetToSeq(todo))
    BY <1>7, <2>1, ConcatOnce
  <2> QED
    BY <1>2, <1>7, <2>2 DEF Waits
<1>10. /\ refcnt' \in [PyObj -> Nat]
       /\ \A u \in PyObj : refcnt'[u] = IF u \in dead THEN RcLeft(u) ELSE refcnt[u]
  <2>1. \A u \in dead : RcLeft(u) \in Nat
    BY <1>3
  <2> QED
    BY <1>2, <2>1 DEF Types
<1>11. freed' \subseteq made /\ once \cap Waits = {} /\ once \cap todo = {}
  BY <1>1, <1>2, <1>3, <1>4, <1>5 DEF Types
<1>12. Stack'
  BY <1>1, <1>2, <1>4, <1>9, <1>11 DEF Stack
<1>13. \A u \in PyObj : Base(u)' = owned[u] + (IF u \in Waits \cup todo THEN 1 ELSE 0)
  BY <1>9 DEF Base
<1>14. \A u \in freed' : u \in freed \/ (u \in dead /\ refcnt'[u] = 0)
  <2> SUFFICES ASSUME NEW u \in once PROVE u \in dead /\ refcnt'[u] = 0
    BY <1>2
  <2> QED
    BY <1>1, <1>3, <1>4, <1>10, <1>11
<1>15. Counts'
  <2> SUFFICES ASSUME NEW u \in made \ freed, u \notin freed'
               PROVE  /\ u \in Linked' => \/ refcnt'[u] = Base(u)' + FromPypy
                                          \/ refcnt'[u] = Base(u)' + Light
                      /\ u \notin Linked' => refcnt'[u] = Base(u)'
                      /\ link'[u] = Marker => refcnt'[u] = 0
    BY <1>2 DEF Counts
  <2>1. u \in PyObj /\ owned[u] \in Nat
    BY DEF Types
  <2>2. CASE u \in dead
    <3>1. link'[u] # Marker /\ u \notin Linked'
      BY <2>2, AddrAssumption
    <3>2. refcnt'[u] = IF u \in todo THEN 1 ELSE Base(u)
      BY <1>3, <1>10, <2>1, <2>2
    <3>3. CASE u \in todo
      BY <1>3, <1>5, <1>13, <2>1, <2>2, <3>1, <3>2, <3>3
    <3>4. CASE u \notin todo
      <4>1. Base(u)' = Base(u)
        BY <1>13, <2>1, <3>4 DEF Base
      <4> QED
        BY <3>1, <3>2, <3>4, <4>1
    <3> QED
      BY <3>3, <3>4
  <2>3. CASE u \notin dead
    <3>1. Base(u)' = Base(u) /\ refcnt'[u] = refcnt[u]
      BY <1>4, <1>10, <1>13, <2>1, <2>3 DEF Base
    <3>2. u \in Linked => u \in Linked' /\ link'[u] # Marker
      BY <2>3, AddrAssumption
    <3>3. u \notin Linked => link'[u] = link[u] /\ u \notin Linked'
      BY <2>1
    <3> QED
      BY <3>1, <3>2, <3>3 DEF Counts
  <2> QED
    BY <2>2, <2>3
<1>16. Linked' \subseteq made' \ freed'
  BY <1>1, <1>2, <1>4
<1>17. \A u \in (made' \ freed') \ Linked' : link'[u] \in {NULL, Marker}
  <2> TAKE u \in (made' \ freed') \ Linked'
  <2>1. u \in PyObj /\ u \in made \ freed
    BY <1>2 DEF Types
  <2> QED
    BY <2>1 DEF Links
<1> QED
  BY <1>9, <1>10, <1>11, <1>12, <1>14, <1>15, <1>16, <1>17

\* The object that a PyObject is linked to.
ObjectOf(u) == CHOOSE x \in ObjAt(link[u]) : TRUE

LEMMA OneObject ==
    ASSUME Inv, NEW u \in Linked
    PROVE  /\ ObjAt(link[u]) = {ObjectOf(u)}
           /\ ObjectOf(u) \in Obj /\ at[ObjectOf(u)] = link[u] /\ Exists(ObjectOf(u))
           /\ \A x \in Obj : at[x] = link[u] => x = ObjectOf(u)
           /\ u \in pYoung \cup oYoung => ObjectOf(u) \in young
           /\ u \in pOld \cup oOld => ObjectOf(u) \notin young
<1>1. PICK x \in Obj : at[x] = link[u] /\ Exists(x)
  BY DEF Inv, Links
<1>2. \A y \in Obj : at[y] = link[u] => y = x
  BY <1>1 DEF Inv, Places, Exists
<1>3. ObjAt(link[u]) = {x}
  BY <1>1, <1>2 DEF ObjAt
<1>4. ObjectOf(u) = x
  BY <1>3 DEF ObjectOf
<1> QED
  BY <1>1, <1>2, <1>3, <1>4 DEF Inv, Links

\* P links lead to different objects, so to different addresses.
LEMMA OneLink ==
    ASSUME Inv, NEW u \in PLinked, NEW v \in PLinked, link[u] = link[v]
    PROVE  u = v
<1>1. u \in Linked /\ v \in Linked
  BY DEF Linked, PLinked
<1>2. u \in PyObj /\ v \in PyObj /\ link[u] \in Nursery \cup Outer
  BY <1>1, LinkedAddress DEF Inv, Addr
<1>3. CASE link[u] \in Outer
  BY <1>2, <1>3 DEF Inv, Dicts
<1>4. CASE link[u] \in Nursery
  BY <1>2, <1>4 DEF Inv, Dicts
<1> QED
  BY <1>2, <1>3, <1>4

LEMMA MajorStep ==
    ASSUME Inv, NEW marked \in SUBSET Obj, Major(marked)
    PROVE  Inv'
<1> USE DEF Inv
<1> DEFINE dead == {u \in pOld \cup oOld : ObjAt(link[u]) \cap marked = {}}
           linkedTo(a) == {u \in pOld \ dead : link[u] = a}
<1>1. /\ young = {}
      /\ \A x \in marked : Exists(x)
      /\ held \subseteq marked
      /\ at' = [x \in Obj |-> IF x \in marked THEN at[x] ELSE NULL]
      /\ link' = [u \in PyObj |-> IF u \in dead THEN NULL ELSE link[u]]
      /\ pDict' = [a \in Outer |->
                       IF linkedTo(a) = {} THEN NULL ELSE CHOOSE u \in linkedTo(a) : TRUE]
      /\ pOld' = pOld \ dead
      /\ oOld' = oOld \ dead
      /\ RrcFree(dead)
      /\ UNCHANGED <<young, held, made, owned, pYoung, oYoung, pDictNurs, fired>>
  BY DEF Major
<1>2. pYoung = {} /\ oYoung = {}
  <2>1. pYoung \cup oYoung \subseteq Linked
    BY DEF Linked
  <2> QED
    BY <1>1, <2>1, OneObject
<1>3. \A u \in Linked : u \in dead <=> ObjectOf(u) \notin marked
  BY <1>2, OneObject DEF Linked
<1>4. dead \subseteq Linked /\ dead \subseteq pOld \cup oOld
  BY DEF Linked
<1>5. \A u, a : u \in linkedTo(a) <=> u \in pOld /\ u \notin dead /\ link[u] = a
  OBVIOUS
<1> HIDE DEF dead, linkedTo
<1>6. Linked' = Linked \ dead /\ PLinked' = pOld \ dead /\ PLinked = pOld
  BY <1>1, <1>2 DEF Linked, PLinked
<1>7. /\ at' \in [Obj -> Addr \cup {NULL}]
      /\ \A x \in Obj : at'[x] = IF x \in marked THEN at[x] ELSE NULL
  BY <1>1 DEF Types
<1>8. /\ link' \in [PyObj -> Addr \cup {NULL, Marker}]
      /\ \A u \in PyObj : link'[u] = IF u \in dead THEN NULL ELSE link[u]
  BY <1>1 DEF Types
<1>9. Linked \subseteq PyObj /\ PLinked \subseteq Linked
  BY LinkedAddress DEF Linked, PLinked
<1>10. \A u \in Linked \ dead : /\ link'[u] = link[u] /\ link[u] \in Addr
                                /\ at'[ObjectOf(u)] = link[u] /\ ObjectOf(u) \in Obj
                                /\ link[u] # NULL
  <2> TAKE u \in Linked \ dead
  <2>1. u \in PyObj /\ link[u] \in Addr
    BY LinkedAddress
  <2>2. /\ ObjectOf(u) \in marked /\ ObjectOf(u) \in Obj /\ at[ObjectOf(u)] = link[u]
        /\ link[u] # NULL
    BY <1>3, OneObject DEF Exists
  <2> QED
    BY <1>7, <1>8, <2>1, <2>2
<1>11. /\ refcnt' \in [PyObj -> Nat]
       /\ freed' \subseteq made
       /\ pending' \in Seq(PyObj)
       /\ Linked' \subseteq made' \ freed'
       /\ \A u \in (made' \ freed') \ Linked' : link'[u] \in {NULL, Marker}
       /\ Stack'
       /\ Counts'
  <2>1. dead \in SUBSET Linked /\ RrcFree(dead) /\ UNCHANGED <<owned, made>>
    BY <1>1, <1>4
  <2>2. \A u \in dead : link'[u] = NULL
    BY <1>4, <1>8, <1>9
  <2>3. \A u \in Linked \ dead : link'[u] \in Addr
    BY <1>10
  <2>4. \A u \in PyObj \ Linked : link'[u] = link[u]
    BY <1>4, <1>8
  <2> QED
    BY <1>6, <2>1, <2>2, <2>3, <2>4, RrcFreed
<1>12. /\ pDict' \in [Outer -> PyObj \cup {NULL}]
       /\ \A a \in Outer : \/ linkedTo(a) = {} /\ pDict'[a] = NULL
                           \/ pDict'[a] \in linkedTo(a)
  <2>1. \A a : linkedTo(a) \subseteq PyObj
    BY <1>5, <1>6, <1>9
  <2>2. \A a \in Outer : linkedTo(a) # {} => (CHOOSE u \in linkedTo(a) : TRUE) \in linkedTo(a)
    OBVIOUS
  <2> QED
    BY <1>1, <2>1, <2>2
<1>13. Types'
  BY <1>1, <1>7, <1>8, <1>11, <1>12 DEF Types
<1>14. Places'
  <2>1. \A x, y \in Obj : at'[x] = at'[y] => x = y \/ at'[x] = NULL
    BY <1>7 DEF Places
  <2>2. \A x \in young' \cup held' : at'[x] # NULL
    BY <1>1, <1>7 DEF Exists
  <2>3. \A x \in Obj : at'[x] \in Nursery => x \in young'
    BY <1>1, <1>7, AddrAssumption DEF Places, InNursery, Addr
  <2> QED
    BY <2>1, <2>2, <2>3 DEF Places, Exists, InNursery
<1>15. Links'
  <2>1. pYoung' \cup oYoung' = {} /\ young' = {}
    BY <1>1, <1>2
  <2>2. \A u \in Linked' : \E x \in Obj : at'[x] = link'[u] /\ at'[x] # NULL
    BY <1>6, <1>10
  <2> QED
    BY <1>11, <2>1, <2>2 DEF Links, Exists
<1>16. Unmade'
  <2>1. \A u \in PyObj \ made : u \notin dead
    BY <1>4 DEF Links
  <2> QED
    BY <1>1, <1>8, <2>1 DEF Unmade
<1>17. Dicts'
  <2>1. \A u \in PLinked' : u \in PLinked /\ u \in Linked \ dead /\ link'[u] = link[u]
    BY <1>6, <1>9, <1>10
  <2>2. ASSUME NEW a \in Outer, NEW u \in PyObj
        PROVE  pDict'[a] = u <=> u \in PLinked' /\ link'[u] = a
    <3>1. u \in PLinked' /\ link'[u] = a <=> u \in linkedTo(a)
      BY <1>5, <1>6, <2>1
    <3>2. \A v \in linkedTo(a) : u \in linkedTo(a) => u = v
      BY <1>5, <1>6, OneLink
    <3>3. u # NULL
      BY AddrAssumption
    <3> QED
      BY <1>12, <3>1, <3>2, <3>3
  <2>3. ASSUME NEW a \in Nursery, NEW u \in PLinked PROVE link[u] # a
    <3>1. at[ObjectOf(u)] = link[u] /\ ObjectOf(u) \in Obj
      BY <1>9, OneObject
    <3> QED
      BY <1>1, <3>1 DEF Places, InNursery
  <2>4. \A a \in Nursery, u \in PyObj : pDictNurs'[a] = u <=> u \in PLinked' /\ link'[u] = a
    BY <1>1, <2>1, <2>3 DEF Dicts
  <2> QED
    BY <2>2, <2>4 DEF Dicts
<1> QED
  BY <1>11, <1>13, <1>14, <1>15, <1>16, <1>17

\* Where the survivors of a minor collection go.
LEMMA MinorPlaces ==
    ASSUME Types, Places, NEW survivors \in SUBSET young, NEW to \in Moves(survivors),
           young \cap held \subseteq survivors,
           at' = [x \in Obj |-> IF x \in survivors THEN to[x]
                               ELSE IF x \in young THEN NULL ELSE at[x]],
           young' = {}, held' = held
    PROVE  /\ at' \in [Obj -> Addr \cup {NULL}]
           /\ Places'
           /\ \A x \in survivors : at'[x] = to[x] /\ to[x] \in Outer /\ to[x] # NULL
           /\ \A x \in survivors : at[x] \notin Nursery => to[x] = at[x]
           /\ \A x \in Obj \ young : at'[x] = at[x]
<1>1. /\ \A x, y \in survivors : to[x] = to[y] => x = y
      /\ \A x \in survivors : to[x] \in Outer
      /\ \A x \in survivors : at[x] \in Nursery => \A y \in Obj : Exists(y) => at[y] # to[x]
      /\ \A x \in survivors : at[x] \notin Nursery => to[x] = at[x]
  BY DEF Moves, IsInjective, InNursery, Free, ObjAt
<1>2. NULL \notin Outer /\ NULL \notin Nursery /\ Outer \cap Nursery = {}
  BY AddrAssumption DEF Addr
<1>3. \A x \in Obj : at'[x] = IF x \in survivors THEN to[x]
                              ELSE IF x \in young THEN NULL ELSE at[x]
  OBVIOUS
<1>4. at' \in [Obj -> Addr \cup {NULL}]
  BY <1>1 DEF Types, Addr
<1>5. survivors \subseteq young /\ survivors \subseteq Obj
  BY DEF Types
<1>6. \A x, y \in Obj : x \in survivors /\ y \notin young /\ to[x] = at[y] => FALSE
  BY <1>1, <1>2, <1>5 DEF Places, Exists
<1>7. \A x, y \in Obj : at'[x] = at'[y] => x = y \/ at'[x] = NULL
  <2> SUFFICES ASSUME NEW x \in Obj, NEW y \in Obj, at'[x] = at'[y], at'[x] # NULL
               PROVE  x = y
    OBVIOUS
  <2>1. CASE x \in survivors /\ y \in survivors
    BY <1>1, <1>3, <2>1
  <2>2. CASE x \notin survivors /\ y \notin survivors
    BY <1>3, <2>2 DEF Places
  <2>3. CASE x \in survivors /\ y \notin survivors
    BY <1>3, <1>6, <2>3
  <2>4. CASE x \notin survivors /\ y \in survivors
    BY <1>3, <1>6, <2>4
  <2> QED
    BY <2>1, <2>2, <2>3, <2>4
<1>8. \A x \in held : at'[x] # NULL
  BY <1>1, <1>2, <1>3 DEF Places, Exists, Types
<1>9. \A x \in Obj : at'[x] \notin Nursery
  BY <1>1, <1>2, <1>3, <1>5 DEF Places, InNursery
<1>10. Places'
  BY <1>7, <1>8, <1>9 DEF Places, Exists, InNursery
<1> QED
  BY <1>1, <1>2, <1>3, <1>4, <1>5, <1>10

\* What a minor collection does to the PyObjects of young objects, in terms of the object
\* of each.
Lost(survivors) == {u \in pYoung \cup oYoung : ObjectOf(u) \notin survivors}

LEMMA MinorFacts ==
    ASSUME Inv, NEW survivors \in SUBSET young, NEW to, Minor(survivors, to)
    PROVE  /\ to \in Moves(survivors) /\ (young \cap held) \cup Forced(pYoung) \subseteq survivors
           /\ at' = [x \in Obj |-> IF x \in survivors THEN to[x]
                                   ELSE IF x \in young THEN NULL ELSE at[x]]
           /\ link' = [u \in PyObj |->
                          IF u \in (pYoung \cup oYoung) \ Lost(survivors) THEN to[ObjectOf(u)]
                          ELSE IF u \in Lost(survivors) THEN NULL ELSE link[u]]
           /\ pDictNurs' = [a \in Nursery |-> NULL]
           /\ pDict' \in [Outer -> PyObj \cup {NULL}]
           /\ \A a \in Outer :
                 \/ \E u \in pYoung \ Lost(survivors) : to[ObjectOf(u)] = a /\ pDict'[a] = u
                 \/ /\ \A u \in pYoung \ Lost(survivors) : to[ObjectOf(u)] # a
                    /\ pDict'[a] = IF EntryGoes(Lost(survivors), a) THEN NULL ELSE pDict[a]
           /\ young' = {} /\ pYoung' = {} /\ oYoung' = {}
           /\ pOld' = pOld \cup (pYoung \ Lost(survivors))
           /\ oOld' = oOld \cup (oYoung \ Lost(survivors))
           /\ RrcFree(Lost(survivors))
           /\ UNCHANGED <<held, made, owned, fired>>
<1> DEFINE gone == {u \in pYoung \cup oYoung : ObjAt(link[u]) \cap survivors = {}}
           kept == (pYoung \cup oYoung) \ gone
           linked(u) == CHOOSE x \in ObjAt(link[u]) : TRUE
           come(a) == {u \in pYoung \cap kept : to[linked(u)] = a}
<1>1. /\ to \in Moves(survivors) /\ (young \cap held) \cup Forced(pYoung) \subseteq survivors
      /\ at' = [x \in Obj |-> IF x \in survivors THEN to[x]
                              ELSE IF x \in young THEN NULL ELSE at[x]]
      /\ pDictNurs' = [a \in Nursery |-> NULL]
      /\ young' = {} /\ pYoung' = {} /\ oYoung' = {}
      /\ UNCHANGED <<held, made, owned, fired>>
  BY DEF Minor
<1>2. /\ link' = [u \in PyObj |-> IF u \in kept THEN to[linked(u)]
                                  ELSE IF u \in gone THEN NULL ELSE link[u]]
      /\ RrcFree(gone)
  BY DEF Minor
<1>3. /\ pOld' = pOld \cup (pYoung \cap kept)
      /\ oOld' = oOld \cup (oYoung \cap kept)
  BY DEF Minor
<1>4. pDict' = [a \in Outer |-> IF come(a) # {} THEN CHOOSE u \in come(a) : TRUE
                                ELSE IF EntryGoes(gone, a) THEN NULL ELSE pDict[a]]
  BY DEF Minor
<1>5. gone = Lost(survivors)
  <2>1. \A u \in pYoung \cup oYoung : ObjAt(link[u]) = {ObjectOf(u)}
    BY OneObject DEF Linked
  <2> QED
    BY <2>1 DEF Lost
<1>6. /\ kept = (pYoung \cup oYoung) \ Lost(survivors)
      /\ pYoung \cap kept = pYoung \ Lost(survivors) /\ oYoung \cap kept = oYoung \ Lost(survivors)
  BY <1>5
<1>7. \A u : linked(u) = ObjectOf(u)
  BY DEF ObjectOf
<1>8. \A a : come(a) = {u \in pYoung \ Lost(survivors) : to[ObjectOf(u)] = a}
  BY <1>6, <1>7
<1> HIDE DEF gone, kept, linked, come
<1>9. link' = [u \in PyObj |->
                 IF u \in (pYoung \cup oYoung) \ Lost(survivors) THEN to[ObjectOf(u)]
                 ELSE IF u \in Lost(survivors) THEN NULL ELSE link[u]]
  BY ONLY <1>2, <1>5, <1>6, <1>7
<1>10. \A a \in Outer : \/ pDict'[a] \in come(a)
                       \/ /\ come(a) = {}
                          /\ pDict'[a] = IF EntryGoes(Lost(survivors), a) THEN NULL ELSE pDict[a]
  <2>1. \A a \in Outer : come(a) # {} => (CHOOSE u \in come(a) : TRUE) \in come(a)
    OBVIOUS
  <2> QED
    BY <1>4, <1>5, <2>1
<1>11. \A a \in Outer :
          \/ \E u \in pYoung \ Lost(survivors) : to[ObjectOf(u)] = a /\ pDict'[a] = u
          \/ /\ \A u \in pYoung \ Lost(survivors) : to[ObjectOf(u)] # a
             /\ pDict'[a] = IF EntryGoes(Lost(survivors), a) THEN NULL ELSE pDict[a]
  BY <1>8, <1>10
<1>12. pDict' \in [Outer -> PyObj \cup {NULL}]
  <2>1. pYoung \subseteq PyObj
    BY LinkedAddress DEF Inv, Linked
  <2>2. \A a \in Outer : pDict[a] \in PyObj \cup {NULL}
    BY DEF Inv, Types
  <2>3. \A a \in Outer : pDict'[a] \in PyObj \cup {NULL}
    BY <1>11, <2>1, <2>2
  <2>4. pDict' = [a \in Outer |-> pDict'[a]]
    BY <1>4
  <2> QED
    BY <2>3, <2>4
<1> QED
  BY <1>1, <1>3, <1>5, <1>2, <1>6, <1>9, <1>11, <1>12

LEMMA MinorStep ==
    ASSUME Inv, NEW survivors \in SUBSET young, NEW to, Minor(survivors, to)
    PROVE  Inv'
<1> USE DEF Inv
<1> DEFINE dead == Lost(survivors)
<1>1. /\ to \in Moves(survivors) /\ young \cap held \subseteq survivors
      /\ at' = [x \in Obj |-> IF x \in survivors THEN to[x]
                              ELSE IF x \in young THEN NULL ELSE at[x]]
      /\ link' = [u \in PyObj |->
                     IF u \in (pYoung \cup oYoung) \ dead THEN to[ObjectOf(u)]
                     ELSE IF u \in dead THEN NULL ELSE link[u]]
      /\ pDictNurs' = [a \in Nursery |-> NULL]
      /\ young' = {} /\ pYoung' = {} /\ oYoung' = {}
      /\ pOld' = pOld \cup (pYoung \ dead)
      /\ oOld' = oOld \cup (oYoung \ dead)
      /\ RrcFree(dead)
      /\ UNCHANGED <<held, made, owned, fired>>
  BY MinorFacts
<1>2. /\ pDict' \in [Outer -> PyObj \cup {NULL}]
      /\ \A a \in Outer :
            \/ \E u \in pYoung \ dead : to[ObjectOf(u)] = a /\ pDict'[a] = u
            \/ /\ \A u \in pYoung \ dead : to[ObjectOf(u)] # a
               /\ pDict'[a] = IF EntryGoes(dead, a) THEN NULL ELSE pDict[a]
  BY MinorFacts
<1>3. /\ dead \subseteq pYoung \cup oYoung
      /\ \A u \in pYoung \cup oYoung : u \in dead <=> ObjectOf(u) \notin survivors
  BY DEF Lost
<1> HIDE DEF dead
<1>4. Linked \subseteq PyObj /\ PLinked \subseteq Linked
  BY LinkedAddress DEF Linked, PLinked
<1>5. /\ at' \in [Obj -> Addr \cup {NULL}]
      /\ Places'
      /\ \A x \in survivors : at'[x] = to[x] /\ to[x] \in Outer /\ to[x] # NULL
      /\ \A x \in survivors : at[x] \notin Nursery => to[x] = at[x]
      /\ \A x \in Obj \ young : at'[x] = at[x]
  BY <1>1, MinorPlaces
<1>6. \A u \in Linked : /\ ObjectOf(u) \in Obj /\ at[ObjectOf(u)] = link[u] /\ link[u] # NULL
                        /\ u \in pYoung \cup oYoung => ObjectOf(u) \in young
                        /\ u \in pOld \cup oOld => ObjectOf(u) \notin young
                        /\ link[u] \in Addr
  BY OneObject, LinkedAddress DEF Exists
<1>7. (pYoung \cup oYoung) \cap (pOld \cup oOld) = {}
  BY <1>6 DEF Linked
<1>8. /\ Linked' = Linked \ dead
      /\ PLinked' = pOld \cup (pYoung \ dead)
      /\ dead \subseteq Linked
  BY <1>1, <1>3, <1>7 DEF Linked, PLinked
<1>9. /\ \A u \in (pYoung \cup oYoung) \ dead : link'[u] = to[ObjectOf(u)]
      /\ \A u \in dead : link'[u] = NULL
      /\ \A u \in PyObj \ (pYoung \cup oYoung) : link'[u] = link[u]
  <2>1. pYoung \cup oYoung \subseteq PyObj
    BY <1>4 DEF Linked
  <2> QED
    BY <1>1, <1>3, <2>1
<1>10. \A u \in Linked \ dead : /\ link'[u] = at'[ObjectOf(u)] /\ link'[u] \in Outer
                                /\ link'[u] # NULL
  <2> TAKE u \in Linked \ dead
  <2>1. CASE u \in pYoung \cup oYoung
    BY <1>3, <1>5, <1>9, <2>1
  <2>2. CASE u \notin pYoung \cup oYoung
    <3>1. u \in pOld \cup oOld /\ u \in PyObj
      BY <1>4, <2>2 DEF Linked
    <3>2. link'[u] = link[u] /\ ObjectOf(u) \notin young /\ ObjectOf(u) \in Obj
      BY <1>6, <1>9, <2>2, <3>1
    <3>3. at[ObjectOf(u)] \notin Nursery
      BY <3>2 DEF Places, InNursery
    <3> QED
      BY <1>5, <1>6, <3>2, <3>3 DEF Addr
  <2> QED
    BY <2>1, <2>2
<1>11. /\ refcnt' \in [PyObj -> Nat]
       /\ freed' \subseteq made
       /\ pending' \in Seq(PyObj)
       /\ Linked' \subseteq made' \ freed'
       /\ \A u \in (made' \ freed') \ Linked' : link'[u] \in {NULL, Marker}
       /\ Stack'
       /\ Counts'
  <2>1. dead \in SUBSET Linked /\ RrcFree(dead) /\ UNCHANGED <<owned, made>>
    BY <1>1, <1>8
  <2>2. \A u \in Linked \ dead : link'[u] \in Addr
    BY <1>10 DEF Addr
  <2>3. \A u \in PyObj \ Linked : link'[u] = link[u]
    BY <1>9 DEF Linked
  <2> QED
    BY <1>8, <1>9, <2>1, <2>2, <2>3, RrcFreed
<1>12. link' \in [PyObj -> Addr \cup {NULL, Marker}]
  <2>1. \A u \in PyObj : link'[u] \in Addr \cup {NULL, Marker}
    BY <1>3, <1>9, <1>10 DEF Types, Addr, Linked
  <2>2. link' = [u \in PyObj |-> link'[u]]
    BY <1>1
  <2> QED
    BY <2>1, <2>2
<1>13. Types'
  BY <1>1, <1>2, <1>5, <1>11, <1>12 DEF Types
<1>14. Links'
  <2>1. \A u \in Linked' : ObjectOf(u) \in Obj
    BY <1>6, <1>8
  <2>2. \A u \in Linked' : \E x \in Obj : at'[x] = link'[u] /\ at'[x] # NULL
    BY <1>8, <1>10, <2>1
  <2> QED
    BY <1>1, <1>11, <2>2 DEF Links, Exists
<1>15. Unmade'
  <2>1. \A u \in PyObj \ made : u \notin pYoung \cup oYoung
    BY DEF Links, Linked
  <2> QED
    BY <1>1, <1>9, <2>1 DEF Unmade
<1>16. \A u \in PLinked' : u \in Linked \ dead /\ u \in PLinked
  BY <1>4, <1>7, <1>8, <1>3 DEF PLinked
<1>17. \A u, v \in PLinked' : link'[u] = link'[v] => u = v
  <2> SUFFICES ASSUME NEW u \in PLinked', NEW v \in PLinked', link'[u] = link'[v]
               PROVE  u = v
    OBVIOUS
  <2>1. /\ at'[ObjectOf(u)] = at'[ObjectOf(v)] /\ at'[ObjectOf(u)] # NULL
        /\ ObjectOf(u) \in Obj /\ ObjectOf(v) \in Obj
    BY <1>6, <1>10, <1>16
  <2>2. ObjectOf(u) = ObjectOf(v)
    BY <1>5, <2>1 DEF Places
  <2>3. link[u] = link[v]
    BY <1>6, <1>16, <2>2
  <2> QED
    BY <1>16, <2>3, OneLink
<1>18. Dicts'
  <2>1. ASSUME NEW a \in Outer, NEW u \in PyObj
        PROVE  pDict'[a] = u <=> u \in PLinked' /\ link'[u] = a
    <3>1. CASE \E v \in pYoung \ dead : to[ObjectOf(v)] = a /\ pDict'[a] = v
      <4>1. PICK v \in pYoung \ dead : to[ObjectOf(v)] = a /\ pDict'[a] = v
        BY <3>1
      <4>2. v \in PLinked' /\ link'[v] = a
        BY <1>8, <1>9, <4>1
      <4> QED
        BY <1>17, <4>1, <4>2
    <3>2. CASE /\ \A v \in pYoung \ dead : to[ObjectOf(v)] # a
               /\ pDict'[a] = IF EntryGoes(dead, a) THEN NULL ELSE pDict[a]
      <4>1. u \in PLinked' /\ link'[u] = a <=> u \in pOld /\ link[u] = a
        <5>1. u \in pYoung \ dead => link'[u] # a
          BY <1>9, <3>2
        <5>2. u \in pOld => link'[u] = link[u]
          BY <1>7, <1>9
        <5> QED
          BY <1>8, <5>1, <5>2
      <4>2. pDict[a] = u <=> u \in pYoung \cup pOld /\ link[u] = a
        BY DEF Dicts, PLinked
      <4>3. CASE EntryGoes(dead, a)
        <5>1. PICK v \in pYoung \cap dead : link[v] = a
          BY <4>3 DEF EntryGoes
        <5>2. u \in pOld /\ link[u] = a => u = v
          BY <5>1, OneLink DEF PLinked
        <5>3. ~(u \in pOld /\ link[u] = a)
          BY <1>7, <5>1, <5>2
        <5> QED
          BY <3>2, <4>1, <4>3, <5>3, AddrAssumption
      <4>4. CASE ~EntryGoes(dead, a)
        <5>1. u \in pYoung => link[u] # a
          <6> SUFFICES ASSUME u \in pYoung, link[u] = a PROVE FALSE
            OBVIOUS
          <6>1. u \notin dead
            BY <4>4 DEF EntryGoes
          <6>2. ObjectOf(u) \in survivors /\ at[ObjectOf(u)] = a
            BY <1>3, <1>6, <6>1 DEF Linked
          <6>3. to[ObjectOf(u)] = a
            BY <1>5, <6>2, AddrAssumption
          <6> QED
            BY <3>2, <6>1, <6>3
        <5> QED
          BY <3>2, <4>1, <4>2, <4>4, <5>1
      <4> QED
        BY <4>3, <4>4
    <3> QED
      BY <1>2, <3>1, <3>2
  <2>2. ASSUME NEW a \in Nursery, NEW u \in PyObj
        PROVE  pDictNurs'[a] = u <=> u \in PLinked' /\ link'[u] = a
    BY <1>1, <1>10, <1>16, AddrAssumption
  <2> QED
    BY <2>1, <2>2 DEF Dicts
<1> QED
  BY <1>5, <1>11, <1>13, <1>14, <1>15, <1>18

-----------------------------------------------------------------------------
(* The invariant and what follows from it. *)

LEMMA InvInit == Init => Inv
<1> SUFFICES ASSUME Init PROVE Inv
  OBVIOUS
<1> USE CountAssumption, AddrAssumption DEF Init
<1>1. Waits = {} /\ Linked = {} /\ PLinked = {} /\ pending \in Seq(PyObj)
  BY DEF Waits, ToSet, Linked, PLinked
<1>2. Types
  <2>1. 0 \in 0 .. MaxRefs /\ 0 \in Nat
    OBVIOUS
  <2>2. owned \in [PyObj -> 0 .. MaxRefs] /\ refcnt \in [PyObj -> Nat]
    BY <2>1
  <2>3. at \in [Obj -> Addr \cup {NULL}] /\ link \in [PyObj -> Addr \cup {NULL, Marker}]
    OBVIOUS
  <2>4. pDict \in [Outer -> PyObj \cup {NULL}] /\ pDictNurs \in [Nursery -> PyObj \cup {NULL}]
    OBVIOUS
  <2>5. /\ young \subseteq Obj /\ held \subseteq Obj /\ made \subseteq PyObj
        /\ freed \subseteq made /\ fired \in BOOLEAN
    OBVIOUS
  <2> QED
    BY ONLY <1>1, <2>2, <2>3, <2>4, <2>5 DEF Types
<1>3. Places
  <2>1. \A x \in Obj : at[x] = NULL /\ NULL \notin Nursery
    BY DEF Addr
  <2> QED
    BY <2>1 DEF Places, Exists, InNursery
<1>4. Links /\ Unmade
  BY <1>1 DEF Links, Unmade
<1>5. Stack
  BY <1>1 DEF Stack, Once
<1>6. Counts
  BY DEF Counts
<1>7. Dicts
  BY <1>1 DEF Dicts
<1> QED
  BY <1>2, <1>3, <1>4, <1>5, <1>6, <1>7 DEF Inv

LEMMA StutterStep == Inv /\ UNCHANGED vars => Inv'
<1> SUFFICES ASSUME Inv, UNCHANGED vars PROVE Inv'
  OBVIOUS
<1> USE DEF Inv
<1>1. /\ UNCHANGED <<at, young, held, made, freed, refcnt, link, owned, pending, fired>>
      /\ UNCHANGED <<pYoung, pOld, oYoung, oOld, pDict, pDictNurs>> /\ UNCHANGED lists
  BY DEF vars, objects, lists, dicts
<1>2. Types' /\ Unmade'
  BY <1>1 DEF Types, Unmade
<1>3. Places'
  BY <1>1 DEF Places, Exists, InNursery
<1>4. Links'
  BY <1>1, ListsKept DEF Links, Exists
<1>5. Stack' /\ Waits' = Waits
  BY <1>1, StackKept
<1>6. Counts'
  BY <1>1, <1>5, ListsKept DEF Counts, Base
<1>7. Dicts'
  BY <1>1, ListsKept DEF Dicts
<1> QED
  BY <1>2, <1>3, <1>4, <1>5, <1>6, <1>7

LEMMA InvStep == Inv /\ [Next]_vars => Inv'
<1> SUFFICES ASSUME Inv, [Next]_vars PROVE Inv'
  OBVIOUS
<1>1. ASSUME NEW x \in Obj, NEW a \in Addr, New(x, a) PROVE Inv'
  BY <1>1, NewStep
<1>2. ASSUME NEW x \in Obj, Drop(x) \/ MakeRef(x) PROVE Inv'
  BY <1>2, DropStep, MakeRefStep
<1>3. ASSUME NEW x \in Obj, NEW u \in PyObj, NEW bump \in {FromPypy, Light},
             CreateRef(x, u, bump)
      PROVE  Inv'
  BY <1>3, CreateRefStep
<1>4. ASSUME NEW u \in PyObj,
             NewPyObj(u) \/ IncRef(u) \/ DecRef(u) \/ ToObj(u) \/ FinishDealloc(u)
      PROVE  Inv'
  BY <1>4, NewPyObjStep, IncRefStep, DecRefStep, ToObjStep, FinishDeallocStep
<1>5. ASSUME NEW u \in PyObj, NEW x \in Obj, NEW a \in Addr,
             \/ Realize(u, x, a)
             \/ \E bump \in {FromPypy, Light} : RealizeProxy(u, x, a, bump)
      PROVE  Inv'
  BY <1>5, RealizeStep, RealizeProxyStep
<1>6. ASSUME Collect PROVE Inv'
  BY <1>6, MinorStep, MajorStep DEF Collect
<1> QED
  BY <1>1, <1>2, <1>3, <1>4, <1>5, <1>6, StutterStep, InvokeCallbackStep, PerformStep DEF Next

LEMMA Invariance == Spec => []Inv
  BY InvInit, InvStep, PTL DEF Spec

\* The count of a PyObject is exact, its link and its place in the stack of deallocations
\* included, through every order of linking, collecting, resurrecting and deallocating.
THEOREM CountsAreExact == Spec => []CountIsExact
<1>1. Inv => CountIsExact
  <2> SUFFICES ASSUME Inv, NEW u \in PyObj, Live(u)
               PROVE  LET n == Cardinality({i \in DOMAIN pending : pending[i] = u})
                      IN  refcnt[u] \in IF u \in Linked
                                        THEN {owned[u] + n + FromPypy, owned[u] + n + Light}
                                        ELSE {owned[u] + n}
    BY DEF CountIsExact
  <2>1. Cardinality({i \in DOMAIN pending : pending[i] = u}) = IF u \in Waits THEN 1 ELSE 0
    BY CountOnce DEF Inv, Types, Stack, Waits
  <2>2. /\ u \in Linked => refcnt[u] = Base(u) + FromPypy \/ refcnt[u] = Base(u) + Light
        /\ u \notin Linked => refcnt[u] = Base(u)
    BY DEF Live, Inv, Counts
  <2> QED
    BY <2>1, <2>2 DEF Base
<1> QED
  BY <1>1, Invariance, PTL

\* Whatever moves and dies, from_obj() finds the PyObject that is linked to an object, and
\* not the one of an object that was at that address before.
THEOREM FromObjIsRight == Spec => []FromObjIsExact
<1>1. Inv => FromObjIsExact
  <2> SUFFICES ASSUME Inv, NEW x \in Obj, Exists(x)
               PROVE  {FromObj(x)} \ {NULL} = {u \in pYoung \cup pOld : link[u] = at[x]}
    BY DEF FromObjIsExact
  <2>1. \A u \in PLinked : u \in PyObj
    BY DEF Inv, Types, Links, Linked, PLinked
  <2>2. at[x] \in Nursery \cup Outer
    BY DEF Inv, Types, Exists, Addr
  <2>3. FromObj(x) \in PyObj \cup {NULL} /\ NULL \notin PyObj
    BY <2>2, AddrAssumption DEF Inv, Types, FromObj, InNursery
  <2>4. \A u \in PyObj : FromObj(x) = u <=> u \in PLinked /\ link[u] = at[x]
    BY <2>2 DEF Inv, Dicts, FromObj, InNursery
  <2>5. PLinked = pYoung \cup pOld
    BY DEF PLinked
  <2> QED
    BY <2>1, <2>3, <2>4, <2>5
<1> QED
  BY <1>1, Invariance, PTL

-----------------------------------------------------------------------------
(* Types. *)

\* No count is left on a PyObject that is not made or is freed.
Spent == \A u \in PyObj \ (made \ freed) : refcnt[u] = 0

LEMMA RrcSpent ==
    ASSUME Inv, Spent, NEW dead \in SUBSET Linked, RrcFree(dead), UNCHANGED made
    PROVE  Spent'
<1> SUFFICES ASSUME NEW u \in PyObj, u \notin made \/ u \in freed' PROVE refcnt'[u] = 0
  BY DEF Spent
<1>1. refcnt'[u] = IF u \in dead THEN RcLeft(u) ELSE refcnt[u]
  BY DEF RrcFree
<1>2. dead \subseteq made \ freed
  BY DEF Inv, Links
<1>3. freed' = freed \cup FreedAtOnce(dead) /\ FreedAtOnce(dead) \subseteq dead
  BY DEF RrcFree, FreedAtOnce
<1>4. CASE u \in dead
  <2>1. u \in FreedAtOnce(dead)
    BY <1>2, <1>3, <1>4
  <2> QED
    BY <1>1, <1>4, <2>1 DEF FreedAtOnce, RcLeft
<1>5. CASE u \notin dead
  BY <1>1, <1>3, <1>5 DEF Spent
<1> QED
  BY <1>4, <1>5

\* Counts are changed only of PyObjects that are there.
LEMMA SpentStep == Inv /\ Spent /\ [Next]_vars => Spent'
<1> SUFFICES ASSUME Inv, Spent, [Next]_vars PROVE Spent'
  OBVIOUS
<1>1. ASSUME UNCHANGED <<refcnt, made, freed>> PROVE Spent'
  BY <1>1 DEF Spent
<1>2. ASSUME NEW u \in made' \ freed',
             \A v \in PyObj : v # u => refcnt'[v] = refcnt[v],
             made \subseteq made', freed' = freed
      PROVE  Spent'
  BY <1>2 DEF Spent
<1>3. ASSUME NEW x \in Obj, NEW a \in Addr, New(x, a) PROVE Spent'
  BY <1>1, <1>3 DEF New
<1>4. ASSUME NEW x \in Obj, Drop(x) PROVE Spent'
  BY <1>1, <1>4 DEF Drop
<1>5. ASSUME NEW x \in Obj, MakeRef(x) PROVE Spent'
  <2>1. Exists(x) /\ FromObj(x) # NULL
    BY <1>5 DEF MakeRef, Inv, Places
  <2>2. FromObj(x) \in made' \ freed' /\ UNCHANGED <<made, freed>>
    BY <1>5, <2>1, FoundIsLinked DEF MakeRef
  <2>3. \A v \in PyObj : v # FromObj(x) => refcnt'[v] = refcnt[v]
    BY <1>5 DEF MakeRef, Inv, Types
  <2> QED
    BY <1>2, <2>2, <2>3
<1>6. ASSUME NEW x \in Obj, NEW u \in PyObj, NEW bump, CreateRef(x, u, bump) PROVE Spent'
  BY <1>2, <1>6 DEF CreateRef, Inv, Types
<1>7. ASSUME NEW u \in PyObj, NewPyObj(u) PROVE Spent'
  BY <1>2, <1>7 DEF NewPyObj, Inv, Types
<1>8. ASSUME NEW u \in PyObj, IncRef(u) PROVE Spent'
  BY <1>2, <1>8 DEF IncRef, Usable, Live, Inv, Types
<1>9. ASSUME NEW u \in PyObj, DecRef(u) PROVE Spent'
  BY <1>2, <1>9 DEF DecRef, Dec, Live, Inv, Types
<1>10. ASSUME NEW u \in PyObj, ToObj(u) PROVE Spent'
  BY <1>1, <1>10 DEF ToObj
<1>11. ASSUME NEW u \in PyObj, FinishDealloc(u) PROVE Spent'
  <2>1. refcnt[u] = 0 /\ UNCHANGED <<refcnt, made>> /\ freed' = freed \cup {u}
    BY <1>11 DEF FinishDealloc, Dying, Live, Inv, Counts
  <2> QED
    BY <2>1 DEF Spent
<1>12. ASSUME NEW u \in PyObj, NEW x \in Obj, NEW a \in Addr, Realize(u, x, a) PROVE Spent'
  BY <1>2, <1>12 DEF Realize, Usable, Live, Inv, Types
<1>13. ASSUME NEW u \in PyObj, NEW x \in Obj, NEW a \in Addr, NEW bump,
              RealizeProxy(u, x, a, bump)
       PROVE  Spent'
  BY <1>2, <1>13 DEF RealizeProxy, Usable, Live, Inv, Types
<1>14. ASSUME NEW survivors \in SUBSET young, NEW to, Minor(survivors, to) PROVE Spent'
  <2>1. RrcFree(Lost(survivors)) /\ UNCHANGED made
    BY <1>14, MinorFacts
  <2>2. Lost(survivors) \in SUBSET Linked
    BY DEF Lost, Linked
  <2> QED
    BY <2>1, <2>2, RrcSpent
<1>15. ASSUME NEW marked, Major(marked) PROVE Spent'
  <2> DEFINE dead == {u \in pOld \cup oOld : ObjAt(link[u]) \cap marked = {}}
  <2>1. RrcFree(dead) /\ UNCHANGED made
    BY <1>15 DEF Major
  <2>2. dead \in SUBSET Linked
    BY DEF Linked
  <2> QED
    BY <2>1, <2>2, RrcSpent
<1>16. ASSUME InvokeCallback PROVE Spent'
  BY <1>1, <1>16 DEF InvokeCallback
<1>17. ASSUME Perform PROVE Spent'
  <2>1. CASE pending = <<>>
    BY <1>1, <1>17, <2>1 DEF Perform
  <2>2. CASE pending # <<>>
    <3> DEFINE u == Last(pending)
    <3>1. u \in made \ freed
      BY <2>2, FrontOnce DEF Inv, Types, Stack, Waits
    <3>2. /\ refcnt' = [refcnt EXCEPT ![u] = @ - 1]
          /\ UNCHANGED <<made, freed>>
      BY <1>17, <2>2 DEF Perform, Dec
    <3> HIDE DEF u
    <3> QED
      BY <1>2, <3>1, <3>2 DEF Inv, Types
  <2> QED
    BY <2>1, <2>2
<1>18. CASE UNCHANGED vars
  BY <1>1, <1>18 DEF vars
<1>19. ASSUME Collect PROVE Spent'
  BY <1>14, <1>15, <1>19 DEF Collect
<1> QED
  BY <1>3, <1>4, <1>5, <1>6, <1>7, <1>8, <1>9, <1>10, <1>11, <1>12, <1>13, <1>16, <1>17,
     <1>18, <1>19 DEF Next

\* The types of the collector's lists, dictionaries and counts, and its ll_asserts about
\* the lists for young and for old objects.
THEOREM TypeCorrectness == Spec => []TypeOK
<1>1. Init => Spent
  BY DEF Init, Spent
<1>2. Inv /\ Spent => TypeOK
  <2> SUFFICES ASSUME Inv, Spent PROVE TypeOK
    OBVIOUS
  <2> USE DEF Inv
  <2>1. /\ young \subseteq {x \in Obj : Exists(x)} /\ held \subseteq {x \in Obj : Exists(x)}
        /\ \A x, y \in Obj : at[x] = at[y] => x = y \/ at[x] = NULL
        /\ \A x \in Obj : InNursery(x) => x \in young
    BY DEF Types, Places
  <2>2. refcnt \in [PyObj -> 0 .. Light + MaxRefs + 1]
    <3> SUFFICES ASSUME NEW u \in PyObj PROVE refcnt[u] \in 0 .. Light + MaxRefs + 1
      BY DEF Types
    <3>1. CASE u \notin made \ freed
      BY <3>1, CountAssumption DEF Spent
    <3>2. CASE u \in made \ freed
      <4>1. owned[u] \in 0 .. MaxRefs
        BY DEF Types
      <4>2. Base(u) \in 0 .. MaxRefs + 1
        BY <4>1, CountAssumption DEF Base
      <4>3. \/ refcnt[u] = Base(u) + FromPypy
            \/ refcnt[u] = Base(u) + Light
            \/ refcnt[u] = Base(u)
        BY <3>2 DEF Counts
      <4> QED
        BY <4>2, <4>3, CountAssumption
    <3> QED
      BY <3>1, <3>2
  <2>3. \A u \in pYoung \cup oYoung : ObjAt(link[u]) \subseteq young
    BY DEF Links, ObjAt
  <2>4. \A u \in pOld \cup oOld : ObjAt(link[u]) \cap young = {}
    BY DEF Links, ObjAt
  <2>5. \A u \in PyObj : Live(u) => IF u \in Linked THEN ObjAt(link[u]) # {}
                                    ELSE link[u] \in {NULL, Marker}
    BY DEF Links, ObjAt, Live
  <2>6. pending \in Seq(PyObj \ freed)
    <3>1. \A i \in 1 .. Len(pending) : pending[i] \in PyObj \ freed
      BY DEF Types, Stack, Waits, ToSet
    <3>2. pending \in Seq(PyObj)
      BY DEF Types
    <3> QED
      BY <3>1, <3>2
  <2>7. freed \subseteq made /\ made \subseteq PyObj
    BY DEF Types
  <2> QED
    BY <2>1, <2>2, <2>3, <2>4, <2>5, <2>6, <2>7 DEF Types, TypeOK
<1>3. Spec => []Spent
  BY <1>1, SpentStep, Invariance, PTL DEF Spec
<1> QED
  BY <1>2, <1>3, Invariance, PTL

-----------------------------------------------------------------------------
(* What C code keeps alive. *)

\* The body of KeptForC.
Keeps ==
    \A u \in pYoung \cup pOld :
       owned[u] > 0 => \A x \in ObjAt(link[u]) : at'[x] # NULL /\ link'[u] = at'[x]

\* It holds when the linked objects stay where they are.
LEMMA StaysKept ==
    ASSUME Inv,
           \A u \in Linked : link'[u] = link[u],
           \A x \in Obj : Exists(x) => at'[x] = at[x]
    PROVE  Keeps
<1>1. \A u \in pYoung \cup pOld : u \in Linked
  BY DEF Linked
<1>2. ASSUME NEW u \in Linked, NEW x \in ObjAt(link[u])
      PROVE  x \in Obj /\ Exists(x) /\ at[x] = link[u]
  BY DEF ObjAt
<1> QED
  BY <1>1, <1>2 DEF Keeps, Exists

\* The objects of P links that C code has references to are forced to be alive.
LEMMA OwnedIsForced ==
    ASSUME Inv, NEW list \in SUBSET PLinked, NEW u \in list, owned[u] > 0
    PROVE  ObjectOf(u) \in Forced(list)
<1>1. u \in Linked /\ u \in PyObj
  BY LinkedAddress DEF Inv, PLinked, Linked
<1>2. owned[u] \in Nat /\ Base(u) # 0
  BY <1>1 DEF Inv, Types, Base
<1>3. refcnt[u] \notin {FromPypy, Light}
  BY <1>1, <1>2, RestIsBase
<1>4. ObjectOf(u) \in ObjAt(link[u])
  BY <1>1, OneObject
<1> QED
  BY <1>3, <1>4 DEF Forced

LEMMA DecKeepsLinks ==
    ASSUME Inv, NEW u \in made \ freed, Dec(u), NEW v \in Linked
    PROVE  link'[v] = link[v]
<1>1. v \in PyObj
  BY LinkedAddress DEF Inv
<1>2. refcnt[v] = Base(v) + (IF IsLight(v) THEN Light ELSE FromPypy) /\ Base(v) \in Nat
  BY RestIsBase
<1>3. refcnt[v] # 1
  BY <1>2, CountAssumption
<1> QED
  BY <1>1, <1>3 DEF Dec, Inv, Types

LEMMA MinorKeeps ==
    ASSUME Inv, NEW survivors \in SUBSET young, NEW to, Minor(survivors, to)
    PROVE  Keeps
<1>1. /\ to \in Moves(survivors)
      /\ (young \cap held) \cup Forced(pYoung) \subseteq survivors
      /\ at' = [x \in Obj |-> IF x \in survivors THEN to[x]
                              ELSE IF x \in young THEN NULL ELSE at[x]]
      /\ link' = [u \in PyObj |->
                     IF u \in (pYoung \cup oYoung) \ Lost(survivors) THEN to[ObjectOf(u)]
                     ELSE IF u \in Lost(survivors) THEN NULL ELSE link[u]]
      /\ young' = {} /\ held' = held
  BY MinorFacts
<1>2. /\ \A x \in survivors : at'[x] = to[x] /\ to[x] # NULL
      /\ \A x \in Obj \ young : at'[x] = at[x]
  BY <1>1, MinorPlaces DEF Inv
<1> SUFFICES ASSUME NEW u \in pYoung \cup pOld, owned[u] > 0, NEW x \in ObjAt(link[u])
             PROVE  at'[x] # NULL /\ link'[u] = at'[x]
  BY DEF Keeps
<1>3. u \in Linked /\ u \in PyObj
  BY LinkedAddress DEF Inv, Linked
<1>4. x = ObjectOf(u) /\ x \in Obj /\ at[x] = link[u] /\ at[x] # NULL
  BY <1>3, OneObject DEF Exists
<1>5. CASE u \in pYoung
  <2>1. x \in survivors
    BY <1>1, <1>4, <1>5, OwnedIsForced DEF PLinked
  <2>2. u \notin Lost(survivors)
    BY <1>4, <2>1 DEF Lost
  <2>3. link'[u] = to[x]
    BY <1>1, <1>3, <1>4, <1>5, <2>2
  <2> QED
    BY <1>2, <2>1, <2>3
<1>6. CASE u \in pOld
  <2>1. x \notin young
    BY <1>3, <1>4, <1>6, OneObject
  <2>2. u \notin pYoung \cup oYoung
    BY <1>3, <1>4, <2>1, OneObject
  <2>3. link'[u] = link[u]
    BY <1>1, <1>3, <2>2 DEF Lost
  <2> QED
    BY <1>2, <1>4, <2>1, <2>3
<1> QED
  BY <1>5, <1>6

LEMMA MajorKeeps ==
    ASSUME Inv, NEW marked \in SUBSET Obj, Major(marked)
    PROVE  Keeps
<1> DEFINE dead == {u \in pOld \cup oOld : ObjAt(link[u]) \cap marked = {}}
<1>1. /\ young = {} /\ Forced(pOld) \subseteq marked
      /\ at' = [x \in Obj |-> IF x \in marked THEN at[x] ELSE NULL]
      /\ link' = [u \in PyObj |-> IF u \in dead THEN NULL ELSE link[u]]
  BY DEF Major
<1> SUFFICES ASSUME NEW u \in pYoung \cup pOld, owned[u] > 0, NEW x \in ObjAt(link[u])
             PROVE  at'[x] # NULL /\ link'[u] = at'[x]
  BY DEF Keeps
<1>2. u \in Linked /\ u \in PyObj
  BY LinkedAddress DEF Inv, Linked
<1>3. x = ObjectOf(u) /\ x \in Obj /\ at[x] = link[u] /\ at[x] # NULL
  BY <1>2, OneObject DEF Exists
<1>4. u \in pOld
  BY <1>1, <1>2, OneObject
<1>5. x \in marked
  BY <1>1, <1>3, <1>4, OwnedIsForced DEF PLinked
<1>6. u \notin dead
  BY <1>5
<1> QED
  BY <1>1, <1>2, <1>3, <1>5, <1>6

LEMMA KeepsStep == Inv /\ [Next]_vars => Keeps \/ UNCHANGED vars
<1> SUFFICES ASSUME Inv, Next PROVE Keeps
  OBVIOUS
<1>1. ASSUME UNCHANGED <<objects, link>> PROVE Keeps
  BY <1>1, StaysKept DEF objects
<1>2. ASSUME NEW x \in Obj, NEW a \in Addr, Malloc(x, a) PROVE \A y \in Obj : Exists(y) => at'[y] = at[y]
  BY <1>2 DEF Malloc, Inv, Types, Exists
<1>3. ASSUME NEW u \in PyObj, u \notin Linked, NEW a, link' = [link EXCEPT ![u] = a]
      PROVE  \A v \in Linked : link'[v] = link[v]
  BY <1>3, LinkedAddress DEF Inv, Types
<1>4. ASSUME NEW u \in PyObj, Usable(u), link[u] = NULL PROVE u \notin Linked
  BY <1>4, LinkedAddress, AddrAssumption DEF Inv
<1>5. ASSUME NEW x \in Obj, NEW a \in Addr, New(x, a) PROVE Keeps
  BY <1>2, <1>5, StaysKept DEF New
<1>6. ASSUME NEW x \in Obj, Drop(x) \/ MakeRef(x) PROVE Keeps
  BY <1>1, <1>6 DEF Drop, MakeRef
<1>7. ASSUME NEW x \in Obj, NEW u \in PyObj, NEW bump, CreateRef(x, u, bump) PROVE Keeps
  <2>1. u \notin Linked /\ UNCHANGED at /\ link' = [link EXCEPT ![u] = at[x]]
    BY <1>7 DEF CreateRef, CreateLinkPypy, objects, Inv, Links
  <2> QED
    BY <1>3, <2>1, StaysKept
<1>8. ASSUME NEW u \in PyObj, NewPyObj(u) \/ IncRef(u) \/ ToObj(u) \/ FinishDealloc(u)
      PROVE  Keeps
  BY <1>1, <1>8 DEF NewPyObj, IncRef, ToObj, FinishDealloc
<1>9. ASSUME NEW u \in PyObj, DecRef(u) PROVE Keeps
  <2>1. u \in made \ freed /\ Dec(u) /\ UNCHANGED at
    BY <1>9 DEF DecRef, Live, objects
  <2> QED
    BY <2>1, DecKeepsLinks, StaysKept
<1>10. ASSUME NEW u \in PyObj, NEW x \in Obj, NEW a \in Addr, Realize(u, x, a) PROVE Keeps
  BY <1>2, <1>3, <1>4, <1>10, StaysKept DEF Realize, CreateLinkPypy
<1>11. ASSUME NEW u \in PyObj, NEW x \in Obj, NEW a \in Addr, NEW bump,
              RealizeProxy(u, x, a, bump)
       PROVE  Keeps
  BY <1>2, <1>3, <1>4, <1>11, StaysKept DEF RealizeProxy
<1>12. ASSUME Collect PROVE Keeps
  BY <1>12, MinorKeeps, MajorKeeps DEF Collect
<1>13. ASSUME InvokeCallback PROVE Keeps
  BY <1>1, <1>13 DEF InvokeCallback
<1>14. ASSUME Perform PROVE Keeps
  <2>1. CASE pending = <<>>
    BY <1>1, <1>14, <2>1 DEF Perform
  <2>2. CASE pending # <<>>
    <3>1. Last(pending) \in made \ freed
      BY <2>2, FrontOnce DEF Inv, Types, Stack, Waits
    <3>2. Dec(Last(pending)) /\ UNCHANGED at
      BY <1>14, <2>2 DEF Perform, objects
    <3> QED
      BY <3>1, <3>2, DecKeepsLinks, StaysKept
  <2> QED
    BY <2>1, <2>2
<1> QED
  BY <1>5, <1>6, <1>7, <1>8, <1>9, <1>10, <1>11, <1>12, <1>13, <1>14 DEF Next

\* No collection frees an object with a P link while C code owns a reference to the
\* PyObject, and the link follows the object: its count is then neither of the two that say
\* that only the link is left, so the object is forced to be alive.
THEOREM ForcedToStay == Spec => KeptForC
<1>1. Inv /\ [Next]_vars => [Keeps]_vars
  BY KeepsStep
<1> QED
  BY <1>1, Invariance, PTL DEF Spec, KeptForC, Keeps

=============================================================================
