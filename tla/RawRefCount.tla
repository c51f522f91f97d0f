----------------------------- MODULE RawRefCount -----------------------------
(***************************************************************************)
(* Links between the objects of the collector and the PyObjects of C       *)
(* extensions: "RawRefCount" in rpython/memory/gc/incminimark.py, and its  *)
(* client cpyext (pypy/module/cpyext/pyobject.py, state.py), described in  *)
(* pypy/doc/discussion/rawrefcount.rst.                                    *)
(*                                                                         *)
(* An object moves once, out of the nursery; its address is then used      *)
(* again, as is that of an object that has been freed.  Dictionaries and   *)
(* links hold addresses.  Which objects a collection keeps is taken from   *)
(* IncMiniMark: those that the program holds, those that the links keep,   *)
(* and any others, reached from old objects or marked before they died.    *)
(* A PyObject is its own address; it is used once.                         *)
(***************************************************************************)
EXTENDS Integers, FiniteSets, Sequences, SequencesExt

CONSTANTS Obj,          \* objects of the collector
          PyObj,        \* PyObjects
          Nursery,      \* addresses in the nursery
          Outer,        \* addresses out of it
          NULL,
          Marker,       \* the address of w_marker_deallocating
          FromPypy,     \* REFCNT_FROM_PYPY
          Light,        \* REFCNT_FROM_PYPY_LIGHT
          MaxRefs       \* bound: references that C code holds to a PyObject

Addr == Nursery \cup Outer

ASSUME PyObjAssumption == IsFiniteSet(PyObj)
ASSUME AddrAssumption == /\ Nursery \cap Outer = {}
                         /\ {NULL, Marker} \cap (Addr \cup Obj \cup PyObj) = {}
                         /\ NULL # Marker
\* There is room for all the references between 0, FromPypy and Light.
ASSUME CountAssumption == /\ MaxRefs \in Nat \ {0} /\ FromPypy \in Nat /\ Light \in Nat
                          /\ MaxRefs + 1 < FromPypy /\ FromPypy + MaxRefs + 1 < Light

VARIABLES
    at,         \* the address of each object; NULL if it does not exist
    young,      \* the young objects: in the nursery, or raw-malloced out of it
    held,       \* the objects that the interpreter holds
    made,       \* the PyObjects that have been allocated ...
    freed,      \* ... and freed
    refcnt,     \* ob_refcnt
    link,       \* ob_pypy_link
    owned,      \* how many of the references are C code's; it is not in the code
    pYoung,     \* rrc_p_list_young
    pOld,       \* rrc_p_list_old
    oYoung,     \* rrc_o_list_young
    oOld,       \* rrc_o_list_old
    pDict,      \* rrc_p_dict
    pDictNurs,  \* rrc_p_dict_nurs
    pending,    \* rrc_dealloc_pending
    fired       \* the PyObjDeallocAction is fired

objects == <<at, young>>
lists == <<pYoung, pOld, oYoung, oOld>>
dicts == <<pDict, pDictNurs>>
vars == <<objects, held, made, freed, refcnt, link, owned, lists, dicts, pending, fired>>

Init ==
    /\ at = [x \in Obj |-> NULL]
    /\ young = {} /\ held = {}
    /\ made = {} /\ freed = {}
    /\ refcnt = [u \in PyObj |-> 0]
    /\ link = [u \in PyObj |-> NULL]
    /\ owned = [u \in PyObj |-> 0]
    /\ pYoung = {} /\ pOld = {} /\ oYoung = {} /\ oOld = {}
    /\ pDict = [a \in Outer |-> NULL]
    /\ pDictNurs = [a \in Nursery |-> NULL]
    /\ pending = <<>>
    /\ fired = FALSE

Exists(x) == at[x] # NULL
Live(u) == u \in made \ freed

\* _Py_Dealloc has been called and tp_dealloc has not yet freed it.
Dying(u) == Live(u) /\ link[u] = Marker

\* The object that an address is the address of.
ObjAt(a) == {x \in Obj : Exists(x) /\ at[x] = a}

InNursery(x) == at[x] \in Nursery

\* rawrefcount.from_obj(p)
FromObj(x) == IF InNursery(x) THEN pDictNurs[at[x]] ELSE pDict[at[x]]

Free(a) == a \in Addr /\ ObjAt(a) = {}

-----------------------------------------------------------------------------
(* The interpreter. *)

\* A new object: in the nursery, or large and raw-malloced.
Malloc(x, a) ==
    /\ ~Exists(x)
    /\ Free(a)
    /\ at' = [at EXCEPT ![x] = a]
    /\ young' = young \cup {x}
    /\ held' = held \cup {x}

New(x, a) ==
    /\ Malloc(x, a)
    /\ UNCHANGED <<made, freed, refcnt, link, owned, lists, dicts, pending, fired>>

\* The interpreter loses its last reference to an object.
Drop(x) ==
    /\ x \in held
    /\ held' = held \ {x}
    /\ UNCHANGED <<objects, made, freed, refcnt, link, owned, lists, dicts, pending, fired>>

\* rawrefcount_create_link_pypy, after the object has been allocated
\* (address a, in the nursery or not, young or not).
CreateLinkPypy(u, a, isYoung) ==
    /\ link' = [link EXCEPT ![u] = a]
    /\ IF a \in Nursery
       THEN pDictNurs' = [pDictNurs EXCEPT ![a] = u] /\ UNCHANGED pDict
       ELSE pDict' = [pDict EXCEPT ![a] = u] /\ UNCHANGED pDictNurs
    /\ IF isYoung
       THEN pYoung' = pYoung \cup {u} /\ UNCHANGED pOld
       ELSE pOld' = pOld \cup {u} /\ UNCHANGED pYoung
    /\ UNCHANGED <<oYoung, oOld>>

\* as_pyobj on an object that has no PyObject yet: create_ref.  ("from_obj() will not
\* work" on a proxy: it knows its PyObject itself.)
CreateRef(x, u, bump) ==
    /\ x \in held
    /\ FromObj(x) = NULL
    /\ \A v \in oYoung \cup oOld : x \notin ObjAt(link[v])
    /\ u \notin made
    /\ made' = made \cup {u}
    /\ refcnt' = [refcnt EXCEPT ![u] = bump]
    /\ CreateLinkPypy(u, at[x], x \in young)
    /\ UNCHANGED <<objects, held, freed, owned, pending, fired>>

\* make_ref on an object: the reference is passed to C.
MakeRef(x) ==
    /\ x \in held
    /\ FromObj(x) # NULL
    /\ owned[FromObj(x)] < MaxRefs
    /\ refcnt' = [refcnt EXCEPT ![FromObj(x)] = @ + 1]
    /\ owned' = [owned EXCEPT ![FromObj(x)] = @ + 1]
    /\ UNCHANGED <<objects, held, made, freed, link, lists, dicts, pending, fired>>

-----------------------------------------------------------------------------
(* C code, and what it calls. *)

\* A pointer that C code may use: it owns a reference, or an object the interpreter
\* holds is linked to it, or it waits to be deallocated and a raw pointer to it has
\* not been cleared (the comment in _rrc_free).
Usable(u) ==
    /\ Live(u) /\ ~Dying(u)
    /\ \/ owned[u] > 0
       \/ ObjAt(link[u]) \cap held # {}
       \/ u \in ToSet(pending)

\* A PyObject is made in C, with one reference.
NewPyObj(u) ==
    /\ u \notin made
    /\ made' = made \cup {u}
    /\ refcnt' = [refcnt EXCEPT ![u] = 1]
    /\ owned' = [owned EXCEPT ![u] = 1]
    /\ UNCHANGED <<objects, held, freed, link, lists, dicts, pending, fired>>

IncRef(u) ==
    /\ Usable(u)
    /\ owned[u] < MaxRefs
    /\ refcnt' = [refcnt EXCEPT ![u] = @ + 1]
    /\ owned' = [owned EXCEPT ![u] = @ + 1]
    /\ UNCHANGED <<objects, held, made, freed, link, lists, dicts, pending, fired>>

\* What decref does when one reference is given back.
Dec(u) ==
    /\ refcnt' = [refcnt EXCEPT ![u] = @ - 1]
    /\ link' = IF refcnt[u] = 1 THEN [link EXCEPT ![u] = Marker] ELSE link

DecRef(u) ==
    /\ Live(u) /\ ~Dying(u)
    /\ owned[u] > 0
    /\ owned' = [owned EXCEPT ![u] = @ - 1]
    /\ Dec(u)
    /\ UNCHANGED <<objects, held, made, freed, lists, dicts, pending, fired>>

\* from_ref on a PyObject that is linked: the object goes to the interpreter.
ToObj(u) ==
    /\ Usable(u)
    /\ held' = held \cup ObjAt(link[u])
    /\ UNCHANGED <<objects, made, freed, refcnt, link, owned, lists, dicts, pending, fired>>

\* from_ref on one that is not: realize() makes an object and track_reference links it.
Realize(u, x, a) ==
    /\ Usable(u)
    /\ link[u] = NULL
    /\ Malloc(x, a)
    /\ refcnt' = [refcnt EXCEPT ![u] = @ + FromPypy]
    /\ CreateLinkPypy(u, a, TRUE)
    /\ UNCHANGED <<made, freed, owned, pending, fired>>

\* The same for a client that makes the new object a proxy: rawrefcount_create_link_pyobj.
RealizeProxy(u, x, a, bump) ==
    /\ Usable(u)
    /\ link[u] = NULL
    /\ Malloc(x, a)
    /\ refcnt' = [refcnt EXCEPT ![u] = @ + bump]
    /\ link' = [link EXCEPT ![u] = a]
    /\ oYoung' = oYoung \cup {u}
    /\ UNCHANGED <<made, freed, owned, pYoung, pOld, oOld, dicts, pending, fired>>

\* tp_dealloc ends by freeing the PyObject.
FinishDealloc(u) ==
    /\ Dying(u)
    /\ freed' = freed \cup {u}
    /\ UNCHANGED <<objects, held, made, refcnt, link, owned, lists, dicts, pending, fired>>

-----------------------------------------------------------------------------
(* The collector. *)

\* Mutant: the last reference of C code does not count.
ForcedOffByOne(list) ==
    UNION {ObjAt(link[u]) :
              u \in {v \in list : refcnt[v] \notin {FromPypy, FromPypy + 1, Light}}}

\* Mutant: a light link is not seen to be one.
ForcedByLight(list) ==
    UNION {ObjAt(link[u]) : u \in {v \in list : refcnt[v] # FromPypy}}

\* The objects that the links of a P list force to be alive.
Forced(list) ==
    UNION {ObjAt(link[u]) : u \in {v \in list : refcnt[v] \notin {FromPypy, Light}}}

\* _rrc_free, for the PyObjects whose objects die.
IsLight(u) == refcnt[u] >= Light
Rest(u) == refcnt[u] - (IF IsLight(u) THEN Light ELSE FromPypy)
FreedAtOnce(dead) == {u \in dead : IsLight(u) /\ Rest(u) = 0}
ToDealloc(dead) == {u \in dead : ~IsLight(u) /\ Rest(u) = 0}

\* Mutant: it does.
RcLeftNothing(u) == Rest(u)

\* An object with no reference left "cannot stay around" with a count of 0.
RcLeft(u) == IF ~IsLight(u) /\ Rest(u) = 0 THEN 1 ELSE Rest(u)

RrcFree(dead) ==
    /\ refcnt' = [u \in PyObj |-> IF u \in dead THEN RcLeft(u) ELSE refcnt[u]]
    /\ freed' = freed \cup FreedAtOnce(dead)
    /\ pending' = pending \o SetToSeq(ToDealloc(dead))

\* Mutant: the entry of a large object that dies stays in the dictionary.
EntryStays(dead, a) == FALSE

\* The address in rrc_p_dict of a large young object that dies.
EntryGoes(dead, a) == \E u \in pYoung \cap dead : link[u] = a

\* A minor collection.  `to' is where the surviving young objects are then: those of
\* the nursery move.
Moves(survivors) ==
    {to \in [survivors -> Outer] :
        /\ IsInjective(to)
        /\ \A x \in survivors : IF InNursery(x) THEN Free(to[x]) ELSE to[x] = at[x]}

Minor(survivors, to) ==
    LET dead == {u \in pYoung \cup oYoung : ObjAt(link[u]) \cap survivors = {}}
        kept == (pYoung \cup oYoung) \ dead
        linked(u) == CHOOSE x \in ObjAt(link[u]) : TRUE
        come(a) == {u \in pYoung \cap kept : to[linked(u)] = a}
    IN  /\ young # {}
        /\ survivors \subseteq young
        /\ (young \cap held) \cup Forced(pYoung) \subseteq survivors
        /\ to \in Moves(survivors)
        /\ at' = [x \in Obj |-> IF x \in survivors THEN to[x]
                                ELSE IF x \in young THEN NULL ELSE at[x]]
        /\ young' = {}
        /\ link' = [u \in PyObj |-> IF u \in kept THEN to[linked(u)]
                                    ELSE IF u \in dead THEN NULL ELSE link[u]]
        /\ pDictNurs' = [a \in Nursery |-> NULL]
        /\ pDict' = [a \in Outer |->
                        IF come(a) # {} THEN CHOOSE u \in come(a) : TRUE
                        ELSE IF EntryGoes(dead, a) THEN NULL ELSE pDict[a]]
        /\ pYoung' = {} /\ oYoung' = {}
        /\ pOld' = pOld \cup (pYoung \cap kept)
        /\ oOld' = oOld \cup (oYoung \cap kept)
        /\ RrcFree(dead)
        /\ UNCHANGED <<held, made, owned, fired>>

\* The end of marking in a major collection, after which the unmarked objects are
\* freed.
Major(marked) ==
    LET dead == {u \in pOld \cup oOld : ObjAt(link[u]) \cap marked = {}}
        linkedTo(a) == {u \in pOld \ dead : link[u] = a}
    IN  /\ young = {}
        /\ \A x \in marked : Exists(x)
        /\ held \cup Forced(pOld) \subseteq marked
        /\ at' = [x \in Obj |-> IF x \in marked THEN at[x] ELSE NULL]
        /\ link' = [u \in PyObj |-> IF u \in dead THEN NULL ELSE link[u]]
        /\ pDict' = [a \in Outer |->
                        IF linkedTo(a) = {} THEN NULL ELSE CHOOSE u \in linkedTo(a) : TRUE]
        /\ pOld' = pOld \ dead
        /\ oOld' = oOld \ dead
        /\ RrcFree(dead)
        /\ UNCHANGED <<young, held, made, owned, pYoung, oYoung, pDictNurs, fired>>

\* rrc_invoke_callback, at the end of this collection or of a later one: one that is
\* done because the nursery is still full (collect_and_reserve), or that ends with
\* MemoryError, does not call it.
InvokeCallback ==
    /\ ~fired
    /\ pending # <<>>
    /\ fired' = TRUE
    /\ UNCHANGED <<objects, held, made, freed, refcnt, link, owned, lists, dicts, pending>>

\* _rawrefcount_perform takes one from the stack and gives the reference back; other
\* code may run before it takes the next.
Perform ==
    /\ fired
    /\ IF pending = <<>>
       THEN /\ fired' = FALSE
            /\ UNCHANGED <<pending, refcnt, link>>
       ELSE /\ pending' = Front(pending)
            /\ Dec(Last(pending))
            /\ UNCHANGED fired
    /\ UNCHANGED <<objects, held, made, freed, owned, lists, dicts>>

-----------------------------------------------------------------------------
Collect ==
    \/ \E S \in SUBSET young : \E to \in [S -> Outer] : Minor(S, to)
    \/ \E S \in SUBSET Obj : Major(S)

Next ==
    \/ \E x \in Obj, a \in Addr : New(x, a)
    \/ \E x \in Obj : Drop(x) \/ MakeRef(x)
    \/ \E x \in Obj, u \in PyObj : \E bump \in {FromPypy, Light} : CreateRef(x, u, bump)
    \/ \E u \in PyObj : \/ NewPyObj(u)
                        \/ IncRef(u)
                        \/ DecRef(u)
                        \/ ToObj(u)
                        \/ FinishDealloc(u)
    \/ \E u \in PyObj, x \in Obj, a \in Addr :
          \/ Realize(u, x, a)
          \/ \E bump \in {FromPypy, Light} : RealizeProxy(u, x, a, bump)
    \/ Collect
    \/ InvokeCallback
    \/ Perform

\* The interpreter goes on allocating, so that minor collections come, and major ones
\* that mark only what is in use; the action is performed between bytecodes; and
\* tp_dealloc returns.
Fairness ==
    /\ WF_vars(\E S \in SUBSET young : \E to \in [S -> Outer] : Minor(S, to))
    /\ SF_vars(Major(held \cup Forced(pOld)))
    /\ WF_vars(InvokeCallback) /\ WF_vars(Perform)
    /\ \A u \in PyObj : WF_vars(FinishDealloc(u))

Spec == Init /\ [][Next]_vars
FairSpec == Spec /\ Fairness

-----------------------------------------------------------------------------
(* Properties. *)

Linked == pYoung \cup pOld \cup oYoung \cup oOld

\* The types, that a link leads to an object that exists, and what the ll_asserts say
\* of the lists: one for young objects holds only these.
TypeOK ==
    /\ at \in [Obj -> Addr \cup {NULL}]
    /\ \A x, y \in Obj : at[x] = at[y] => x = y \/ at[x] = NULL
    /\ young \subseteq {x \in Obj : Exists(x)} /\ held \subseteq {x \in Obj : Exists(x)}
    /\ \A x \in Obj : InNursery(x) => x \in young
    /\ freed \subseteq made /\ made \subseteq PyObj
    /\ refcnt \in [PyObj -> 0 .. Light + MaxRefs + 1]
    /\ link \in [PyObj -> Addr \cup {NULL, Marker}]
    /\ owned \in [PyObj -> 0 .. MaxRefs]
    /\ pDict \in [Outer -> PyObj \cup {NULL}] /\ pDictNurs \in [Nursery -> PyObj \cup {NULL}]
    /\ \A u \in pYoung \cup oYoung : ObjAt(link[u]) \subseteq young
    /\ \A u \in pOld \cup oOld : ObjAt(link[u]) \cap young = {}
    /\ \A u \in PyObj : Live(u) => IF u \in Linked THEN ObjAt(link[u]) # {}
                                   ELSE link[u] \in {NULL, Marker}
    /\ pending \in Seq(PyObj \ freed) /\ fired \in BOOLEAN

\* No reference is lost and none is counted twice: the count of a PyObject is what C
\* owns, and one that waits for its deallocation, and the share of the link, whatever
\* order of linking, collecting, resurrecting and deallocating led there.
CountIsExact ==
    \A u \in PyObj : Live(u) =>
        LET base == owned[u] + Cardinality({i \in DOMAIN pending : pending[i] = u})
        IN  refcnt[u] \in IF u \in Linked THEN {base + FromPypy, base + Light} ELSE {base}

\* from_obj() finds the PyObject of an object through its moves, and never one of an
\* object that was at that address before.
FromObjIsExact ==
    \A x \in Obj : Exists(x) =>
        {FromObj(x)} \ {NULL} = {u \in pYoung \cup pOld : link[u] = at[x]}

\* As long as C code owns a reference, no collection frees the object of a P link: it
\* has state that the PyObject does not have.
KeptForC ==
    [][\A u \in pYoung \cup pOld :
          owned[u] > 0 => \A x \in ObjAt(link[u]) : at'[x] # NULL /\ link'[u] = at'[x]]_vars

\* What neither C nor, through the object linked to it, the interpreter can use is
\* freed, if the loop of _rawrefcount_perform ends each time: a link keeps neither of
\* its sides alive for ever.
Unused(u) == Live(u) /\ owned[u] = 0 /\ ObjAt(link[u]) \cap held = {}
EventuallyFreed ==
    []<>~fired => \A u \in PyObj : Unused(u) ~> (u \in freed \/ ~Unused(u))
=============================================================================
