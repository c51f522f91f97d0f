--------------------------- MODULE UserDelProofs ---------------------------
(***************************************************************************)
(* Proofs about UserDel, for every set of threads and objects and every    *)
(* depth of calls: each finalizer is called once, what gc.isenabled() says *)
(* is true but for the calls that have raised, and finalizers are called   *)
(* only when they may be.                                                  *)
(*                                                                         *)
(* The invariants count: where an object waits, and how many calls of      *)
(* popen and of gc.collect() are in progress.                              *)
(***************************************************************************)
EXTENDS UserDel, SequenceTheorems, FiniteSetTheorems, TLAPS

-----------------------------------------------------------------------------
(* What is counted in the calls in progress. *)

\* The calls as they can be: only that of enable_finalizers has a list, and the first part
\* of gc.collect() is there because it enables finalizers.
Call == {f \in Frame : /\ f.kind # "enable" => f.rest = <<>>
                       /\ f.kind = "enabling" => f.temp}

\* The keys: an object that waits in a call, a popen, a gc.collect() that has enabled
\* finalizers.
Rest(o) == <<"rest", o>>
LockKey == <<"mark", "lock">>
WindowKey == <<"mark", "window">>
Keys == {Rest(o) : o \in Obj} \cup {LockKey, WindowKey}

Mark(f) == IF f.kind = "lock" THEN "lock"
           ELSE IF f.kind \in {"enabling", "collect"} /\ f.temp THEN "window"
           ELSE "none"

\* How a call counts for a key.
Holds(f, k) == IF k[1] = "rest" THEN At(f.rest, k[2])
               ELSE IF Mark(f) = k[2] THEN {1} ELSE {}

Places(k) == UNION {{c} \X Holds(stack[c[1]][c[2]], k) : c \in Calls}
Number(k) == Cardinality(Places(k))

\* The same if s were the stack of t.
PlacesIf(t, s, k) ==
    {p \in Places(k) : p[1][1] # t}
    \cup UNION {{<<t, d>>} \X Holds(s[d], k) : d \in DOMAIN s}
NumberIf(t, s, k) == Cardinality(PlacesIf(t, s, k))

-----------------------------------------------------------------------------
(* The inductive invariant. *)

Types ==
    /\ queue \in Seq(Obj)
    /\ fired \in BOOLEAN /\ enabled \in BOOLEAN
    /\ lockCount \in Nat
    /\ pending \in Seq(Obj) \cup {None}
    /\ stack \in [Threads -> Seq(Call)]
    /\ called \subseteq dead /\ dead \subseteq Obj

Finite == \A k \in Keys : IsFiniteSet(Places(k))

\* Finalizers are set aside as long as they are suspended.
Suspension == pending = None <=> lockCount = 0

\* How often an object is in a list, which may be None.
Times(s, o) == IF s = None THEN 0 ELSE Cardinality(At(s, o))

Wait(o) == Times(queue, o) + Times(pending, o) + Number(Rest(o))

Each == \A o \in Obj : Wait(o) = IF o \in dead \ called THEN 1 ELSE 0

Inv == Types /\ Finite /\ Suspension /\ Each

\* Finalizers are suspended by gc.disable() and by each popen, and a call that raises leaves
\* a suspension behind; a gc.collect() takes back one of these while it enables them.
Account ==
    /\ refused \in Nat
    /\ lockCount + Number(WindowKey)
         = Number(LockKey) + (IF enabled THEN 0 ELSE 1) + refused

-----------------------------------------------------------------------------
(* Counting in lists. *)

LEMMA OneOrNone ==
    /\ IsFiniteSet({1}) /\ Cardinality({1}) = 1
    /\ IsFiniteSet({}) /\ Cardinality({}) = 0
<1>1. IsFiniteSet({1}) /\ Cardinality({1}) = 1
  BY FS_Singleton
<1> QED
  BY <1>1, FS_EmptySet

LEMMA AtFinite ==
    ASSUME NEW s \in Seq(Obj), NEW o
    PROVE  IsFiniteSet(At(s, o)) /\ Cardinality(At(s, o)) \in Nat
<1>1. At(s, o) \in SUBSET (1 .. Len(s))
  BY DEF At
<1>2. IsFiniteSet(1 .. Len(s))
  BY FS_Interval
<1>3. IsFiniteSet(At(s, o))
  BY <1>1, <1>2, FS_Subset
<1> QED
  BY <1>3, FS_CardinalityType

LEMMA AtEmpty == ASSUME NEW o PROVE At(<<>>, o) = {} /\ Cardinality(At(<<>>, o)) = 0
<1>1. At(<<>>, o) = {}
  BY DEF At
<1> QED
  BY <1>1, FS_EmptySet

\* One list after another.
LEMMA AtConcat ==
    ASSUME NEW s \in Seq(Obj), NEW t \in Seq(Obj), NEW o
    PROVE  /\ s \o t \in Seq(Obj)
           /\ Cardinality(At(s \o t, o)) = Cardinality(At(s, o)) + Cardinality(At(t, o))
<1> DEFINE n == Len(s)
           shifted == {n + i : i \in At(t, o)}
<1>1. /\ s \o t \in Seq(Obj) /\ Len(s \o t) = n + Len(t) /\ n \in Nat /\ Len(t) \in Nat
      /\ \A i \in 1 .. n + Len(t) : (s \o t)[i] = IF i <= n THEN s[i] ELSE t[i - n]
  BY ConcatProperties
<1>2. DOMAIN s = 1 .. n /\ DOMAIN t = 1 .. Len(t) /\ DOMAIN (s \o t) = 1 .. n + Len(t)
  BY <1>1
<1>3. \A i \in At(t, o) : i \in 1 .. Len(t) /\ t[i] = o
  BY <1>2 DEF At
<1>4. At(s \o t, o) = At(s, o) \cup shifted
  <2>1. ASSUME NEW i \in At(s \o t, o) PROVE i \in At(s, o) \cup shifted
    <3>1. i \in 1 .. n + Len(t) /\ (s \o t)[i] = o
      BY <1>2 DEF At
    <3>2. CASE i <= n
      BY <1>1, <1>2, <3>1, <3>2 DEF At
    <3>3. CASE ~(i <= n)
      <4>1. i - n \in 1 .. Len(t) /\ t[i - n] = o /\ i = n + (i - n)
        BY <1>1, <3>1, <3>3
      <4>2. i - n \in At(t, o)
        BY <1>2, <4>1 DEF At
      <4> QED
        BY <4>1, <4>2
    <3> QED
      BY <3>2, <3>3
  <2>2. ASSUME NEW i \in At(s, o) PROVE i \in At(s \o t, o)
    BY <1>1, <1>2 DEF At
  <2>3. ASSUME NEW i \in At(t, o) PROVE n + i \in At(s \o t, o)
    <3>1. i \in 1 .. Len(t) /\ t[i] = o
      BY <1>3
    <3>2. n + i \in 1 .. n + Len(t) /\ ~(n + i <= n) /\ (n + i) - n = i
      BY <1>1, <3>1
    <3> QED
      BY <1>1, <1>2, <3>1, <3>2 DEF At
  <2> QED
    BY <2>1, <2>2, <2>3
<1>5. At(s, o) \cap shifted = {}
  <2>1. \A i \in At(s, o) : i \in 1 .. n
    BY <1>2 DEF At
  <2>2. \A i \in shifted : i > n
    BY <1>1, <1>3
  <2> QED
    BY <1>1, <2>1, <2>2
<1>6. IsFiniteSet(shifted) /\ Cardinality(shifted) = Cardinality(At(t, o))
  <2> DEFINE f == [i \in At(t, o) |-> n + i]
  <2>1. \A i, j \in At(t, o) : f[i] = f[j] => i = j
    <3>1. \A i, j \in 1 .. Len(t) : n + i = n + j => i = j
      BY <1>1
    <3> QED
      BY <1>3, <3>1
  <2>2. f \in Bijection(At(t, o), shifted)
    BY <2>1 DEF Bijection, Injection, Surjection, IsInjective
  <2>3. ExistsBijection(At(t, o), shifted)
    BY <2>2 DEF ExistsBijection
  <2> QED
    BY <2>3, AtFinite, FS_Bijection
<1> HIDE DEF shifted
<1>7. Cardinality(At(s, o) \cup shifted)
        = Cardinality(At(s, o)) + Cardinality(shifted) - Cardinality(At(s, o) \cap shifted)
  BY <1>6, AtFinite, FS_Union
<1>8. Cardinality(At(s, o) \cap shifted) = 0
  BY <1>5, FS_EmptySet
<1>9. Cardinality(At(s, o)) \in Nat /\ Cardinality(At(t, o)) \in Nat
  BY AtFinite
<1> QED
  BY <1>1, <1>4, <1>6, <1>7, <1>8, <1>9

LEMMA AtSingle ==
    ASSUME NEW x \in Obj, NEW o
    PROVE  <<x>> \in Seq(Obj) /\ Cardinality(At(<<x>>, o)) = IF x = o THEN 1 ELSE 0
<1>1. At(<<x>>, o) = IF x = o THEN {1} ELSE {}
  BY DEF At
<1> QED
  BY <1>1, OneOrNone

\* The first one taken from a list.
LEMMA AtTail ==
    ASSUME NEW s \in Seq(Obj), s # <<>>, NEW o
    PROVE  /\ Head(s) \in Obj /\ Tail(s) \in Seq(Obj)
           /\ Cardinality(At(s, o))
                = Cardinality(At(Tail(s), o)) + (IF Head(s) = o THEN 1 ELSE 0)
<1>1. Head(s) \in Obj /\ Tail(s) \in Seq(Obj) /\ s = <<Head(s)>> \o Tail(s)
  <2>1. /\ Head(s) \in Obj /\ Tail(s) \in Seq(Obj)
        /\ Len(Tail(s)) = Len(s) - 1
        /\ \A i \in 1 .. Len(Tail(s)) : Tail(s)[i] = s[i + 1]
    BY HeadTailProperties
  <2>2. Len(s) \in Nat /\ Len(s) >= 1 /\ Head(s) = s[1]
    OBVIOUS
  <2> DEFINE u == <<Head(s)>> \o Tail(s)
  <2>3. <<Head(s)>> \in Seq(Obj) /\ Len(<<Head(s)>>) = 1 /\ <<Head(s)>>[1] = Head(s)
    BY <2>1
  <2>4. /\ u \in Seq(Obj) /\ Len(u) = 1 + Len(Tail(s))
        /\ \A i \in 1 .. 1 + Len(Tail(s)) :
              u[i] = IF i <= 1 THEN <<Head(s)>>[i] ELSE Tail(s)[i - 1]
    BY <2>1, <2>3, ConcatProperties
  <2>5. Len(u) = Len(s)
    BY <2>1, <2>2, <2>4
  <2>6. \A i \in 1 .. Len(s) : s[i] = u[i]
    <3> TAKE i \in 1 .. Len(s)
    <3>1. i \in 1 .. 1 + Len(Tail(s))
      BY <2>1, <2>2
    <3>2. CASE i = 1
      BY <2>2, <2>3, <2>4, <3>1, <3>2
    <3>3. CASE i # 1
      <4>1. ~(i <= 1) /\ i - 1 \in 1 .. Len(Tail(s)) /\ (i - 1) + 1 = i
        BY <2>1, <2>2, <3>3
      <4> QED
        BY <2>1, <2>4, <3>1, <4>1
    <3> QED
      BY <3>2, <3>3
  <2> HIDE DEF u
  <2>7. s = u
    BY <2>4, <2>5, <2>6, SeqEqual
  <2> QED
    BY <2>1, <2>7 DEF u
<1>2. <<Head(s)>> \in Seq(Obj)
      /\ Cardinality(At(<<Head(s)>>, o)) = IF Head(s) = o THEN 1 ELSE 0
  BY <1>1, AtSingle
<1>3. Cardinality(At(s, o))
        = Cardinality(At(<<Head(s)>>, o)) + Cardinality(At(Tail(s), o))
  <2> DEFINE u == <<Head(s)>> \o Tail(s)
  <2>1. Cardinality(At(u, o)) = Cardinality(At(<<Head(s)>>, o)) + Cardinality(At(Tail(s), o))
    BY <1>1, <1>2, AtConcat
  <2>2. u = s
    BY <1>1
  <2> HIDE DEF u
  <2> QED
    BY <2>1, <2>2
<1>4. Cardinality(At(Tail(s), o)) \in Nat
  BY <1>1, AtFinite
<1> DEFINE first == Cardinality(At(<<Head(s)>>, o))
           rest == Cardinality(At(Tail(s), o))
<1>5. first \in Nat /\ first = IF Head(s) = o THEN 1 ELSE 0
  BY <1>2
<1>6. rest \in Nat /\ Cardinality(At(s, o)) = first + rest
  BY <1>3, <1>4
<1> HIDE DEF first, rest
<1>7. first + rest = rest + first
  BY <1>5, <1>6
<1>8. Cardinality(At(s, o)) = rest + (IF Head(s) = o THEN 1 ELSE 0)
  BY <1>5, <1>6, <1>7
<1> QED
  BY <1>1, <1>8 DEF rest

-----------------------------------------------------------------------------
(* Counting in the calls in progress. *)

LEMMA CallRecord ==
    ASSUME NEW f \in Call
    PROVE  f.kind \in Kinds /\ f.rest \in Seq(Obj) /\ f.temp \in BOOLEAN
  BY DEF Call, Frame

\* The finite set that a call holds for a key.
LEMMA HoldsFinite ==
    ASSUME NEW f \in Call, NEW k
    PROVE  IsFiniteSet(Holds(f, k)) /\ Cardinality(Holds(f, k)) \in Nat
<1>1. CASE k[1] = "rest"
  <2>1. f.rest \in Seq(Obj)
    BY CallRecord
  <2> QED
    BY <1>1, <2>1, AtFinite DEF Holds
<1>2. CASE k[1] # "rest"
  <2>1. Holds(f, k) = {1} \/ Holds(f, k) = {}
    BY <1>2 DEF Holds
  <2> QED
    BY <2>1, OneOrNone
<1> QED
  BY <1>1, <1>2

LEMMA KeyFacts ==
    ASSUME NEW f \in Call
    PROVE  /\ \A o : Holds(f, Rest(o)) = At(f.rest, o)
           /\ Cardinality(Holds(f, LockKey)) = IF f.kind = "lock" THEN 1 ELSE 0
           /\ Cardinality(Holds(f, WindowKey))
                = IF f.kind \in {"enabling", "collect"} /\ f.temp THEN 1 ELSE 0
<1>1. \A o : Rest(o)[1] = "rest" /\ Rest(o)[2] = o
  BY DEF Rest
<1>2. LockKey[1] # "rest" /\ LockKey[2] = "lock" /\ WindowKey[1] # "rest" /\ WindowKey[2] = "window"
  BY DEF LockKey, WindowKey
<1>3. Holds(f, LockKey) = IF f.kind = "lock" THEN {1} ELSE {}
  BY <1>2 DEF Holds, Mark
<1>4. Holds(f, WindowKey) = IF f.kind \in {"enabling", "collect"} /\ f.temp THEN {1} ELSE {}
  BY <1>2 DEF Holds, Mark
<1>5. \A o : Holds(f, Rest(o)) = At(f.rest, o)
  BY <1>1 DEF Holds
<1> QED
  BY <1>3, <1>4, <1>5, OneOrNone

\* Membership.
LEMMA InPlaces ==
    ASSUME stack \in [Threads -> Seq(Call)], NEW k
    PROVE  \A p : p \in Places(k) <=>
              \E t \in Threads : \E d \in DOMAIN stack[t] : \E i \in Holds(stack[t][d], k) :
                 p = <<<<t, d>>, i>>
<1>1. \A c : c \in Calls <=> \E t \in Threads : \E d \in DOMAIN stack[t] : c = <<t, d>>
  BY DEF Calls
<1>2. \A p : p \in Places(k) <=> \E c \in Calls : \E i \in Holds(stack[c[1]][c[2]], k) : p = <<c, i>>
  BY DEF Places
<1> QED
  BY <1>1, <1>2

LEMMA InPlacesIf ==
    ASSUME stack \in [Threads -> Seq(Call)], NEW k, NEW t \in Threads, NEW s
    PROVE  \A p : p \in PlacesIf(t, s, k) <=>
              \/ \E u \in Threads \ {t} : \E d \in DOMAIN stack[u] :
                    \E i \in Holds(stack[u][d], k) : p = <<<<u, d>>, i>>
              \/ \E d \in DOMAIN s : \E i \in Holds(s[d], k) : p = <<<<t, d>>, i>>
<1>1. \A p : p \in PlacesIf(t, s, k) <=>
             \/ p \in Places(k) /\ p[1][1] # t
             \/ \E d \in DOMAIN s : \E i \in Holds(s[d], k) : p = <<<<t, d>>, i>>
  BY DEF PlacesIf
<1>2. \A p : p \in Places(k) /\ p[1][1] # t <=>
             \E u \in Threads \ {t} : \E d \in DOMAIN stack[u] :
                \E i \in Holds(stack[u][d], k) : p = <<<<u, d>>, i>>
  BY InPlaces
<1> QED
  BY <1>1, <1>2

LEMMA PlacesNow ==
    ASSUME stack \in [Threads -> Seq(Call)], NEW k, NEW t \in Threads
    PROVE  PlacesIf(t, stack[t], k) = Places(k)
<1>1. \A p : p \in Places(k) <=> p \in PlacesIf(t, stack[t], k)
  BY InPlaces, InPlacesIf
<1> QED
  BY <1>1

LEMMA PlacesThen ==
    ASSUME stack \in [Threads -> Seq(Call)], NEW k, NEW t \in Threads, NEW s \in Seq(Call),
           stack' = [stack EXCEPT ![t] = s]
    PROVE  stack' \in [Threads -> Seq(Call)] /\ Places(k)' = PlacesIf(t, s, k)
<1>1. /\ stack' \in [Threads -> Seq(Call)]
      /\ \A u \in Threads : stack'[u] = IF u = t THEN s ELSE stack[u]
  OBVIOUS
<1>2. \A p : p \in Places(k)' <=>
             \E u \in Threads : \E d \in DOMAIN stack'[u] : \E i \in Holds(stack'[u][d], k) :
                p = <<<<u, d>>, i>>
  <2>1. \A c : c \in Calls' <=> \E u \in Threads : \E d \in DOMAIN stack'[u] : c = <<u, d>>
    BY DEF Calls
  <2>2. \A p : p \in Places(k)' <=>
               \E c \in Calls' : \E i \in Holds(stack'[c[1]][c[2]], k) : p = <<c, i>>
    BY DEF Places
  <2> QED
    BY <2>1, <2>2
<1>3. \A p : p \in Places(k)' <=> p \in PlacesIf(t, s, k)
  BY <1>1, <1>2, InPlacesIf
<1> QED
  BY <1>1, <1>3

\* A call that begins.
LEMMA Pushed ==
    ASSUME stack \in [Threads -> Seq(Call)], NEW k, NEW t \in Threads, NEW s \in Seq(Call),
           NEW f \in Call, IsFiniteSet(PlacesIf(t, s, k))
    PROVE  /\ Append(s, f) \in Seq(Call)
           /\ IsFiniteSet(PlacesIf(t, Append(s, f), k))
           /\ NumberIf(t, Append(s, f), k) = NumberIf(t, s, k) + Cardinality(Holds(f, k))
           /\ NumberIf(t, s, k) \in Nat
<1> DEFINE n == Len(s) + 1
           new == {<<t, n>>} \X Holds(f, k)
<1>1. /\ Append(s, f) \in Seq(Call) /\ DOMAIN Append(s, f) = DOMAIN s \cup {n}
      /\ n \notin DOMAIN s /\ Append(s, f)[n] = f
      /\ \A d \in DOMAIN s : Append(s, f)[d] = s[d]
  OBVIOUS
<1>2. PlacesIf(t, Append(s, f), k) = PlacesIf(t, s, k) \cup new
  <2> HIDE DEF n
  <2>1. \A p : p \in new <=> \E i \in Holds(f, k) : p = <<<<t, n>>, i>>
    OBVIOUS
  <2>2. \A p : (\E d \in DOMAIN Append(s, f) : \E i \in Holds(Append(s, f)[d], k) : p = <<<<t, d>>, i>>)
               <=> \/ \E d \in DOMAIN s : \E i \in Holds(s[d], k) : p = <<<<t, d>>, i>>
                   \/ \E i \in Holds(f, k) : p = <<<<t, n>>, i>>
    BY <1>1
  <2> HIDE DEF new
  <2>3. \A p : p \in PlacesIf(t, Append(s, f), k) <=> p \in PlacesIf(t, s, k) \/ p \in new
    <3> DEFINE other(p) == \E u \in Threads \ {t} : \E d \in DOMAIN stack[u] :
                              \E i \in Holds(stack[u][d], k) : p = <<<<u, d>>, i>>
               inS(p) == \E d \in DOMAIN s : \E i \in Holds(s[d], k) : p = <<<<t, d>>, i>>
               a == Append(s, f)
               inA(p) == \E d \in DOMAIN a : \E i \in Holds(a[d], k) : p = <<<<t, d>>, i>>
    <3> HIDE DEF a
    <3>1. \A p : p \in PlacesIf(t, a, k) <=> other(p) \/ inA(p)
      BY InPlacesIf
    <3>2. \A p : p \in PlacesIf(t, s, k) <=> other(p) \/ inS(p)
      BY InPlacesIf
    <3>3. \A p : inA(p) <=> inS(p) \/ p \in new
      BY <2>1, <2>2 DEF a
    <3> HIDE DEF other, inS, inA
    <3>4. \A p : p \in PlacesIf(t, a, k) <=> p \in PlacesIf(t, s, k) \/ p \in new
      BY <3>1, <3>2, <3>3
    <3> QED
      BY <3>4 DEF a
  <2> QED
    BY <2>3
<1>3. PlacesIf(t, s, k) \cap new = {}
  <2> HIDE DEF n
  <2>1. \A p \in PlacesIf(t, s, k) : p[1] # <<t, n>>
    BY <1>1, InPlacesIf
  <2>2. \A p \in new : p[1] = <<t, n>>
    OBVIOUS
  <2> QED
    BY <2>1, <2>2
<1>4. IsFiniteSet(Holds(f, k)) /\ Cardinality(Holds(f, k)) \in Nat
  BY HoldsFinite
<1>5. IsFiniteSet(new) /\ Cardinality(new) = Cardinality(Holds(f, k))
  <2>1. IsFiniteSet({<<t, n>>}) /\ Cardinality({<<t, n>>}) = 1
    BY FS_Singleton
  <2>2. IsFiniteSet(new) /\ Cardinality(new) = 1 * Cardinality(Holds(f, k))
    BY <1>4, <2>1, FS_Product
  <2> QED
    BY <1>4, <2>2
<1> HIDE DEF new
<1>6. /\ IsFiniteSet(PlacesIf(t, s, k) \cup new)
      /\ Cardinality(PlacesIf(t, s, k) \cup new)
           = Cardinality(PlacesIf(t, s, k)) + Cardinality(new) - Cardinality(PlacesIf(t, s, k) \cap new)
  BY <1>5, FS_Union
<1>7. Cardinality(PlacesIf(t, s, k) \cap new) = 0
  BY <1>3, FS_EmptySet
<1>8. Cardinality(PlacesIf(t, s, k)) \in Nat
  BY FS_CardinalityType
<1> QED
  BY <1>1, <1>2, <1>4, <1>5, <1>6, <1>7, <1>8 DEF NumberIf

\* A call that ends.
LEMMA Popped ==
    ASSUME stack \in [Threads -> Seq(Call)], NEW k, NEW t \in Threads, stack[t] # <<>>,
           IsFiniteSet(Places(k))
    PROVE  /\ Below(t) \in Seq(Call) /\ Last(stack[t]) \in Call
           /\ IsFiniteSet(PlacesIf(t, Below(t), k))
           /\ NumberIf(t, Below(t), k) \in Nat
           /\ Number(k) = NumberIf(t, Below(t), k) + Cardinality(Holds(Last(stack[t]), k))
<1>1. PICK s \in Seq(Call), f \in Call : stack[t] = Append(s, f)
  BY SequenceEmptyOrAppend
<1>2. Below(t) = s /\ Last(stack[t]) = f
  <2>1. Len(Append(s, f)) = Len(s) + 1 /\ Append(s, f)[Len(s) + 1] = f
    BY AppendProperties
  <2>2. Last(stack[t]) = f
    BY <1>1, <2>1 DEF Last
  <2>3. Front(Append(s, f)) = s
    <3> DEFINE a == Append(s, f)
    <3>1. Len(s) \in Nat /\ Len(a) - 1 = Len(s)
      BY <2>1
    <3>2. Front(a) = SubSeq(a, 1, Len(s))
      BY <3>1 DEF Front
    <3>3. \A i \in 1 .. Len(s) : a[i] \in Call /\ a[i] = s[i]
      BY AppendProperties
    <3> HIDE DEF a
    <3>4. /\ SubSeq(a, 1, Len(s)) \in Seq(Call)
          /\ Len(SubSeq(a, 1, Len(s))) = IF 1 <= Len(s) THEN Len(s) - 1 + 1 ELSE 0
          /\ \A i \in 1 .. Len(s) - 1 + 1 : SubSeq(a, 1, Len(s))[i] = a[1 + i - 1]
      BY <3>1, <3>3, SubSeqProperties
    <3>5. Len(SubSeq(a, 1, Len(s))) = Len(s)
      BY <3>1, <3>4
    <3>6. \A i \in 1 .. Len(s) : SubSeq(a, 1, Len(s))[i] = s[i]
      <4> TAKE i \in 1 .. Len(s)
      <4>1. i \in 1 .. Len(s) - 1 + 1 /\ 1 + i - 1 = i
        BY <3>1
      <4>2. SubSeq(a, 1, Len(s))[i] = a[1 + i - 1]
        BY ONLY <3>4, <4>1
      <4> QED
        BY <3>3, <4>1, <4>2
    <3>7. SubSeq(a, 1, Len(s)) = s
      BY <3>4, <3>5, <3>6, SeqEqual
    <3> QED
      BY <3>2, <3>7 DEF a
  <2> QED
    BY <1>1, <2>2, <2>3 DEF Below
<1>3. PlacesIf(t, s, k) \subseteq Places(k)
  <2>1. DOMAIN s \subseteq DOMAIN stack[t] /\ \A d \in DOMAIN s : stack[t][d] = s[d]
    BY <1>1
  <2> QED
    BY <2>1, InPlaces, InPlacesIf
<1>4. IsFiniteSet(PlacesIf(t, s, k))
  BY <1>3, FS_Subset
<1>5. Places(k) = PlacesIf(t, Append(s, f), k)
  BY <1>1, PlacesNow
<1> QED
  BY <1>2, <1>4, <1>5, Pushed DEF Number, NumberIf

\* The calls that the code makes, and what they hold.
LEMMA NewCalls ==
    /\ \A k \in {"run", "collect", "lock"} :
          /\ Plain(k) \in Call
          /\ Plain(k).kind = k /\ Plain(k).rest = <<>> /\ ~Plain(k).temp
    /\ \A r \in Seq(Obj) : LET f == [Plain("enable") EXCEPT !.rest = r]
                           IN  f \in Call /\ f.kind = "enable" /\ f.rest = r /\ ~f.temp
    /\ \A k \in {"enabling", "collect"} :
          LET f == [Plain(k) EXCEPT !.temp = TRUE]
          IN  f \in Call /\ f.kind = k /\ f.rest = <<>> /\ f.temp
<1>1. <<>> \in Seq(Obj)
  BY EmptySeq
<1>2. ASSUME NEW k \in {"run", "collect", "lock"}
      PROVE  /\ Plain(k) \in Call
             /\ Plain(k).kind = k /\ Plain(k).rest = <<>> /\ ~Plain(k).temp
  <2>1. Plain(k).kind = k /\ Plain(k).rest = <<>> /\ ~Plain(k).temp
    BY DEF Plain
  <2>2. Plain(k) \in Frame
    BY <1>1 DEF Plain, Frame, Kinds
  <2> QED
    BY <2>1, <2>2 DEF Call
<1>3. ASSUME NEW r \in Seq(Obj)
      PROVE  LET f == [Plain("enable") EXCEPT !.rest = r]
             IN  f \in Call /\ f.kind = "enable" /\ f.rest = r /\ ~f.temp
  <2> DEFINE f == [Plain("enable") EXCEPT !.rest = r]
  <2>1. f.kind = "enable" /\ f.rest = r /\ ~f.temp
    BY DEF Plain
  <2>2. f \in Frame
    BY DEF Plain, Frame, Kinds
  <2> HIDE DEF f
  <2>3. f \in Call
    BY <2>1, <2>2 DEF Call
  <2> QED
    BY <2>1, <2>3 DEF f
<1>4. ASSUME NEW k \in {"enabling", "collect"}
      PROVE  LET f == [Plain(k) EXCEPT !.temp = TRUE]
             IN  f \in Call /\ f.kind = k /\ f.rest = <<>> /\ f.temp
  <2> DEFINE f == [Plain(k) EXCEPT !.temp = TRUE]
  <2>1. f.kind = k /\ f.rest = <<>> /\ f.temp
    BY DEF Plain
  <2>2. f \in Frame
    BY <1>1 DEF Plain, Frame, Kinds
  <2> HIDE DEF f
  <2>3. f \in Call
    BY <2>1, <2>2 DEF Call
  <2> QED
    BY <2>1, <2>3 DEF f
<1> QED
  BY <1>2, <1>3, <1>4

LEMMA KeysAre == LockKey \in Keys /\ WindowKey \in Keys /\ \A o \in Obj : Rest(o) \in Keys
  BY DEF Keys

LEMMA TimesFacts ==
    /\ \A s \in Seq(Obj) : \A o :
          s # None /\ Times(s, o) = Cardinality(At(s, o)) /\ Times(s, o) \in Nat
    /\ \A o : Times(None, o) = 0
    /\ \A o : <<>> \in Seq(Obj) /\ Times(<<>>, o) = 0
<1>1. \A s \in Seq(Obj) : \A o : s # None /\ Times(s, o) = Cardinality(At(s, o))
  BY NoneAssumption DEF Times
<1>2. <<>> \in Seq(Obj)
  BY EmptySeq
<1> QED
  BY <1>1, <1>2, AtFinite, AtEmpty DEF Times

LEMMA TimesConcat ==
    ASSUME NEW s \in Seq(Obj), NEW t \in Seq(Obj), NEW o
    PROVE  /\ SetAside(s, t) \in Seq(Obj)
           /\ Times(SetAside(s, t), o) = Times(s, o) + Times(t, o)
<1> DEFINE u == SetAside(s, t)
<1>1. u \in Seq(Obj) /\ Cardinality(At(u, o)) = Cardinality(At(s, o)) + Cardinality(At(t, o))
  BY AtConcat DEF SetAside
<1> HIDE DEF u
<1>2. Times(u, o) = Cardinality(At(u, o))
  BY <1>1, TimesFacts
<1>3. Times(s, o) = Cardinality(At(s, o)) /\ Times(t, o) = Cardinality(At(t, o))
  BY TimesFacts
<1> QED
  BY <1>1, <1>2, <1>3 DEF u

LEMMA TimesTail ==
    ASSUME NEW s \in Seq(Obj), s # <<>>, NEW o
    PROVE  /\ Head(s) \in Obj /\ Tail(s) \in Seq(Obj)
           /\ Times(s, o) = Times(Tail(s), o) + (IF Head(s) = o THEN 1 ELSE 0)
<1>1. /\ Head(s) \in Obj /\ Tail(s) \in Seq(Obj)
      /\ Cardinality(At(s, o))
           = Cardinality(At(Tail(s), o)) + (IF Head(s) = o THEN 1 ELSE 0)
  BY AtTail
<1>2. Times(s, o) = Cardinality(At(s, o))
  BY TimesFacts
<1>3. Times(Tail(s), o) = Cardinality(At(Tail(s), o))
  BY <1>1, TimesFacts
<1> QED
  BY <1>1, <1>2, <1>3

-----------------------------------------------------------------------------
(* The parts of the functions. *)

\* What waits, if s were the stack of t.
WaitIf(t, s) ==
    [o \in Obj |-> Times(queue, o) + Times(pending, o) + NumberIf(t, s, Rest(o))]

\* No finalizer is called, or that of one of those that wait.
Outcome(w) ==
    \/ called' = called /\ \A o \in Obj : Wait(o)' = w[o]
    \/ /\ pending' = None
       /\ \E x \in Obj : /\ called' = called \cup {x}
                         /\ \A o \in Obj : Wait(o)' + (IF o = x THEN 1 ELSE 0) = w[o]

\* The calls in progress are those of s, perhaps with that of a finalizer.
Follows(t, s) ==
    /\ pending' \in Seq(Obj) \cup {None}
    /\ stack' \in [Threads -> Seq(Call)]
    /\ \A k \in Keys : IsFiniteSet(Places(k)')
    /\ Number(LockKey)' = NumberIf(t, s, LockKey)
    /\ Number(WindowKey)' = NumberIf(t, s, WindowKey)
    /\ Outcome(WaitIf(t, s))

LEMMA Settled ==
    ASSUME Types, NEW t \in Threads, NEW s \in Seq(Call),
           \A k \in Keys : IsFiniteSet(PlacesIf(t, s, k)),
           stack' = [stack EXCEPT ![t] = s]
    PROVE  /\ stack' \in [Threads -> Seq(Call)]
           /\ \A k \in Keys : /\ IsFiniteSet(Places(k)') /\ Number(k)' = NumberIf(t, s, k)
                              /\ NumberIf(t, s, k) \in Nat
<1>1. stack \in [Threads -> Seq(Call)]
  BY DEF Types
<1>2. \A k : Places(k)' = PlacesIf(t, s, k)
  BY <1>1, PlacesThen
<1>3. \A k \in Keys : NumberIf(t, s, k) \in Nat
  BY FS_CardinalityType DEF NumberIf
<1> QED
  BY <1>1, <1>2, <1>3 DEF Number, NumberIf

\* The call of a finalizer, with what is still to be called after it.
LEMMA SettledCall ==
    ASSUME Types, NEW t \in Threads, NEW s \in Seq(Call), NEW f \in Call,
           \A k \in Keys : IsFiniteSet(PlacesIf(t, s, k)),
           f.kind \in {"run", "enable"},
           stack' = [stack EXCEPT ![t] = Append(s, f)]
    PROVE  /\ stack' \in [Threads -> Seq(Call)]
           /\ \A k \in Keys : IsFiniteSet(Places(k)') /\ NumberIf(t, s, k) \in Nat
           /\ Number(LockKey)' = NumberIf(t, s, LockKey)
           /\ Number(WindowKey)' = NumberIf(t, s, WindowKey)
           /\ \A o \in Obj : Number(Rest(o))' = NumberIf(t, s, Rest(o)) + Times(f.rest, o)
<1>1. stack \in [Threads -> Seq(Call)] /\ f.rest \in Seq(Obj)
  BY CallRecord DEF Types
<1>2. \A k \in Keys : /\ Append(s, f) \in Seq(Call)
                      /\ IsFiniteSet(PlacesIf(t, Append(s, f), k))
                      /\ NumberIf(t, Append(s, f), k) = NumberIf(t, s, k) + Cardinality(Holds(f, k))
                      /\ NumberIf(t, s, k) \in Nat
  BY <1>1, Pushed
<1>3. Append(s, f) \in Seq(Call)
  BY <1>2, KeysAre
<1>4. /\ stack' \in [Threads -> Seq(Call)]
      /\ \A k \in Keys : /\ IsFiniteSet(Places(k)')
                         /\ Number(k)' = NumberIf(t, Append(s, f), k)
  BY <1>2, <1>3, Settled
<1>5. /\ Cardinality(Holds(f, LockKey)) = 0 /\ Cardinality(Holds(f, WindowKey)) = 0
      /\ \A o \in Obj : Cardinality(Holds(f, Rest(o))) = Times(f.rest, o)
  BY <1>1, KeyFacts, TimesFacts
<1>6. \A o \in Obj : Number(Rest(o))' = NumberIf(t, s, Rest(o)) + Times(f.rest, o)
  BY <1>2, <1>4, <1>5, KeysAre
<1>7. Number(LockKey)' = NumberIf(t, s, LockKey) /\ Number(WindowKey)' = NumberIf(t, s, WindowKey)
  <2>1. \A n \in Nat : n + 0 = n
    OBVIOUS
  <2> QED
    BY <1>2, <1>4, <1>5, <2>1, KeysAre
<1> QED
  BY <1>2, <1>4, <1>6, <1>7

LEMMA RunFinalizersStep ==
    ASSUME Types, NEW t \in Threads, NEW s \in Seq(Call),
           \A k \in Keys : IsFiniteSet(PlacesIf(t, s, k)),
           RunFinalizers(t, s)
    PROVE  /\ Follows(t, s)
           /\ queue' \in Seq(Obj)
           /\ pending' = None <=> pending = None
<1> DEFINE n(o) == NumberIf(t, s, Rest(o))
<1>1. queue \in Seq(Obj) /\ (pending # None => pending \in Seq(Obj))
  BY DEF Types
<1>2. \A o \in Obj : Times(queue, o) \in Nat /\ Times(pending, o) \in Nat
  BY <1>1, TimesFacts
<1>3. \A o \in Obj : /\ WaitIf(t, s)[o] = Times(queue, o) + Times(pending, o) + n(o)
                     /\ Wait(o)' = Times(queue', o) + Times(pending', o) + Number(Rest(o))'
  BY DEF WaitIf, Wait, Times
<1>4. CASE pending # None
  <2>1. /\ pending' = SetAside(pending, queue) /\ queue' = <<>>
        /\ stack' = [stack EXCEPT ![t] = s] /\ called' = called
    BY <1>4 DEF RunFinalizers, GcDisabled
  <2>2. /\ stack' \in [Threads -> Seq(Call)]
        /\ \A k \in Keys : /\ IsFiniteSet(Places(k)') /\ Number(k)' = NumberIf(t, s, k)
                           /\ NumberIf(t, s, k) \in Nat
    BY <2>1, Settled
  <2>3. /\ pending' \in Seq(Obj) /\ pending' # None /\ queue' \in Seq(Obj)
        /\ \A o \in Obj : /\ Times(pending', o) = Times(pending, o) + Times(queue, o)
                          /\ Times(queue', o) = 0
    BY <1>1, <1>4, <2>1, TimesConcat, TimesFacts
  <2>4. \A o \in Obj : n(o) \in Nat /\ Number(Rest(o))' = n(o)
    BY <2>2, KeysAre
  <2>5. \A o \in Obj : Wait(o)' = WaitIf(t, s)[o]
    BY <1>2, <1>3, <2>3, <2>4
  <2> QED
    BY <1>4, <2>1, <2>2, <2>3, <2>5, KeysAre DEF Follows, Outcome
<1>5. CASE pending = None /\ queue = <<>>
  <2>1. stack' = [stack EXCEPT ![t] = s] /\ UNCHANGED <<queue, pending, called>>
    BY <1>5 DEF RunFinalizers, GcDisabled
  <2>2. /\ stack' \in [Threads -> Seq(Call)]
        /\ \A k \in Keys : /\ IsFiniteSet(Places(k)') /\ Number(k)' = NumberIf(t, s, k)
                           /\ NumberIf(t, s, k) \in Nat
    BY <2>1, Settled
  <2>3. \A o \in Obj : Wait(o)' = WaitIf(t, s)[o]
    BY <1>3, <2>1, <2>2, KeysAre
  <2> QED
    BY <1>1, <1>5, <2>1, <2>2, <2>3, KeysAre DEF Follows, Outcome
<1>6. CASE pending = None /\ queue # <<>>
  <2> DEFINE f == Plain("run")
  <2>1. /\ called' = called \cup {Head(queue)} /\ queue' = Tail(queue)
        /\ stack' = [stack EXCEPT ![t] = Append(s, f)]
        /\ pending' = pending
    BY <1>6 DEF RunFinalizers, GcDisabled
  <2>2. f \in Call /\ f.kind = "run" /\ f.rest = <<>>
    BY NewCalls
  <2> HIDE DEF f
  <2>3. /\ stack' \in [Threads -> Seq(Call)]
        /\ \A k \in Keys : IsFiniteSet(Places(k)') /\ NumberIf(t, s, k) \in Nat
        /\ Number(LockKey)' = NumberIf(t, s, LockKey)
        /\ Number(WindowKey)' = NumberIf(t, s, WindowKey)
        /\ \A o \in Obj : Number(Rest(o))' = NumberIf(t, s, Rest(o)) + Times(f.rest, o)
    BY <2>1, <2>2, SettledCall
  <2>4. \A o \in Obj : n(o) \in Nat /\ Number(Rest(o))' = n(o)
    BY <2>2, <2>3, KeysAre, TimesFacts
  <2>5. /\ Head(queue) \in Obj /\ queue' \in Seq(Obj)
        /\ \A o \in Obj : /\ Times(queue, o) = Times(queue', o) + (IF Head(queue) = o THEN 1 ELSE 0)
                          /\ Times(queue', o) \in Nat
    BY <1>1, <1>6, <2>1, TimesTail, TimesFacts
  <2>6. \A o \in Obj : Wait(o)' + (IF o = Head(queue) THEN 1 ELSE 0) = WaitIf(t, s)[o]
    <3> TAKE o \in Obj
    <3> DEFINE w == IF o = Head(queue) THEN 1 ELSE 0
    <3>1. w \in Nat /\ Times(queue, o) = Times(queue', o) + w
      BY <2>5
    <3> HIDE DEF w
    <3>2. Wait(o)' + w = WaitIf(t, s)[o]
      BY <1>2, <1>3, <2>1, <2>4, <2>5, <3>1
    <3> QED
      BY <3>2 DEF w
  <2> QED
    BY <1>1, <1>6, <2>1, <2>3, <2>5, <2>6 DEF Follows, Outcome
<1> QED
  BY <1>4, <1>5, <1>6

\* The loop over a list, for the places where the code has just emptied pending_with_
\* disabled_del into it, or goes on with what was left.
LEMMA CallRestStep ==
    ASSUME Types, NEW t \in Threads, NEW s \in Seq(Call),
           \A k \in Keys : IsFiniteSet(PlacesIf(t, s, k)),
           NEW rest \in Seq(Obj), NEW aside \in Seq(Obj) \cup {None},
           CallRest(t, s, rest, aside), UNCHANGED queue
    PROVE  /\ pending' \in Seq(Obj) \cup {None}
           /\ pending' = None <=> aside = None
           /\ stack' \in [Threads -> Seq(Call)]
           /\ \A k \in Keys : IsFiniteSet(Places(k)')
           /\ Number(LockKey)' = NumberIf(t, s, LockKey)
           /\ Number(WindowKey)' = NumberIf(t, s, WindowKey)
           /\ Outcome([o \in Obj |-> Times(queue, o) + Times(aside, o) + Times(rest, o)
                                     + NumberIf(t, s, Rest(o))])
<1> DEFINE n(o) == NumberIf(t, s, Rest(o))
           w == [o \in Obj |-> Times(queue, o) + Times(aside, o) + Times(rest, o) + n(o)]
<1>1. \A o \in Obj : /\ Times(queue, o) \in Nat /\ Times(aside, o) \in Nat
                     /\ Times(rest, o) \in Nat
  BY TimesFacts DEF Types
<1>2. \A o \in Obj : /\ w[o] = Times(queue, o) + Times(aside, o) + Times(rest, o) + n(o)
                     /\ Wait(o)' = Times(queue, o) + Times(pending', o) + Number(Rest(o))'
  BY DEF Wait, Times
<1>3. CASE aside # None
  <2>1. /\ pending' = SetAside(aside, rest)
        /\ stack' = [stack EXCEPT ![t] = s] /\ called' = called
    BY <1>3 DEF CallRest, GcDisabled
  <2>2. /\ stack' \in [Threads -> Seq(Call)]
        /\ \A k \in Keys : /\ IsFiniteSet(Places(k)') /\ Number(k)' = NumberIf(t, s, k)
                           /\ NumberIf(t, s, k) \in Nat
    BY <2>1, Settled
  <2>3. /\ pending' \in Seq(Obj) /\ pending' # None
        /\ \A o \in Obj : Times(pending', o) = Times(aside, o) + Times(rest, o)
    BY <1>3, <2>1, TimesConcat, TimesFacts
  <2>4. \A o \in Obj : n(o) \in Nat /\ Number(Rest(o))' = n(o)
    BY <2>2, KeysAre
  <2> HIDE DEF n
  <2>5. \A o \in Obj : Wait(o)' = w[o]
    BY <1>1, <1>2, <2>3, <2>4
  <2> USE DEF n
  <2> QED
    BY <1>3, <2>1, <2>2, <2>3, <2>5, KeysAre DEF Outcome
<1>4. CASE aside = None /\ rest = <<>>
  <2>1. pending' = None /\ stack' = [stack EXCEPT ![t] = s] /\ UNCHANGED called
    BY <1>4 DEF CallRest, GcDisabled
  <2>2. /\ stack' \in [Threads -> Seq(Call)]
        /\ \A k \in Keys : /\ IsFiniteSet(Places(k)') /\ Number(k)' = NumberIf(t, s, k)
                           /\ NumberIf(t, s, k) \in Nat
    BY <2>1, Settled
  <2>3. \A o \in Obj : n(o) \in Nat /\ Number(Rest(o))' = n(o)
    BY <2>2, KeysAre
  <2>4. \A o \in Obj : Times(aside, o) = 0 /\ Times(pending', o) = 0 /\ Times(rest, o) = 0
    BY <1>4, <2>1, TimesFacts
  <2> HIDE DEF n
  <2>5. \A o \in Obj : Wait(o)' = w[o]
    BY <1>1, <1>2, <2>3, <2>4
  <2> USE DEF n
  <2> QED
    BY <1>4, <2>1, <2>2, <2>5, KeysAre DEF Outcome
<1>5. CASE aside = None /\ rest # <<>>
  <2> DEFINE f == [Plain("enable") EXCEPT !.rest = Tail(rest)]
             x == Head(rest)
  <2>1. /\ called' = called \cup {x} /\ pending' = None
        /\ stack' = [stack EXCEPT ![t] = Append(s, f)]
    BY <1>5 DEF CallRest, GcDisabled
  <2>2. /\ x \in Obj /\ Tail(rest) \in Seq(Obj)
        /\ \A o \in Obj : Times(rest, o) = Times(Tail(rest), o) + (IF x = o THEN 1 ELSE 0)
    BY <1>5, TimesTail
  <2>3. f \in Call /\ f.kind = "enable" /\ f.rest = Tail(rest)
    BY <2>2, NewCalls
  <2> HIDE DEF f, x
  <2>4. /\ stack' \in [Threads -> Seq(Call)]
        /\ \A k \in Keys : IsFiniteSet(Places(k)') /\ NumberIf(t, s, k) \in Nat
        /\ Number(LockKey)' = NumberIf(t, s, LockKey)
        /\ Number(WindowKey)' = NumberIf(t, s, WindowKey)
        /\ \A o \in Obj : Number(Rest(o))' = NumberIf(t, s, Rest(o)) + Times(f.rest, o)
    BY <2>1, <2>3, SettledCall
  <2>5. \A o \in Obj : /\ n(o) \in Nat /\ Times(Tail(rest), o) \in Nat
                       /\ Times(pending', o) = 0 /\ Times(aside, o) = 0
                       /\ Number(Rest(o))' = n(o) + Times(Tail(rest), o)
    BY <1>5, <2>1, <2>2, <2>3, <2>4, KeysAre, TimesFacts
  <2>6. \A o \in Obj : Wait(o)' + (IF o = x THEN 1 ELSE 0) = w[o]
    <3> TAKE o \in Obj
    <3> DEFINE v == IF o = x THEN 1 ELSE 0
    <3>1. v \in Nat /\ Times(rest, o) = Times(Tail(rest), o) + v
      BY <2>2
    <3>2. w[o] = Times(queue, o) + Times(aside, o) + Times(rest, o) + n(o)
      BY <1>2
    <3> HIDE DEF v, w, n
    <3>3. Wait(o)' + v = w[o]
      BY <1>1, <1>2, <2>5, <3>1, <3>2
    <3> QED
      BY <3>3 DEF v
  <2> QED
    BY <1>5, <2>1, <2>2, <2>4, <2>6 DEF Outcome
<1> QED
  BY <1>3, <1>4, <1>5

LEMMA EnableFinalizersStep ==
    ASSUME Types, Suspension, NEW t \in Threads, NEW s \in Seq(Call),
           \A k \in Keys : IsFiniteSet(PlacesIf(t, s, k)),
           lockCount > 0, EnableFinalizers(t, s), UNCHANGED queue
    PROVE  /\ Follows(t, s)
           /\ lockCount' = lockCount - 1 /\ lockCount' \in Nat
           /\ Suspension'
<1>1. lockCount' = lockCount - 1 /\ lockCount' \in Nat /\ lockCount \in Nat
  BY DEF EnableFinalizers, Types
<1>2. pending # None /\ pending \in Seq(Obj)
  BY DEF Suspension, Types
<1>3. CASE lockCount = 1
  <2>1. CallRest(t, s, pending, None)
    BY <1>3 DEF EnableFinalizers
  <2>2. /\ pending' = None
        /\ stack' \in [Threads -> Seq(Call)]
        /\ \A k \in Keys : IsFiniteSet(Places(k)')
        /\ Number(LockKey)' = NumberIf(t, s, LockKey)
        /\ Number(WindowKey)' = NumberIf(t, s, WindowKey)
        /\ Outcome([o \in Obj |-> Times(queue, o) + Times(None, o) + Times(pending, o)
                                  + NumberIf(t, s, Rest(o))])
    BY <1>2, <2>1, CallRestStep
  <2>3. \A o \in Obj : Times(queue, o) \in Nat /\ Times(pending, o) \in Nat /\ Times(None, o) = 0
    BY <1>2, TimesFacts DEF Types
  <2>4. [o \in Obj |-> Times(queue, o) + Times(None, o) + Times(pending, o)
                       + NumberIf(t, s, Rest(o))] = WaitIf(t, s)
    <3>1. \A o \in Obj : Times(queue, o) + Times(None, o) + Times(pending, o)
                         = Times(queue, o) + Times(pending, o)
      BY <2>3
    <3> QED
      BY <3>1 DEF WaitIf
  <2>5. Outcome(WaitIf(t, s))
    BY <2>2, <2>4
  <2> QED
    BY <1>1, <1>3, <2>2, <2>5 DEF Follows, Suspension
<1>4. CASE lockCount # 1
  <2>1. stack' = [stack EXCEPT ![t] = s] /\ UNCHANGED <<pending, called>>
    BY <1>4 DEF EnableFinalizers
  <2>2. /\ stack' \in [Threads -> Seq(Call)]
        /\ \A k \in Keys : /\ IsFiniteSet(Places(k)') /\ Number(k)' = NumberIf(t, s, k)
    BY <2>1, Settled
  <2>3. \A o \in Obj : Wait(o)' = WaitIf(t, s)[o]
    BY <2>1, <2>2, KeysAre DEF Wait, WaitIf, Times
  <2>4. lockCount' # 0
    BY <1>1, <1>4
  <2> QED
    BY <1>1, <1>2, <2>1, <2>2, <2>3, <2>4, KeysAre DEF Follows, Outcome, Suspension
<1> QED
  BY <1>3, <1>4

-----------------------------------------------------------------------------
(* The actions. *)

\* What each of them has to keep.
Step ==
    /\ Inv'
    /\ called' # called => pending' = None
    /\ Account => Account'

LEMMA Concluded ==
    ASSUME Inv, NEW w, Outcome(w), \A o \in Obj : w[o] = Wait(o),
           pending' \in Seq(Obj) \cup {None},
           stack' \in [Threads -> Seq(Call)],
           \A k \in Keys : IsFiniteSet(Places(k)'),
           queue' \in Seq(Obj), fired' \in BOOLEAN, enabled' \in BOOLEAN, lockCount' \in Nat,
           Suspension', dead' = dead
    PROVE  Inv' /\ (called' # called => pending' = None)
<1> USE DEF Inv
<1>1. \A o \in Obj : Wait(o)' \in Nat
  <2> TAKE o \in Obj
  <2>1. Number(Rest(o))' \in Nat
    BY KeysAre, FS_CardinalityType DEF Number
  <2>2. Times(queue', o) \in Nat /\ Times(pending', o) \in Nat
    BY TimesFacts
  <2>3. Wait(o)' = Times(queue', o) + Times(pending', o) + Number(Rest(o))'
    BY DEF Wait, Times
  <2> QED
    BY <2>1, <2>2, <2>3
<1>2. \A o \in Obj : Wait(o) = IF o \in dead \ called THEN 1 ELSE 0
  BY DEF Each
<1>3. CASE called' = called /\ \A o \in Obj : Wait(o)' = w[o]
  <2>1. Each'
    BY <1>2, <1>3 DEF Each
  <2> QED
    BY <1>3, <2>1 DEF Types, Finite
<1>4. CASE /\ pending' = None
           /\ \E x \in Obj : /\ called' = called \cup {x}
                             /\ \A o \in Obj : Wait(o)' + (IF o = x THEN 1 ELSE 0) = w[o]
  <2>1. PICK x \in Obj : /\ called' = called \cup {x}
                         /\ \A o \in Obj : Wait(o)' + (IF o = x THEN 1 ELSE 0) = w[o]
    BY <1>4
  <2>2. \A o \in Obj : Wait(o)' + (IF o = x THEN 1 ELSE 0) = IF o \in dead \ called THEN 1 ELSE 0
    BY <1>2, <2>1
  <2>3. x \in dead \ called /\ Wait(x)' = 0
    BY <1>1, <2>2
  <2>4. \A o \in Obj : o # x => Wait(o)' = IF o \in dead \ called THEN 1 ELSE 0
    BY <1>1, <2>2
  <2>5. Each'
    BY <2>1, <2>3, <2>4 DEF Each
  <2>6. called' \subseteq dead
    BY <2>1, <2>3 DEF Types
  <2> QED
    BY <1>4, <2>5, <2>6 DEF Types, Finite
<1> QED
  BY <1>3, <1>4 DEF Outcome

LEMMA Tagged ==
    ASSUME NEW S, IsFiniteSet(S \X {1})
    PROVE  IsFiniteSet(S) /\ Cardinality(S \X {1}) = Cardinality(S) /\ Cardinality(S) \in Nat
<1> DEFINE f == [p \in S \X {1} |-> p[1]]
<1>1. \A p \in S \X {1} : f[p] \in S /\ p = <<f[p], 1>>
  OBVIOUS
<1>2. \A x \in S : <<x, 1>> \in S \X {1} /\ f[<<x, 1>>] = x
  OBVIOUS
<1>3. f \in [S \X {1} -> S]
  BY <1>1
<1> HIDE DEF f
<1>4. f \in Bijection(S \X {1}, S)
  <2>1. \A p, q \in S \X {1} : f[p] = f[q] => p = q
    BY <1>1
  <2>2. f \in Injection(S \X {1}, S)
    BY <1>3, <2>1 DEF Injection, IsInjective
  <2>3. f \in Surjection(S \X {1}, S)
    BY <1>2, <1>3 DEF Surjection
  <2> QED
    BY <2>2, <2>3 DEF Bijection
<1>5. ExistsBijection(S \X {1}, S)
  BY <1>4 DEF ExistsBijection
<1> QED
  BY <1>5, FS_Bijection, FS_CardinalityType

\* The calls counted and the calls asked about are the same.
LEMMA Counted ==
    ASSUME Types, Finite
    PROVE  /\ Number(LockKey) = Cardinality(InPopen) /\ Number(WindowKey) = Cardinality(Lifting)
           /\ Number(LockKey) \in Nat /\ Number(WindowKey) \in Nat
<1> DEFINE call(c) == stack[c[1]][c[2]]
<1>1. \A k, p : p \in Places(k) <=> \E c \in Calls : \E i \in Holds(call(c), k) : p = <<c, i>>
  BY DEF Places
<1>2. \A f : /\ Holds(f, LockKey) = IF f.kind = "lock" THEN {1} ELSE {}
             /\ Holds(f, WindowKey)
                  = IF f.kind \in {"enabling", "collect"} /\ f.temp THEN {1} ELSE {}
  <2>1. LockKey[1] # "rest" /\ LockKey[2] = "lock" /\ WindowKey[1] # "rest" /\ WindowKey[2] = "window"
    BY DEF LockKey, WindowKey
  <2> QED
    BY <2>1 DEF Holds, Mark
<1>3. Places(LockKey) = InPopen \X {1}
  <2>1. \A c : c \in InPopen <=> c \in Calls /\ call(c).kind = "lock"
    BY DEF InPopen
  <2> HIDE DEF call
  <2>2. \A p : p \in Places(LockKey) <=> \E c \in InPopen : p = <<c, 1>>
    BY <1>1, <1>2, <2>1
  <2> QED
    BY <2>2
<1>4. Places(WindowKey) = Lifting \X {1}
  <2>1. \A c : c \in Lifting <=>
                 c \in Calls /\ call(c).kind \in {"enabling", "collect"} /\ call(c).temp
    BY DEF Lifting
  <2> HIDE DEF call
  <2>2. \A p : p \in Places(WindowKey) <=> \E c \in Lifting : p = <<c, 1>>
    BY <1>1, <1>2, <2>1
  <2> QED
    BY <2>2
<1>5. IsFiniteSet(Places(LockKey)) /\ IsFiniteSet(Places(WindowKey))
  BY KeysAre DEF Finite
<1> QED
  BY <1>3, <1>4, <1>5, Tagged DEF Number

\* The stack as it is, with a new call, and without the last one.
LEMMA AsItIs ==
    ASSUME Inv, NEW t \in Threads
    PROVE  /\ stack[t] \in Seq(Call)
           /\ \A k \in Keys : /\ IsFiniteSet(PlacesIf(t, stack[t], k))
                              /\ NumberIf(t, stack[t], k) = Number(k)
           /\ \A o \in Obj : WaitIf(t, stack[t])[o] = Wait(o)
<1>1. stack \in [Threads -> Seq(Call)] /\ \A k \in Keys : IsFiniteSet(Places(k))
  BY DEF Inv, Types, Finite
<1>2. \A k : PlacesIf(t, stack[t], k) = Places(k)
  BY <1>1, PlacesNow
<1>3. \A k : NumberIf(t, stack[t], k) = Number(k)
  BY <1>2 DEF NumberIf, Number
<1> QED
  BY <1>1, <1>2, <1>3 DEF WaitIf, Wait

LEMMA WithCall ==
    ASSUME Inv, NEW t \in Threads, NEW s \in Seq(Call), NEW f \in Call, f.rest = <<>>,
           \A k \in Keys : IsFiniteSet(PlacesIf(t, s, k))
    PROVE  /\ Append(s, f) \in Seq(Call)
           /\ \A k \in Keys : /\ IsFiniteSet(PlacesIf(t, Append(s, f), k))
                              /\ NumberIf(t, s, k) \in Nat
           /\ NumberIf(t, Append(s, f), LockKey)
                = NumberIf(t, s, LockKey) + (IF f.kind = "lock" THEN 1 ELSE 0)
           /\ NumberIf(t, Append(s, f), WindowKey)
                = NumberIf(t, s, WindowKey)
                  + (IF f.kind \in {"enabling", "collect"} /\ f.temp THEN 1 ELSE 0)
           /\ \A o \in Obj : NumberIf(t, Append(s, f), Rest(o)) = NumberIf(t, s, Rest(o))
<1>1. stack \in [Threads -> Seq(Call)]
  BY DEF Inv, Types
<1>2. \A k \in Keys : /\ Append(s, f) \in Seq(Call)
                      /\ IsFiniteSet(PlacesIf(t, Append(s, f), k))
                      /\ NumberIf(t, Append(s, f), k) = NumberIf(t, s, k) + Cardinality(Holds(f, k))
                      /\ NumberIf(t, s, k) \in Nat
  BY <1>1, Pushed
<1>3. \A o \in Obj : Cardinality(Holds(f, Rest(o))) = 0
  BY KeyFacts, AtEmpty
<1>4. \A n \in Nat : n + 0 = n
  OBVIOUS
<1>5. \A o \in Obj : NumberIf(t, Append(s, f), Rest(o)) = NumberIf(t, s, Rest(o))
  BY <1>2, <1>3, <1>4, KeysAre
<1>6. /\ Cardinality(Holds(f, LockKey)) = IF f.kind = "lock" THEN 1 ELSE 0
      /\ Cardinality(Holds(f, WindowKey))
           = IF f.kind \in {"enabling", "collect"} /\ f.temp THEN 1 ELSE 0
  BY KeyFacts
<1> QED
  BY <1>2, <1>5, <1>6, KeysAre

LEMMA WithoutLast ==
    ASSUME Inv, NEW t \in Threads, stack[t] # <<>>, NEW f, f = Last(stack[t])
    PROVE  /\ Below(t) \in Seq(Call) /\ f \in Call
           /\ \A k \in Keys : /\ IsFiniteSet(PlacesIf(t, Below(t), k))
                              /\ NumberIf(t, Below(t), k) \in Nat
           /\ Number(LockKey) = NumberIf(t, Below(t), LockKey) + (IF f.kind = "lock" THEN 1 ELSE 0)
           /\ Number(WindowKey)
                = NumberIf(t, Below(t), WindowKey)
                  + (IF f.kind \in {"enabling", "collect"} /\ f.temp THEN 1 ELSE 0)
           /\ \A o \in Obj : Number(Rest(o)) = NumberIf(t, Below(t), Rest(o)) + Times(f.rest, o)
<1>1. stack \in [Threads -> Seq(Call)] /\ \A k \in Keys : IsFiniteSet(Places(k))
  BY DEF Inv, Types, Finite
<1>2. \A k \in Keys : /\ Below(t) \in Seq(Call) /\ f \in Call
                      /\ IsFiniteSet(PlacesIf(t, Below(t), k))
                      /\ NumberIf(t, Below(t), k) \in Nat
                      /\ Number(k) = NumberIf(t, Below(t), k) + Cardinality(Holds(f, k))
  BY <1>1, Popped
<1>3. Below(t) \in Seq(Call) /\ f \in Call
  BY <1>2, KeysAre
<1>4. /\ \A o \in Obj : Cardinality(Holds(f, Rest(o))) = Times(f.rest, o)
      /\ Cardinality(Holds(f, LockKey)) = IF f.kind = "lock" THEN 1 ELSE 0
      /\ Cardinality(Holds(f, WindowKey))
           = IF f.kind \in {"enabling", "collect"} /\ f.temp THEN 1 ELSE 0
  BY <1>3, KeyFacts, CallRecord, TimesFacts
<1> QED
  BY <1>2, <1>3, <1>4, KeysAre

\* gc.disable_finalizers()
LEMMA Disabled ==
    ASSUME Types, DisableFinalizers
    PROVE  /\ lockCount' = lockCount + 1 /\ lockCount' \in Nat
           /\ pending' \in Seq(Obj) \cup {None}
           /\ Suspension'
           /\ \A o : Times(pending', o) = Times(pending, o)
<1>1. lockCount' = lockCount + 1 /\ lockCount' \in Nat /\ lockCount' # 0
  BY DEF Types, DisableFinalizers
<1>2. pending' \in Seq(Obj) /\ pending' # None
  BY TimesFacts DEF Types, DisableFinalizers
<1>3. \A o : Times(pending', o) = Times(pending, o)
  BY TimesFacts DEF DisableFinalizers
<1> QED
  BY <1>1, <1>2, <1>3 DEF Suspension

LEMMA FollowsEnds ==
    ASSUME Inv, NEW t, NEW s, Follows(t, s), \A o \in Obj : WaitIf(t, s)[o] = Wait(o),
           queue' \in Seq(Obj), fired' \in BOOLEAN, enabled' \in BOOLEAN, lockCount' \in Nat,
           Suspension', dead' = dead
    PROVE  Inv' /\ (called' # called => pending' = None)
  BY Concluded DEF Follows

LEMMA DieStep == ASSUME Inv, NEW o \in Obj, Die(o) PROVE Step
<1>1. /\ o \notin dead /\ dead' = dead \cup {o} /\ queue' = queue \o <<o>> /\ fired' = TRUE
      /\ enabled' = enabled /\ lockCount' = lockCount /\ pending' = pending
      /\ stack' = stack /\ called' = called /\ refused' = refused
  BY DEF Die, Inv, Types
<1>2. Types'
  BY <1>1, AtSingle, ConcatProperties DEF Inv, Types
<1>3. \A k : Places(k)' = Places(k)
  BY <1>1 DEF Places, Calls
<1>4. \A k : Number(k)' = Number(k)
  BY <1>3 DEF Number
<1>5. Finite' /\ Suspension'
  BY <1>1, <1>3 DEF Inv, Finite, Suspension
<1>6. \A p \in Obj : Times(queue', p) = Times(queue, p) + (IF p = o THEN 1 ELSE 0)
  <2> TAKE p \in Obj
  <2>1. <<o>> \in Seq(Obj) /\ Times(<<o>>, p) = IF o = p THEN 1 ELSE 0
    <3>1. <<o>> \in Seq(Obj) /\ Cardinality(At(<<o>>, p)) = IF o = p THEN 1 ELSE 0
      BY AtSingle
    <3>2. Times(<<o>>, p) = Cardinality(At(<<o>>, p))
      BY <3>1, TimesFacts
    <3> QED
      BY <3>1, <3>2
  <2> DEFINE u == <<o>>
  <2> HIDE DEF u
  <2>2. Times(SetAside(queue, u), p) = Times(queue, p) + Times(u, p)
    BY <2>1, TimesConcat DEF Inv, Types, u
  <2> QED
    BY <1>1, <2>1, <2>2 DEF SetAside, u
<1>7. Each'
  <2> SUFFICES ASSUME NEW p \in Obj
               PROVE  Wait(p)' = IF p \in dead' \ called' THEN 1 ELSE 0
    BY DEF Each
  <2>1. Wait(p) = IF p \in dead \ called THEN 1 ELSE 0
    BY DEF Inv, Each
  <2>2. Wait(p)' = Times(queue', p) + Times(pending, p) + Number(Rest(p))
    BY <1>1, <1>4 DEF Wait, Times
  <2>3. Wait(p) = Times(queue, p) + Times(pending, p) + Number(Rest(p))
    BY DEF Wait
  <2>4. /\ Times(queue, p) \in Nat /\ Times(pending, p) \in Nat /\ Number(Rest(p)) \in Nat
    BY TimesFacts, FS_CardinalityType, KeysAre DEF Inv, Types, Finite, Number
  <2>5. o \notin called
    BY <1>1 DEF Inv, Types
  <2> QED
    BY <1>1, <1>6, <2>1, <2>2, <2>3, <2>4, <2>5
<1>8. Account => Account'
  BY <1>1, <1>4 DEF Account
<1> QED
  BY <1>1, <1>2, <1>5, <1>7, <1>8 DEF Step, Inv

LEMMA PerformStep == ASSUME Inv, NEW t \in Threads, Perform(t) PROVE Step
<1>1. /\ RunFinalizers(t, stack[t]) /\ fired' = FALSE
      /\ enabled' = enabled /\ lockCount' = lockCount /\ dead' = dead
      /\ refused' = refused
  BY DEF Perform
<1>2. /\ stack[t] \in Seq(Call)
      /\ \A k \in Keys : /\ IsFiniteSet(PlacesIf(t, stack[t], k))
                         /\ NumberIf(t, stack[t], k) = Number(k)
      /\ \A o \in Obj : WaitIf(t, stack[t])[o] = Wait(o)
  BY AsItIs
<1> DEFINE s == stack[t]
<1> HIDE DEF s
<1>3. /\ Follows(t, s) /\ queue' \in Seq(Obj) /\ (pending' = None <=> pending = None)
  BY <1>1, <1>2, RunFinalizersStep DEF Inv, s
<1>4. Suspension'
  BY <1>1, <1>3 DEF Inv, Suspension
<1>5. Inv' /\ (called' # called => pending' = None)
  BY <1>1, <1>2, <1>3, <1>4, FollowsEnds DEF Inv, Types, s
<1>6. Number(LockKey)' = Number(LockKey) /\ Number(WindowKey)' = Number(WindowKey)
  BY <1>2, <1>3, KeysAre DEF Follows, s
<1>7. Account => Account'
  BY <1>1, <1>6 DEF Account
<1> QED
  BY <1>5, <1>7 DEF Step

\* The calls in progress stay as they are.
LEMMA SameStack ==
    ASSUME Inv, stack' = stack, called' = called, queue' = queue, fired' = fired, dead' = dead,
           lockCount' \in Nat, enabled' \in BOOLEAN, pending' \in Seq(Obj) \cup {None}, Suspension',
           \A o \in Obj : Times(pending', o) = Times(pending, o)
    PROVE  Inv' /\ \A k : Number(k)' = Number(k)
<1>1. \A k : Places(k)' = Places(k)
  BY DEF Places, Calls
<1>2. \A k : Number(k)' = Number(k)
  BY <1>1 DEF Number
<1>3. \A o \in Obj : Wait(o)' = Wait(o)
  BY <1>2 DEF Wait, Times
<1> QED
  BY <1>1, <1>2, <1>3 DEF Inv, Types, Finite, Each

LEMMA DisableStep == ASSUME Inv, NEW t \in Threads, Disable(t) PROVE Step
<1>1. /\ enabled /\ enabled' = FALSE /\ DisableFinalizers
      /\ queue' = queue /\ fired' = fired /\ stack' = stack /\ dead' = dead /\ called' = called
      /\ refused' = refused
  BY DEF Disable
<1>2. /\ lockCount' = lockCount + 1 /\ lockCount' \in Nat
      /\ pending' \in Seq(Obj) \cup {None} /\ Suspension'
      /\ \A o : Times(pending', o) = Times(pending, o)
  BY <1>1, Disabled DEF Inv
<1>3. Inv' /\ \A k : Number(k)' = Number(k)
  BY <1>1, <1>2, SameStack
<1>4. Number(LockKey) \in Nat /\ Number(WindowKey) \in Nat /\ lockCount \in Nat
  BY Counted DEF Inv, Types
<1>5. Account => Account'
  BY <1>1, <1>2, <1>3, <1>4 DEF Account
<1> QED
  BY <1>1, <1>3, <1>5 DEF Step

LEMMA EnableStep == ASSUME Inv, NEW t \in Threads, Enable(t) PROVE Step
<1>1. /\ ~enabled /\ enabled' = TRUE /\ queue' = queue /\ fired' = fired /\ dead' = dead
      /\ IF lockCount = 0
         THEN /\ lockCount' = lockCount /\ pending' = pending /\ stack' = stack
              /\ called' = called /\ refused' = refused + 1
         ELSE EnableFinalizers(t, stack[t]) /\ refused' = refused
  BY DEF Enable, Refuse
<1>2. Number(LockKey) \in Nat /\ Number(WindowKey) \in Nat /\ lockCount \in Nat
  BY Counted DEF Inv, Types
<1>3. CASE lockCount = 0
  <2>1. Inv' /\ \A k : Number(k)' = Number(k)
    BY <1>1, <1>3, SameStack DEF Inv, Types, Suspension, Times
  <2>2. Account => Account'
    BY <1>1, <1>2, <1>3, <2>1 DEF Account
  <2> QED
    BY <1>1, <1>3, <2>1, <2>2 DEF Step
<1>4. CASE lockCount # 0
  <2>1. /\ stack[t] \in Seq(Call)
        /\ \A k \in Keys : /\ IsFiniteSet(PlacesIf(t, stack[t], k))
                           /\ NumberIf(t, stack[t], k) = Number(k)
        /\ \A o \in Obj : WaitIf(t, stack[t])[o] = Wait(o)
    BY AsItIs
  <2> DEFINE s == stack[t]
  <2> HIDE DEF s
  <2>2. Follows(t, s) /\ lockCount' = lockCount - 1 /\ lockCount' \in Nat /\ Suspension'
    BY <1>1, <1>2, <1>4, <2>1, EnableFinalizersStep DEF Inv, s
  <2>3. Inv' /\ (called' # called => pending' = None)
    BY <1>1, <2>1, <2>2, FollowsEnds DEF Inv, Types, s
  <2>4. Number(LockKey)' = Number(LockKey) /\ Number(WindowKey)' = Number(WindowKey)
    BY <2>1, <2>2, KeysAre DEF Follows, s
  <2>5. Account => Account'
    BY <1>1, <1>2, <1>4, <2>2, <2>4 DEF Account
  <2> QED
    BY <2>3, <2>5 DEF Step
<1> QED
  BY <1>3, <1>4

LEMMA LockStep == ASSUME Inv, NEW t \in Threads, Lock(t) PROVE Step
<1> DEFINE f == Plain("lock")
           s == stack[t]
           n(o) == NumberIf(t, Append(s, f), Rest(o))
<1>1. /\ DisableFinalizers /\ stack' = [stack EXCEPT ![t] = Append(s, f)]
      /\ queue' = queue /\ fired' = fired /\ enabled' = enabled
      /\ dead' = dead /\ called' = called /\ refused' = refused
  BY DEF Lock
<1>2. f \in Call /\ f.kind = "lock" /\ f.rest = <<>>
  BY NewCalls
<1>3. /\ s \in Seq(Call)
      /\ \A k \in Keys : /\ IsFiniteSet(PlacesIf(t, s, k))
                         /\ NumberIf(t, s, k) = Number(k)
      /\ \A o \in Obj : WaitIf(t, s)[o] = Wait(o)
  BY AsItIs
<1> HIDE DEF f, s
<1>4. /\ Append(s, f) \in Seq(Call)
      /\ \A k \in Keys : /\ IsFiniteSet(PlacesIf(t, Append(s, f), k))
                         /\ NumberIf(t, s, k) \in Nat
      /\ NumberIf(t, Append(s, f), LockKey) = NumberIf(t, s, LockKey) + 1
      /\ NumberIf(t, Append(s, f), WindowKey) = NumberIf(t, s, WindowKey) + 0
      /\ \A o \in Obj : NumberIf(t, Append(s, f), Rest(o)) = NumberIf(t, s, Rest(o))
  BY <1>2, <1>3, WithCall
<1>5. /\ stack' \in [Threads -> Seq(Call)]
      /\ \A k \in Keys : /\ IsFiniteSet(Places(k)') /\ Number(k)' = NumberIf(t, Append(s, f), k)
  BY <1>1, <1>4, Settled DEF Inv
<1>6. /\ lockCount' = lockCount + 1 /\ lockCount' \in Nat
      /\ pending' \in Seq(Obj) \cup {None} /\ Suspension'
      /\ \A o : Times(pending', o) = Times(pending, o)
  BY <1>1, Disabled DEF Inv
<1>7. /\ Number(LockKey)' = Number(LockKey) + 1 /\ Number(WindowKey)' = Number(WindowKey)
      /\ \A o \in Obj : Number(Rest(o))' = Number(Rest(o))
      /\ Number(LockKey) \in Nat /\ Number(WindowKey) \in Nat
  BY <1>3, <1>4, <1>5, KeysAre
<1>8. \A o \in Obj : Wait(o)' = Wait(o)
  BY <1>1, <1>6, <1>7 DEF Wait, Times
<1>9. Inv'
  BY <1>1, <1>5, <1>6, <1>8 DEF Inv, Types, Finite, Each
<1>10. lockCount \in Nat /\ enabled' = enabled /\ refused' = refused
  BY <1>1 DEF Inv, Types
<1> DEFINE off == IF enabled THEN 0 ELSE 1
<1>11. off' = off /\ off \in Nat
  BY <1>10
<1>12. Account <=> refused \in Nat /\ lockCount + Number(WindowKey) = Number(LockKey) + off + refused
  BY DEF Account
<1>13. Account' <=>
          refused' \in Nat
          /\ lockCount' + Number(WindowKey)' = Number(LockKey)' + off' + refused'
  BY DEF Account
<1> HIDE DEF off
<1>14. Account => Account'
  BY <1>6, <1>7, <1>10, <1>11, <1>12, <1>13
<1> QED
  BY <1>1, <1>9, <1>14 DEF Step

\* What the last call of a thread is.
LEMMA LastCall ==
    ASSUME Inv, NEW t \in Threads, Top(t) # "code"
    PROVE  /\ stack[t] # <<>> /\ Last(stack[t]) \in Call /\ Last(stack[t]).kind = Top(t)
           /\ Top(t) # "enable" => \A o \in Obj : WaitIf(t, Below(t))[o] = Wait(o)
<1>1. stack[t] # <<>> /\ Last(stack[t]).kind = Top(t)
  BY DEF Top
<1> DEFINE f == Last(stack[t])
<1> HIDE DEF f
<1>2. /\ f \in Call
      /\ \A k \in Keys : NumberIf(t, Below(t), k) \in Nat
      /\ \A o \in Obj : Number(Rest(o)) = NumberIf(t, Below(t), Rest(o)) + Times(f.rest, o)
  BY <1>1, WithoutLast DEF f
<1>3. ASSUME Top(t) # "enable" PROVE \A o \in Obj : WaitIf(t, Below(t))[o] = Wait(o)
  <2>1. f.rest = <<>>
    BY <1>1, <1>2, <1>3 DEF Call, f
  <2>2. \A o \in Obj : Number(Rest(o)) = NumberIf(t, Below(t), Rest(o))
    <3>1. \A n \in Nat : n + 0 = n
      OBVIOUS
    <3> QED
      BY <1>2, <2>1, <3>1, TimesFacts, KeysAre
  <2> QED
    BY <2>2 DEF WaitIf, Wait
<1> QED
  BY <1>1, <1>2, <1>3 DEF f

LEMMA UnlockStep == ASSUME Inv, NEW t \in Threads, Unlock(t) PROVE Step
<1> DEFINE f == Last(stack[t])
           s == Below(t)
<1>1. /\ Top(t) = "lock" /\ queue' = queue /\ fired' = fired /\ enabled' = enabled
      /\ dead' = dead
      /\ IF lockCount = 0
         THEN /\ stack' = [stack EXCEPT ![t] = s]
              /\ lockCount' = lockCount /\ pending' = pending /\ called' = called
              /\ refused' = refused + 1
         ELSE EnableFinalizers(t, s) /\ refused' = refused
  BY DEF Unlock, Refuse
<1>2. /\ stack[t] # <<>> /\ f.kind = "lock"
      /\ \A o \in Obj : WaitIf(t, s)[o] = Wait(o)
  BY <1>1, LastCall
<1> HIDE DEF f, s
<1>3. /\ s \in Seq(Call)
      /\ \A k \in Keys : /\ IsFiniteSet(PlacesIf(t, s, k))
                         /\ NumberIf(t, s, k) \in Nat
      /\ Number(LockKey) = NumberIf(t, s, LockKey) + 1
      /\ Number(WindowKey) = NumberIf(t, s, WindowKey) + 0
  BY <1>2, WithoutLast DEF f, s
<1>4. lockCount \in Nat
  BY DEF Inv, Types
<1>5. CASE lockCount = 0
  <2>1. /\ stack' = [stack EXCEPT ![t] = s]
        /\ lockCount' = lockCount /\ pending' = pending /\ called' = called
        /\ refused' = refused + 1
    BY <1>1, <1>5
  <2>2. /\ stack' \in [Threads -> Seq(Call)]
        /\ \A k \in Keys : /\ IsFiniteSet(Places(k)') /\ Number(k)' = NumberIf(t, s, k)
    BY <1>3, <2>1, Settled DEF Inv
  <2>3. \A o \in Obj : Wait(o)' = WaitIf(t, s)[o]
    BY <1>1, <2>1, <2>2, KeysAre DEF Wait, WaitIf, Times
  <2>4. \A o \in Obj : Wait(o)' = Wait(o)
    BY <1>2, <2>3
  <2>5. Inv'
    BY <1>1, <2>1, <2>2, <2>4 DEF Inv, Types, Finite, Each, Suspension
  <2>6. /\ Number(LockKey) = Number(LockKey)' + 1 /\ Number(WindowKey) = Number(WindowKey)'
        /\ Number(LockKey)' \in Nat /\ Number(WindowKey)' \in Nat
    BY <1>3, <2>2, KeysAre
  <2>7. Account => Account'
    BY <1>1, <1>5, <2>1, <2>6 DEF Account
  <2> QED
    BY <2>1, <2>5, <2>7 DEF Step
<1>6. CASE lockCount # 0
  <2>1. Follows(t, s) /\ lockCount' = lockCount - 1 /\ lockCount' \in Nat /\ Suspension'
    BY <1>1, <1>3, <1>4, <1>6, EnableFinalizersStep DEF Inv
  <2>2. Inv' /\ (called' # called => pending' = None)
    BY <1>1, <1>2, <2>1, FollowsEnds DEF Inv, Types
  <2>3. /\ Number(LockKey)' \in Nat /\ Number(LockKey) = Number(LockKey)' + 1
        /\ Number(WindowKey)' = Number(WindowKey) /\ Number(WindowKey) \in Nat
    BY <1>3, <2>1, KeysAre DEF Follows
  <2>4. Account => Account'
    BY <1>1, <1>4, <1>6, <2>1, <2>3 DEF Account
  <2> QED
    BY <2>2, <2>4 DEF Step
<1> QED
  BY <1>5, <1>6

LEMMA CollectRunStep == ASSUME Inv, NEW t \in Threads, CollectRun(t) PROVE Step
<1> DEFINE f == Last(stack[t])
           s == Below(t)
           c == [Plain("collect") EXCEPT !.temp = TRUE]
<1>1. /\ Top(t) = "enabling" /\ RunFinalizers(t, Append(s, c))
      /\ fired' = fired /\ enabled' = enabled /\ lockCount' = lockCount /\ dead' = dead
      /\ refused' = refused
  BY DEF CollectRun
<1>2. /\ stack[t] # <<>> /\ f \in Call /\ f.kind = "enabling"
      /\ \A o \in Obj : WaitIf(t, s)[o] = Wait(o)
  BY <1>1, LastCall
<1>3. f.temp
  BY <1>2 DEF Call
<1>4. c \in Call /\ c.kind = "collect" /\ c.rest = <<>> /\ c.temp
  BY NewCalls
<1> HIDE DEF f, s, c
<1>5. /\ s \in Seq(Call)
      /\ \A k \in Keys : /\ IsFiniteSet(PlacesIf(t, s, k))
                         /\ NumberIf(t, s, k) \in Nat
      /\ Number(LockKey) = NumberIf(t, s, LockKey) + 0
      /\ Number(WindowKey) = NumberIf(t, s, WindowKey) + 1
  BY <1>2, <1>3, WithoutLast DEF f, s
<1>6. /\ Append(s, c) \in Seq(Call)
      /\ \A k \in Keys : IsFiniteSet(PlacesIf(t, Append(s, c), k))
      /\ NumberIf(t, Append(s, c), LockKey) = NumberIf(t, s, LockKey) + 0
      /\ NumberIf(t, Append(s, c), WindowKey) = NumberIf(t, s, WindowKey) + 1
      /\ \A o \in Obj : NumberIf(t, Append(s, c), Rest(o)) = NumberIf(t, s, Rest(o))
  BY <1>4, <1>5, WithCall
<1> DEFINE a == Append(s, c)
<1> HIDE DEF a
<1>7. Follows(t, a) /\ queue' \in Seq(Obj) /\ (pending' = None <=> pending = None)
  BY <1>1, <1>6, RunFinalizersStep DEF Inv, a
<1>8. \A o \in Obj : WaitIf(t, a)[o] = Wait(o)
  BY <1>2, <1>6 DEF WaitIf, a
<1>9. Suspension'
  BY <1>1, <1>7 DEF Inv, Suspension
<1>10. Inv' /\ (called' # called => pending' = None)
  BY <1>1, <1>7, <1>8, <1>9, FollowsEnds DEF Inv, Types
<1>11. Number(LockKey)' = Number(LockKey) /\ Number(WindowKey)' = Number(WindowKey)
  BY <1>5, <1>6, <1>7 DEF Follows, a
<1>12. Account => Account'
  BY <1>1, <1>11 DEF Account
<1> QED
  BY <1>10, <1>12 DEF Step

LEMMA CollectEndStep == ASSUME Inv, NEW t \in Threads, CollectEnd(t) PROVE Step
<1> DEFINE f == Last(stack[t])
           s == Below(t)
<1>1. /\ Top(t) = "collect" /\ stack' = [stack EXCEPT ![t] = s]
      /\ IF f.temp THEN DisableFinalizers ELSE lockCount' = lockCount /\ pending' = pending
      /\ queue' = queue /\ fired' = fired /\ enabled' = enabled
      /\ dead' = dead /\ called' = called /\ refused' = refused
  BY DEF CollectEnd
<1>2. /\ stack[t] # <<>> /\ f \in Call /\ f.kind = "collect"
      /\ \A o \in Obj : WaitIf(t, s)[o] = Wait(o)
  BY <1>1, LastCall
<1> HIDE DEF f, s
<1>3. /\ s \in Seq(Call)
      /\ \A k \in Keys : /\ IsFiniteSet(PlacesIf(t, s, k))
                         /\ NumberIf(t, s, k) \in Nat
      /\ Number(LockKey) = NumberIf(t, s, LockKey) + 0
      /\ Number(WindowKey) = NumberIf(t, s, WindowKey) + (IF f.temp THEN 1 ELSE 0)
  BY <1>2, WithoutLast DEF f, s
<1>4. /\ lockCount' = lockCount + (IF f.temp THEN 1 ELSE 0) /\ lockCount' \in Nat
      /\ lockCount \in Nat
      /\ pending' \in Seq(Obj) \cup {None} /\ Suspension'
      /\ \A o : Times(pending', o) = Times(pending, o)
  <2>1. CASE f.temp
    BY <1>1, <2>1, Disabled DEF Inv, Types
  <2>2. CASE ~f.temp
    BY <1>1, <2>2 DEF Inv, Types, Suspension, Times
  <2> QED
    BY <2>1, <2>2
<1>5. /\ stack' \in [Threads -> Seq(Call)]
      /\ \A k \in Keys : /\ IsFiniteSet(Places(k)') /\ Number(k)' = NumberIf(t, s, k)
  BY <1>1, <1>3, Settled DEF Inv
<1>6. \A o \in Obj : Wait(o)' = WaitIf(t, s)[o]
  <2> TAKE o \in Obj
  <2>1. Number(Rest(o))' = NumberIf(t, s, Rest(o)) /\ Times(pending', o) = Times(pending, o)
    BY <1>4, <1>5, KeysAre
  <2>2. Wait(o)' = Times(queue', o) + Times(pending', o) + Number(Rest(o))'
    BY DEF Wait, Times
  <2> QED
    BY <1>1, <2>1, <2>2 DEF WaitIf
<1>7. \A o \in Obj : Wait(o)' = Wait(o)
  BY <1>2, <1>6
<1>8. Inv'
  BY <1>1, <1>4, <1>5, <1>7 DEF Inv, Types, Finite, Each
<1>9. /\ Number(LockKey)' = Number(LockKey) /\ Number(WindowKey)' \in Nat
      /\ Number(LockKey) \in Nat
      /\ Number(WindowKey) = Number(WindowKey)' + (IF f.temp THEN 1 ELSE 0)
  BY <1>3, <1>5, KeysAre
<1>10. Account => Account'
  BY <1>1, <1>4, <1>9 DEF Account
<1> QED
  BY <1>1, <1>8, <1>10 DEF Step

LEMMA CollectStep == ASSUME Inv, NEW t \in Threads, Collect(t) PROVE Step
<1> DEFINE s == stack[t]
           c == Plain("collect")
           e == [Plain("enabling") EXCEPT !.temp = TRUE]
<1>1. /\ fired' = fired /\ enabled' = enabled /\ dead' = dead /\ refused' = refused
      /\ IF enabled
         THEN RunFinalizers(t, Append(s, c)) /\ lockCount' = lockCount
         ELSE lockCount > 0 /\ EnableFinalizers(t, Append(s, e)) /\ queue' = queue
  BY DEF Collect
<1>2. /\ s \in Seq(Call)
      /\ \A k \in Keys : /\ IsFiniteSet(PlacesIf(t, s, k))
                         /\ NumberIf(t, s, k) = Number(k)
      /\ \A o \in Obj : WaitIf(t, s)[o] = Wait(o)
  BY AsItIs
<1>3. /\ c \in Call /\ c.kind = "collect" /\ c.rest = <<>> /\ ~c.temp
      /\ e \in Call /\ e.kind = "enabling" /\ e.rest = <<>> /\ e.temp
  BY NewCalls
<1> HIDE DEF s, c, e
<1>4. Number(LockKey) \in Nat /\ Number(WindowKey) \in Nat
  BY Counted DEF Inv
<1>5. CASE enabled
  <2> DEFINE a == Append(s, c)
  <2>1. /\ a \in Seq(Call)
        /\ \A k \in Keys : IsFiniteSet(PlacesIf(t, a, k))
        /\ NumberIf(t, a, LockKey) = NumberIf(t, s, LockKey) + 0
        /\ NumberIf(t, a, WindowKey) = NumberIf(t, s, WindowKey) + 0
        /\ \A o \in Obj : NumberIf(t, a, Rest(o)) = NumberIf(t, s, Rest(o))
    BY <1>2, <1>3, WithCall
  <2>2. RunFinalizers(t, a) /\ lockCount' = lockCount
    BY <1>1, <1>5
  <2> HIDE DEF a
  <2>3. Follows(t, a) /\ queue' \in Seq(Obj) /\ (pending' = None <=> pending = None)
    BY <2>1, <2>2, RunFinalizersStep DEF Inv
  <2>4. \A o \in Obj : WaitIf(t, a)[o] = Wait(o)
    BY <1>2, <2>1 DEF WaitIf
  <2>5. Suspension'
    BY <2>2, <2>3 DEF Inv, Suspension
  <2>6. Inv' /\ (called' # called => pending' = None)
    BY <1>1, <2>2, <2>3, <2>4, <2>5, FollowsEnds DEF Inv, Types
  <2>7. Number(LockKey)' = Number(LockKey) /\ Number(WindowKey)' = Number(WindowKey)
    BY <1>2, <1>4, <2>1, <2>3, KeysAre DEF Follows
  <2>8. Account => Account'
    BY <1>1, <2>2, <2>7 DEF Account
  <2> QED
    BY <2>6, <2>8 DEF Step
<1>6. CASE ~enabled
  <2> DEFINE a == Append(s, e)
  <2>1. /\ a \in Seq(Call)
        /\ \A k \in Keys : IsFiniteSet(PlacesIf(t, a, k))
        /\ NumberIf(t, a, LockKey) = NumberIf(t, s, LockKey) + 0
        /\ NumberIf(t, a, WindowKey) = NumberIf(t, s, WindowKey) + 1
        /\ \A o \in Obj : NumberIf(t, a, Rest(o)) = NumberIf(t, s, Rest(o))
    BY <1>2, <1>3, WithCall
  <2>2. lockCount > 0 /\ EnableFinalizers(t, a) /\ queue' = queue
    BY <1>1, <1>6
  <2> HIDE DEF a
  <2>3. Follows(t, a) /\ lockCount' = lockCount - 1 /\ lockCount' \in Nat /\ Suspension'
    BY <2>1, <2>2, EnableFinalizersStep DEF Inv
  <2>4. \A o \in Obj : WaitIf(t, a)[o] = Wait(o)
    BY <1>2, <2>1 DEF WaitIf
  <2>5. Inv' /\ (called' # called => pending' = None)
    BY <1>1, <2>2, <2>3, <2>4, FollowsEnds DEF Inv, Types
  <2>6. Number(LockKey)' = Number(LockKey) /\ Number(WindowKey)' = Number(WindowKey) + 1
    BY <1>2, <1>4, <2>1, <2>3, KeysAre DEF Follows
  <2>7. lockCount \in Nat
    BY DEF Inv, Types
  <2>8. Account => Account'
    BY <1>1, <1>4, <2>3, <2>6, <2>7 DEF Account
  <2> QED
    BY <2>5, <2>8 DEF Step
<1> QED
  BY <1>5, <1>6

LEMMA ReturnStep == ASSUME Inv, NEW t \in Threads, Return(t) PROVE Step
<1> DEFINE f == Last(stack[t])
           s == Below(t)
<1>1. /\ fired' = fired /\ enabled' = enabled /\ lockCount' = lockCount /\ dead' = dead
      /\ refused' = refused
      /\ \/ Top(t) = "run" /\ RunFinalizers(t, s)
         \/ Top(t) = "enable" /\ CallRest(t, s, f.rest, pending) /\ queue' = queue
  BY DEF Return
<1>2. /\ stack[t] # <<>> /\ f \in Call /\ f.kind = Top(t)
      /\ Top(t) # "enable" => \A o \in Obj : WaitIf(t, s)[o] = Wait(o)
  BY <1>1, LastCall
<1> HIDE DEF f, s
<1>3. /\ s \in Seq(Call)
      /\ \A k \in Keys : /\ IsFiniteSet(PlacesIf(t, s, k))
                         /\ NumberIf(t, s, k) \in Nat
      /\ Number(LockKey) = NumberIf(t, s, LockKey) + 0
      /\ Number(WindowKey) = NumberIf(t, s, WindowKey) + 0
      /\ \A o \in Obj : Number(Rest(o)) = NumberIf(t, s, Rest(o)) + Times(f.rest, o)
  BY <1>1, <1>2, WithoutLast DEF f, s
<1>4. Number(LockKey) = NumberIf(t, s, LockKey) /\ Number(WindowKey) = NumberIf(t, s, WindowKey)
  BY <1>3, KeysAre
<1>5. CASE Top(t) = "run" /\ RunFinalizers(t, s)
  <2>1. Follows(t, s) /\ queue' \in Seq(Obj) /\ (pending' = None <=> pending = None)
    BY <1>3, <1>5, RunFinalizersStep DEF Inv
  <2>2. Suspension'
    BY <1>1, <2>1 DEF Inv, Suspension
  <2>3. Inv' /\ (called' # called => pending' = None)
    BY <1>1, <1>2, <1>5, <2>1, <2>2, FollowsEnds DEF Inv, Types
  <2>4. Account => Account'
    BY <1>1, <1>4, <2>1 DEF Account, Follows
  <2> QED
    BY <2>3, <2>4 DEF Step
<1>6. CASE Top(t) = "enable" /\ CallRest(t, s, f.rest, pending) /\ queue' = queue
  <2> DEFINE rest == f.rest
             w == [o \in Obj |-> Times(queue, o) + Times(pending, o) + Times(rest, o)
                                + NumberIf(t, s, Rest(o))]
  <2>1. rest \in Seq(Obj) /\ pending \in Seq(Obj) \cup {None}
    BY <1>2, CallRecord DEF Inv, Types
  <2> HIDE DEF rest
  <2>2. /\ pending' \in Seq(Obj) \cup {None}
        /\ pending' = None <=> pending = None
        /\ stack' \in [Threads -> Seq(Call)]
        /\ \A k \in Keys : IsFiniteSet(Places(k)')
        /\ Number(LockKey)' = NumberIf(t, s, LockKey)
        /\ Number(WindowKey)' = NumberIf(t, s, WindowKey)
        /\ Outcome(w)
    BY <1>3, <1>6, <2>1, CallRestStep DEF Inv, rest
  <2>3. \A o \in Obj : w[o] = Wait(o)
    <3> TAKE o \in Obj
    <3>1. /\ Times(queue, o) \in Nat /\ Times(pending, o) \in Nat /\ Times(rest, o) \in Nat
          /\ NumberIf(t, s, Rest(o)) \in Nat
      BY <1>3, <2>1, TimesFacts, KeysAre DEF Inv, Types
    <3>2. Wait(o) = Times(queue, o) + Times(pending, o) + Number(Rest(o))
      BY DEF Wait
    <3>3. Number(Rest(o)) = NumberIf(t, s, Rest(o)) + Times(rest, o)
      BY <1>3 DEF rest
    <3>4. w[o] = Times(queue, o) + Times(pending, o) + Times(rest, o) + NumberIf(t, s, Rest(o))
      OBVIOUS
    <3> QED
      BY <3>1, <3>2, <3>3, <3>4
  <2> HIDE DEF w
  <2>4. Suspension'
    BY <1>1, <2>2 DEF Inv, Suspension
  <2>5. Inv' /\ (called' # called => pending' = None)
    BY <1>1, <1>6, <2>2, <2>3, <2>4, Concluded DEF Inv, Types
  <2>6. Account => Account'
    BY <1>1, <1>4, <2>2 DEF Account
  <2> QED
    BY <2>5, <2>6 DEF Step
<1> QED
  BY <1>1, <1>5, <1>6

-----------------------------------------------------------------------------
(* The theorems. *)

LEMMA InvInit == Init => Inv /\ Account
<1> SUFFICES ASSUME Init PROVE Inv /\ Account
  OBVIOUS
<1>1. /\ queue = <<>> /\ fired = FALSE /\ enabled = TRUE /\ lockCount = 0 /\ pending = None
      /\ stack = [t \in Threads |-> <<>>] /\ dead = {} /\ called = {} /\ refused = 0
  BY DEF Init
<1>2. Types
  BY <1>1, EmptySeq DEF Types
<1>3. \A k : Places(k) = {}
  BY <1>1, <1>2, InPlaces DEF Types
<1>4. \A k : IsFiniteSet(Places(k)) /\ Number(k) = 0
  BY <1>3, FS_EmptySet DEF Number
<1>5. Each
  BY <1>1, <1>4, TimesFacts DEF Each, Wait
<1> QED
  BY <1>1, <1>2, <1>4, <1>5 DEF Inv, Finite, Suspension, Account

LEMMA NextStep == Inv /\ [Next]_vars => Step
<1> SUFFICES ASSUME Inv, [Next]_vars PROVE Step
  OBVIOUS
<1>1. CASE \E o \in Obj : Die(o)
  BY <1>1, DieStep
<1>2. ASSUME NEW t \in Threads,
             \/ Perform(t) \/ Disable(t) \/ Enable(t) \/ Lock(t) \/ Collect(t)
             \/ Inside(t)
      PROVE  Step
  BY <1>2, PerformStep, DisableStep, EnableStep, LockStep, CollectStep, CollectRunStep,
     CollectEndStep, ReturnStep, UnlockStep DEF Inside
<1>3. CASE UNCHANGED vars
  <2>1. /\ queue' = queue /\ fired' = fired /\ enabled' = enabled /\ lockCount' = lockCount
        /\ pending' = pending /\ stack' = stack /\ dead' = dead /\ called' = called
        /\ refused' = refused
    BY <1>3 DEF vars
  <2>2. Inv' /\ \A k : Number(k)' = Number(k)
    BY <2>1, SameStack DEF Inv, Types, Suspension
  <2> QED
    BY <2>1, <2>2 DEF Step, Account
<1> QED
  BY <1>1, <1>2, <1>3 DEF Next

LEMMA InvAlways == Spec => []Inv
<1>1. Init => Inv
  BY InvInit
<1>2. Inv /\ [Next]_vars => Inv'
  BY NextStep DEF Step
<1> QED
  BY <1>1, <1>2, PTL DEF Spec

LEMMA AccountAlways == Spec => [](Inv /\ Account)
<1>1. Init => Inv /\ Account
  BY InvInit
<1>2. Inv /\ Account /\ [Next]_vars => (Inv /\ Account)'
  BY NextStep DEF Step
<1> QED
  BY <1>1, <1>2, PTL DEF Spec

\* The types of all that the code keeps, and that a finalizer is called only of an object
\* that the collector has found dead.
THEOREM TypeCorrectness == Spec => []TypeOK
<1>1. Inv /\ Account => TypeOK
  <2> SUFFICES ASSUME Inv, Account PROVE TypeOK
    OBVIOUS
  <2>1. \A t \in Threads : stack[t] \in Seq(Frame)
    <3> TAKE t \in Threads
    <3>1. stack[t] \in Seq(Call)
      BY DEF Inv, Types
    <3>2. Call \subseteq Frame
      BY DEF Call
    <3> QED
      BY <3>1, <3>2, SeqMonotonic
  <2> QED
    BY <2>1 DEF Inv, Account, Types, TypeOK
<1> QED
  BY <1>1, AccountAlways, PTL

\* A dead object waits for its finalizer in one place until it has been called, and then in
\* none: in the queue, in pending_with_disabled_del, or in the list that one call of
\* enable_finalizers has taken from there.  However threads and finalizers nest gc.disable,
\* gc.enable, gc.collect and popen, no finalizer is lost and none is called twice.
THEOREM EachIsCalledOnce == Spec => []EachOnce
<1>1. Inv => EachOnce
  <2> SUFFICES ASSUME Inv, NEW o \in Obj
               PROVE  Waiting(o) = IF o \in dead \ called THEN 1 ELSE 0
    BY DEF EachOnce
  <2>1. stack \in [Threads -> Seq(Call)] /\ queue \in Seq(Obj)
        /\ (pending # None => pending \in Seq(Obj))
    BY DEF Inv, Types
  <2>2. ASSUME NEW c \in Calls
        PROVE  Holds(stack[c[1]][c[2]], Rest(o)) = At(stack[c[1]][c[2]].rest, o)
    <3>1. PICK t \in Threads : \E d \in DOMAIN stack[t] : c = <<t, d>>
      BY DEF Calls
    <3>2. PICK d \in DOMAIN stack[t] : c = <<t, d>>
      BY <3>1
    <3>3. stack[t][d] \in Call /\ c[1] = t /\ c[2] = d
      BY <2>1, <3>2
    <3> QED
      BY <3>3, KeyFacts
  <2>3. Places(Rest(o)) = UNION {{c} \X At(stack[c[1]][c[2]].rest, o) : c \in Calls}
    BY <2>2 DEF Places
  <2>4. Times(queue, o) = Cardinality(At(queue, o))
    BY <2>1, TimesFacts
  <2>5. Waiting(o) = Wait(o)
    BY <2>3, <2>4 DEF Waiting, Wait, Times, Number
  <2> QED
    BY <2>5 DEF Inv, Each
<1> QED
  BY <1>1, InvAlways, PTL

\* gc.isenabled() tells the truth as long as no gc.enable() and no popen has raised: while it
\* says that finalizers are enabled, and no thread is in popen or in a gc.collect() that has
\* enabled them, nothing suspends them and none is set aside.  Each call that raises leaves
\* one suspension behind, no more.  For every program: finalizers and threads may call the
\* functions of gc at any time, in each other's gc.collect() too.
THEOREM EnabledTellsTheTruth == Spec => []EnabledIsEffective
<1>1. Inv /\ Account => EnabledIsEffective
  <2> SUFFICES ASSUME Inv, Account, enabled, InPopen = {}, Lifting = {}
               PROVE  lockCount = refused /\ (pending # None => refused > 0)
    BY DEF EnabledIsEffective
  <2>1. Number(LockKey) = 0 /\ Number(WindowKey) = 0
    BY Counted, FS_EmptySet DEF Inv
  <2>2. lockCount = refused /\ lockCount \in Nat
    BY <2>1 DEF Account, Inv, Types
  <2> QED
    BY <2>2 DEF Inv, Suspension
<1> QED
  BY <1>1, AccountAlways, PTL

\* Whenever a finalizer is called, each popen in progress, and gc.disable() if it is in force,
\* is matched by a gc.collect() in progress that has enabled finalizers.  So while there is no
\* such gc.collect() none is called under gc.disable() or between the two calls that a popen
\* makes.  For every program.
THEOREM CalledWhenAllowed == Spec => CalledOnlyWhenAllowed
<1> DEFINE Allowed == pending = None => Suspensions <= Cardinality(Lifting)
<1>1. Inv /\ Account => Allowed
  <2> SUFFICES ASSUME Inv, Account, pending = None PROVE Suspensions <= Cardinality(Lifting)
    OBVIOUS
  <2>1. /\ Number(LockKey) = Cardinality(InPopen) /\ Number(WindowKey) = Cardinality(Lifting)
        /\ Number(LockKey) \in Nat /\ Number(WindowKey) \in Nat
    BY Counted DEF Inv
  <2>2. lockCount = 0
    BY DEF Inv, Suspension
  <2>3. Number(LockKey) + (IF enabled THEN 0 ELSE 1) <= Number(WindowKey)
    BY <2>1, <2>2 DEF Account
  <2> QED
    BY <2>1, <2>3 DEF Suspensions
<1>2. Inv /\ [Next]_vars /\ Allowed' => (called' # called => Suspensions' <= Cardinality(Lifting'))
  <2> SUFFICES ASSUME Inv, [Next]_vars, Allowed', called' # called
               PROVE  Suspensions' <= Cardinality(Lifting')
    OBVIOUS
  <2>1. pending' = None
    BY NextStep DEF Step
  <2> QED
    BY <2>1
<1>3. [][called' # called => Suspensions' <= Cardinality(Lifting')]_vars
        <=> CalledOnlyWhenAllowed
  BY DEF CalledOnlyWhenAllowed
<1> HIDE DEF Allowed
<1> QED
  BY <1>1, <1>2, <1>3, AccountAlways, PTL DEF Spec

=============================================================================
