--------------------------- MODULE FinalizersProofs ---------------------------
(***************************************************************************)
(* Proofs about Finalizers, for any objects, prebuilt objects and bounds.  *)
(*                                                                         *)
(* The end of marking is two loops over lists of objects, with searches    *)
(* through the heap in them.  What a loop does is proved from what each    *)
(* turn of it does (WalkFold, DecideFold), and a search is the least set   *)
(* that holds its seeds and is closed (Reached); both rest on Induction.   *)
(***************************************************************************)
EXTENDS Finalizers, SequenceTheorems, FiniteSetTheorems, WellFoundedInduction, TLAPS

-----------------------------------------------------------------------------
(* Induction, as a fact about sets of numbers. *)

LEMMA LessIsWellFounded == IsWellFoundedOn({p \in Nat \X Nat : p[1] < p[2]}, Nat)
  BY NatLessThanWellFounded DEF OpToRel

LEMMA Induction ==
    ASSUME NEW T \in SUBSET Nat, 0 \in T, \A n \in T : n + 1 \in T
    PROVE  T = Nat
<1> DEFINE R == {p \in Nat \X Nat : p[1] < p[2]}
           U == Nat \ T
<1>1. SUFFICES ASSUME U # {} PROVE FALSE
  OBVIOUS
<1>2. IsWellFoundedOn(R, Nat)
  BY LessIsWellFounded
<1> HIDE DEF R
<1>3. PICK x \in U : \A y \in U : <<y, x>> \notin R
  <2>1. U \subseteq Nat
    OBVIOUS
  <2> HIDE DEF U
  <2> QED
    BY <1>1, <1>2, <2>1, WFMin
<1>4. x - 1 \in Nat /\ <<x - 1, x>> \in R /\ (x - 1) + 1 = x
  BY <1>3 DEF R
<1> QED
  BY <1>3, <1>4

-----------------------------------------------------------------------------
(* Reachability. *)

\* ReachedWithin adds layer after layer.
LEMMA ReachedUnrolled ==
    ASSUME NEW A, NEW U
    PROVE  \E f : /\ f[0] = A \cap U
                  /\ \A n \in Nat : n + 1 \in 0 .. Cardinality(All)
                        => f[n + 1] = f[n] \cup (Children(f[n]) \cap U)
                  /\ ReachedWithin(A, U) = f[Cardinality(All)]
<1> DEFINE N == Cardinality(All)
           B == A \cap U
<1>0. N \in Nat
  BY ObjAssumption, FS_CardinalityType
<1> DEFINE Good(k, g) == g = [n \in 0 .. k |->
                         IF n = 0 THEN B ELSE g[n - 1] \cup (Children(g[n - 1]) \cap U)]
           T == {k \in Nat : \E g : Good(k, g)}
<1>1. 0 \in T
  <2> DEFINE g == [n \in 0 .. 0 |-> B]
  <2>1. Good(0, g)
    OBVIOUS
  <2> QED
    BY <2>1
<1>2. ASSUME NEW k \in T PROVE k + 1 \in T
  <2>1. PICK g : Good(k, g)
    OBVIOUS
  <2> DEFINE h == [n \in 0 .. k + 1 |->
                     IF n \in 0 .. k THEN g[n] ELSE g[k] \cup (Children(g[k]) \cap U)]
  <2>2. \A n \in 0 .. k : g[n] = IF n = 0 THEN B ELSE g[n - 1] \cup (Children(g[n - 1]) \cap U)
    BY <2>1
  <2>3. k \in Nat
    OBVIOUS
  <2> HIDE DEF Good
  <2>4. ASSUME NEW n \in 0 .. k + 1
        PROVE  h[n] = IF n = 0 THEN B ELSE h[n - 1] \cup (Children(h[n - 1]) \cap U)
    <3>1. CASE n \in 0 .. k
      <4>1. h[n] = g[n]
        BY <3>1
      <4>2. n # 0 => n - 1 \in 0 .. k /\ n - 1 \in 0 .. k + 1
        BY <2>3, <3>1
      <4>3. n # 0 => h[n - 1] = g[n - 1]
        BY <4>2
      <4> HIDE DEF h
      <4> QED
        BY <2>2, <3>1, <4>1, <4>3
    <3>2. CASE n \notin 0 .. k
      <4>1. n = k + 1 /\ n # 0 /\ n - 1 = k /\ k \in 0 .. k /\ k \in 0 .. k + 1
        BY <2>3, <3>2
      <4>2. h[n - 1] = g[k]
        BY <4>1
      <4>3. h[n] = g[k] \cup (Children(g[k]) \cap U)
        BY <3>2
      <4> HIDE DEF h
      <4> QED
        BY <4>1, <4>2, <4>3
    <3> QED
      BY <3>1, <3>2
  <2>5. h = [n \in 0 .. k + 1 |->
               IF n = 0 THEN B ELSE h[n - 1] \cup (Children(h[n - 1]) \cap U)]
    <3>1. h = [n \in 0 .. k + 1 |-> h[n]]
      OBVIOUS
    <3> HIDE DEF h
    <3> QED
      BY <2>4, <3>1
  <2> HIDE DEF h
  <2>6. Good(k + 1, h)
    BY <2>5 DEF Good
  <2> QED
    BY <2>3, <2>6
<1>3. T = Nat
  <2> HIDE DEF T
  <2>1. T \in SUBSET Nat
    BY DEF T
  <2> QED
    BY <1>1, <1>2, <2>1, Induction
<1>4. PICK f : /\ Good(N, f)
               /\ ReachedWithin(A, U) = f[N]
  <2>1. \E g : Good(N, g)
    BY <1>0, <1>3
  <2> QED
    BY <2>1 DEF ReachedWithin
<1>5. f[0] = A \cap U
  BY <1>0, <1>4
<1>6. \A n \in Nat : n + 1 \in 0 .. N => f[n + 1] = f[n] \cup (Children(f[n]) \cap U)
  <2>1. \A m \in 0 .. N : f[m] = IF m = 0 THEN A \cap U ELSE f[m - 1] \cup (Children(f[m - 1]) \cap U)
    BY <1>4
  <2> SUFFICES ASSUME NEW n \in Nat, n + 1 \in 0 .. N
               PROVE  f[n + 1] = f[n] \cup (Children(f[n]) \cap U)
    OBVIOUS
  <2>2. n + 1 # 0 /\ (n + 1) - 1 = n
    OBVIOUS
  <2> QED
    BY <2>1, <2>2
<1> QED
  BY <1>4, <1>5, <1>6

\* What ReachedWithin computes is the least set of objects of the universe that holds the
\* seeds and what its members refer to.
LEMMA Reached ==
    ASSUME NEW A, NEW U, U \subseteq All
    PROVE  /\ ReachedWithin(A, U) \subseteq U
           /\ A \cap U \subseteq ReachedWithin(A, U)
           /\ Children(ReachedWithin(A, U)) \cap U \subseteq ReachedWithin(A, U)
           /\ \A T : A \cap U \subseteq T /\ Children(T) \cap U \subseteq T
                        => ReachedWithin(A, U) \subseteq T
<1> DEFINE N == Cardinality(All)
<1>1. N \in Nat /\ IsFiniteSet(All)
  BY ObjAssumption, FS_CardinalityType
<1>2. PICK f : /\ f[0] = A \cap U
               /\ \A n \in Nat : n + 1 \in 0 .. N
                     => f[n + 1] = f[n] \cup (Children(f[n]) \cap U)
               /\ ReachedWithin(A, U) = f[N]
  BY ReachedUnrolled
<1>3. f[0] = A \cap U
  BY <1>2
<1>4. \A n \in Nat : n + 1 \in 0 .. N => f[n + 1] = f[n] \cup (Children(f[n]) \cap U)
  BY <1>2
<1>5. ASSUME NEW T, A \cap U \subseteq T, Children(T) \cap U \subseteq T
      PROVE  f[N] \subseteq T
  <2> DEFINE G == {n \in Nat : n \in 0 .. N => f[n] \subseteq T}
  <2>1. 0 \in G
    BY <1>3, <1>5
  <2>2. ASSUME NEW n \in G PROVE n + 1 \in G
    <3>1. n \in Nat
      OBVIOUS
    <3>2. SUFFICES ASSUME n + 1 \in 0 .. N PROVE f[n + 1] \subseteq T
      OBVIOUS
    <3>3. f[n] \subseteq T
      BY <1>1, <3>1, <3>2
    <3>4. Children(f[n]) \subseteq Children(T)
      BY <3>3 DEF Children
    <3> QED
      BY <1>4, <1>5, <3>1, <3>2, <3>3, <3>4
  <2>3. G = Nat
    <3> HIDE DEF G
    <3>1. G \in SUBSET Nat
      BY DEF G
    <3> QED
      BY <2>1, <2>2, <3>1, Induction
  <2> QED
    BY <1>1, <2>3
<1>6. f[N] \subseteq U
  BY <1>5
<1> DEFINE Shut(n) == Children(f[n]) \cap U \subseteq f[n]
           G == {n \in Nat : n \in 0 .. N =>
                   /\ A \cap U \subseteq f[n] /\ f[n] \subseteq U
                   /\ Shut(n) \/ Cardinality(f[n]) >= n}
<1>7. \A F : F \subseteq U => IsFiniteSet(F) /\ Cardinality(F) \in Nat
  BY <1>1, FS_Subset, FS_CardinalityType
<1>8. 0 \in G
  BY <1>3, <1>7
<1>9. ASSUME NEW n \in G PROVE n + 1 \in G
  <2>1. n \in Nat
    OBVIOUS
  <2>2. SUFFICES ASSUME n + 1 \in 0 .. N
                 PROVE  /\ A \cap U \subseteq f[n + 1] /\ f[n + 1] \subseteq U
                        /\ Shut(n + 1) \/ Cardinality(f[n + 1]) >= n + 1
    OBVIOUS
  <2>3. n \in 0 .. N
    BY <1>1, <2>1, <2>2
  <2>4. /\ A \cap U \subseteq f[n] /\ f[n] \subseteq U
        /\ Shut(n) \/ Cardinality(f[n]) >= n
    BY <2>3
  <2>5. f[n + 1] = f[n] \cup (Children(f[n]) \cap U)
    BY <1>4, <2>1, <2>2
  <2>6. A \cap U \subseteq f[n + 1] /\ f[n + 1] \subseteq U
    BY <2>4, <2>5
  <2>7. CASE Shut(n)
    <3>1. f[n + 1] = f[n]
      BY <2>5, <2>7
    <3> QED
      BY <2>6, <2>7, <3>1
  <2>8. CASE ~Shut(n)
    <3>1. f[n] \in SUBSET f[n + 1] /\ f[n] # f[n + 1]
      BY <2>5, <2>8
    <3>2. IsFiniteSet(f[n + 1]) /\ Cardinality(f[n + 1]) \in Nat /\ Cardinality(f[n]) \in Nat
      BY <1>7, <2>4, <2>6
    <3>3. Cardinality(f[n]) <= Cardinality(f[n + 1])
          /\ Cardinality(f[n]) # Cardinality(f[n + 1])
      BY <3>1, <3>2, FS_Subset
    <3>4. Cardinality(f[n]) >= n
      BY <2>4, <2>8
    <3>5. Cardinality(f[n + 1]) >= n + 1
      BY <2>1, <3>2, <3>3, <3>4
    <3> QED
      BY <2>6, <3>5
  <2> QED
    BY <2>7, <2>8
<1>10. G = Nat
  <2> HIDE DEF G
  <2>1. G \in SUBSET Nat
    BY DEF G
  <2> QED
    BY <1>8, <1>9, <2>1, Induction
<1>11. /\ A \cap U \subseteq f[N]
       /\ Shut(N) \/ Cardinality(f[N]) >= N
  <2>1. N \in 0 .. N
    BY <1>1
  <2> QED
    BY <1>10, <2>1
<1>12. Shut(N)
  <2>1. SUFFICES ASSUME Cardinality(f[N]) >= N PROVE Shut(N)
    BY <1>11
  <2>2. f[N] \in SUBSET All
    BY <1>6
  <2>3. Cardinality(f[N]) <= N
    BY <1>1, <2>2, FS_Subset
  <2>4. Cardinality(f[N]) \in Nat
    BY <1>6, <1>7
  <2>5. Cardinality(f[N]) = Cardinality(All)
    BY <1>1, <2>1, <2>3, <2>4
  <2>6. f[N] = All
    BY <1>1, <2>2, <2>5, FS_Subset
  <2> QED
    BY <2>6
<1> QED
  BY <1>2, <1>5, <1>6, <1>11, <1>12

-----------------------------------------------------------------------------
(* Folds over a list: what holds of the first state, and is handed on by each element,  *)
(* holds of the last.  J[i] are the states that there may be after i elements.  A lemma  *)
(* cannot be about every operator: there is one for each that is folded.                *)

LEMMA MaxIs == ASSUME NEW k \in Nat, NEW x \in SUBSET (1 .. k), k \in x PROVE Max(x) = k
<1>1. \A y \in x : y \in Nat /\ k >= y
  OBVIOUS
<1>2. ASSUME NEW m \in x, \A y \in x : m >= y PROVE m = k
  BY <1>1, <1>2
<1> QED
  BY <1>1, <1>2 DEF Max

LEMMA Intervals ==
    ASSUME NEW i \in Nat
    PROVE  /\ (1 .. i + 1) \ {i + 1} = 1 .. i
           /\ \A x \in SUBSET (1 .. i + 1) : x \ {i + 1} \in SUBSET (1 .. i)
           /\ i + 1 \in 1 .. i + 1
           /\ \A n \in Nat : i + 1 \in 0 .. n => 1 .. i + 1 \in SUBSET (1 .. n)
<1>1. ASSUME NEW j PROVE j \in 1 .. i <=> j \in 1 .. i + 1 /\ j # i + 1
  OBVIOUS
<1>2. (1 .. i + 1) \ {i + 1} = 1 .. i
  BY <1>1
<1>3. ASSUME NEW x \in SUBSET (1 .. i + 1) PROVE x \ {i + 1} \in SUBSET (1 .. i)
  BY <1>1
<1>4. ASSUME NEW n \in Nat, i + 1 \in 0 .. n PROVE 1 .. i + 1 \in SUBSET (1 .. n)
  BY <1>4
<1> QED
  BY <1>2, <1>3, <1>4

LEMMA StillFold ==
    ASSUME NEW base, NEW seq \in Seq(Obj), NEW J, base \in J[0],
           \A i \in 1 .. Len(seq) : \A s \in J[i - 1] : Still(s, seq[i]) \in J[i]
    PROVE  FoldLeft(Still, base, seq) \in J[Len(seq)]
<1> DEFINE n == Len(seq)
           Good(k, g) == g = [x \in SUBSET (1 .. k) |->
                                IF x = {} THEN base ELSE Still(g[x \ {Max(x)}], seq[Max(x)])]
           T == {k \in Nat : \E g : Good(k, g)}
<1>1. n \in Nat /\ DOMAIN seq = 1 .. n
  OBVIOUS
<1>2. 0 \in T
  <2> DEFINE g == [x \in SUBSET (1 .. 0) |-> base]
  <2>1. \A x \in SUBSET (1 .. 0) : x = {}
    OBVIOUS
  <2>2. Good(0, g)
    BY <2>1
  <2> QED
    BY <2>2
<1>3. ASSUME NEW k \in T PROVE k + 1 \in T
  <2>1. PICK g : Good(k, g)
    OBVIOUS
  <2>2. k \in Nat
    OBVIOUS
  <2> DEFINE h == [x \in SUBSET (1 .. k + 1) |->
                     IF x \in SUBSET (1 .. k) THEN g[x] ELSE Still(g[x \ {k + 1}], seq[k + 1])]
  <2>3. \A x \in SUBSET (1 .. k) :
           g[x] = IF x = {} THEN base ELSE Still(g[x \ {Max(x)}], seq[Max(x)])
    BY <2>1
  <2>4. SUBSET (1 .. k) \subseteq SUBSET (1 .. k + 1)
    BY <2>2
  <2>5. \A x \in SUBSET (1 .. k + 1) :
           h[x] = IF x \in SUBSET (1 .. k) THEN g[x] ELSE Still(g[x \ {k + 1}], seq[k + 1])
    OBVIOUS
  <2> HIDE DEF Good, h
  <2>6. ASSUME NEW x \in SUBSET (1 .. k + 1)
        PROVE  h[x] = IF x = {} THEN base ELSE Still(h[x \ {Max(x)}], seq[Max(x)])
    <3>1. CASE x \in SUBSET (1 .. k)
      <4>1. h[x] = g[x]
        BY <2>5, <3>1
      <4>2. x \ {Max(x)} \in SUBSET (1 .. k)
        BY <3>1
      <4>3. h[x \ {Max(x)}] = g[x \ {Max(x)}]
        BY <2>4, <2>5, <4>2
      <4> QED
        BY <2>3, <3>1, <4>1, <4>3
    <3>2. CASE x \notin SUBSET (1 .. k)
      <4>1. k + 1 \in x
        BY <2>2, <3>2
      <4>2. Max(x) = k + 1
        BY <2>2, <4>1, MaxIs
      <4>3. x \ {k + 1} \in SUBSET (1 .. k)
        BY <2>2, Intervals
      <4>4. h[x \ {k + 1}] = g[x \ {k + 1}]
        BY <2>4, <2>5, <4>3
      <4>5. h[x] = Still(g[x \ {k + 1}], seq[k + 1])
        BY <2>5, <3>2
      <4> QED
        BY <4>1, <4>2, <4>4, <4>5
    <3> QED
      BY <3>1, <3>2
  <2>7. h = [x \in SUBSET (1 .. k + 1) |-> h[x]]
    BY DEF h
  <2>8. Good(k + 1, h)
    BY <2>6, <2>7 DEF Good
  <2> QED
    BY <2>2, <2>8
<1>4. T = Nat
  <2> HIDE DEF T
  <2>1. T \in SUBSET Nat
    BY DEF T
  <2> QED
    BY <1>2, <1>3, <2>1, Induction
<1>5. PICK f : Good(n, f) /\ FoldLeft(Still, base, seq) = f[1 .. n]
  <2>1. \E g : Good(n, g)
    BY <1>1, <1>4
  <2> QED
    BY <1>1, <2>1 DEF FoldLeft, MapThenFoldSet
<1>6. \A x \in SUBSET (1 .. n) :
         f[x] = IF x = {} THEN base ELSE Still(f[x \ {Max(x)}], seq[Max(x)])
  BY <1>5
<1> DEFINE G == {i \in Nat : i \in 0 .. n => f[1 .. i] \in J[i]}
<1>7. 0 \in G
  <2>1. 1 .. 0 = {} /\ {} \in SUBSET (1 .. n)
    OBVIOUS
  <2>2. f[{}] = base
    BY <1>6, <2>1
  <2> QED
    BY <2>1, <2>2
<1>8. ASSUME NEW i \in G PROVE i + 1 \in G
  <2>1. i \in Nat
    OBVIOUS
  <2>2. SUFFICES ASSUME i + 1 \in 0 .. n PROVE f[1 .. i + 1] \in J[i + 1]
    OBVIOUS
  <2>3. f[1 .. i] \in J[i]
    BY <1>1, <2>1, <2>2
  <2>4. /\ 1 .. i + 1 \in SUBSET (1 .. n) /\ i + 1 \in 1 .. i + 1 /\ 1 .. i + 1 # {}
        /\ (1 .. i + 1) \ {i + 1} = 1 .. i
    BY <1>1, <2>1, <2>2, Intervals
  <2>5. Max(1 .. i + 1) = i + 1
    BY <2>1, <2>4, MaxIs
  <2>6. f[1 .. i + 1] = Still(f[1 .. i], seq[i + 1])
    BY <1>6, <2>4, <2>5
  <2>7. i + 1 \in 1 .. Len(seq) /\ (i + 1) - 1 = i
    BY <2>1, <2>2
  <2> QED
    BY <2>3, <2>6, <2>7
<1>9. G = Nat
  <2> HIDE DEF G
  <2>1. G \in SUBSET Nat
    BY DEF G
  <2> QED
    BY <1>7, <1>8, <2>1, Induction
<1>10. n \in 0 .. n
  BY <1>1
<1> QED
  BY <1>1, <1>5, <1>9, <1>10

LEMMA WalkFold ==
    ASSUME NEW base, NEW seq \in Seq(Obj), NEW J, base \in J[0],
           \A i \in 1 .. Len(seq) : \A s \in J[i - 1] : Walk(s, seq[i]) \in J[i]
    PROVE  FoldLeft(Walk, base, seq) \in J[Len(seq)]
<1> DEFINE n == Len(seq)
           Good(k, g) == g = [x \in SUBSET (1 .. k) |->
                                IF x = {} THEN base ELSE Walk(g[x \ {Max(x)}], seq[Max(x)])]
           T == {k \in Nat : \E g : Good(k, g)}
<1>1. n \in Nat /\ DOMAIN seq = 1 .. n
  OBVIOUS
<1>2. 0 \in T
  <2> DEFINE g == [x \in SUBSET (1 .. 0) |-> base]
  <2>1. \A x \in SUBSET (1 .. 0) : x = {}
    OBVIOUS
  <2>2. Good(0, g)
    BY <2>1
  <2> QED
    BY <2>2
<1>3. ASSUME NEW k \in T PROVE k + 1 \in T
  <2>1. PICK g : Good(k, g)
    OBVIOUS
  <2>2. k \in Nat
    OBVIOUS
  <2> DEFINE h == [x \in SUBSET (1 .. k + 1) |->
                     IF x \in SUBSET (1 .. k) THEN g[x] ELSE Walk(g[x \ {k + 1}], seq[k + 1])]
  <2>3. \A x \in SUBSET (1 .. k) :
           g[x] = IF x = {} THEN base ELSE Walk(g[x \ {Max(x)}], seq[Max(x)])
    BY <2>1
  <2>4. SUBSET (1 .. k) \subseteq SUBSET (1 .. k + 1)
    BY <2>2
  <2>5. \A x \in SUBSET (1 .. k + 1) :
           h[x] = IF x \in SUBSET (1 .. k) THEN g[x] ELSE Walk(g[x \ {k + 1}], seq[k + 1])
    OBVIOUS
  <2> HIDE DEF Good, h
  <2>6. ASSUME NEW x \in SUBSET (1 .. k + 1)
        PROVE  h[x] = IF x = {} THEN base ELSE Walk(h[x \ {Max(x)}], seq[Max(x)])
    <3>1. CASE x \in SUBSET (1 .. k)
      <4>1. h[x] = g[x]
        BY <2>5, <3>1
      <4>2. x \ {Max(x)} \in SUBSET (1 .. k)
        BY <3>1
      <4>3. h[x \ {Max(x)}] = g[x \ {Max(x)}]
        BY <2>4, <2>5, <4>2
      <4> QED
        BY <2>3, <3>1, <4>1, <4>3
    <3>2. CASE x \notin SUBSET (1 .. k)
      <4>1. k + 1 \in x
        BY <2>2, <3>2
      <4>2. Max(x) = k + 1
        BY <2>2, <4>1, MaxIs
      <4>3. x \ {k + 1} \in SUBSET (1 .. k)
        BY <2>2, Intervals
      <4>4. h[x \ {k + 1}] = g[x \ {k + 1}]
        BY <2>4, <2>5, <4>3
      <4>5. h[x] = Walk(g[x \ {k + 1}], seq[k + 1])
        BY <2>5, <3>2
      <4> QED
        BY <4>1, <4>2, <4>4, <4>5
    <3> QED
      BY <3>1, <3>2
  <2>7. h = [x \in SUBSET (1 .. k + 1) |-> h[x]]
    BY DEF h
  <2>8. Good(k + 1, h)
    BY <2>6, <2>7 DEF Good
  <2> QED
    BY <2>2, <2>8
<1>4. T = Nat
  <2> HIDE DEF T
  <2>1. T \in SUBSET Nat
    BY DEF T
  <2> QED
    BY <1>2, <1>3, <2>1, Induction
<1>5. PICK f : Good(n, f) /\ FoldLeft(Walk, base, seq) = f[1 .. n]
  <2>1. \E g : Good(n, g)
    BY <1>1, <1>4
  <2> QED
    BY <1>1, <2>1 DEF FoldLeft, MapThenFoldSet
<1>6. \A x \in SUBSET (1 .. n) :
         f[x] = IF x = {} THEN base ELSE Walk(f[x \ {Max(x)}], seq[Max(x)])
  BY <1>5
<1> DEFINE G == {i \in Nat : i \in 0 .. n => f[1 .. i] \in J[i]}
<1>7. 0 \in G
  <2>1. 1 .. 0 = {} /\ {} \in SUBSET (1 .. n)
    OBVIOUS
  <2>2. f[{}] = base
    BY <1>6, <2>1
  <2> QED
    BY <2>1, <2>2
<1>8. ASSUME NEW i \in G PROVE i + 1 \in G
  <2>1. i \in Nat
    OBVIOUS
  <2>2. SUFFICES ASSUME i + 1 \in 0 .. n PROVE f[1 .. i + 1] \in J[i + 1]
    OBVIOUS
  <2>3. f[1 .. i] \in J[i]
    BY <1>1, <2>1, <2>2
  <2>4. /\ 1 .. i + 1 \in SUBSET (1 .. n) /\ i + 1 \in 1 .. i + 1 /\ 1 .. i + 1 # {}
        /\ (1 .. i + 1) \ {i + 1} = 1 .. i
    BY <1>1, <2>1, <2>2, Intervals
  <2>5. Max(1 .. i + 1) = i + 1
    BY <2>1, <2>4, MaxIs
  <2>6. f[1 .. i + 1] = Walk(f[1 .. i], seq[i + 1])
    BY <1>6, <2>4, <2>5
  <2>7. i + 1 \in 1 .. Len(seq) /\ (i + 1) - 1 = i
    BY <2>1, <2>2
  <2> QED
    BY <2>3, <2>6, <2>7
<1>9. G = Nat
  <2> HIDE DEF G
  <2>1. G \in SUBSET Nat
    BY DEF G
  <2> QED
    BY <1>7, <1>8, <2>1, Induction
<1>10. n \in 0 .. n
  BY <1>1
<1> QED
  BY <1>1, <1>5, <1>9, <1>10

LEMMA DecideFold ==
    ASSUME NEW base, NEW seq \in Seq(Obj), NEW J, base \in J[0],
           \A i \in 1 .. Len(seq) : \A s \in J[i - 1] : Decide(s, seq[i]) \in J[i]
    PROVE  FoldLeft(Decide, base, seq) \in J[Len(seq)]
<1> DEFINE n == Len(seq)
           Good(k, g) == g = [x \in SUBSET (1 .. k) |->
                                IF x = {} THEN base ELSE Decide(g[x \ {Max(x)}], seq[Max(x)])]
           T == {k \in Nat : \E g : Good(k, g)}
<1>1. n \in Nat /\ DOMAIN seq = 1 .. n
  OBVIOUS
<1>2. 0 \in T
  <2> DEFINE g == [x \in SUBSET (1 .. 0) |-> base]
  <2>1. \A x \in SUBSET (1 .. 0) : x = {}
    OBVIOUS
  <2>2. Good(0, g)
    BY <2>1
  <2> QED
    BY <2>2
<1>3. ASSUME NEW k \in T PROVE k + 1 \in T
  <2>1. PICK g : Good(k, g)
    OBVIOUS
  <2>2. k \in Nat
    OBVIOUS
  <2> DEFINE h == [x \in SUBSET (1 .. k + 1) |->
                     IF x \in SUBSET (1 .. k) THEN g[x] ELSE Decide(g[x \ {k + 1}], seq[k + 1])]
  <2>3. \A x \in SUBSET (1 .. k) :
           g[x] = IF x = {} THEN base ELSE Decide(g[x \ {Max(x)}], seq[Max(x)])
    BY <2>1
  <2>4. SUBSET (1 .. k) \subseteq SUBSET (1 .. k + 1)
    BY <2>2
  <2>5. \A x \in SUBSET (1 .. k + 1) :
           h[x] = IF x \in SUBSET (1 .. k) THEN g[x] ELSE Decide(g[x \ {k + 1}], seq[k + 1])
    OBVIOUS
  <2> HIDE DEF Good, h
  <2>6. ASSUME NEW x \in SUBSET (1 .. k + 1)
        PROVE  h[x] = IF x = {} THEN base ELSE Decide(h[x \ {Max(x)}], seq[Max(x)])
    <3>1. CASE x \in SUBSET (1 .. k)
      <4>1. h[x] = g[x]
        BY <2>5, <3>1
      <4>2. x \ {Max(x)} \in SUBSET (1 .. k)
        BY <3>1
      <4>3. h[x \ {Max(x)}] = g[x \ {Max(x)}]
        BY <2>4, <2>5, <4>2
      <4> QED
        BY <2>3, <3>1, <4>1, <4>3
    <3>2. CASE x \notin SUBSET (1 .. k)
      <4>1. k + 1 \in x
        BY <2>2, <3>2
      <4>2. Max(x) = k + 1
        BY <2>2, <4>1, MaxIs
      <4>3. x \ {k + 1} \in SUBSET (1 .. k)
        BY <2>2, Intervals
      <4>4. h[x \ {k + 1}] = g[x \ {k + 1}]
        BY <2>4, <2>5, <4>3
      <4>5. h[x] = Decide(g[x \ {k + 1}], seq[k + 1])
        BY <2>5, <3>2
      <4> QED
        BY <4>1, <4>2, <4>4, <4>5
    <3> QED
      BY <3>1, <3>2
  <2>7. h = [x \in SUBSET (1 .. k + 1) |-> h[x]]
    BY DEF h
  <2>8. Good(k + 1, h)
    BY <2>6, <2>7 DEF Good
  <2> QED
    BY <2>2, <2>8
<1>4. T = Nat
  <2> HIDE DEF T
  <2>1. T \in SUBSET Nat
    BY DEF T
  <2> QED
    BY <1>2, <1>3, <2>1, Induction
<1>5. PICK f : Good(n, f) /\ FoldLeft(Decide, base, seq) = f[1 .. n]
  <2>1. \E g : Good(n, g)
    BY <1>1, <1>4
  <2> QED
    BY <1>1, <2>1 DEF FoldLeft, MapThenFoldSet
<1>6. \A x \in SUBSET (1 .. n) :
         f[x] = IF x = {} THEN base ELSE Decide(f[x \ {Max(x)}], seq[Max(x)])
  BY <1>5
<1> DEFINE G == {i \in Nat : i \in 0 .. n => f[1 .. i] \in J[i]}
<1>7. 0 \in G
  <2>1. 1 .. 0 = {} /\ {} \in SUBSET (1 .. n)
    OBVIOUS
  <2>2. f[{}] = base
    BY <1>6, <2>1
  <2> QED
    BY <2>1, <2>2
<1>8. ASSUME NEW i \in G PROVE i + 1 \in G
  <2>1. i \in Nat
    OBVIOUS
  <2>2. SUFFICES ASSUME i + 1 \in 0 .. n PROVE f[1 .. i + 1] \in J[i + 1]
    OBVIOUS
  <2>3. f[1 .. i] \in J[i]
    BY <1>1, <2>1, <2>2
  <2>4. /\ 1 .. i + 1 \in SUBSET (1 .. n) /\ i + 1 \in 1 .. i + 1 /\ 1 .. i + 1 # {}
        /\ (1 .. i + 1) \ {i + 1} = 1 .. i
    BY <1>1, <2>1, <2>2, Intervals
  <2>5. Max(1 .. i + 1) = i + 1
    BY <2>1, <2>4, MaxIs
  <2>6. f[1 .. i + 1] = Decide(f[1 .. i], seq[i + 1])
    BY <1>6, <2>4, <2>5
  <2>7. i + 1 \in 1 .. Len(seq) /\ (i + 1) - 1 = i
    BY <2>1, <2>2
  <2> QED
    BY <2>3, <2>6, <2>7
<1>9. G = Nat
  <2> HIDE DEF G
  <2>1. G \in SUBSET Nat
    BY DEF G
  <2> QED
    BY <1>7, <1>8, <2>1, Induction
<1>10. n \in 0 .. n
  BY <1>1
<1> QED
  BY <1>1, <1>5, <1>9, <1>10

-----------------------------------------------------------------------------
(* The inductive invariant. *)

\* What has not been freed and is not going to be.
Usable == alloc \ doomed

Types ==
    /\ Prebuilt \subseteq alloc /\ alloc \subseteq All
    /\ refs \subseteq alloc \X alloc
    /\ roots \subseteq Obj
    /\ noHeapPtrs \subseteq Prebuilt
    /\ weakrefs \subseteq Obj \cap alloc
    /\ target \in [Obj -> All \cup {NULL}]
    /\ young \subseteq Obj \cap alloc
    /\ final \subseteq Obj \cap alloc /\ ignored \subseteq final /\ called \subseteq final
    /\ gcState \in States
    /\ doomed \subseteq (Obj \cap alloc) \ young
    /\ current \in Obj \cup {NULL}
    /\ queue \in Seq(Obj) /\ oldFinal \in Seq(Obj) /\ youngFinal \in Seq(Obj)
    /\ fired \in BOOLEAN

\* Nothing outside D is reached from D.
Shut(D) == \A r \in refs : r[1] \in D => r[2] \in D

Closed ==
    /\ Handles \subseteq Usable
    /\ Shut(Usable)
    /\ \A r \in refs : r[1] \notin noHeapPtrs

\* The lists of objects with finalizers hold what is kept, the old ones nothing young, and
\* together every object whose finalizer is still to be called.
Lists ==
    /\ ToSet(queue) \cup ToSet(oldFinal) \subseteq (final \cap Usable) \ young
    /\ ToSet(youngFinal) \subseteq final \cap Usable
    /\ final \subseteq called \cup ignored
                        \cup ToSet(queue) \cup ToSet(oldFinal) \cup ToSet(youngFinal)

\* Weakrefs point to what is kept, old ones to nothing young, and those that no list has to
\* nothing that can be freed.
Weak ==
    /\ youngWeak = young \cap weakrefs
    /\ oldWeak \subseteq (weakrefs \cap Usable) \ young
    /\ \A w \in weakrefs : target[w] \in alloc \cup {NULL}
    /\ \A w \in weakrefs \ doomed : target[w] \in Usable \cup {NULL}
    /\ \A w \in weakrefs \ young : target[w] \notin young
    /\ \A w \in weakrefs \ (young \cup oldWeak \cup doomed) : target[w] \in Prebuilt \cup {NULL}

Phases ==
    /\ doomed # {} => gcState = "SWEEPING"
    /\ ordering \subseteq Prebuilt

\* D holds what the program can get at, now or when the finalizers of the objects before the
\* k-th in the queue have been called, and not the k-th.
Clear(D, k) ==
    /\ Shut(D)
    /\ Handles \subseteq D
    /\ \A w \in weakrefs \ doomed : target[w] \in D \cup {NULL}
    /\ \A i \in 1 .. k - 1 : queue[i] \in D
    /\ queue[k] \notin D

\* What is in the queue cannot be got at before its turn.
Apart == \A k \in 1 .. Len(queue) : \E D \in SUBSET Usable : Clear(D, k)

Inv == Types /\ Closed /\ Lists /\ Weak /\ Phases /\ Apart

-----------------------------------------------------------------------------
(* First facts. *)

LEMMA AllFacts ==
    /\ All = Obj \cup Prebuilt /\ Obj \cap Prebuilt = {} /\ NULL \notin All
    /\ NULL \notin Obj /\ NULL \notin Prebuilt
  BY ObjAssumption DEF All

LEMMA ShutChildren == ASSUME NEW D PROVE Shut(D) <=> Children(D) \subseteq D
  BY DEF Shut, Children

LEMMA InitInv == Init => Inv
<1> SUFFICES ASSUME Init PROVE Inv
  OBVIOUS
<1>1. /\ alloc = Prebuilt /\ refs = {} /\ roots = {} /\ noHeapPtrs = Prebuilt
      /\ target = [w \in Obj |-> NULL] /\ weakrefs = {} /\ young = {} /\ youngWeak = {}
      /\ oldWeak = {} /\ final = {} /\ ignored = {} /\ youngFinal = <<>> /\ oldFinal = <<>>
      /\ ordering = {} /\ gcState = "MARKING" /\ doomed = {} /\ queue = <<>>
      /\ fired = FALSE /\ current = NULL /\ called = {}
  BY DEF Init
<1>2. Types
  <2>1. target \in [Obj -> All \cup {NULL}]
    BY <1>1
  <2>2. <<>> \in Seq(Obj)
    OBVIOUS
  <2> QED
    BY <1>1, <2>1, <2>2, AllFacts DEF Types, States
<1>3. Closed
  BY <1>1 DEF Closed, Shut, Handles, Usable
<1>4. ToSet(<<>>) = {}
  BY DEF ToSet
<1>5. Lists
  BY <1>1, <1>4 DEF Lists
<1>6. Weak
  BY <1>1 DEF Weak
<1>7. Phases
  BY <1>1 DEF Phases
<1>8. Apart
  BY <1>1 DEF Apart
<1> QED
  BY <1>2, <1>3, <1>5, <1>6, <1>7, <1>8 DEF Inv

-----------------------------------------------------------------------------
(* The program. *)

\* The program changes references and its stack, by what it can get at.
LEMMA MovesInv ==
    ASSUME Inv,
           UNCHANGED <<alloc, weakrefs, target, final, ignored, lists, major, calls>>,
           roots' \subseteq Obj, noHeapPtrs' \subseteq noHeapPtrs,
           \A r \in refs' : \/ r \in refs
                            \/ \E x, y \in Handles : r = <<x, y>> /\ x \notin noHeapPtrs',
           \A D : /\ Shut(D) /\ Handles \subseteq D
                  /\ \A w \in weakrefs \ doomed : target[w] \in D \cup {NULL}
                  => Handles' \subseteq D
    PROVE  Inv'
<1>1. /\ alloc' = alloc /\ weakrefs' = weakrefs /\ target' = target /\ final' = final
      /\ ignored' = ignored /\ young' = young /\ youngWeak' = youngWeak /\ oldWeak' = oldWeak
      /\ youngFinal' = youngFinal /\ oldFinal' = oldFinal /\ ordering' = ordering
      /\ gcState' = gcState /\ doomed' = doomed /\ queue' = queue /\ fired' = fired
      /\ current' = current /\ called' = called
  BY DEF lists, major, calls
<1>2. Usable' = Usable
  BY <1>1 DEF Usable
<1>3. Usable \subseteq alloc
  BY DEF Usable
<1>4. Handles \subseteq Usable
  BY DEF Inv, Closed
<1>5. Types'
  <2>1. refs' \subseteq alloc \X alloc
    BY <1>3, <1>4 DEF Inv, Types
  <2> QED
    BY <1>1, <2>1 DEF Inv, Types
<1>6. ASSUME NEW D, Shut(D), Handles \subseteq D PROVE Shut(D)'
  BY <1>6 DEF Shut
<1>7. Closed'
  <2>1. Shut(Usable)
    BY DEF Inv, Closed
  <2>2. \A w \in weakrefs \ doomed : target[w] \in Usable \cup {NULL}
    BY DEF Inv, Weak
  <2>3. Handles' \subseteq Usable
    BY <1>4, <2>1, <2>2
  <2>4. Shut(Usable)'
    BY <1>2, <1>4, <2>1 DEF Shut
  <2>5. \A r \in refs' : r[1] \notin noHeapPtrs'
    BY DEF Inv, Closed
  <2> QED
    BY <1>2, <2>3, <2>4, <2>5 DEF Closed
<1>8. Lists'
  BY <1>1, <1>2 DEF Inv, Lists
<1>9. Weak'
  BY <1>1, <1>2 DEF Inv, Weak
<1>10. Phases'
  BY <1>1 DEF Inv, Phases
<1>11. Apart'
  <2> SUFFICES ASSUME NEW k \in 1 .. Len(queue)
               PROVE  \E D \in SUBSET Usable : Clear(D, k)'
    BY <1>1, <1>2 DEF Apart
  <2>1. PICK D \in SUBSET Usable : Clear(D, k)
    BY DEF Inv, Apart
  <2>2. Shut(D)' /\ Handles' \subseteq D
    BY <1>6, <2>1 DEF Clear
  <2>3. Clear(D, k)'
    BY <1>1, <2>1, <2>2 DEF Clear
  <2> QED
    BY <2>3
<1> QED
  BY <1>5, <1>7, <1>8, <1>9, <1>10, <1>11 DEF Inv

LEMMA HoldInv ==
    ASSUME Inv, NEW y, Hold(y),
           \A D : /\ Shut(D) /\ Handles \subseteq D
                  /\ \A w \in weakrefs \ doomed : target[w] \in D \cup {NULL}
                  => y \in D
    PROVE  Inv'
<1>1. /\ roots' = roots \cup {y} /\ y \in Obj
      /\ UNCHANGED <<alloc, weakrefs, target, final, ignored, lists, major, calls>>
      /\ refs' = refs /\ noHeapPtrs' = noHeapPtrs /\ current' = current
  BY DEF Hold, heap, calls
<1>2. Handles' = Handles \cup {y}
  BY <1>1 DEF Handles
<1>3. roots' \subseteq Obj
  BY <1>1 DEF Inv, Types
<1> QED
  BY <1>1, <1>2, <1>3, MovesInv

LEMMA ReadInv == ASSUME Inv, NEW y \in Obj, Read(y) PROVE Inv'
<1>1. Hold(y) /\ y \in Children(Handles) \cup Handles
  BY DEF Read
<1>2. ASSUME NEW D, Shut(D), Handles \subseteq D PROVE y \in D
  BY <1>1, <1>2 DEF Shut, Children
<1> QED
  BY <1>1, <1>2, HoldInv

LEMMA DerefInv == ASSUME Inv, NEW w \in Obj, Deref(w) PROVE Inv'
<1>1. Hold(target[w]) /\ w \in Handles \cap weakrefs /\ target[w] # NULL
  BY DEF Deref
<1>2. w \in weakrefs \ doomed
  BY <1>1 DEF Inv, Closed, Usable
<1> QED
  BY <1>1, <1>2, HoldInv

LEMMA DropInv == ASSUME Inv, NEW x \in Obj, Drop(x) PROVE Inv'
<1>1. /\ roots' = roots \ {x}
      /\ UNCHANGED <<alloc, weakrefs, target, final, ignored, lists, major, calls>>
      /\ refs' = refs /\ noHeapPtrs' = noHeapPtrs /\ current' = current
  BY DEF Drop, heap, calls
<1>2. Handles' \subseteq Handles
  BY <1>1 DEF Handles
<1>3. roots' \subseteq Obj
  BY <1>1 DEF Inv, Types
<1> QED
  BY <1>1, <1>2, <1>3, MovesInv

LEMMA WriteInv == ASSUME Inv, NEW x, NEW y, Write(x, y) PROVE Inv'
<1>1. /\ x \in Handles /\ y \in Handles /\ refs' = refs \cup {<<x, y>>}
      /\ noHeapPtrs' = noHeapPtrs \ {x} /\ roots' = roots /\ current' = current
      /\ UNCHANGED <<alloc, weakrefs, target, final, ignored, lists, major, calls>>
  BY DEF Write, calls
<1>2. Handles' = Handles
  BY <1>1 DEF Handles
<1>3. roots' \subseteq Obj
  BY <1>1 DEF Inv, Types
<1>4. \A r \in refs' : \/ r \in refs
                       \/ \E a, b \in Handles : r = <<a, b>> /\ a \notin noHeapPtrs'
  BY <1>1
<1> QED
  BY <1>1, <1>2, <1>3, <1>4, MovesInv

LEMMA EraseInv == ASSUME Inv, NEW x, NEW y, Erase(x, y) PROVE Inv'
<1>1. /\ refs' = refs \ {<<x, y>>} /\ roots' = roots /\ current' = current
      /\ noHeapPtrs' = noHeapPtrs
      /\ UNCHANGED <<alloc, weakrefs, target, final, ignored, lists, major, calls>>
  BY DEF Erase, calls
<1>2. Handles' = Handles
  BY <1>1 DEF Handles
<1>3. roots' \subseteq Obj
  BY <1>1 DEF Inv, Types
<1> QED
  BY <1>1, <1>2, <1>3, MovesInv

\* What is in a list, after an addition and after a removal.
LEMMA SetAppend ==
    ASSUME NEW s \in Seq(Obj), NEW x
    PROVE  ToSet(Append(s, x)) = ToSet(s) \cup {x}
<1>1. Len(s) \in Nat /\ DOMAIN s = 1 .. Len(s) /\ DOMAIN Append(s, x) = 1 .. Len(s) + 1
  OBVIOUS
<1>2. \A i \in 1 .. Len(s) + 1 : Append(s, x)[i] = IF i = Len(s) + 1 THEN x ELSE s[i]
  OBVIOUS
<1>3. ASSUME NEW y \in ToSet(Append(s, x)) PROVE y \in ToSet(s) \cup {x}
  BY <1>1, <1>2 DEF ToSet
<1>4. ASSUME NEW i \in 1 .. Len(s) PROVE s[i] \in ToSet(Append(s, x))
  <2>1. i \in 1 .. Len(s) + 1 /\ i # Len(s) + 1
    BY <1>1
  <2> QED
    BY <1>1, <1>2, <2>1 DEF ToSet
<1>5. x \in ToSet(Append(s, x))
  <2>1. Len(s) + 1 \in 1 .. Len(s) + 1
    BY <1>1
  <2> QED
    BY <1>1, <1>2, <2>1 DEF ToSet
<1>6. ASSUME NEW y \in ToSet(s) PROVE y \in ToSet(Append(s, x))
  BY <1>1, <1>4 DEF ToSet
<1> QED
  BY <1>3, <1>5, <1>6

LEMMA SetConcat ==
    ASSUME NEW s \in Seq(Obj), NEW t \in Seq(Obj)
    PROVE  ToSet(s \o t) = ToSet(s) \cup ToSet(t)
<1> DEFINE n == Len(s)
<1>1. /\ s \o t \in Seq(Obj) /\ Len(s \o t) = n + Len(t) /\ n \in Nat /\ Len(t) \in Nat
      /\ \A i \in 1 .. n + Len(t) : (s \o t)[i] = IF i <= n THEN s[i] ELSE t[i - n]
  BY ConcatProperties
<1>2. DOMAIN s = 1 .. n /\ DOMAIN t = 1 .. Len(t) /\ DOMAIN (s \o t) = 1 .. n + Len(t)
  BY <1>1
<1>3. ASSUME NEW y \in ToSet(s \o t) PROVE y \in ToSet(s) \cup ToSet(t)
  <2>1. PICK i \in 1 .. n + Len(t) : y = (s \o t)[i]
    BY <1>2 DEF ToSet
  <2>2. CASE i <= n
    BY <1>1, <1>2, <2>1, <2>2 DEF ToSet
  <2>3. CASE ~(i <= n)
    <3>1. i - n \in 1 .. Len(t)
      BY <1>1, <2>1, <2>3
    <3> QED
      BY <1>1, <1>2, <2>1, <2>3, <3>1 DEF ToSet
  <2> QED
    BY <2>2, <2>3
<1>4. ASSUME NEW y \in ToSet(s) PROVE y \in ToSet(s \o t)
  <2>1. PICK i \in 1 .. n : y = s[i]
    BY <1>2 DEF ToSet
  <2>2. i \in 1 .. n + Len(t) /\ i <= n
    BY <1>1
  <2> QED
    BY <1>1, <1>2, <2>1, <2>2 DEF ToSet
<1>5. ASSUME NEW y \in ToSet(t) PROVE y \in ToSet(s \o t)
  <2>1. PICK i \in 1 .. Len(t) : y = t[i]
    BY <1>2 DEF ToSet
  <2>2. n + i \in 1 .. n + Len(t) /\ ~(n + i <= n) /\ (n + i) - n = i
    BY <1>1
  <2> QED
    BY <1>1, <1>2, <2>1, <2>2 DEF ToSet
<1> QED
  BY <1>3, <1>4, <1>5

LEMMA HeadAndTail ==
    ASSUME NEW s \in Seq(Obj), s # <<>>
    PROVE  /\ Head(s) \in Obj /\ Tail(s) \in Seq(Obj)
           /\ Len(s) \in Nat /\ Len(s) > 0 /\ Len(Tail(s)) = Len(s) - 1
           /\ Head(s) = s[1] /\ \A i \in 1 .. Len(s) - 1 : Tail(s)[i] = s[i + 1]
           /\ ToSet(s) = {Head(s)} \cup ToSet(Tail(s))
<1>1. /\ Head(s) \in Obj /\ Tail(s) \in Seq(Obj)
      /\ Len(s) \in Nat /\ Len(s) > 0 /\ Len(Tail(s)) = Len(s) - 1
      /\ Head(s) = s[1] /\ \A i \in 1 .. Len(s) - 1 : Tail(s)[i] = s[i + 1]
  OBVIOUS
<1>2. DOMAIN s = 1 .. Len(s) /\ DOMAIN Tail(s) = 1 .. Len(s) - 1
  BY <1>1
<1>3. ASSUME NEW y \in ToSet(s) PROVE y \in {Head(s)} \cup ToSet(Tail(s))
  <2>1. PICK i \in 1 .. Len(s) : y = s[i]
    BY <1>2 DEF ToSet
  <2>2. CASE i = 1
    BY <1>1, <2>1, <2>2
  <2>3. CASE i # 1
    <3>1. i - 1 \in 1 .. Len(s) - 1 /\ (i - 1) + 1 = i
      BY <1>1, <2>1, <2>3
    <3> QED
      BY <1>1, <1>2, <2>1, <3>1 DEF ToSet
  <2> QED
    BY <2>2, <2>3
<1>4. Head(s) \in ToSet(s)
  <2>1. 1 \in 1 .. Len(s)
    BY <1>1
  <2> QED
    BY <1>1, <1>2, <2>1 DEF ToSet
<1>5. ASSUME NEW y \in ToSet(Tail(s)) PROVE y \in ToSet(s)
  <2>1. PICK i \in 1 .. Len(s) - 1 : y = Tail(s)[i]
    BY <1>2 DEF ToSet
  <2>2. i + 1 \in 1 .. Len(s)
    BY <1>1
  <2> QED
    BY <1>1, <1>2, <2>1, <2>2 DEF ToSet
<1> QED
  BY <1>1, <1>3, <1>4, <1>5

LEMMA RegisterFinalizerInv == ASSUME Inv, NEW x \in Obj, RegisterFinalizer(x) PROVE Inv'
<1>1. /\ x \in roots /\ final' = final \cup {x} /\ youngFinal' = Append(youngFinal, x)
      /\ alloc' = alloc /\ refs' = refs /\ weakrefs' = weakrefs /\ target' = target
      /\ roots' = roots /\ noHeapPtrs' = noHeapPtrs /\ ignored' = ignored /\ young' = young
      /\ youngWeak' = youngWeak /\ oldWeak' = oldWeak /\ oldFinal' = oldFinal
      /\ ordering' = ordering /\ gcState' = gcState /\ doomed' = doomed
      /\ queue' = queue /\ fired' = fired /\ current' = current /\ called' = called
  BY DEF RegisterFinalizer, heap, major, calls
<1>2. x \in Usable /\ x \in alloc
  BY <1>1 DEF Inv, Closed, Handles, Usable
<1>3. Usable' = Usable /\ Handles' = Handles
  BY <1>1 DEF Usable, Handles
<1>4. Types'
  <2>1. youngFinal' \in Seq(Obj)
    BY <1>1 DEF Inv, Types
  <2> QED
    BY <1>1, <1>2, <2>1 DEF Inv, Types
<1>5. Closed'
  BY <1>1, <1>3 DEF Inv, Closed, Shut
<1>6. Lists'
  <2>1. ToSet(youngFinal') = ToSet(youngFinal) \cup {x}
    BY <1>1, SetAppend DEF Inv, Types
  <2> QED
    BY <1>1, <1>2, <1>3, <2>1 DEF Inv, Lists
<1>7. Weak'
  BY <1>1, <1>3 DEF Inv, Weak
<1>8. Phases'
  BY <1>1 DEF Inv, Phases
<1>9. Apart'
  BY <1>1, <1>3 DEF Inv, Apart, Clear, Shut
<1> QED
  BY <1>4, <1>5, <1>6, <1>7, <1>8, <1>9 DEF Inv

LEMMA IgnoreFinalizerInv == ASSUME Inv, NEW x \in Obj, IgnoreFinalizer(x) PROVE Inv'
<1>1. /\ x \in final /\ ignored' = ignored \cup {x} /\ final' = final
      /\ youngFinal' = youngFinal
      /\ alloc' = alloc /\ refs' = refs /\ weakrefs' = weakrefs /\ target' = target
      /\ roots' = roots /\ noHeapPtrs' = noHeapPtrs /\ young' = young
      /\ youngWeak' = youngWeak /\ oldWeak' = oldWeak /\ oldFinal' = oldFinal
      /\ ordering' = ordering /\ gcState' = gcState /\ doomed' = doomed
      /\ queue' = queue /\ fired' = fired /\ current' = current /\ called' = called
  BY DEF IgnoreFinalizer, heap, lists, major, calls
<1>2. Usable' = Usable /\ Handles' = Handles
  BY <1>1 DEF Usable, Handles
<1>3. Types'
  BY <1>1 DEF Inv, Types
<1>4. Closed'
  BY <1>1, <1>2 DEF Inv, Closed, Shut
<1>5. Lists'
  BY <1>1, <1>2 DEF Inv, Lists
<1>6. Weak'
  BY <1>1, <1>2 DEF Inv, Weak
<1>7. Phases'
  BY <1>1 DEF Inv, Phases
<1>8. Apart'
  BY <1>1, <1>2 DEF Inv, Apart, Clear, Shut
<1> QED
  BY <1>3, <1>4, <1>5, <1>6, <1>7, <1>8 DEF Inv

\* A new object, which may be a weakref to t.
LEMMA BornInv ==
    ASSUME Inv, NEW x \in Obj, Born(x), target' \in [Obj -> All \cup {NULL}],
           \/ UNCHANGED <<weakrefs, target, youngWeak>>
           \/ \E t \in Handles :
                 /\ weakrefs' = weakrefs \cup {x} /\ youngWeak' = youngWeak \cup {x}
                 /\ target' = [target EXCEPT ![x] = t]
    PROVE  Inv'
<1>1. /\ x \notin alloc /\ alloc' = alloc \cup {x} /\ roots' = roots \cup {x}
      /\ young' = young \cup {x} /\ refs' = refs /\ noHeapPtrs' = noHeapPtrs
      /\ final' = final /\ ignored' = ignored /\ oldWeak' = oldWeak
      /\ youngFinal' = youngFinal /\ oldFinal' = oldFinal
      /\ ordering' = ordering /\ gcState' = gcState /\ doomed' = doomed
      /\ queue' = queue /\ fired' = fired /\ current' = current /\ called' = called
  BY DEF Born, major, calls
<1>2. /\ Handles' = Handles \cup {x}
      /\ x \notin doomed /\ Usable' = Usable \cup {x}
      /\ Usable \subseteq alloc /\ Handles \subseteq Usable
  <2>1. x \notin doomed
    BY <1>1 DEF Inv, Types
  <2>2. Handles' = Handles \cup {x}
    BY <1>1 DEF Handles
  <2>3. Usable' = Usable \cup {x}
    BY <1>1, <2>1 DEF Usable
  <2> QED
    BY <2>1, <2>2, <2>3 DEF Usable, Inv, Closed
<1>3. PICK t \in Handles \cup {NULL} :
         \/ weakrefs' = weakrefs /\ youngWeak' = youngWeak /\ target' = target
         \/ /\ t \in Handles
            /\ weakrefs' = weakrefs \cup {x} /\ youngWeak' = youngWeak \cup {x}
            /\ \A w \in Obj : target'[w] = IF w = x THEN t ELSE target[w]
  <2>1. CASE UNCHANGED <<weakrefs, target, youngWeak>>
    BY <2>1
  <2>2. CASE \E t \in Handles :
                 /\ weakrefs' = weakrefs \cup {x} /\ youngWeak' = youngWeak \cup {x}
                 /\ target' = [target EXCEPT ![x] = t]
    BY <2>2 DEF Inv, Types
  <2> QED
    BY <2>1, <2>2
<1>4. weakrefs \subseteq Obj /\ weakrefs \subseteq alloc /\ x \notin weakrefs
  BY <1>1 DEF Inv, Types
<1>5. \A w \in weakrefs : target'[w] = target[w]
  BY <1>3, <1>4
<1>6. \A w \in weakrefs' \ weakrefs : w = x /\ target'[w] \in Handles
  BY <1>3
<1>7. refs \subseteq alloc \X alloc
  BY DEF Inv, Types
<1>8. Types'
  <2>1. /\ Prebuilt \subseteq alloc' /\ alloc' \subseteq All /\ refs' \subseteq alloc' \X alloc'
        /\ roots' \subseteq Obj /\ young' \subseteq Obj \cap alloc'
    BY <1>1, AllFacts DEF Inv, Types
  <2>2. weakrefs' \subseteq Obj \cap alloc'
    BY <1>1, <1>3, <1>4
  <2>3. doomed' \subseteq (Obj \cap alloc') \ young'
    BY <1>1, <1>2 DEF Inv, Types
  <2> QED
    BY <1>1, <2>1, <2>2, <2>3 DEF Inv, Types
<1>9. Closed'
  <2>1. Shut(Usable)'
    BY <1>1, <1>2, <1>7 DEF Inv, Closed, Shut
  <2> QED
    BY <1>1, <1>2, <2>1 DEF Inv, Closed
<1>10. Lists'
  BY <1>1, <1>2 DEF Inv, Lists
<1>11. Weak'
  <2>1. youngWeak' = young' \cap weakrefs'
    BY <1>1, <1>3, <1>4 DEF Inv, Weak
  <2>2. oldWeak' \subseteq (weakrefs' \cap Usable') \ young'
    BY <1>1, <1>2, <1>3 DEF Inv, Weak
  <2>3. \A w \in weakrefs' : target'[w] \in alloc' \cup {NULL}
    BY <1>1, <1>2, <1>5, <1>6 DEF Inv, Weak
  <2>4. \A w \in weakrefs' \ doomed' : target'[w] \in Usable' \cup {NULL}
    BY <1>1, <1>2, <1>5, <1>6 DEF Inv, Weak
  <2>5. \A w \in weakrefs' \ young' : target'[w] \notin young'
    <3>1. x # NULL
      BY AllFacts
    <3> QED
      BY <1>1, <1>5, <1>6, <3>1 DEF Inv, Weak
  <2>6. \A w \in weakrefs' \ (young' \cup oldWeak' \cup doomed') :
           target'[w] \in Prebuilt \cup {NULL}
    BY <1>1, <1>5, <1>6 DEF Inv, Weak
  <2> QED
    BY <2>1, <2>2, <2>3, <2>4, <2>5, <2>6 DEF Weak
<1>12. Phases'
  BY <1>1 DEF Inv, Phases
<1>13. Apart'
  <2> SUFFICES ASSUME NEW k \in 1 .. Len(queue)
               PROVE  \E D \in SUBSET (Usable \cup {x}) : Clear(D, k)'
    BY <1>1, <1>2 DEF Apart
  <2>1. PICK D \in SUBSET Usable : Clear(D, k)
    BY DEF Inv, Apart
  <2>2. Shut(D \cup {x})'
    BY <1>1, <1>7, <2>1 DEF Clear, Shut
  <2>3. Handles' \subseteq D \cup {x}
    BY <1>2, <2>1 DEF Clear
  <2>4. \A w \in weakrefs' \ doomed' : target'[w] \in (D \cup {x}) \cup {NULL}
    BY <1>1, <1>5, <1>6, <2>1 DEF Clear
  <2>5. queue[k] # x
    <3>1. queue[k] \in ToSet(queue)
      BY DEF ToSet, Inv, Types
    <3> QED
      BY <1>1, <3>1 DEF Inv, Lists, Usable
  <2>6. Clear(D \cup {x}, k)'
    BY <1>1, <2>1, <2>2, <2>3, <2>4, <2>5 DEF Clear
  <2> QED
    BY <2>6
<1> QED
  BY <1>8, <1>9, <1>10, <1>11, <1>12, <1>13 DEF Inv

LEMMA MallocInv == ASSUME Inv, NEW x \in Obj, Malloc(x) PROVE Inv'
<1>1. Born(x) /\ UNCHANGED <<weakrefs, target, youngWeak>>
  BY DEF Malloc
<1>2. target' \in [Obj -> All \cup {NULL}]
  BY <1>1 DEF Inv, Types
<1> QED
  BY <1>1, <1>2, BornInv

LEMMA MallocWeakrefInv ==
    ASSUME Inv, NEW w \in Obj, NEW t \in All, MallocWeakref(w, t) PROVE Inv'
<1>1. /\ t \in Handles /\ Born(w) /\ weakrefs' = weakrefs \cup {w}
      /\ target' = [target EXCEPT ![w] = t] /\ youngWeak' = youngWeak \cup {w}
  BY DEF MallocWeakref
<1>2. target' \in [Obj -> All \cup {NULL}]
  BY <1>1 DEF Inv, Types
<1> QED
  BY <1>1, <1>2, BornInv

-----------------------------------------------------------------------------
(* The calls of finalizers, and the sweep. *)

LEMMA TakeNextInv == ASSUME Inv, TakeNext, fired' \in BOOLEAN PROVE Inv'
<1>1. /\ alloc' = alloc /\ refs' = refs /\ weakrefs' = weakrefs /\ target' = target
      /\ roots' = roots /\ noHeapPtrs' = noHeapPtrs /\ final' = final /\ ignored' = ignored
      /\ young' = young /\ youngWeak' = youngWeak /\ oldWeak' = oldWeak
      /\ youngFinal' = youngFinal /\ oldFinal' = oldFinal
      /\ ordering' = ordering /\ gcState' = gcState /\ doomed' = doomed
  BY DEF TakeNext, heap, lists, major
<1>2. Usable' = Usable
  BY <1>1 DEF Usable
<1>3. queue \in Seq(Obj) /\ NULL \notin Obj
  BY AllFacts DEF Inv, Types
<1>4. CASE queue = <<>>
  <2>1. current' = NULL /\ queue' = queue /\ called' = called
    BY <1>4 DEF TakeNext
  <2>2. Handles' \subseteq Handles
    BY <1>1, <2>1 DEF Handles
  <2>3. Types'
    BY <1>1, <2>1 DEF Inv, Types
  <2>4. Closed'
    BY <1>1, <1>2, <2>2 DEF Inv, Closed, Shut
  <2>5. Lists'
    BY <1>1, <1>2, <2>1 DEF Inv, Lists
  <2>6. Weak'
    BY <1>1, <1>2 DEF Inv, Weak
  <2>7. Phases'
    BY <1>1 DEF Inv, Phases
  <2>8. Apart'
    BY <1>1, <1>2, <2>1, <2>2 DEF Inv, Apart, Clear, Shut
  <2> QED
    BY <2>3, <2>4, <2>5, <2>6, <2>7, <2>8 DEF Inv
<1>5. CASE queue # <<>>
  <2> DEFINE x == Head(queue)
  <2>1. current' = x /\ queue' = Tail(queue) /\ called' = called \cup {x}
    BY <1>5 DEF TakeNext
  <2>2. /\ x \in Obj /\ Tail(queue) \in Seq(Obj)
        /\ Len(queue) \in Nat /\ Len(queue) > 0 /\ Len(Tail(queue)) = Len(queue) - 1
        /\ x = queue[1] /\ \A i \in 1 .. Len(queue) - 1 : Tail(queue)[i] = queue[i + 1]
        /\ ToSet(queue) = {x} \cup ToSet(Tail(queue))
    BY <1>3, <1>5, HeadAndTail
  <2> HIDE DEF x
  <2>3. Handles' \subseteq Handles \cup {x}
    BY <1>1, <2>1 DEF Handles
  <2>4. x \in Usable /\ x \in final
    BY <2>2 DEF Inv, Lists
  <2>5. Types'
    BY <1>1, <2>1, <2>2, <2>4 DEF Inv, Types
  <2>6. Closed'
    BY <1>1, <1>2, <2>3, <2>4 DEF Inv, Closed, Shut
  <2>7. Lists'
    BY <1>1, <1>2, <2>1, <2>2 DEF Inv, Lists
  <2>8. Weak'
    BY <1>1, <1>2 DEF Inv, Weak
  <2>9. Phases'
    BY <1>1 DEF Inv, Phases
  <2>10. Apart'
    <3> SUFFICES ASSUME NEW k \in 1 .. Len(queue) - 1
                 PROVE  \E D \in SUBSET Usable : Clear(D, k)'
      BY <1>2, <2>1, <2>2 DEF Apart
    <3>1. k + 1 \in 1 .. Len(queue) /\ k \in Nat /\ (k + 1) - 1 = k /\ 1 \in 1 .. k
      BY <2>2
    <3>2. PICK D \in SUBSET Usable : Clear(D, k + 1)
      BY <3>1 DEF Inv, Apart
    <3>3. /\ Shut(D) /\ Handles \subseteq D
          /\ \A w \in weakrefs \ doomed : target[w] \in D \cup {NULL}
          /\ \A i \in 1 .. k : queue[i] \in D
          /\ queue[k + 1] \notin D
      BY <3>1, <3>2 DEF Clear
    <3>4. Shut(D)'
      BY <1>1, <3>3 DEF Shut
    <3>5. Handles' \subseteq D
      BY <2>2, <2>3, <3>1, <3>3
    <3>6. \A w \in weakrefs' \ doomed' : target'[w] \in D \cup {NULL}
      BY <1>1, <3>3
    <3>7. ASSUME NEW i \in 1 .. k - 1 PROVE queue'[i] \in D
      <4>1. i \in 1 .. Len(queue) - 1 /\ i + 1 \in 1 .. k
        BY <2>2, <3>1
      <4> QED
        BY <2>1, <2>2, <3>3, <4>1
    <3>8. queue'[k] \notin D
      BY <2>1, <2>2, <3>3
    <3> QED
      BY <3>4, <3>5, <3>6, <3>7, <3>8 DEF Clear
  <2> QED
    BY <2>5, <2>6, <2>7, <2>8, <2>9, <2>10 DEF Inv
<1> QED
  BY <1>4, <1>5

LEMMA CallerInv == Inv /\ Caller => Inv'
<1> SUFFICES ASSUME Inv, Caller PROVE Inv'
  OBVIOUS
<1>1. TakeNext /\ fired' \in BOOLEAN
  BY DEF Caller, Perform, Return, Collect, Inv, Types
<1> QED
  BY <1>1, TakeNextInv

LEMMA SweepInv == ASSUME Inv, NEW s \in States, SweepTo(s) PROVE Inv'
<1>1. /\ gcState = "SWEEPING" /\ young = {} /\ youngFinal = <<>>
      /\ alloc' = alloc \ doomed /\ refs' = {r \in refs : r[1] \notin doomed}
      /\ weakrefs' = weakrefs \ doomed /\ final' = final \ doomed
      /\ ignored' = ignored \ doomed /\ called' = called \ doomed
      /\ target' = [w \in Obj |-> IF w \in doomed THEN NULL ELSE target[w]]
      /\ doomed' = {} /\ gcState' = s
      /\ roots' = roots /\ noHeapPtrs' = noHeapPtrs /\ ordering' = ordering
      /\ queue' = queue /\ fired' = fired /\ current' = current
      /\ young' = young /\ youngWeak' = youngWeak /\ oldWeak' = oldWeak
      /\ youngFinal' = youngFinal /\ oldFinal' = oldFinal
  BY DEF SweepTo, StepAllowed, Free, lists
<1>2. Usable' = Usable /\ alloc' = Usable /\ Handles' = Handles
  BY <1>1 DEF Usable, Handles
<1>3. /\ Handles \subseteq Usable /\ Shut(Usable) /\ refs \subseteq alloc \X alloc
      /\ \A r \in refs : r[1] \notin noHeapPtrs
  BY DEF Inv, Closed, Types
<1>4. /\ weakrefs \subseteq Obj /\ weakrefs \subseteq alloc
      /\ \A w \in weakrefs' : w \in weakrefs \ doomed /\ target'[w] = target[w]
  BY <1>1 DEF Inv, Types
<1>5. Types'
  <2>1. refs' \subseteq Usable \X Usable
    <3>1. ASSUME NEW r \in refs' PROVE r \in Usable \X Usable
      <4>1. r \in refs /\ r \in alloc \X alloc /\ r[1] \notin doomed
        BY <1>1, <1>3
      <4>2. r[1] \in Usable
        BY <4>1 DEF Usable
      <4>3. r[2] \in Usable
        BY <1>3, <4>1, <4>2 DEF Shut
      <4> QED
        BY <4>1, <4>2, <4>3
    <3> QED
      BY <3>1
  <2>2. target' \in [Obj -> All \cup {NULL}]
    <3>1. \A w \in Obj : target[w] \in All \cup {NULL}
      BY DEF Inv, Types
    <3> QED
      BY <1>1, <3>1
  <2>3. Prebuilt \subseteq alloc'
    BY <1>2, <1>3 DEF Handles
  <2>4. /\ alloc' \subseteq All /\ roots' \subseteq Obj /\ noHeapPtrs' \subseteq Prebuilt
        /\ weakrefs' \subseteq Obj \cap alloc' /\ young' \subseteq Obj \cap alloc'
        /\ final' \subseteq Obj \cap alloc' /\ ignored' \subseteq final' /\ called' \subseteq final'
        /\ doomed' \subseteq (Obj \cap alloc') \ young'
    BY <1>1 DEF Inv, Types
  <2> QED
    BY <1>1, <1>2, <2>1, <2>2, <2>3, <2>4 DEF Inv, Types
<1>6. Closed'
  BY <1>1, <1>2, <1>3 DEF Closed, Shut
<1>7. Lists'
  BY <1>1, <1>2 DEF Inv, Lists, Usable
<1>8. Weak'
  <2>1. /\ youngWeak = young \cap weakrefs
        /\ oldWeak \subseteq (weakrefs \cap Usable) \ young
        /\ \A w \in weakrefs \ doomed : target[w] \in Usable \cup {NULL}
        /\ \A w \in weakrefs \ (young \cup oldWeak \cup doomed) :
              target[w] \in Prebuilt \cup {NULL}
    BY DEF Inv, Weak
  <2>2. oldWeak \subseteq weakrefs'
    BY <1>1, <2>1 DEF Usable
  <2> QED
    BY <1>1, <1>2, <1>4, <2>1, <2>2 DEF Weak
<1>9. Phases'
  BY <1>1 DEF Inv, Phases
<1>10. Apart'
  <2> SUFFICES ASSUME NEW k \in 1 .. Len(queue)
               PROVE  \E D \in SUBSET Usable : Clear(D, k)'
    BY <1>1, <1>2 DEF Apart
  <2>1. PICK D \in SUBSET Usable : Clear(D, k)
    BY DEF Inv, Apart
  <2>2. Shut(D)'
    BY <1>1, <2>1 DEF Clear, Shut
  <2>3. Clear(D, k)'
    BY <1>1, <1>2, <1>4, <2>1, <2>2 DEF Clear
  <2> QED
    BY <2>3
<1> QED
  BY <1>5, <1>6, <1>7, <1>8, <1>9, <1>10 DEF Inv

LEMMA ExecuteFinalizersInv == Inv /\ ExecuteFinalizers => Inv'
<1> SUFFICES ASSUME Inv, ExecuteFinalizers PROVE Inv'
  OBVIOUS
<1>1. /\ gcState = "FINALIZING" /\ gcState' = "MARKING" /\ fired' = (fired \/ queue # <<>>)
      /\ alloc' = alloc /\ refs' = refs /\ weakrefs' = weakrefs /\ target' = target
      /\ roots' = roots /\ noHeapPtrs' = noHeapPtrs /\ final' = final /\ ignored' = ignored
      /\ young' = young /\ youngWeak' = youngWeak /\ oldWeak' = oldWeak
      /\ youngFinal' = youngFinal /\ oldFinal' = oldFinal
      /\ ordering' = ordering /\ doomed' = doomed
      /\ queue' = queue /\ current' = current /\ called' = called
  BY DEF ExecuteFinalizers, StepAllowed, heap, lists
<1>2. Usable' = Usable /\ Handles' = Handles
  BY <1>1 DEF Usable, Handles
<1>3. Types'
  <2>1. fired' \in BOOLEAN /\ gcState' \in States
    BY <1>1 DEF States
  <2> QED
    BY <1>1, <2>1 DEF Inv, Types
<1>4. Closed'
  BY <1>1, <1>2 DEF Inv, Closed, Shut
<1>5. Lists'
  BY <1>1, <1>2 DEF Inv, Lists
<1>6. Weak'
  BY <1>1, <1>2 DEF Inv, Weak
<1>7. Phases'
  BY <1>1 DEF Inv, Phases
<1>8. Apart'
  BY <1>1, <1>2 DEF Inv, Apart, Clear, Shut
<1> QED
  BY <1>3, <1>4, <1>5, <1>6, <1>7, <1>8 DEF Inv

-----------------------------------------------------------------------------
(* The minor collection. *)

LEMMA StillFacts ==
    ASSUME NEW list \in Seq(Obj)
    PROVE  /\ StillToFinalize(list) \in Seq(Obj)
           /\ ToSet(StillToFinalize(list)) = ToSet(list) \ ignored
<1> DEFINE n == Len(list)
           Seen(i) == {list[m] : m \in 1 .. i}
           J == [i \in 0 .. n |-> {s \in Seq(Obj) : ToSet(s) = Seen(i) \ ignored}]
<1>1. n \in Nat /\ DOMAIN list = 1 .. n /\ \A i \in 1 .. n : list[i] \in Obj
  OBVIOUS
<1>2. <<>> \in J[0]
  <2>1. 0 \in 0 .. n /\ <<>> \in Seq(Obj) /\ ToSet(<<>>) = {}
    BY <1>1 DEF ToSet
  <2>2. Seen(0) = {}
    OBVIOUS
  <2> QED
    BY <2>1, <2>2
<1>3. ASSUME NEW i \in 1 .. n, NEW s \in J[i - 1] PROVE Still(s, list[i]) \in J[i]
  <2>1. i - 1 \in 0 .. n /\ i \in 0 .. n /\ list[i] \in Obj
    BY <1>1
  <2>2. s \in Seq(Obj) /\ ToSet(s) = Seen(i - 1) \ ignored
    BY <2>1
  <2>3. Seen(i) = Seen(i - 1) \cup {list[i]}
    <3>1. \A m : m \in 1 .. i <=> m \in 1 .. i - 1 \/ m = i
      BY <1>1
    <3> QED
      BY <3>1
  <2> HIDE DEF Seen
  <2>4. CASE list[i] \in ignored
    BY <2>1, <2>2, <2>3, <2>4 DEF Still
  <2>5. CASE list[i] \notin ignored
    <3>1. Append(s, list[i]) \in Seq(Obj)
      BY <2>1, <2>2
    <3>2. ToSet(Append(s, list[i])) = ToSet(s) \cup {list[i]}
      BY <2>2, SetAppend
    <3> QED
      BY <2>1, <2>2, <2>3, <2>5, <3>1, <3>2 DEF Still
  <2> QED
    BY <2>4, <2>5
<1>4. StillToFinalize(list) \in J[n]
  <2> HIDE DEF J
  <2> QED
    BY <1>2, <1>3, StillFold DEF StillToFinalize
<1>5. Seen(n) = ToSet(list) /\ n \in 0 .. n
  BY <1>1 DEF ToSet
<1> QED
  BY <1>4, <1>5

LEMMA SurvivorsFacts ==
    ASSUME Inv
    PROVE  /\ Survivors \subseteq young
           /\ Handles \cap young \subseteq Survivors
           /\ (ToSet(youngFinal) \ ignored) \cap young \subseteq Survivors
           /\ \A r \in refs : r[1] \in alloc /\ (r[1] \notin young \/ r[1] \in Survivors)
                                 /\ r[2] \in young => r[2] \in Survivors
<1> DEFINE A == Handles \cup Children(alloc \ young) \cup ToSet(StillToFinalize(youngFinal))
<1>1. young \subseteq All /\ youngFinal \in Seq(Obj)
  BY AllFacts DEF Inv, Types
<1>2. Survivors = ReachedWithin(A, young)
  BY DEF Survivors
<1> HIDE DEF A
<1>3. /\ Survivors \subseteq young /\ A \cap young \subseteq Survivors
      /\ Children(Survivors) \cap young \subseteq Survivors
  BY <1>1, <1>2, Reached
<1>4. ToSet(StillToFinalize(youngFinal)) = ToSet(youngFinal) \ ignored
  BY <1>1, StillFacts
<1>5. ASSUME NEW r \in refs, r[1] \in alloc, r[1] \notin young \/ r[1] \in Survivors, r[2] \in young
      PROVE  r[2] \in Survivors
  <2>1. CASE r[1] \notin young
    <3>1. r[2] \in Children(alloc \ young)
      BY <1>5, <2>1 DEF Children
    <3> QED
      BY <1>3, <1>5, <3>1 DEF A
  <2>2. CASE r[1] \in Survivors
    <3>1. r[2] \in Children(Survivors)
      BY <2>2 DEF Children
    <3> QED
      BY <1>3, <1>5, <3>1
  <2> QED
    BY <1>5, <2>1, <2>2
<1>6. Handles \cap young \subseteq Survivors
  BY <1>3 DEF A
<1>7. (ToSet(youngFinal) \ ignored) \cap young \subseteq Survivors
  BY <1>3, <1>4 DEF A
<1> QED
  BY <1>3, <1>5, <1>6, <1>7

LEMMA MinorInv == Inv /\ Minor => Inv'
<1> SUFFICES ASSUME Inv, Minor PROVE Inv'
  OBVIOUS
<1> DEFINE weak == youngWeak \cap Survivors
           dead == young \ Survivors
<1>1. /\ alloc' = alloc \ dead /\ refs' = {r \in refs : r[1] \notin dead}
      /\ weakrefs' = weakrefs \ dead /\ final' = final \ dead
      /\ ignored' = ignored \ dead /\ called' = called \ dead
      /\ target' = [w \in Obj |-> IF w \in dead \/ (w \in weak /\ ~Valid(w))
                                  THEN NULL ELSE target[w]]
      /\ young' = {} /\ youngWeak' = {}
      /\ oldWeak' = oldWeak \cup {w \in weak : Remembered(w)}
      /\ youngFinal' = <<>> /\ oldFinal' = oldFinal \o StillToFinalize(youngFinal)
      /\ roots' = roots /\ noHeapPtrs' = noHeapPtrs /\ ordering' = ordering
      /\ gcState' = gcState /\ doomed' = doomed
      /\ queue' = queue /\ fired' = fired /\ current' = current
  BY DEF Minor, Free, major
<1>2. \A w : (Valid(w) <=> target[w] \notin dead)
             /\ (Remembered(w) <=> target[w] \notin dead /\ target[w] \notin noHeapPtrs)
  BY DEF Valid, Remembered
<1>3. /\ Survivors \subseteq young /\ dead \subseteq young
      /\ Handles \cap dead = {}
      /\ (ToSet(youngFinal) \ ignored) \cap dead = {}
      /\ \A r \in refs : r[1] \in alloc /\ r[1] \notin dead => r[2] \notin dead
      /\ \A w : w \in young /\ w \notin dead => w \in Survivors
  BY SurvivorsFacts
<1>4. /\ StillToFinalize(youngFinal) \in Seq(Obj)
      /\ ToSet(StillToFinalize(youngFinal)) = ToSet(youngFinal) \ ignored
  BY StillFacts DEF Inv, Types
<1>5. weak = youngWeak \ dead
  BY <1>3 DEF Inv, Weak
<1> HIDE DEF weak, dead
<1>6. /\ Usable' = Usable \ dead /\ Handles' = Handles
      /\ Usable \subseteq alloc /\ dead \cap doomed = {}
  <2>1. Usable' = Usable \ dead /\ Handles' = Handles /\ Usable \subseteq alloc
    BY <1>1 DEF Usable, Handles
  <2>2. dead \cap doomed = {}
    BY <1>3 DEF Inv, Types
  <2> QED
    BY <2>1, <2>2
<1>7. \A w \in weakrefs' : target'[w] = IF target[w] \in dead THEN NULL ELSE target[w]
  <2> SUFFICES ASSUME NEW w \in weakrefs'
               PROVE  target'[w] = IF target[w] \in dead THEN NULL ELSE target[w]
    OBVIOUS
  <2>1. w \in weakrefs /\ w \notin dead /\ w \in Obj
    BY <1>1 DEF Inv, Types
  <2>2. target'[w] = IF w \in weak /\ target[w] \in dead THEN NULL ELSE target[w]
    BY <1>1, <1>2, <2>1
  <2>3. w \notin weak => target[w] \notin dead
    <3>1. w \notin weak => w \notin young
      BY <1>5, <2>1 DEF Inv, Weak
    <3>2. w \notin young => target[w] \notin young
      BY <2>1 DEF Inv, Weak
    <3> QED
      BY <1>3, <3>1, <3>2
  <2> QED
    BY <2>2, <2>3
<1>8. refs \subseteq alloc \X alloc
  BY DEF Inv, Types
<1>9. Types'
  <2>1. refs' \subseteq alloc' \X alloc'
    <3>1. ASSUME NEW r \in refs' PROVE r \in alloc' \X alloc'
      <4>1. r \in refs /\ r \in alloc \X alloc /\ r[1] \notin dead
        BY <1>1, <1>8
      <4>2. r[2] \notin dead
        BY <1>3, <4>1
      <4> QED
        BY <1>1, <4>1, <4>2
    <3> QED
      BY <3>1
  <2>2. target' \in [Obj -> All \cup {NULL}]
    <3>1. \A w \in Obj : target[w] \in All \cup {NULL}
      BY DEF Inv, Types
    <3> QED
      BY <1>1, <3>1
  <2>3. Prebuilt \subseteq alloc'
    <3>1. Prebuilt \subseteq Handles /\ Prebuilt \subseteq alloc
      BY DEF Inv, Types, Handles
    <3> QED
      BY <1>1, <1>3, <3>1
  <2>4. oldFinal' \in Seq(Obj) /\ youngFinal' \in Seq(Obj)
    <3>1. oldFinal \in Seq(Obj)
      BY DEF Inv, Types
    <3> QED
      BY <1>1, <1>4, <3>1
  <2>5. /\ alloc' \subseteq All /\ roots' \subseteq Obj /\ noHeapPtrs' \subseteq Prebuilt
        /\ weakrefs' \subseteq Obj \cap alloc' /\ young' \subseteq Obj \cap alloc'
        /\ final' \subseteq Obj \cap alloc' /\ ignored' \subseteq final' /\ called' \subseteq final'
    BY <1>1 DEF Inv, Types
  <2>6. doomed' \subseteq (Obj \cap alloc') \ young'
    BY <1>1, <1>6 DEF Inv, Types
  <2>7. /\ gcState' \in States /\ current' \in Obj \cup {NULL} /\ queue' \in Seq(Obj)
        /\ fired' \in BOOLEAN
    BY <1>1 DEF Inv, Types
  <2> QED
    BY <2>1, <2>2, <2>3, <2>4, <2>5, <2>6, <2>7 DEF Types
<1>10. Closed'
  <2>1. Handles' \subseteq Usable'
    BY <1>3, <1>6 DEF Inv, Closed
  <2>2. Shut(Usable)'
    <3> SUFFICES ASSUME NEW r \in refs', r[1] \in Usable' PROVE r[2] \in Usable'
      BY DEF Shut
    <3>1. r \in refs /\ r[1] \in Usable /\ r[1] \notin dead
      BY <1>1, <1>6
    <3>2. r[2] \in Usable
      BY <3>1 DEF Inv, Closed, Shut
    <3>3. r[2] \notin dead
      BY <1>3, <1>6, <3>1
    <3> QED
      BY <1>6, <3>2, <3>3
  <2>3. \A r \in refs' : r[1] \notin noHeapPtrs'
    BY <1>1 DEF Inv, Closed
  <2> QED
    BY <2>1, <2>2, <2>3 DEF Closed
<1>11. Lists'
  <2>1. ToSet(oldFinal') = ToSet(oldFinal) \cup (ToSet(youngFinal) \ ignored)
    <3>1. oldFinal \in Seq(Obj)
      BY DEF Inv, Types
    <3> QED
      BY <1>1, <1>4, <3>1, SetConcat
  <2>2. ToSet(youngFinal') = {}
    BY <1>1 DEF ToSet
  <2>3. ToSet(queue) \cup ToSet(oldFinal) \subseteq (final \cap Usable) \ dead
    BY <1>3 DEF Inv, Lists
  <2>4. ToSet(youngFinal) \ ignored \subseteq (final \cap Usable) \ dead
    BY <1>3 DEF Inv, Lists
  <2>5. ToSet(queue') \cup ToSet(oldFinal') \subseteq (final' \cap Usable') \ young'
    BY <1>1, <1>6, <2>1, <2>3, <2>4
  <2>6. final' \subseteq called' \cup ignored' \cup ToSet(queue') \cup ToSet(oldFinal')
    <3> SUFFICES ASSUME NEW x \in final'
                 PROVE  x \in called' \cup ignored' \cup ToSet(queue') \cup ToSet(oldFinal')
      OBVIOUS
    <3>1. x \in final /\ x \notin dead
      BY <1>1
    <3>2. \/ x \in called \cup ignored \/ x \in ToSet(queue) \cup ToSet(oldFinal)
          \/ x \in ToSet(youngFinal)
      BY <3>1 DEF Inv, Lists
    <3> QED
      BY <1>1, <2>1, <3>1, <3>2
  <2> QED
    BY <2>2, <2>5, <2>6 DEF Lists
<1>12. Weak'
  <2>1. \A w \in weakrefs' : w \in weakrefs /\ w \notin dead /\ w \in Obj
    BY <1>1 DEF Inv, Types
  <2>2. oldWeak' \subseteq (weakrefs' \cap Usable') \ young'
    <3>1. oldWeak \subseteq (weakrefs \cap Usable) \ dead
      BY <1>3 DEF Inv, Weak
    <3>2. weak \subseteq (weakrefs \cap Usable) \ dead
      <4>1. youngWeak \subseteq weakrefs /\ youngWeak \subseteq young
        BY DEF Inv, Weak
      <4>2. young \subseteq Usable
        BY DEF Inv, Types, Usable
      <4> QED
        BY <1>5, <4>1, <4>2
    <3> QED
      BY <1>1, <1>6, <3>1, <3>2
  <2>3. \A w \in weakrefs' : target'[w] \in alloc' \cup {NULL}
    <3>1. \A w \in weakrefs : target[w] \in alloc \cup {NULL}
      BY DEF Inv, Weak
    <3> QED
      BY <1>1, <1>7, <2>1, <3>1
  <2>4. \A w \in weakrefs' \ doomed' : target'[w] \in Usable' \cup {NULL}
    <3>1. \A w \in weakrefs \ doomed : target[w] \in Usable \cup {NULL}
      BY DEF Inv, Weak
    <3> QED
      BY <1>1, <1>6, <1>7, <2>1, <3>1
  <2>5. \A w \in weakrefs' \ (young' \cup oldWeak' \cup doomed') :
           target'[w] \in Prebuilt \cup {NULL}
    <3> SUFFICES ASSUME NEW w \in weakrefs', w \notin oldWeak', w \notin doomed
                 PROVE  target'[w] \in Prebuilt \cup {NULL}
      BY <1>1
    <3>1. w \in weakrefs /\ w \notin dead /\ w \notin oldWeak
      BY <1>1, <2>1
    <3>2. CASE w \notin young
      <4>1. target[w] \in Prebuilt \cup {NULL}
        BY <3>1, <3>2 DEF Inv, Weak
      <4> QED
        BY <1>7, <4>1
    <3>3. CASE w \in young
      <4>1. w \in weak
        BY <1>5, <3>1, <3>3 DEF Inv, Weak
      <4>2. ~Remembered(w)
        BY <1>1, <4>1
      <4>3. target[w] \in dead \/ target[w] \in noHeapPtrs
        BY <1>2, <4>2
      <4>4. noHeapPtrs \subseteq Prebuilt
        BY DEF Inv, Types
      <4> QED
        BY <1>7, <4>3, <4>4
    <3> QED
      BY <3>2, <3>3
  <2>6. youngWeak' = young' \cap weakrefs' /\ \A w \in weakrefs' \ young' : target'[w] \notin young'
    BY <1>1
  <2> QED
    BY <2>2, <2>3, <2>4, <2>5, <2>6 DEF Weak
<1>13. Phases'
  BY <1>1 DEF Inv, Phases
<1>14. Apart'
  <2> SUFFICES ASSUME NEW k \in 1 .. Len(queue)
               PROVE  \E D \in SUBSET (Usable \ dead) : Clear(D, k)'
    BY <1>1, <1>6 DEF Apart
  <2>1. PICK D \in SUBSET Usable : Clear(D, k)
    BY DEF Inv, Apart
  <2>0. PICK E \in SUBSET (Usable \ dead) : E = D \ dead
    OBVIOUS
  <2>2. Shut(E)'
    <3> SUFFICES ASSUME NEW r \in refs', r[1] \in E PROVE r[2] \in E
      BY DEF Shut
    <3>1. r \in refs /\ r[1] \in D /\ r[1] \notin dead /\ r[1] \in alloc
      BY <1>1, <1>6, <2>0
    <3>2. r[2] \in D
      BY <2>1, <3>1 DEF Clear, Shut
    <3> QED
      BY <1>3, <2>0, <3>1, <3>2
  <2>3. Handles' \subseteq E
    BY <1>3, <1>6, <2>0, <2>1 DEF Clear
  <2>4. \A w \in weakrefs' \ doomed' : target'[w] \in E \cup {NULL}
    BY <1>1, <1>7, <2>0, <2>1 DEF Clear
  <2>5. \A i \in 1 .. k - 1 : queue'[i] \in E
    <3> SUFFICES ASSUME NEW i \in 1 .. k - 1 PROVE queue[i] \in E
      BY <1>1
    <3>1. queue \in Seq(Obj) /\ i \in DOMAIN queue
      BY DEF Inv, Types
    <3>2. queue[i] \in ToSet(queue)
      BY <3>1 DEF ToSet
    <3>3. queue[i] \notin young
      BY <3>2 DEF Inv, Lists
    <3>4. queue[i] \in D
      BY <2>1 DEF Clear
    <3> QED
      BY <1>3, <2>0, <3>3, <3>4
  <2>6. queue'[k] \notin E
    BY <1>1, <2>0, <2>1 DEF Clear
  <2>7. Clear(E, k)'
    BY <2>2, <2>3, <2>4, <2>5, <2>6 DEF Clear
  <2> QED
    BY <2>7
<1> QED
  BY <1>9, <1>10, <1>11, <1>12, <1>13, <1>14 DEF Inv

-----------------------------------------------------------------------------
(* What leads to what. *)

LEMMA LeadsFacts ==
    /\ \A a \in All : Leads(a, a)
    /\ \A a, b, c : Leads(a, b) /\ Leads(b, c) => Leads(a, c)
    /\ \A D, a, b : Shut(D) /\ a \in D /\ Leads(a, b) => b \in D
<1> DEFINE R(a) == ReachedWithin({a}, All)
<1>1. \A a, b : Leads(a, b) <=> b \in R(a)
  BY DEF Leads
<1>2. \A a : /\ R(a) \subseteq All /\ {a} \cap All \subseteq R(a)
             /\ Children(R(a)) \cap All \subseteq R(a)
             /\ \A T : {a} \cap All \subseteq T /\ Children(T) \cap All \subseteq T
                          => R(a) \subseteq T
  BY Reached
<1> HIDE DEF R
<1>3. \A a, b : b \in R(a) => R(b) \subseteq R(a)
  BY <1>2
<1>4. ASSUME NEW D, NEW a, NEW b, Shut(D), a \in D, b \in R(a) PROVE b \in D
  <2>1. Children(D) \subseteq D
    BY <1>4, ShutChildren
  <2>2. {a} \cap All \subseteq D /\ Children(D) \cap All \subseteq D
    BY <1>4, <2>1
  <2> QED
    BY <1>2, <1>4, <2>2
<1> QED
  BY <1>1, <1>2, <1>3, <1>4

\* What is reached from x through objects of U only is reached from x.
LEMMA ReachedIsLed ==
    ASSUME NEW A, NEW U, U \subseteq All, NEW x \in All, \A o \in A \cap U : Leads(x, o)
    PROVE  \A o \in ReachedWithin(A, U) : Leads(x, o)
<1> DEFINE R == ReachedWithin({x}, All)
<1>1. \A o : Leads(x, o) <=> o \in R
  BY DEF Leads
<1>2. Children(R) \cap All \subseteq R
  BY Reached
<1> HIDE DEF R
<1>3. A \cap U \subseteq R /\ Children(R) \cap U \subseteq R
  BY <1>1, <1>2
<1>4. ReachedWithin(A, U) \subseteq R
  BY <1>3, Reached
<1> QED
  BY <1>1, <1>4

-----------------------------------------------------------------------------
(* The first loop of deal_with_objects_with_finalizers. *)

\* The states of the two loops.
Passes == [seen : SUBSET All, ordering : SUBSET All,
           marked : Seq(Obj), keep : Seq(Obj), run : Seq(Obj)]

\* The changes of state in a walk from x.
From0to1(s, x) == ReachedWithin({x}, All \ (s.seen \cup s.ordering))
From1to2(s, x) == ReachedWithin({x}, All \ (s.seen \cup noHeapPtrs))
From2to3(s, x) == ReachedWithin(Children(From0to1(s, x)) \cap s.seen,
                                s.ordering \cup From0to1(s, x))

\* What is marked, and what is in state 3.
Settled(S, s) == (s.seen \ s.ordering) \cup S

\* S is what has been marked before the loops.
Ground(S) ==
    /\ S \subseteq All /\ Shut(S) /\ Prebuilt \subseteq S
    /\ noHeapPtrs \subseteq Prebuilt /\ refs \subseteq All \X All
    /\ \A r \in refs : r[1] \notin noHeapPtrs
    /\ ordering \subseteq Prebuilt /\ oldFinal \in Seq(Obj)

Coloured(S, s) ==
    /\ s \in Passes
    /\ S \subseteq s.seen \cup noHeapPtrs
    /\ Shut(s.seen \cup S)
    /\ Shut(Settled(S, s))
    /\ s.ordering \subseteq s.seen \cup noHeapPtrs
    /\ s.ordering \cap S \subseteq Prebuilt

Places(s) == 1 .. Len(s.marked)

\* No other object of `marked' leads to the k-th.
Alone(s, k) == \A j \in Places(s) : j # k => ~Leads(s.marked[j], s.marked[k])

\* Those that no other one leads to are in state 2, and everything that is found dying is
\* found from one of `marked'.
Ordered(S, s) ==
    /\ \A k \in Places(s) : s.marked[k] \in s.seen \ S
    /\ \A j, k \in Places(s) : j < k => ~Leads(s.marked[j], s.marked[k])
    /\ \A k \in Places(s) : s.marked[k] \in s.ordering <=> Alone(s, k)
    /\ \A o \in s.seen \ S : \E k \in Places(s) : Leads(s.marked[k], o)

LEMMA PassFacts ==
    ASSUME NEW s \in Passes
    PROVE  /\ s.seen \subseteq All /\ s.ordering \subseteq All
           /\ s.marked \in Seq(Obj) /\ s.keep \in Seq(Obj) /\ s.run \in Seq(Obj)
           /\ Len(s.marked) \in Nat /\ \A k \in Places(s) : s.marked[k] \in Obj
  BY DEF Passes, Places

\* A walk from an object that has not been seen.
LEMMA WalkReaches ==
    ASSUME NEW S, Ground(S), NEW s, Coloured(S, s), NEW x \in Obj, x \notin s.seen
    PROVE  /\ x \notin S /\ x \notin s.ordering
           /\ x \in From0to1(s, x) /\ x \in From1to2(s, x)
           /\ From0to1(s, x) \cap s.seen = {} /\ From0to1(s, x) \cap s.ordering = {}
           /\ From0to1(s, x) \subseteq All
           /\ \A r \in refs : r[1] \in From0to1(s, x) =>
                 r[2] \in From0to1(s, x) \cup s.seen \cup s.ordering
           /\ From1to2(s, x) \subseteq From0to1(s, x)
           /\ From0to1(s, x) \subseteq From1to2(s, x) \cup noHeapPtrs
           /\ \A o \in From0to1(s, x) : Leads(x, o)
<1> DEFINE A == From0to1(s, x)
           B == From1to2(s, x)
           U == All \ (s.seen \cup s.ordering)
           V == All \ (s.seen \cup noHeapPtrs)
<1>1. x \notin noHeapPtrs /\ x \notin S /\ x \notin s.ordering /\ x \in All
  BY AllFacts DEF Ground, Coloured
<1>2. x \in U /\ x \in V
  BY <1>1
<1>3. /\ A \subseteq U /\ {x} \cap U \subseteq A /\ Children(A) \cap U \subseteq A
      /\ \A T : {x} \cap U \subseteq T /\ Children(T) \cap U \subseteq T => A \subseteq T
  BY Reached DEF From0to1
<1>4. /\ B \subseteq V /\ {x} \cap V \subseteq B /\ Children(B) \cap V \subseteq B
      /\ \A T : {x} \cap V \subseteq T /\ Children(T) \cap V \subseteq T => B \subseteq T
  BY Reached DEF From1to2
<1>5. \A o \in A : Leads(x, o)
  <2>1. \A o \in {x} \cap U : Leads(x, o)
    BY <1>1, LeadsFacts
  <2> HIDE DEF U
  <2>2. A = ReachedWithin({x}, U) /\ U \subseteq All
    BY DEF From0to1, U
  <2> QED
    BY <1>1, <2>1, <2>2, ReachedIsLed
<1>6. s.ordering \subseteq s.seen \cup noHeapPtrs
  BY DEF Coloured
<1>7. refs \subseteq All \X All /\ \A r \in refs : r[1] \notin noHeapPtrs
  BY DEF Ground
<1> HIDE DEF A, B
<1>8. B \subseteq A
  <2>1. Children(A) \cap V \subseteq A
    BY <1>3, <1>6
  <2>2. {x} \cap V \subseteq A
    BY <1>2, <1>3
  <2> HIDE DEF U, V
  <2> QED
    BY <1>4, <2>1, <2>2
<1>9. A \subseteq B \cup noHeapPtrs
  <2> DEFINE T == B \cup noHeapPtrs
  <2>1. Children(T) \cap U \subseteq T
    <3> SUFFICES ASSUME NEW r \in refs, r[1] \in T, r[2] \in U PROVE r[2] \in T
      BY DEF Children
    <3>1. r[1] \in B
      BY <1>7
    <3>2. r[2] \in Children(B)
      BY <3>1 DEF Children
    <3> QED
      BY <1>4, <3>2
  <2>2. {x} \cap U \subseteq T
    BY <1>2, <1>4
  <2> HIDE DEF T
  <2>3. A \subseteq T
    BY <1>3, <2>1, <2>2
  <2> QED
    BY <2>3 DEF T
<1>10. ASSUME NEW r \in refs, r[1] \in A PROVE r[2] \in A \cup s.seen \cup s.ordering
  <2>1. r[2] \in Children(A) /\ r[2] \in All
    BY <1>7, <1>10 DEF Children
  <2> QED
    BY <1>3, <2>1
<1>11. x \in A /\ x \in B
  BY <1>2, <1>3, <1>4
<1>12. A \cap s.seen = {} /\ A \cap s.ordering = {} /\ A \subseteq All
  BY <1>3
<1> QED
  BY <1>1, <1>5, <1>8, <1>9, <1>10, <1>11, <1>12 DEF A, B

LEMMA WalkClears ==
    ASSUME NEW S, Ground(S), NEW s, Coloured(S, s), NEW x \in Obj, x \notin s.seen
    PROVE  /\ From2to3(s, x) \subseteq s.ordering \cup From0to1(s, x)
           /\ From2to3(s, x) \subseteq s.seen \cup S
           /\ \A r \in refs : r[1] \in From0to1(s, x) /\ r[2] \in s.seen \cap s.ordering
                                 => r[2] \in From2to3(s, x)
           /\ \A r \in refs : r[1] \in From2to3(s, x)
                                 => r[2] \in From2to3(s, x) \cup Settled(S, s)
           /\ \A o \in From2to3(s, x) : Leads(x, o)
<1> DEFINE A == From0to1(s, x)
           F == s.ordering \cup A
           G == Children(A) \cap s.seen
           B == From2to3(s, x)
<1>1. /\ A \cap s.seen = {} /\ A \subseteq All /\ \A o \in A : Leads(x, o)
      /\ \A r \in refs : r[1] \in A => r[2] \in A \cup s.seen \cup s.ordering
  BY WalkReaches
<1>2. B = ReachedWithin(G, F)
  BY DEF From2to3
<1> HIDE DEF A, B
<1>3. F \subseteq All /\ x \in All
  BY <1>1, AllFacts, PassFacts DEF Coloured
<1>4. /\ B \subseteq F /\ G \cap F \subseteq B /\ Children(B) \cap F \subseteq B
      /\ \A T : G \cap F \subseteq T /\ Children(T) \cap F \subseteq T => B \subseteq T
  <2> HIDE DEF G, F
  <2> QED
    BY <1>2, <1>3, Reached
<1>5. B \subseteq s.seen \cup S
  <2> DEFINE T == s.seen \cup S
  <2>1. Shut(T)
    BY DEF Coloured
  <2>2. G \cap F \subseteq T
    OBVIOUS
  <2> HIDE DEF T, G, F
  <2>3. Children(T) \cap F \subseteq T
    BY <2>1, ShutChildren
  <2>4. B \subseteq T
    BY <1>4, <2>2, <2>3
  <2> QED
    BY <2>4 DEF T
<1>6. ASSUME NEW r \in refs, r[1] \in A, r[2] \in s.seen \cap s.ordering PROVE r[2] \in B
  <2>1. r[2] \in Children(A)
    BY <1>6 DEF Children
  <2> QED
    BY <1>4, <1>6, <2>1
<1>7. ASSUME NEW r \in refs, r[1] \in B PROVE r[2] \in B \cup Settled(S, s)
  <2>1. r[2] \in s.seen \cup S
    BY <1>5, <1>7 DEF Coloured, Shut
  <2>2. r[2] \in Children(B)
    BY <1>7 DEF Children
  <2>3. r[2] \in F => r[2] \in B
    BY <1>4, <2>2
  <2> QED
    BY <2>1, <2>3 DEF Settled
<1>8. \A o \in B : Leads(x, o)
  <2>1. ASSUME NEW o \in G PROVE Leads(x, o)
    <3>1. PICK r \in refs : r[1] \in A /\ r[2] = o
      BY DEF Children
    <3>2. Leads(x, r[1])
      BY <1>1, <3>1
    <3>3. Leads(r[1], o)
      <4> DEFINE R == ReachedWithin({r[1]}, All)
      <4>1. {r[1]} \cap All \subseteq R /\ Children(R) \cap All \subseteq R
        BY Reached
      <4>2. r[1] \in All /\ o \in All
        BY <1>1, <3>1 DEF Ground
      <4> HIDE DEF R
      <4>3. r[1] \in R
        BY <4>1, <4>2
      <4>4. o \in Children(R)
        BY <3>1, <4>3 DEF Children
      <4>5. o \in R
        BY <4>1, <4>2, <4>4
      <4> QED
        BY <4>5 DEF R, Leads
    <3> QED
      BY <3>2, <3>3, LeadsFacts
  <2>2. \A o \in G \cap F : Leads(x, o)
    BY <2>1
  <2> HIDE DEF G, F
  <2> QED
    BY <1>2, <1>3, <2>2, ReachedIsLed
<1> QED
  BY <1>4, <1>5, <1>6, <1>7, <1>8 DEF A, B

LEMMA WalkResult ==
    ASSUME NEW s \in Passes, NEW x \in Obj
    PROVE  /\ x \in ignored => Walk(s, x) = s
           /\ x \notin ignored /\ x \in s.seen =>
                /\ Walk(s, x) \in Passes
                /\ Walk(s, x).seen = s.seen /\ Walk(s, x).ordering = s.ordering
                /\ Walk(s, x).marked = s.marked /\ Walk(s, x).run = s.run
                /\ Walk(s, x).keep = Append(s.keep, x)
           /\ x \notin ignored /\ x \notin s.seen =>
                /\ Walk(s, x) \in Passes
                /\ Walk(s, x).seen = s.seen \cup From1to2(s, x)
                /\ Walk(s, x).ordering =
                      (s.ordering \cup From0to1(s, x)) \ From2to3(s, x)
                /\ Walk(s, x).marked = Append(s.marked, x)
                /\ Walk(s, x).run = s.run /\ Walk(s, x).keep = s.keep
<1>1. CASE x \in ignored
  BY <1>1 DEF Walk
<1>2. CASE x \notin ignored /\ x \in s.seen
  <2>1. Walk(s, x) = [s EXCEPT !.keep = Append(@, x)]
    BY <1>2 DEF Walk
  <2>2. Append(s.keep, x) \in Seq(Obj)
    BY PassFacts
  <2> QED
    BY <1>2, <2>1, <2>2 DEF Passes
<1>3. CASE x \notin ignored /\ x \notin s.seen
  <2> DEFINE new == s.seen \cup From1to2(s, x)
             flags == (s.ordering \cup From0to1(s, x)) \ From2to3(s, x)
  <2>1. Walk(s, x) = [s EXCEPT !.seen = @ \cup From1to2(s, x), !.ordering = flags,
                               !.marked = Append(@, x)]
    BY <1>3 DEF Walk, From0to1, From1to2, From2to3
  <2>2. Append(s.marked, x) \in Seq(Obj)
    BY PassFacts
  <2>3. From1to2(s, x) \subseteq All /\ From0to1(s, x) \subseteq All
    <3>1. \A U : U \subseteq All => ReachedWithin({x}, U) \subseteq All
      BY Reached
    <3> QED
      BY <3>1 DEF From0to1, From1to2
  <2>4. new \subseteq All /\ flags \subseteq All
    BY <2>3, PassFacts
  <2> HIDE DEF flags
  <2> QED
    BY <1>3, <2>1, <2>2, <2>4 DEF Passes, flags
<1> QED
  BY <1>1, <1>2, <1>3

\* The colours after a walk.
LEMMA WalkColours ==
    ASSUME NEW S, Ground(S), NEW s, Coloured(S, s), NEW x \in Obj
    PROVE  Coloured(S, Walk(s, x))
<1> DEFINE t == Walk(s, x)
           A == From0to1(s, x)
           A2 == From1to2(s, x)
           B == From2to3(s, x)
<1>0. s \in Passes
  BY DEF Coloured
<1>1. CASE x \in ignored
  BY <1>0, <1>1, WalkResult
<1>2. CASE x \notin ignored /\ x \in s.seen
  <2>1. t \in Passes /\ t.seen = s.seen /\ t.ordering = s.ordering
    BY <1>0, <1>2, WalkResult
  <2> HIDE DEF t
  <2> QED
    BY <2>1 DEF Coloured, Settled, t
<1>3. CASE x \notin ignored /\ x \notin s.seen
  <2>1. /\ t \in Passes /\ t.seen = s.seen \cup A2
        /\ t.ordering = (s.ordering \cup A) \ B
    BY <1>0, <1>3, WalkResult
  <2>2. /\ A \cap s.seen = {} /\ A \cap s.ordering = {} /\ A \subseteq All
        /\ \A r \in refs : r[1] \in A => r[2] \in A \cup s.seen \cup s.ordering
        /\ A2 \subseteq A /\ A \subseteq A2 \cup noHeapPtrs
    BY <1>3, WalkReaches
  <2>3. /\ B \subseteq s.ordering \cup A /\ B \subseteq s.seen \cup S
        /\ \A r \in refs : r[1] \in A /\ r[2] \in s.seen \cap s.ordering => r[2] \in B
        /\ \A r \in refs : r[1] \in B => r[2] \in B \cup Settled(S, s)
    BY <1>3, WalkClears
  <2> HIDE DEF t, A, A2, B
  <2>4. /\ S \subseteq s.seen \cup noHeapPtrs /\ Shut(s.seen \cup S) /\ Shut(Settled(S, s))
        /\ s.ordering \subseteq s.seen \cup noHeapPtrs /\ s.ordering \cap S \subseteq Prebuilt
        /\ noHeapPtrs \subseteq Prebuilt /\ Prebuilt \subseteq S
    BY DEF Coloured, Ground
  <2>5. S \subseteq t.seen \cup noHeapPtrs
    BY <2>1, <2>4
  <2>6. Shut(t.seen \cup S)
    <3> SUFFICES ASSUME NEW r \in refs, r[1] \in s.seen \cup A2 \cup S
                 PROVE  r[2] \in s.seen \cup A2 \cup S
      BY <2>1 DEF Shut
    <3>1. CASE r[1] \in s.seen \cup S
      BY <2>4, <3>1 DEF Shut
    <3>2. CASE r[1] \in A2
      <4>1. r[2] \in A \cup s.seen \cup s.ordering
        BY <2>2, <3>2
      <4> QED
        BY <2>2, <2>4, <4>1
    <3> QED
      BY <3>1, <3>2
  <2>7. Settled(S, t) = Settled(S, s) \cup B
    <3>1. ASSUME NEW o \in Settled(S, t) PROVE o \in Settled(S, s) \cup B
      BY <2>1, <2>2, <3>1 DEF Settled
    <3>2. ASSUME NEW o \in Settled(S, s) PROVE o \in Settled(S, t)
      BY <2>1, <2>2, <3>2 DEF Settled
    <3>3. ASSUME NEW o \in B PROVE o \in Settled(S, t)
      BY <2>1, <2>3, <3>3 DEF Settled
    <3> QED
      BY <3>1, <3>2, <3>3
  <2>8. Shut(Settled(S, t))
    BY <2>3, <2>4, <2>7 DEF Shut
  <2>9. t.ordering \subseteq t.seen \cup noHeapPtrs
    BY <2>1, <2>2, <2>4
  <2>10. t.ordering \cap S \subseteq Prebuilt
    BY <2>1, <2>2, <2>4
  <2> QED
    BY <2>1, <2>5, <2>6, <2>8, <2>9, <2>10 DEF Coloured, t
<1> QED
  BY <1>1, <1>2, <1>3

\* The order after a walk.
LEMMA WalkOrders ==
    ASSUME NEW S, Ground(S), NEW s, Coloured(S, s), Ordered(S, s), NEW x \in Obj
    PROVE  Ordered(S, Walk(s, x))
<1> DEFINE t == Walk(s, x)
           A == From0to1(s, x)
           A2 == From1to2(s, x)
           B == From2to3(s, x)
<1>0. s \in Passes
  BY DEF Coloured
<1>1. CASE x \in ignored
  BY <1>0, <1>1, WalkResult
<1>2. CASE x \notin ignored /\ x \in s.seen
  <2>1. t \in Passes /\ t.seen = s.seen /\ t.ordering = s.ordering /\ t.marked = s.marked
    BY <1>0, <1>2, WalkResult
  <2> HIDE DEF t
  <2> QED
    BY <2>1 DEF Ordered, Places, Alone, t
<1>3. CASE x \notin ignored /\ x \notin s.seen
  <2>1. /\ t \in Passes /\ t.seen = s.seen \cup A2
        /\ t.ordering = (s.ordering \cup A) \ B
        /\ t.marked = Append(s.marked, x)
    BY <1>0, <1>3, WalkResult
  <2>2. /\ A \cap s.seen = {} /\ A \cap s.ordering = {} /\ A \subseteq All
        /\ \A r \in refs : r[1] \in A => r[2] \in A \cup s.seen \cup s.ordering
        /\ A2 \subseteq A /\ A \subseteq A2 \cup noHeapPtrs
        /\ x \in A /\ x \in A2 /\ x \notin S /\ x \notin s.ordering
        /\ \A o \in A : Leads(x, o)
    BY <1>3, WalkReaches
  <2>3. /\ B \subseteq s.ordering \cup A /\ B \subseteq s.seen \cup S
        /\ \A r \in refs : r[1] \in A /\ r[2] \in s.seen \cap s.ordering => r[2] \in B
        /\ \A r \in refs : r[1] \in B => r[2] \in B \cup Settled(S, s)
        /\ \A o \in B : Leads(x, o)
    BY <1>3, WalkClears
  <2> DEFINE n == Len(s.marked)
  <2>4. /\ n \in Nat /\ Places(s) = 1 .. n /\ Places(t) = 1 .. n + 1
        /\ \A k \in 1 .. n : t.marked[k] = s.marked[k] /\ k \in 1 .. n + 1 /\ k # n + 1
        /\ t.marked[n + 1] = x /\ n + 1 \in 1 .. n + 1
        /\ \A k \in 1 .. n + 1 : k \in 1 .. n \/ k = n + 1
    <3>1. s.marked \in Seq(Obj) /\ n \in Nat
      BY <1>0, PassFacts
    <3>2. /\ Len(Append(s.marked, x)) = n + 1
          /\ \A k \in 1 .. n : Append(s.marked, x)[k] = s.marked[k]
          /\ Append(s.marked, x)[n + 1] = x
      BY <3>1
    <3> QED
      BY <2>1, <3>1, <3>2 DEF Places
  <2>5. /\ \A k \in 1 .. n : s.marked[k] \in s.seen \ S
        /\ \A j, k \in 1 .. n : j < k => ~Leads(s.marked[j], s.marked[k])
        /\ \A k \in 1 .. n : s.marked[k] \in s.ordering <=> Alone(s, k)
        /\ \A o \in s.seen \ S : \E k \in 1 .. n : Leads(s.marked[k], o)
    BY <2>4 DEF Ordered
  <2>6. /\ S \subseteq s.seen \cup noHeapPtrs /\ Shut(s.seen \cup S) /\ Shut(Settled(S, s))
        /\ s.ordering \subseteq s.seen \cup noHeapPtrs
        /\ noHeapPtrs \subseteq Prebuilt /\ Prebuilt \subseteq S
    BY DEF Coloured, Ground
  <2> HIDE DEF t, A, A2, B, n
  <2>7. \A k \in 1 .. n : ~Leads(s.marked[k], x)
    <3> SUFFICES ASSUME NEW k \in 1 .. n, Leads(s.marked[k], x) PROVE FALSE
      OBVIOUS
    <3>1. s.marked[k] \in s.seen \cup S
      BY <2>5
    <3>2. x \in s.seen \cup S
      BY <2>6, <3>1, LeadsFacts
    <3> QED
      BY <1>3, <2>2, <3>2
  \* What is in state 2 and reached from x goes to state 3.
  <2>8. \A k \in 1 .. n : Leads(x, s.marked[k]) => s.marked[k] \notin t.ordering
    <3> DEFINE Z == A \cup B \cup Settled(S, s)
    <3>1. Shut(Z)
      <4> SUFFICES ASSUME NEW r \in refs, r[1] \in Z PROVE r[2] \in Z
        BY DEF Shut
      <4>1. CASE r[1] \in Settled(S, s)
        BY <2>6, <4>1 DEF Shut
      <4>2. CASE r[1] \in B
        BY <2>3, <4>2
      <4>3. CASE r[1] \in A
        <5>1. r[2] \in A \cup s.seen \cup s.ordering
          BY <2>2, <4>3
        <5>2. CASE r[2] \in s.seen \cap s.ordering
          BY <2>3, <4>3, <5>2
        <5>3. CASE r[2] \in s.seen \ s.ordering
          BY <5>3 DEF Settled
        <5>4. CASE r[2] \in s.ordering \ s.seen
          BY <2>6, <5>4 DEF Settled
        <5> QED
          BY <5>1, <5>2, <5>3, <5>4
      <4> QED
        BY <4>1, <4>2, <4>3
    <3> SUFFICES ASSUME NEW k \in 1 .. n, Leads(x, s.marked[k])
                 PROVE  s.marked[k] \notin t.ordering
      OBVIOUS
    <3>2. x \in Z
      BY <2>2
    <3> HIDE DEF Z
    <3>3. s.marked[k] \in Z
      BY <3>1, <3>2, LeadsFacts
    <3>4. s.marked[k] \in s.seen \ S
      BY <2>5
    <3> QED
      BY <2>1, <2>2, <3>3, <3>4 DEF Z, Settled
  <2>9. ASSUME NEW k \in 1 .. n + 1 PROVE t.marked[k] \in t.seen \ S
    <3>1. CASE k \in 1 .. n
      BY <2>1, <2>4, <2>5, <3>1
    <3>2. CASE k = n + 1
      BY <2>1, <2>2, <2>4, <3>2
    <3> QED
      BY <2>4, <3>1, <3>2
  <2>10. ASSUME NEW j \in 1 .. n + 1, NEW k \in 1 .. n + 1, j < k
         PROVE  ~Leads(t.marked[j], t.marked[k])
    <3>1. j \in 1 .. n
      BY <2>4, <2>10
    <3>2. CASE k \in 1 .. n
      BY <2>4, <2>5, <2>10, <3>1, <3>2
    <3>3. CASE k = n + 1
      BY <2>4, <2>7, <3>1, <3>3
    <3> QED
      BY <2>4, <3>2, <3>3
  <2>11. ASSUME NEW k \in 1 .. n
         PROVE  t.marked[k] \in t.ordering <=> Alone(t, k)
    <3>1. Alone(t, k) <=> Alone(s, k) /\ ~Leads(x, s.marked[k])
      <4>1. ASSUME Alone(t, k) PROVE Alone(s, k) /\ ~Leads(x, s.marked[k])
        BY <2>4, <4>1 DEF Alone
      <4>2. ASSUME Alone(s, k), ~Leads(x, s.marked[k]) PROVE Alone(t, k)
        <5> SUFFICES ASSUME NEW j \in 1 .. n + 1, j # k PROVE ~Leads(t.marked[j], t.marked[k])
          BY <2>4 DEF Alone
        <5>1. CASE j \in 1 .. n
          BY <2>4, <4>2, <5>1 DEF Alone
        <5>2. CASE j = n + 1
          BY <2>4, <4>2, <5>2
        <5> QED
          BY <2>4, <5>1, <5>2
      <4> QED
        BY <4>1, <4>2
    <3>2. s.marked[k] \in s.ordering <=> Alone(s, k)
      BY <2>5
    <3>3. ASSUME ~Leads(x, s.marked[k])
          PROVE  s.marked[k] \in t.ordering <=> s.marked[k] \in s.ordering
      <4>1. s.marked[k] \notin A /\ s.marked[k] \notin B
        BY <2>2, <2>3, <3>3
      <4> QED
        BY <2>1, <4>1
    <3>4. t.marked[k] = s.marked[k]
      BY <2>4
    <3> QED
      BY <2>8, <3>1, <3>2, <3>3, <3>4
  <2>12. x \in t.ordering /\ Alone(t, n + 1)
    <3>1. x \notin B
      BY <1>3, <2>2, <2>3
    <3>2. x \in t.ordering
      BY <2>1, <2>2, <3>1
    <3>3. Alone(t, n + 1)
      BY <2>4, <2>7 DEF Alone
    <3> QED
      BY <3>2, <3>3
  <2>13. ASSUME NEW k \in 1 .. n + 1 PROVE t.marked[k] \in t.ordering <=> Alone(t, k)
    BY <2>4, <2>11, <2>12
  <2>14. ASSUME NEW o \in t.seen \ S PROVE \E k \in 1 .. n + 1 : Leads(t.marked[k], o)
    <3>1. CASE o \in s.seen
      <4>1. PICK k \in 1 .. n : Leads(s.marked[k], o)
        BY <2>5, <3>1
      <4> QED
        BY <2>4, <4>1
    <3>2. CASE o \in A2
      <4>1. Leads(x, o)
        BY <2>2, <3>2
      <4> QED
        BY <2>4, <4>1
    <3> QED
      BY <2>1, <3>1, <3>2
  <2>15. Ordered(S, t)
    BY <2>4, <2>9, <2>10, <2>13, <2>14 DEF Ordered
  <2> QED
    BY <2>15 DEF t
<1> QED
  BY <1>1, <1>2, <1>3


\* The first i elements of a list.
Upto(list, i) == {list[m] : m \in 1 .. i}

LEMMA UptoFacts ==
    ASSUME NEW list \in Seq(Obj)
    PROVE  /\ Upto(list, 0) = {}
           /\ Upto(list, Len(list)) = ToSet(list)
           /\ \A i \in 1 .. Len(list) : Upto(list, i) = Upto(list, i - 1) \cup {list[i]}
<1>1. Upto(list, 0) = {}
  BY DEF Upto
<1>2. Upto(list, Len(list)) = ToSet(list)
  BY DEF Upto, ToSet
<1>3. ASSUME NEW i \in 1 .. Len(list)
      PROVE  Upto(list, i) = Upto(list, i - 1) \cup {list[i]}
  <2>1. \A m : m \in 1 .. i <=> m \in 1 .. i - 1 \/ m = i
    OBVIOUS
  <2> QED
    BY <2>1 DEF Upto
<1> QED
  BY <1>1, <1>2, <1>3

\* After i elements of old_objects_with_finalizers each is in a list or is to be ignored.
Gathered(s, i) ==
    /\ s.run = <<>>
    /\ ToSet(s.keep) \cup ToSet(s.marked) \subseteq (ToSet(oldFinal) \cap s.seen) \ ignored
    /\ Upto(oldFinal, i) \subseteq ignored \cup ToSet(s.keep) \cup ToSet(s.marked)

LEMMA WalkGathers ==
    ASSUME NEW S, Ground(S), NEW s, Coloured(S, s), NEW i \in 1 .. Len(oldFinal),
           Gathered(s, i - 1)
    PROVE  Gathered(Walk(s, oldFinal[i]), i)
<1> DEFINE x == oldFinal[i]
           t == Walk(s, x)
<1>0. s \in Passes /\ oldFinal \in Seq(Obj)
  BY DEF Coloured, Ground
<1>1. x \in Obj /\ x \in ToSet(oldFinal)
  <2>1. i \in DOMAIN oldFinal
    BY <1>0
  <2> QED
    BY <1>0, <2>1 DEF ToSet
<1>2. Upto(oldFinal, i) = Upto(oldFinal, i - 1) \cup {x}
  BY <1>0, UptoFacts
<1>3. s.keep \in Seq(Obj) /\ s.marked \in Seq(Obj)
  BY <1>0, PassFacts
<1> HIDE DEF x
<1>4. /\ ToSet(Append(s.keep, x)) = ToSet(s.keep) \cup {x}
      /\ ToSet(Append(s.marked, x)) = ToSet(s.marked) \cup {x}
  BY <1>3, SetAppend
<1>5. CASE x \in ignored
  <2>1. t = s
    BY <1>0, <1>1, <1>5, WalkResult
  <2> QED
    BY <1>2, <1>5, <2>1 DEF Gathered, x
<1>6. CASE x \notin ignored /\ x \in s.seen
  <2>1. t.seen = s.seen /\ t.marked = s.marked /\ t.run = s.run /\ t.keep = Append(s.keep, x)
    BY <1>0, <1>1, <1>6, WalkResult
  <2> HIDE DEF t
  <2>2. Gathered(t, i)
    BY <1>1, <1>2, <1>4, <1>6, <2>1 DEF Gathered
  <2> QED
    BY <2>2 DEF t, x
<1>7. CASE x \notin ignored /\ x \notin s.seen
  <2>1. /\ t.seen = s.seen \cup From1to2(s, x) /\ t.marked = Append(s.marked, x)
        /\ t.run = s.run /\ t.keep = s.keep
    BY <1>0, <1>1, <1>7, WalkResult
  <2>2. x \in From1to2(s, x)
    BY <1>1, <1>7, WalkReaches
  <2> HIDE DEF t
  <2>3. Gathered(t, i)
    BY <1>1, <1>2, <1>4, <1>7, <2>1, <2>2 DEF Gathered
  <2> QED
    BY <2>3 DEF t, x
<1> QED
  BY <1>5, <1>6, <1>7

LEMMA WalkedFacts ==
    ASSUME NEW S, Ground(S)
    PROVE  /\ Coloured(S, Walked(S))
           /\ Ordered(S, Walked(S))
           /\ Gathered(Walked(S), Len(oldFinal))
<1> DEFINE n == Len(oldFinal)
           base == [seen |-> S \ noHeapPtrs, ordering |-> ordering,
                    marked |-> <<>>, keep |-> <<>>, run |-> <<>>]
           Good(i) == {s \in Passes : Coloured(S, s) /\ Ordered(S, s) /\ Gathered(s, i)}
           J == [i \in 0 .. n |-> Good(i)]
<1>1. /\ oldFinal \in Seq(Obj) /\ n \in Nat
      /\ \A i \in 1 .. n : i - 1 \in 0 .. n /\ i \in 0 .. n /\ oldFinal[i] \in Obj
  BY DEF Ground
<1>2. base \in Good(0)
  <2>1. S \subseteq All /\ Prebuilt \subseteq S /\ noHeapPtrs \subseteq Prebuilt
        /\ ordering \subseteq Prebuilt /\ Shut(S) /\ \A r \in refs : r[1] \notin noHeapPtrs
    BY DEF Ground
  <2>2. base \in Passes
    BY <2>1 DEF Passes
  <2>3. /\ base.seen = S \ noHeapPtrs /\ base.ordering = ordering
        /\ base.marked = <<>> /\ base.keep = <<>> /\ base.run = <<>>
    OBVIOUS
  <2> HIDE DEF base
  <2>4. Settled(S, base) = S /\ base.seen \cup S = S
    BY <2>1, <2>3 DEF Settled
  <2>5. Coloured(S, base)
    BY <2>1, <2>2, <2>3, <2>4 DEF Coloured
  <2>6. Places(base) = {} /\ base.seen \ S = {}
    BY <2>3 DEF Places
  <2>7. Ordered(S, base)
    BY <2>6 DEF Ordered
  <2>8. ToSet(<<>>) = {}
    BY DEF ToSet
  <2>9. Gathered(base, 0)
    BY <1>1, <2>3, <2>8, UptoFacts DEF Gathered
  <2> QED
    BY <2>2, <2>5, <2>7, <2>9
<1>3. ASSUME NEW i \in 1 .. n, NEW s \in Good(i - 1) PROVE Walk(s, oldFinal[i]) \in Good(i)
  <2>1. Coloured(S, s) /\ Ordered(S, s) /\ Gathered(s, i - 1) /\ oldFinal[i] \in Obj
    BY <1>1
  <2>2. Coloured(S, Walk(s, oldFinal[i])) /\ Ordered(S, Walk(s, oldFinal[i]))
    BY <2>1, WalkColours, WalkOrders
  <2>3. Gathered(Walk(s, oldFinal[i]), i)
    BY <2>1, WalkGathers
  <2> QED
    BY <2>2, <2>3 DEF Coloured
<1> HIDE DEF Good
<1>4. base \in J[0] /\ \A i \in 1 .. n : \A s \in J[i - 1] : Walk(s, oldFinal[i]) \in J[i]
  BY <1>1, <1>2, <1>3
<1>5. Walked(S) = FoldLeft(Walk, base, oldFinal)
  BY DEF Walked
<1>6. Walked(S) \in J[n]
  <2> HIDE DEF J, base, n
  <2> QED
    BY <1>1, <1>4, <1>5, WalkFold DEF n
<1>7. Walked(S) \in Good(n)
  BY <1>1, <1>6
<1> QED
  BY <1>7 DEF Good

-----------------------------------------------------------------------------
(* The second loop. *)

\* What the k-th object to run is not reached from: what stays marked, and the objects
\* whose finalizer runs before.
Behind(S, w, run, k) ==
    \E D \in SUBSET (w.seen \cup S) :
        /\ Shut(D) /\ Settled(S, w) \subseteq D
        /\ \A i \in 1 .. k - 1 : run[i] \in D
        /\ run[k] \notin D

\* After i elements of `marked'; w is the state in which the first loop ended.
Deciding(S, w, d, i) ==
    /\ d \in Passes /\ d.seen = w.seen /\ d.marked = w.marked
    /\ Shut(Settled(S, d))
    /\ d.ordering \subseteq w.ordering
    /\ Upto(w.marked, i) \cap d.ordering = {}
    /\ ToSet(d.keep) \cup ToSet(d.run) = ToSet(w.keep) \cup Upto(w.marked, i)
    /\ ToSet(d.run) \subseteq Upto(w.marked, i) \cap w.ordering
    /\ \A m \in Places(w) : m <= i /\ Alone(w, m) => w.marked[m] \in ToSet(d.run)
    /\ \A m \in Places(w) : m > i /\ Alone(w, m) => w.marked[m] \in d.ordering
    /\ \A k \in 1 .. Len(d.run) : Behind(S, w, d.run, k)

\* x and what it refers to in state 2 go to state 3.
LEMMA DecideClears ==
    ASSUME NEW S, Ground(S), NEW w, Coloured(S, w), NEW d \in Passes, d.seen = w.seen,
           Shut(Settled(S, d)), NEW x \in All, x \in d.ordering,
           NEW t \in Passes, t.seen = d.seen,
           t.ordering = d.ordering \ ReachedWithin({x}, d.ordering)
    PROVE  /\ Shut(Settled(S, t))
           /\ x \notin t.ordering
           /\ \A o \in d.ordering : ~Leads(x, o) => o \in t.ordering
<1> DEFINE E == ReachedWithin({x}, d.ordering)
<1>1. d.ordering \subseteq All /\ Shut(w.seen \cup S)
  BY PassFacts DEF Coloured
<1>2. /\ E \subseteq d.ordering /\ {x} \cap d.ordering \subseteq E
      /\ Children(E) \cap d.ordering \subseteq E
  BY <1>1, Reached
<1>3. \A o \in E : Leads(x, o)
  <2>1. \A o \in {x} \cap d.ordering : Leads(x, o)
    BY LeadsFacts
  <2> QED
    BY <1>1, <2>1, ReachedIsLed
<1>4. t.ordering = d.ordering \ E
  OBVIOUS
<1> HIDE DEF E
<1>5. x \notin t.ordering
  BY <1>2, <1>4
<1>6. \A o \in d.ordering : ~Leads(x, o) => o \in t.ordering
  BY <1>3, <1>4
<1>7. \A o : o \in Settled(S, t) <=> o \in Settled(S, d) \/ o \in d.seen \cap E
  BY <1>4 DEF Settled
<1>8. ASSUME NEW r \in refs, r[1] \in Settled(S, t) PROVE r[2] \in Settled(S, t)
  <2>1. CASE r[1] \in Settled(S, d)
    BY <1>7, <2>1 DEF Shut
  <2>2. CASE r[1] \in d.seen \cap E
    <3>1. r[2] \in d.seen \cup S
      BY <1>1, <2>2 DEF Shut
    <3>2. r[2] \in d.ordering => r[2] \in E
      BY <1>2, <2>2 DEF Children
    <3>3. r[2] \in Settled(S, d) \/ r[2] \in d.seen \cap E
      BY <3>1, <3>2 DEF Settled
    <3> QED
      BY <1>7, <3>3
  <2> QED
    BY <1>7, <1>8, <2>1, <2>2
<1> QED
  BY <1>5, <1>6, <1>8 DEF Shut

LEMMA DecideResult ==
    ASSUME NEW d \in Passes, NEW x \in Obj
    PROVE  /\ x \in d.ordering =>
                /\ Decide(d, x) \in Passes
                /\ Decide(d, x).seen = d.seen /\ Decide(d, x).marked = d.marked
                /\ Decide(d, x).keep = d.keep /\ Decide(d, x).run = Append(d.run, x)
                /\ Decide(d, x).ordering = d.ordering \ ReachedWithin({x}, d.ordering)
           /\ x \notin d.ordering =>
                /\ Decide(d, x) \in Passes
                /\ Decide(d, x).seen = d.seen /\ Decide(d, x).marked = d.marked
                /\ Decide(d, x).run = d.run /\ Decide(d, x).keep = Append(d.keep, x)
                /\ Decide(d, x).ordering = d.ordering
<1>1. CASE x \in d.ordering
  <2> DEFINE E == ReachedWithin({x}, d.ordering)
  <2>1. Decide(d, x) = [d EXCEPT !.run = Append(@, x), !.ordering = @ \ E]
    BY <1>1 DEF Decide
  <2>2. Append(d.run, x) \in Seq(Obj) /\ d.ordering \subseteq All
    BY PassFacts
  <2> HIDE DEF E
  <2>3. d.ordering \ E \subseteq All
    BY <2>2
  <2>4. /\ Decide(d, x) \in Passes
        /\ Decide(d, x).seen = d.seen /\ Decide(d, x).marked = d.marked
        /\ Decide(d, x).keep = d.keep /\ Decide(d, x).run = Append(d.run, x)
        /\ Decide(d, x).ordering = d.ordering \ E
    BY <1>1, <2>1, <2>2, <2>3 DEF Passes
  <2> QED
    BY <1>1, <2>4 DEF E
<1>2. CASE x \notin d.ordering
  <2>1. Decide(d, x) = [d EXCEPT !.keep = Append(@, x)]
    BY <1>2 DEF Decide
  <2>2. Append(d.keep, x) \in Seq(Obj)
    BY PassFacts
  <2> QED
    BY <1>2, <2>1, <2>2 DEF Passes
<1> QED
  BY <1>1, <1>2

LEMMA DecideStep ==
    ASSUME NEW S, Ground(S), NEW w, Coloured(S, w), Ordered(S, w),
           NEW i \in Places(w), NEW d, Deciding(S, w, d, i - 1)
    PROVE  Deciding(S, w, Decide(d, w.marked[i]), i)
<1> DEFINE x == w.marked[i]
           t == Decide(d, x)
           M == Upto(w.marked, i - 1)
<1>1. /\ w \in Passes /\ w.marked \in Seq(Obj) /\ Len(w.marked) \in Nat
      /\ i \in 1 .. Len(w.marked) /\ Places(w) \subseteq Nat
  BY PassFacts DEF Coloured, Places
<1>2. x \in Obj /\ x \in w.seen /\ x \notin S /\ x \in All
  BY <1>1, PassFacts, AllFacts DEF Ordered
<1>3. Upto(w.marked, i) = M \cup {x}
  BY <1>1, UptoFacts
<1>4. /\ d \in Passes /\ d.seen = w.seen /\ d.marked = w.marked
      /\ Shut(Settled(S, d)) /\ d.ordering \subseteq w.ordering
      /\ M \cap d.ordering = {}
      /\ ToSet(d.keep) \cup ToSet(d.run) = ToSet(w.keep) \cup M
      /\ ToSet(d.run) \subseteq M \cap w.ordering
      /\ \A m \in Places(w) : m <= i - 1 /\ Alone(w, m) => w.marked[m] \in ToSet(d.run)
      /\ \A m \in Places(w) : m > i - 1 /\ Alone(w, m) => w.marked[m] \in d.ordering
      /\ \A k \in 1 .. Len(d.run) : Behind(S, w, d.run, k)
  BY DEF Deciding
<1>5. \A m \in M : m \in w.seen
  <2>1. \A m \in 1 .. i - 1 : m \in Places(w)
    BY <1>1 DEF Places
  <2> QED
    BY <2>1 DEF Ordered, Upto
<1>6. Alone(w, i) => x \in d.ordering
  BY <1>1, <1>4
<1>7. d.keep \in Seq(Obj) /\ d.run \in Seq(Obj)
  BY <1>4, PassFacts
<1>8. /\ ToSet(Append(d.keep, x)) = ToSet(d.keep) \cup {x}
      /\ ToSet(Append(d.run, x)) = ToSet(d.run) \cup {x}
  BY <1>7, SetAppend
<1>9. \A m \in Places(w) : (m <= i <=> m <= i - 1 \/ m = i) /\ (m > i => m > i - 1 /\ m # i)
  BY <1>1
<1>10. CASE x \notin d.ordering
  <2>1. /\ t \in Passes /\ t.seen = d.seen /\ t.marked = d.marked /\ t.run = d.run
        /\ t.keep = Append(d.keep, x) /\ t.ordering = d.ordering
    BY <1>2, <1>4, <1>10, DecideResult
  <2> HIDE DEF t, M, x
  <2>2. Shut(Settled(S, t))
    BY <1>4, <2>1 DEF Settled
  <2>3. \A m \in Places(w) : m <= i /\ Alone(w, m) => w.marked[m] \in ToSet(t.run)
    BY <1>4, <1>6, <1>9, <1>10, <2>1
  <2>4. \A m \in Places(w) : m > i /\ Alone(w, m) => w.marked[m] \in t.ordering
    BY <1>4, <1>9, <2>1
  <2>5. \A k \in 1 .. Len(t.run) : Behind(S, w, t.run, k)
    BY <1>4, <2>1
  <2>6. Deciding(S, w, t, i)
    BY <1>3, <1>4, <1>8, <1>10, <2>1, <2>2, <2>3, <2>4, <2>5 DEF Deciding
  <2> QED
    BY <2>6 DEF t, x
<1>11. CASE x \in d.ordering
  <2>1. /\ t \in Passes /\ t.seen = d.seen /\ t.marked = d.marked /\ t.keep = d.keep
        /\ t.run = Append(d.run, x)
        /\ t.ordering = d.ordering \ ReachedWithin({x}, d.ordering)
    BY <1>2, <1>4, <1>11, DecideResult
  <2> HIDE DEF t, M, x
  <2>2. /\ Shut(Settled(S, t)) /\ x \notin t.ordering
        /\ \A o \in d.ordering : ~Leads(x, o) => o \in t.ordering
    BY <1>2, <1>4, <1>11, <2>1, DecideClears
  <2>3. t.ordering \subseteq d.ordering
    BY <2>1
  <2>4. \A m \in Places(w) : m <= i /\ Alone(w, m) => w.marked[m] \in ToSet(t.run)
    BY <1>4, <1>8, <1>9, <2>1 DEF x
  <2>5. ASSUME NEW m \in Places(w), m > i, Alone(w, m) PROVE w.marked[m] \in t.ordering
    <3>1. w.marked[m] \in d.ordering
      BY <1>4, <1>9, <2>5
    <3>2. ~Leads(x, w.marked[m])
      BY <1>9, <2>5 DEF Alone, x
    <3> QED
      BY <2>2, <3>1, <3>2
  <2>6. ASSUME NEW k \in 1 .. Len(t.run) PROVE Behind(S, w, t.run, k)
    <3> DEFINE n == Len(d.run)
    <3>1. /\ n \in Nat /\ Len(t.run) = n + 1 /\ t.run[n + 1] = x
          /\ \A j \in 1 .. n : t.run[j] = d.run[j] /\ d.run[j] \in ToSet(d.run)
      <4>1. n \in Nat /\ Len(t.run) = n + 1 /\ t.run[n + 1] = x
            /\ \A j \in 1 .. n : t.run[j] = d.run[j]
        BY <1>7, <2>1
      <4>2. \A j \in 1 .. n : d.run[j] \in ToSet(d.run)
        BY <1>7 DEF ToSet
      <4> QED
        BY <4>1, <4>2
    <3> HIDE DEF n
    <3>2. CASE k \in 1 .. n
      <4>1. Behind(S, w, d.run, k)
        BY <1>4, <3>2 DEF n
      <4>2. PICK D \in SUBSET (w.seen \cup S) :
               /\ Shut(D) /\ Settled(S, w) \subseteq D
               /\ \A j \in 1 .. k - 1 : d.run[j] \in D
               /\ d.run[k] \notin D
        BY <4>1 DEF Behind
      <4>3. \A j \in 1 .. k - 1 : j \in 1 .. n
        BY <3>1, <3>2
      <4>4. \A j \in 1 .. k - 1 : t.run[j] \in D
        BY <3>1, <4>2, <4>3
      <4>5. t.run[k] \notin D
        BY <3>1, <3>2, <4>2
      <4> QED
        BY <4>2, <4>4, <4>5 DEF Behind
    <3>3. CASE k = n + 1
      <4>1. Settled(S, d) \in SUBSET (w.seen \cup S) /\ Settled(S, w) \subseteq Settled(S, d)
        BY <1>4 DEF Settled
      <4>2. ASSUME NEW j \in 1 .. k - 1 PROVE t.run[j] \in Settled(S, d)
        <5>1. j \in 1 .. n
          BY <3>1, <3>3
        <5>2. t.run[j] \in M
          BY <1>4, <3>1, <5>1
        <5> QED
          BY <1>4, <1>5, <5>2 DEF Settled
      <4>3. t.run[k] \notin Settled(S, d)
        BY <1>2, <1>11, <3>1, <3>3 DEF Settled
      <4> QED
        BY <1>4, <4>1, <4>2, <4>3 DEF Behind
    <3> QED
      BY <2>6, <3>1, <3>2, <3>3
  <2>7. (M \cup {x}) \cap t.ordering = {}
    BY <1>4, <2>2, <2>3
  <2>8. ToSet(t.keep) \cup ToSet(t.run) = ToSet(w.keep) \cup M \cup {x}
    BY <1>4, <1>8, <2>1
  <2>9. ToSet(t.run) \subseteq (M \cup {x}) \cap w.ordering
    BY <1>4, <1>8, <1>11, <2>1
  <2>10. Deciding(S, w, t, i)
    BY <1>3, <1>4, <2>1, <2>2, <2>3, <2>4, <2>5, <2>6, <2>7, <2>8, <2>9 DEF Deciding
  <2> QED
    BY <2>10 DEF t, x
<1> QED
  BY <1>10, <1>11

LEMMA DecidedFacts ==
    ASSUME NEW S, Ground(S), NEW w, w = Walked(S)
    PROVE  /\ Deciding(S, w, Decided(w), Len(w.marked))
           /\ Decided(w).ordering \subseteq Prebuilt
<1> DEFINE n == Len(w.marked)
           Good(i) == {s \in Passes : Deciding(S, w, s, i)}
           J == [i \in 0 .. n |-> Good(i)]
           d == Decided(w)
<1>1. Coloured(S, w) /\ Ordered(S, w) /\ Gathered(w, Len(oldFinal))
  BY WalkedFacts
<1>2. /\ w \in Passes /\ w.marked \in Seq(Obj) /\ n \in Nat /\ Places(w) = 1 .. n
      /\ \A i \in 1 .. n : i - 1 \in 0 .. n /\ i \in 0 .. n
  BY <1>1, PassFacts DEF Coloured, Places
<1>3. w \in Good(0)
  <2>1. w.run = <<>>
    BY <1>1 DEF Gathered
  <2>2. ToSet(w.run) = {} /\ 1 .. Len(w.run) = {}
    BY <2>1 DEF ToSet
  <2>3. Upto(w.marked, 0) = {}
    BY <1>2, UptoFacts
  <2>4. Shut(Settled(S, w))
    BY <1>1 DEF Coloured
  <2>5. \A m \in Places(w) : ~(m <= 0)
    BY <1>2
  <2>6. \A m \in Places(w) : Alone(w, m) => w.marked[m] \in w.ordering
    BY <1>1 DEF Ordered
  <2>7. Deciding(S, w, w, 0)
    BY <1>2, <2>2, <2>3, <2>4, <2>5, <2>6 DEF Deciding
  <2> QED
    BY <1>2, <2>7
<1>4. ASSUME NEW i \in 1 .. n, NEW s \in Good(i - 1) PROVE Decide(s, w.marked[i]) \in Good(i)
  <2>1. Deciding(S, w, s, i - 1) /\ i \in Places(w)
    BY <1>2
  <2>2. Deciding(S, w, Decide(s, w.marked[i]), i)
    BY <1>1, <2>1, DecideStep
  <2> QED
    BY <2>2 DEF Deciding
<1> HIDE DEF Good
<1>5. w \in J[0] /\ \A i \in 1 .. n : \A s \in J[i - 1] : Decide(s, w.marked[i]) \in J[i]
  BY <1>2, <1>3, <1>4
<1>6. d = FoldLeft(Decide, w, w.marked)
  BY DEF Decided
<1>7. d \in J[n]
  <2> HIDE DEF J, n, d
  <2> QED
    BY <1>2, <1>5, <1>6, DecideFold DEF n
<1>8. d \in Good(n)
  BY <1>2, <1>7
<1>9. Deciding(S, w, d, n)
  BY <1>8 DEF Good
<1> HIDE DEF d
<1>10. ASSUME NEW o \in d.ordering PROVE o \in Prebuilt
  <2>1. o \in w.ordering
    BY <1>9 DEF Deciding
  <2>2. o \in w.seen \cup noHeapPtrs
    BY <1>1, <2>1 DEF Coloured
  <2>3. CASE o \in noHeapPtrs \/ o \in S
    BY <1>1, <2>1, <2>3 DEF Ground, Coloured
  <2>4. CASE o \in w.seen \ S
    <3>1. PICK k \in Places(w) : Leads(w.marked[k], o)
      BY <1>1, <2>4 DEF Ordered
    <3>2. w.marked[k] \in w.seen
      BY <1>1 DEF Ordered
    <3>3. w.marked[k] \in Upto(w.marked, n)
      BY <1>2 DEF Upto
    <3>4. w.marked[k] \in Settled(S, d) /\ Shut(Settled(S, d))
      BY <1>9, <3>2, <3>3 DEF Deciding, Settled
    <3>5. o \in Settled(S, d)
      BY <3>1, <3>4, LeadsFacts
    <3> QED
      BY <1>10, <2>4, <3>5 DEF Settled
  <2> QED
    BY <2>2, <2>3, <2>4
<1> QED
  BY <1>9, <1>10 DEF d

-----------------------------------------------------------------------------
(* The end of marking. *)

LEMMA GroundFacts ==
    ASSUME Inv, StepAllowed("MARKING"), NEW S \in MarkedSets
    PROVE  /\ Ground(S)
           /\ Handles \subseteq S /\ ToSet(queue) \subseteq S /\ S \subseteq alloc
           /\ doomed = {} /\ young = {} /\ youngFinal = <<>>
<1>1. S \subseteq alloc /\ Kept \subseteq S /\ Children(S) \subseteq S
  BY DEF MarkedSets
<1>2. /\ gcState = "MARKING" /\ young = {} /\ youngFinal = <<>>
      /\ doomed = {}
  BY DEF StepAllowed, Inv, Phases
<1>3. (Handles \cup ToSet(queue)) \cap All \subseteq Kept
  <2> DEFINE A == Handles \cup ToSet(queue)
  <2>1. A \cap All \subseteq ReachedWithin(A, All)
    BY Reached
  <2> QED
    BY <2>1 DEF Kept
<1>4. alloc \subseteq All /\ Usable = alloc /\ refs \subseteq alloc \X alloc
  BY <1>2 DEF Inv, Types, Usable
<1>5. Handles \subseteq All /\ ToSet(queue) \subseteq All
  BY <1>4 DEF Inv, Closed, Lists
<1>6. Handles \subseteq S /\ ToSet(queue) \subseteq S
  BY <1>1, <1>3, <1>5
<1>7. Prebuilt \subseteq S
  BY <1>6 DEF Handles
<1>8. Shut(S)
  BY <1>1, ShutChildren
<1>9. refs \subseteq All \X All
  BY <1>4
<1>10. /\ noHeapPtrs \subseteq Prebuilt /\ \A r \in refs : r[1] \notin noHeapPtrs
       /\ ordering \subseteq Prebuilt /\ oldFinal \in Seq(Obj)
  BY DEF Inv, Types, Closed, Phases
<1>11. Ground(S)
  BY <1>1, <1>4, <1>7, <1>8, <1>9, <1>10 DEF Ground
<1> QED
  BY <1>1, <1>2, <1>6, <1>11

\* What is seen exists.
LEMMA SeenExists ==
    ASSUME Inv, StepAllowed("MARKING"), NEW S \in MarkedSets, NEW w, w = Walked(S)
    PROVE  w.seen \subseteq alloc
<1>1. /\ Ground(S) /\ S \subseteq alloc /\ doomed = {}
  BY GroundFacts
<1>2. Ordered(S, w) /\ Gathered(w, Len(oldFinal)) /\ Coloured(S, w)
  BY <1>1, WalkedFacts
<1>3. Shut(alloc) /\ ToSet(oldFinal) \subseteq alloc
  BY <1>1 DEF Inv, Closed, Lists, Usable
<1>4. w.marked \in Seq(Obj)
  BY <1>2, PassFacts DEF Coloured
<1>5. ASSUME NEW o \in w.seen \ S PROVE o \in alloc
  <2>1. PICK k \in Places(w) : Leads(w.marked[k], o)
    BY <1>2 DEF Ordered
  <2>2. w.marked[k] \in ToSet(w.marked)
    BY <1>4 DEF Places, ToSet
  <2>3. w.marked[k] \in alloc
    BY <1>2, <1>3, <2>2 DEF Gathered
  <2> QED
    BY <1>3, <2>1, <2>3, LeadsFacts
<1> QED
  BY <1>1, <1>5

LEMMA FinishMarkingInv ==
    ASSUME Inv, NEW S, FinishMarkingWith(S)
    PROVE  Inv'
<1> DEFINE w == Walked(S)
           d == Decided(w)
           weak == oldWeak \cap w.seen
           lost == {o \in weak : target[o] \notin StillPointedTo(w)}
<1>1. /\ StepAllowed("MARKING") /\ S \in MarkedSets
      /\ target' = [o \in Obj |-> IF o \in lost THEN NULL ELSE target[o]]
      /\ oldWeak' = weak \ lost
      /\ queue' = queue \o d.run /\ oldFinal' = d.keep /\ ordering' = d.ordering
      /\ doomed' = alloc \ (w.seen \cup Prebuilt) /\ gcState' = "SWEEPING"
      /\ alloc' = alloc /\ refs' = refs /\ weakrefs' = weakrefs /\ roots' = roots
      /\ noHeapPtrs' = noHeapPtrs /\ final' = final /\ ignored' = ignored
      /\ young' = young /\ youngWeak' = youngWeak /\ youngFinal' = youngFinal
      /\ fired' = fired /\ current' = current /\ called' = called
  BY DEF FinishMarkingWith
<1>2. /\ Ground(S) /\ Handles \subseteq S /\ ToSet(queue) \subseteq S /\ S \subseteq alloc
      /\ doomed = {} /\ young = {} /\ youngFinal = <<>>
  BY <1>1, GroundFacts
<1>3. /\ Coloured(S, w) /\ Ordered(S, w) /\ Gathered(w, Len(oldFinal))
      /\ Deciding(S, w, d, Len(w.marked)) /\ d.ordering \subseteq Prebuilt
      /\ w.seen \subseteq alloc
  BY <1>1, <1>2, WalkedFacts, DecidedFacts, SeenExists
<1>4. \A o : o \in lost <=> o \in weak /\ target[o] \notin w.seen \ w.ordering
  BY DEF StillPointedTo
<1> HIDE DEF w, d, lost
<1>5. /\ w \in Passes /\ d \in Passes /\ w.marked \in Seq(Obj) /\ w.keep \in Seq(Obj)
      /\ d.run \in Seq(Obj) /\ d.keep \in Seq(Obj)
  BY <1>3, PassFacts DEF Coloured, Deciding
<1>6. /\ Shut(w.seen \cup S) /\ Prebuilt \subseteq S /\ noHeapPtrs \subseteq Prebuilt
      /\ S \subseteq w.seen \cup Prebuilt
  BY <1>2, <1>3 DEF Coloured, Ground
<1>7. Usable' = w.seen \cup S /\ Handles' = Handles /\ Usable = alloc
  BY <1>1, <1>2, <1>3, <1>6 DEF Usable, Handles
<1>8. /\ ToSet(d.keep) \cup ToSet(d.run) = ToSet(w.keep) \cup ToSet(w.marked)
      /\ ToSet(w.keep) \cup ToSet(w.marked) \subseteq (ToSet(oldFinal) \cap w.seen) \ ignored
      /\ ToSet(oldFinal) \subseteq ignored \cup ToSet(w.keep) \cup ToSet(w.marked)
  <2>1. Upto(w.marked, Len(w.marked)) = ToSet(w.marked)
    BY <1>5, UptoFacts
  <2>2. Upto(oldFinal, Len(oldFinal)) = ToSet(oldFinal)
    BY UptoFacts DEF Inv, Types
  <2> QED
    BY <1>3, <2>1, <2>2 DEF Deciding, Gathered
<1>9. /\ queue \in Seq(Obj) /\ queue' \in Seq(Obj)
      /\ ToSet(queue') = ToSet(queue) \cup ToSet(d.run)
  <2>1. queue \in Seq(Obj)
    BY DEF Inv, Types
  <2> QED
    BY <1>1, <1>5, <2>1, SetConcat
<1>10. weakrefs \subseteq Obj /\ weakrefs \subseteq alloc /\ oldWeak \subseteq weakrefs
  BY DEF Inv, Types, Weak
<1>11. \A o \in weakrefs : target'[o] = IF o \in lost THEN NULL ELSE target[o]
  BY <1>1, <1>10
<1>12. ASSUME NEW o \in weakrefs, o \notin doomed'
       PROVE  target'[o] \in (w.seen \ w.ordering) \cup Prebuilt \cup {NULL}
  <2>1. o \in w.seen \cup Prebuilt
    BY <1>1, <1>10, <1>12
  <2>2. o \in w.seen
    BY <1>10, <2>1, AllFacts
  <2>3. CASE o \in oldWeak
    BY <1>4, <1>11, <2>2, <2>3
  <2>4. CASE o \notin oldWeak
    <3>1. target[o] \in Prebuilt \cup {NULL}
      BY <1>2, <2>4 DEF Inv, Weak
    <3> QED
      BY <1>11, <3>1
  <2> QED
    BY <2>3, <2>4
<1>13. Types'
  <2>1. target' \in [Obj -> All \cup {NULL}]
    <3>1. \A o \in Obj : target[o] \in All \cup {NULL}
      BY DEF Inv, Types
    <3> QED
      BY <1>1, <3>1
  <2>2. doomed' \subseteq (Obj \cap alloc') \ young'
    <3>1. alloc \subseteq Obj \cup Prebuilt
      BY AllFacts DEF Inv, Types
    <3> QED
      BY <1>1, <1>2, <3>1
  <2>3. gcState' \in States
    BY <1>1 DEF States
  <2> QED
    BY <1>1, <1>5, <1>9, <2>1, <2>2, <2>3 DEF Inv, Types
<1>14. Closed'
  <2>1. Shut(Usable)'
    BY <1>1, <1>6, <1>7 DEF Shut
  <2> QED
    BY <1>1, <1>2, <1>7, <2>1 DEF Inv, Closed
<1>15. Lists'
  <2>1. /\ ToSet(queue) \cup ToSet(oldFinal) \subseteq final
        /\ final \subseteq called \cup ignored
                            \cup ToSet(queue) \cup ToSet(oldFinal) \cup ToSet(youngFinal)
    BY DEF Inv, Lists
  <2>2. ToSet(youngFinal) = {}
    BY <1>2 DEF ToSet
  <2>3. ToSet(queue') \cup ToSet(oldFinal') \subseteq (final' \cap Usable') \ young'
    BY <1>1, <1>2, <1>7, <1>8, <1>9, <2>1
  <2>4. final' \subseteq called' \cup ignored' \cup ToSet(queue') \cup ToSet(oldFinal')
    BY <1>1, <1>8, <1>9, <2>1, <2>2
  <2> QED
    BY <1>1, <2>2, <2>3, <2>4 DEF Lists
<1>16. Weak'
  <2>1. youngWeak = young \cap weakrefs
    BY DEF Inv, Weak
  <2>2. oldWeak' \subseteq (weakrefs' \cap Usable') \ young'
    BY <1>1, <1>2, <1>7, <1>10
  <2>3. \A o \in weakrefs' : target'[o] \in alloc' \cup {NULL}
    <3>1. \A o \in weakrefs : target[o] \in alloc \cup {NULL}
      BY DEF Inv, Weak
    <3> QED
      BY <1>1, <1>11, <3>1
  <2>4. \A o \in weakrefs' \ doomed' : target'[o] \in Usable' \cup {NULL}
    BY <1>1, <1>6, <1>7, <1>12
  <2>5. ASSUME NEW o \in weakrefs', o \notin young', o \notin oldWeak', o \notin doomed'
        PROVE  target'[o] \in Prebuilt \cup {NULL}
    <3>1. o \in weakrefs
      BY <1>1
    <3>2. CASE o \in oldWeak
      <4>1. o \in w.seen
        BY <1>1, <1>10, <2>5, <3>1, AllFacts
      <4>2. o \in lost
        BY <1>1, <2>5, <3>2, <4>1
      <4> QED
        BY <1>11, <3>1, <4>2
    <3>3. CASE o \notin oldWeak
      <4>1. target[o] \in Prebuilt \cup {NULL}
        BY <1>2, <3>1, <3>3 DEF Inv, Weak
      <4> QED
        BY <1>11, <3>1, <4>1
    <3> QED
      BY <3>2, <3>3
  <2> QED
    BY <1>1, <1>2, <2>1, <2>2, <2>3, <2>4, <2>5 DEF Weak
<1>17. Phases'
  BY <1>1, <1>3 DEF Phases
<1>18. Apart'
  <2> DEFINE n == Len(queue)
  <2>1. /\ n \in Nat /\ Len(d.run) \in Nat /\ Len(queue') = n + Len(d.run)
        /\ \A i \in 1 .. n + Len(d.run) :
              queue'[i] = IF i <= n THEN queue[i] ELSE d.run[i - n]
    BY <1>1, <1>5, <1>9, ConcatProperties
  <2>2. \A i \in 1 .. n : queue[i] \in S
    <3>1. \A i \in 1 .. n : queue[i] \in ToSet(queue)
      BY <1>9 DEF ToSet
    <3> QED
      BY <1>2, <3>1
  <2> HIDE DEF n
  <2> SUFFICES ASSUME NEW k \in 1 .. n + Len(d.run)
               PROVE  \E D \in SUBSET (w.seen \cup S) : Clear(D, k)'
    BY <1>7, <2>1 DEF Apart
  <2>3. CASE k <= n
    <3>1. k \in 1 .. n /\ \A i \in 1 .. k - 1 : i \in 1 .. n /\ i \in 1 .. n + Len(d.run)
                                                 /\ i <= n
      BY <2>1, <2>3
    <3>2. PICK D \in SUBSET alloc : Clear(D, k)
      BY <1>7, <3>1 DEF Inv, Apart, n
    <3>3. /\ Shut(D) /\ Handles \subseteq D
          /\ \A o \in weakrefs \ doomed : target[o] \in D \cup {NULL}
          /\ \A i \in 1 .. k - 1 : queue[i] \in D
          /\ queue[k] \notin D
      BY <3>2 DEF Clear
    <3>4. PICK E \in SUBSET (w.seen \cup S) : E = D \cap (w.seen \cup S)
      OBVIOUS
    <3>5. Shut(E)'
      BY <1>1, <1>6, <3>3, <3>4 DEF Shut
    <3>6. Handles' \subseteq E
      BY <1>2, <1>7, <3>3, <3>4
    <3>7. ASSUME NEW o \in weakrefs' \ doomed' PROVE target'[o] \in E \cup {NULL}
      <4>1. o \in weakrefs /\ target'[o] \in w.seen \cup S \cup {NULL}
        BY <1>1, <1>6, <1>12
      <4>2. target'[o] \in D \cup {NULL}
        BY <1>2, <1>11, <3>3, <4>1
      <4> QED
        BY <3>4, <4>1, <4>2
    <3>8. ASSUME NEW i \in 1 .. k - 1 PROVE queue'[i] \in E
      BY <2>1, <2>2, <3>1, <3>3, <3>4
    <3>9. queue'[k] \notin E
      BY <2>1, <2>3, <3>3, <3>4
    <3>10. Clear(E, k)'
      BY <3>5, <3>6, <3>7, <3>8, <3>9 DEF Clear
    <3> QED
      BY <3>10
  <2>4. CASE ~(k <= n)
    <3> DEFINE j == k - n
    <3>1. /\ j \in 1 .. Len(d.run)
          /\ \A i \in 1 .. k - 1 : i \in 1 .. n + Len(d.run)
                /\ (i <= n => i \in 1 .. n) /\ (~(i <= n) => i - n \in 1 .. j - 1)
      BY <2>1, <2>4
    <3> HIDE DEF j
    <3>2. Behind(S, w, d.run, j)
      BY <1>3, <3>1 DEF Deciding
    <3>3. PICK D \in SUBSET (w.seen \cup S) :
             /\ Shut(D) /\ Settled(S, w) \subseteq D
             /\ \A i \in 1 .. j - 1 : d.run[i] \in D
             /\ d.run[j] \notin D
      BY <3>2 DEF Behind
    <3>4. S \subseteq D /\ w.seen \ w.ordering \subseteq D
      BY <3>3 DEF Settled
    <3>5. Shut(D)'
      BY <1>1, <3>3 DEF Shut
    <3>6. Handles' \subseteq D
      BY <1>2, <1>7, <3>4
    <3>7. ASSUME NEW o \in weakrefs' \ doomed' PROVE target'[o] \in D \cup {NULL}
      BY <1>1, <1>6, <1>12, <3>4
    <3>8. ASSUME NEW i \in 1 .. k - 1 PROVE queue'[i] \in D
      <4>1. CASE i <= n
        BY <2>1, <2>2, <3>1, <3>4, <4>1
      <4>2. CASE ~(i <= n)
        BY <2>1, <3>1, <3>3, <4>2
      <4> QED
        BY <4>1, <4>2
    <3>9. queue'[k] \notin D
      BY <2>1, <2>4, <3>3 DEF j
    <3>10. Clear(D, k)'
      BY <3>5, <3>6, <3>7, <3>8, <3>9 DEF Clear
    <3> QED
      BY <3>10
  <2> QED
    BY <2>3, <2>4
<1> QED
  BY <1>13, <1>14, <1>15, <1>16, <1>17, <1>18 DEF Inv

-----------------------------------------------------------------------------
LEMMA StutterInv == Inv /\ UNCHANGED vars => Inv'
<1> SUFFICES ASSUME Inv, UNCHANGED vars PROVE Inv'
  OBVIOUS
<1>1. /\ alloc' = alloc /\ refs' = refs /\ weakrefs' = weakrefs /\ target' = target
      /\ roots' = roots /\ noHeapPtrs' = noHeapPtrs /\ final' = final /\ ignored' = ignored
      /\ young' = young /\ youngWeak' = youngWeak /\ oldWeak' = oldWeak
      /\ youngFinal' = youngFinal /\ oldFinal' = oldFinal
      /\ ordering' = ordering /\ gcState' = gcState /\ doomed' = doomed
      /\ queue' = queue /\ fired' = fired /\ current' = current /\ called' = called
  BY DEF vars, heap, lists, major, calls
<1>2. Usable' = Usable /\ Handles' = Handles
  BY <1>1 DEF Usable, Handles
<1>3. Types' /\ Phases'
  BY <1>1 DEF Inv, Types, Phases
<1>4. Closed'
  BY <1>1, <1>2 DEF Inv, Closed, Shut
<1>5. Lists'
  BY <1>1, <1>2 DEF Inv, Lists
<1>6. Weak'
  BY <1>1, <1>2 DEF Inv, Weak
<1>7. Apart'
  BY <1>1, <1>2 DEF Inv, Apart, Clear, Shut
<1> QED
  BY <1>3, <1>4, <1>5, <1>6, <1>7 DEF Inv

LEMMA NextInv == Inv /\ [Next]_vars => Inv'
<1> SUFFICES ASSUME Inv, [Next]_vars PROVE Inv'
  OBVIOUS
<1>1. CASE Mutator
  <2>1. ASSUME NEW x \in Obj, Malloc(x) PROVE Inv'
    BY <2>1, MallocInv
  <2>2. ASSUME NEW x \in Obj, RegisterFinalizer(x) PROVE Inv'
    BY <2>2, RegisterFinalizerInv
  <2>3. ASSUME NEW x \in Obj, IgnoreFinalizer(x) PROVE Inv'
    BY <2>3, IgnoreFinalizerInv
  <2>4. ASSUME NEW x \in Obj, Read(x) PROVE Inv'
    BY <2>4, ReadInv
  <2>5. ASSUME NEW x \in Obj, Deref(x) PROVE Inv'
    BY <2>5, DerefInv
  <2>6. ASSUME NEW x \in Obj, Drop(x) PROVE Inv'
    BY <2>6, DropInv
  <2>7. ASSUME NEW w \in Obj, NEW t \in All, MallocWeakref(w, t) PROVE Inv'
    BY <2>7, MallocWeakrefInv
  <2>8. ASSUME NEW x \in All, NEW y \in All, Write(x, y) PROVE Inv'
    BY <2>8, WriteInv
  <2>9. ASSUME NEW x \in All, NEW y \in All, Erase(x, y) PROVE Inv'
    BY <2>9, EraseInv
  <2> QED
    BY <1>1, <2>1, <2>2, <2>3, <2>4, <2>5, <2>6, <2>7, <2>8, <2>9 DEF Mutator
<1>2. CASE Collector
  <2>1. CASE Minor
    BY <2>1, MinorInv
  <2>2. CASE FinishMarking
    BY <2>2, FinishMarkingInv DEF FinishMarking
  <2>3. CASE Sweep
    BY <2>3, SweepInv DEF Sweep, States
  <2>4. CASE SweepAndRaise
    BY <2>4, SweepInv DEF SweepAndRaise, States
  <2>5. CASE ExecuteFinalizers
    BY <2>5, ExecuteFinalizersInv
  <2> QED
    BY <1>2, <2>1, <2>2, <2>3, <2>4, <2>5 DEF Collector
<1>3. CASE Caller
  BY <1>3, CallerInv
<1>4. CASE UNCHANGED vars
  BY <1>4, StutterInv
<1> QED
  BY <1>1, <1>2, <1>3, <1>4 DEF Next

LEMMA InvAlways == Spec => []Inv
  BY InitInv, NextInv, PTL DEF Spec

-----------------------------------------------------------------------------
(* The theorems. *)

LEMMA ListOf ==
    ASSUME NEW s \in Seq(Obj), NEW T, ToSet(s) \subseteq T
    PROVE  s \in Seq(T)
<1>1. Len(s) \in Nat /\ s \in [1 .. Len(s) -> Obj] /\ \A i \in 1 .. Len(s) : s[i] \in T
  BY DEF ToSet
<1>2. s \in [1 .. Len(s) -> T]
  BY <1>1
<1> QED
  BY <1>1, <1>2, SeqDef

\* The types; that the lists of young and of old objects hold nothing else; and that nothing
\* is queued, waits or has been called without register_finalizer.
THEOREM TypeCorrectness == Spec => []TypeOK
<1>1. ASSUME Inv PROVE TypeOK
  <2>1. Types /\ Closed /\ Lists /\ Weak /\ Phases
    BY <1>1 DEF Inv
  <2>2. queue \in Seq(final) /\ oldFinal \in Seq(final) /\ youngFinal \in Seq(final)
    BY <2>1, ListOf DEF Types, Lists
  <2>3. Usable \subseteq alloc /\ roots \subseteq Usable /\ current \in alloc \cup {NULL}
    BY <2>1 DEF Closed, Handles, Usable
  <2>4. ordering \subseteq All
    BY <2>1, AllFacts DEF Phases
  <2>5. youngWeak \subseteq young \cap weakrefs /\ oldWeak \subseteq weakrefs \ young
    BY <2>1 DEF Weak
  <2> QED
    BY <2>1, <2>2, <2>3, <2>4, <2>5 DEF Types, TypeOK
<1> QED
  BY <1>1, InvAlways, PTL

LEMMA ReachableKept == ASSUME NEW T, Handles \subseteq T, Shut(T) PROVE Reachable \subseteq T
<1>1. Children(T) \subseteq T
  BY ShutChildren
<1>2. Handles \cap All \subseteq T /\ Children(T) \cap All \subseteq T
  BY <1>1
<1> QED
  BY <1>2, Reached DEF Reachable

\* Neither what the program holds, nor what a live weakref points to, nor an object with a
\* finalizer that is due or will be, nor anything that one of these refers to, has been freed
\* or is about to be: freeing goes by reachability, which every finalizer that is called and
\* every weakref that is followed changes.
THEOREM NoReferenceDangles == Spec => []NoDangling
<1>1. ASSUME Inv PROVE NoDangling
  <2> DEFINE pointedTo == {target[w] : w \in Reachable \cap weakrefs} \ {NULL}
             due == ToSet(queue) \cup ToSet(oldFinal) \cup ToSet(youngFinal)
             A == Handles \cup pointedTo \cup due
  <2>1. Handles \subseteq Usable /\ Shut(Usable) /\ due \subseteq Usable
    BY <1>1 DEF Inv, Closed, Lists
  <2>2. Reachable \subseteq Usable
    BY <2>1, ReachableKept
  <2>3. pointedTo \subseteq Usable
    BY <1>1, <2>2 DEF Inv, Weak, Usable
  <2>4. A \cap All \subseteq Usable /\ Children(Usable) \cap All \subseteq Usable
    BY <2>1, <2>3, ShutChildren
  <2>5. ReachedWithin(A, All) \subseteq Usable
    <3> HIDE DEF A
    <3> QED
      BY <2>4, Reached
  <2> QED
    BY <2>5 DEF NoDangling, Usable
<1> QED
  BY <1>1, InvAlways, PTL

\* Weakrefs are cleared before finalizers are called: no weakref of the program leads to an
\* object that is in the queue.
THEOREM WeakrefsAreCleared == Spec => []WeakrefsClearedFirst
<1>1. ASSUME Inv PROVE WeakrefsClearedFirst
  <2> SUFFICES ASSUME NEW w \in weakrefs \ doomed, target[w] \in ToSet(queue) PROVE FALSE
    BY DEF WeakrefsClearedFirst
  <2>1. queue \in Seq(Obj) /\ ToSet(queue) \subseteq Obj
    BY <1>1 DEF Inv, Types, ToSet
  <2>2. PICK k \in 1 .. Len(queue) : target[w] = queue[k]
    BY <2>1 DEF ToSet
  <2>3. PICK D \in SUBSET Usable : Clear(D, k)
    BY <1>1 DEF Inv, Apart
  <2>4. target[w] \in D \cup {NULL} /\ queue[k] \notin D
    BY <2>3 DEF Clear
  <2> QED
    BY <2>1, <2>2, <2>4, AllFacts
<1> QED
  BY <1>1, InvAlways, PTL

\* The steps that free nothing and change no weakref that there is.
LEMMA OtherSteps ==
    ASSUME Inv, [Next]_vars
    PROVE  \/ Minor
           \/ \E S \in SUBSET All : FinishMarkingWith(S)
           \/ \E s \in States : SweepTo(s)
           \/ alloc \subseteq alloc' /\ \A w \in weakrefs : target'[w] = target[w]
<1> DEFINE Quiet == alloc \subseteq alloc' /\ \A w \in weakrefs : target'[w] = target[w]
<1>1. CASE Mutator
  <2>1. ASSUME NEW x \in Obj, Malloc(x) PROVE Quiet
    BY <2>1 DEF Malloc, Born
  <2>2. ASSUME NEW w \in Obj, NEW t \in All, MallocWeakref(w, t) PROVE Quiet
    <3>1. w \notin alloc /\ alloc' = alloc \cup {w} /\ target' = [target EXCEPT ![w] = t]
      BY <2>2 DEF MallocWeakref, Born
    <3>2. weakrefs \subseteq alloc /\ weakrefs \subseteq Obj /\ target \in [Obj -> All \cup {NULL}]
      BY DEF Inv, Types
    <3> QED
      BY <3>1, <3>2
  <2>3. ASSUME NEW x \in Obj, \/ RegisterFinalizer(x) \/ IgnoreFinalizer(x)
                              \/ Read(x) \/ Deref(x) \/ Drop(x)
        PROVE  Quiet
    BY <2>3 DEF RegisterFinalizer, IgnoreFinalizer, Read, Deref, Drop, Hold, heap
  <2>4. ASSUME NEW x, NEW y, Write(x, y) \/ Erase(x, y) PROVE Quiet
    BY <2>4 DEF Write, Erase
  <2> HIDE DEF Quiet
  <2> QED
    BY <1>1, <2>1, <2>2, <2>3, <2>4 DEF Mutator, Quiet
<1>2. CASE Collector
  <2>1. CASE Sweep \/ SweepAndRaise
    BY <2>1 DEF Sweep, SweepAndRaise, States
  <2>2. CASE ExecuteFinalizers
    BY <2>2 DEF ExecuteFinalizers, heap
  <2> QED
    BY <1>2, <2>1, <2>2 DEF Collector, FinishMarking
<1>3. CASE Caller
  BY <1>3 DEF Caller, Perform, Return, Collect, TakeNext, heap
<1>4. CASE UNCHANGED vars
  BY <1>4 DEF vars, heap
<1> QED
  BY <1>1, <1>2, <1>3, <1>4 DEF Next

\* An object with a finalizer is freed only when the finalizer has been called, or was to be
\* ignored: no collection loses one from its lists.
THEOREM EachIsFinalized == Spec => FinalizedBeforeFreed
<1> DEFINE Finalized == \A x \in final : x \notin alloc' => x \in called \cup ignored
<1>1. ASSUME Inv, [Next]_vars PROVE Finalized
  <2> SUFFICES ASSUME NEW x \in final, x \notin alloc' PROVE x \in called \cup ignored
    OBVIOUS
  <2>1. /\ x \in alloc
        /\ \/ x \in called \cup ignored
           \/ x \in ToSet(queue) \cup ToSet(oldFinal)
           \/ x \in ToSet(youngFinal)
    BY <1>1 DEF Inv, Types, Lists
  <2>2. /\ ToSet(queue) \cup ToSet(oldFinal) \subseteq Usable \ young
        /\ ToSet(youngFinal) \subseteq Usable
    BY <1>1 DEF Inv, Lists
  <2>3. CASE Minor
    <3>1. x \in young \ Survivors
      BY <2>1, <2>3 DEF Minor, Free
    <3>2. (ToSet(youngFinal) \ ignored) \cap young \subseteq Survivors
      BY <1>1, SurvivorsFacts
    <3> QED
      BY <2>1, <2>2, <3>1, <3>2
  <2>4. ASSUME NEW s \in States, SweepTo(s) PROVE x \in called \cup ignored
    <3>1. x \in doomed
      BY <2>1, <2>4 DEF SweepTo, Free
    <3> QED
      BY <2>1, <2>2, <3>1 DEF Usable
  <2>5. ASSUME NEW S, FinishMarkingWith(S) PROVE x \in called \cup ignored
    BY <2>1, <2>5 DEF FinishMarkingWith
  <2> QED
    BY <1>1, <2>1, <2>3, <2>4, <2>5, OtherSteps
<1>2. Inv /\ [Next]_vars => [Finalized]_vars
  BY <1>1
<1> QED
  BY <1>2, InvAlways, PTL DEF Spec, FinalizedBeforeFreed

\* A weakref stays valid as long as the program holds its target, through promotions,
\* collections that find the target dead and finalizers that bring it back.
THEOREM WeakrefsStay == Spec => WeakrefsKept
<1> DEFINE Kept1 == \A w \in weakrefs : target[w] \in Reachable \cap Obj /\ w \in alloc'
                                           => target'[w] = target[w]
<1>1. ASSUME Inv, [Next]_vars PROVE Kept1
  <2> SUFFICES ASSUME NEW w \in weakrefs, target[w] \in Reachable, target[w] \in Obj,
                      w \in alloc'
               PROVE  target'[w] = target[w]
    OBVIOUS
  <2>1. /\ w \in Obj /\ w \in alloc /\ Handles \subseteq alloc /\ refs \subseteq alloc \X alloc
        /\ Prebuilt \cap Obj = {} /\ noHeapPtrs \subseteq Prebuilt
    BY <1>1, AllFacts DEF Inv, Types, Closed, Usable
  <2>2. CASE Minor
    <3> DEFINE dead == young \ Survivors
    <3>1. /\ alloc' = alloc \ dead
          /\ target' = [v \in Obj |->
                IF v \in dead \/ (v \in youngWeak \cap Survivors /\ ~Valid(v))
                THEN NULL ELSE target[v]]
      BY <2>2 DEF Minor, Free
    <3>2. /\ Handles \cap young \subseteq Survivors
          /\ \A r \in refs : r[1] \in alloc /\ (r[1] \notin young \/ r[1] \in Survivors)
                                /\ r[2] \in young => r[2] \in Survivors
      BY <1>1, SurvivorsFacts
    <3>3. Shut(alloc \ dead)
      BY <2>1, <3>2 DEF Shut
    <3>4. Handles \subseteq alloc \ dead
      BY <2>1, <3>2
    <3>5. target[w] \notin dead
      <4> HIDE DEF dead
      <4> QED
        BY <3>3, <3>4, ReachableKept
    <3>6. Valid(w)
      BY <3>5 DEF Valid
    <3> QED
      BY <2>1, <3>1, <3>6
  <2>3. ASSUME NEW s \in States, SweepTo(s) PROVE target'[w] = target[w]
    BY <2>1, <2>3 DEF SweepTo, Free
  <2>4. ASSUME NEW S, FinishMarkingWith(S) PROVE target'[w] = target[w]
    <3>1. StepAllowed("MARKING") /\ S \in MarkedSets
      BY <2>4 DEF FinishMarkingWith
    <3>2. Ground(S) /\ Handles \subseteq S /\ Coloured(S, Walked(S))
      BY <1>1, <3>1, GroundFacts, WalkedFacts
    <3>3. target[w] \in S
      BY <3>2, ReachableKept DEF Ground
    <3>4. target[w] \in StillPointedTo(Walked(S))
      BY <2>1, <3>2, <3>3 DEF Coloured, StillPointedTo
    <3>5. target' = [v \in Obj |->
             IF v \in oldWeak \cap Walked(S).seen /\ target[v] \notin StillPointedTo(Walked(S))
             THEN NULL ELSE target[v]]
      BY <2>4 DEF FinishMarkingWith
    <3> QED
      BY <2>1, <3>4, <3>5
  <2> QED
    BY <1>1, <2>2, <2>3, <2>4, OtherSteps
<1>2. Inv /\ [Next]_vars => [Kept1]_vars
  BY <1>1
<1> QED
  BY <1>2, InvAlways, PTL DEF Spec, WeakrefsKept

\* The order of finalizers: of the dying objects those are queued that no other one leads to,
\* except in a cycle, of which one is queued; all others wait.
THEOREM FinalizersInOrder == Spec => InOrder
<1> DEFINE Dying(S) == ToSet(oldFinal) \ (S \cup ignored)
           Queued == ToSet(queue') \ ToSet(queue)
           First(S) == {x \in Dying(S) : \A a \in Dying(S) : Leads(a, x) => Leads(x, a)}
           Right(S) == /\ Queued \subseteq First(S)
                       /\ \A x \in First(S) :
                             Cardinality({y \in Queued : Leads(x, y) /\ Leads(y, x)}) = 1
<1>1. ASSUME Inv, NEW S, FinishMarkingWith(S) PROVE Right(S)
  <2> DEFINE w == Walked(S)
             d == Decided(w)
  <2>1. StepAllowed("MARKING") /\ S \in MarkedSets /\ queue' = queue \o d.run
    BY <1>1 DEF FinishMarkingWith
  <2>2. Ground(S) /\ ToSet(queue) \subseteq S
    BY <1>1, <2>1, GroundFacts
  <2>3. /\ Coloured(S, w) /\ Ordered(S, w) /\ Gathered(w, Len(oldFinal))
        /\ Deciding(S, w, d, Len(w.marked))
    BY <2>2, WalkedFacts, DecidedFacts
  <2> DEFINE n == Len(w.marked)
  <2> HIDE DEF w, d
  <2>4. /\ w.marked \in Seq(Obj) /\ n \in Nat /\ Places(w) = 1 .. n /\ w \in Passes
        /\ d.run \in Seq(Obj)
    BY <2>3, PassFacts DEF Coloured, Deciding, Places
  <2>5. ToSet(queue') = ToSet(queue) \cup ToSet(d.run)
    BY <1>1, <2>1, <2>4, SetConcat DEF Inv, Types
  <2>6. /\ \A k \in 1 .. n : w.marked[k] \in w.seen \ S
        /\ \A j, k \in 1 .. n : j < k => ~Leads(w.marked[j], w.marked[k])
        /\ \A k \in 1 .. n : w.marked[k] \in w.ordering <=> Alone(w, k)
        /\ \A o \in w.seen \ S : \E k \in 1 .. n : Leads(w.marked[k], o)
    BY <2>3, <2>4 DEF Ordered
  <2>7. \A k \in 1 .. n : Alone(w, k) <=> \A j \in 1 .. n : j # k => ~Leads(w.marked[j], w.marked[k])
    BY <2>4 DEF Alone
  <2>8. ASSUME NEW y \in ToSet(d.run) PROVE \E k \in 1 .. n : y = w.marked[k] /\ Alone(w, k)
    <3>1. y \in Upto(w.marked, n) /\ y \in w.ordering
      BY <2>3 DEF Deciding
    <3> QED
      BY <2>6, <3>1 DEF Upto
  <2>9. \A k \in 1 .. n : Alone(w, k) => w.marked[k] \in ToSet(d.run)
    BY <2>3, <2>4 DEF Deciding
  <2>10. Queued = ToSet(d.run)
    BY <2>2, <2>5, <2>6, <2>8
  <2>11. Upto(oldFinal, Len(oldFinal)) = ToSet(oldFinal)
    BY <1>1, UptoFacts DEF Inv, Types
  <2>12. Dying(S) \subseteq w.seen \ S
    BY <2>3, <2>11 DEF Gathered
  <2>13. \A k \in 1 .. n : w.marked[k] \in Dying(S)
    <3>1. \A k \in 1 .. n : w.marked[k] \in ToSet(w.marked)
      BY <2>4 DEF ToSet
    <3> QED
      BY <2>3, <2>6, <3>1 DEF Gathered
  <2> HIDE DEF Dying, Queued, n
  <2>14. ASSUME NEW y \in Queued PROVE y \in First(S)
    <3>1. PICK k \in 1 .. n : y = w.marked[k] /\ Alone(w, k)
      BY <2>8, <2>10
    <3>2. ASSUME NEW a \in Dying(S), Leads(a, y) PROVE Leads(y, a)
      <4>1. PICK j \in 1 .. n : Leads(w.marked[j], a)
        BY <2>6, <2>12
      <4>2. Leads(w.marked[j], y)
        BY <3>2, <4>1, LeadsFacts
      <4>3. j = k
        BY <2>7, <3>1, <4>2
      <4> QED
        BY <3>1, <4>1, <4>3
    <3> QED
      BY <2>13, <3>1, <3>2
  <2>15. ASSUME NEW x \in First(S)
         PROVE  Cardinality({y \in Queued : Leads(x, y) /\ Leads(y, x)}) = 1
    <3>1. x \in Dying(S) /\ \A a \in Dying(S) : Leads(a, x) => Leads(x, a)
      OBVIOUS
    <3>2. PICK j \in 1 .. n : Leads(w.marked[j], x)
      BY <2>6, <2>12, <3>1
    <3> DEFINE b == w.marked[j]
    <3>3. Leads(x, b) /\ Leads(b, x)
      BY <2>13, <3>1, <3>2
    <3>4. Alone(w, j)
      <4> SUFFICES ASSUME NEW i \in 1 .. n, i # j, Leads(w.marked[i], b) PROVE FALSE
        BY <2>7
      <4>1. Leads(w.marked[i], x)
        BY <3>3, LeadsFacts
      <4>2. Leads(x, w.marked[i])
        BY <2>13, <3>1, <4>1
      <4>3. Leads(b, w.marked[i])
        BY <3>3, <4>2, LeadsFacts
      <4>4. i < j \/ j < i
        BY <2>4
      <4> QED
        BY <2>6, <4>3, <4>4
    <3>5. b \in Queued
      BY <2>9, <2>10, <3>4
    <3>6. ASSUME NEW y \in Queued, Leads(x, y) PROVE y = b
      <4>1. PICK k \in 1 .. n : y = w.marked[k] /\ Alone(w, k)
        BY <2>8, <2>10
      <4>2. Leads(b, y)
        BY <3>3, <3>6, LeadsFacts
      <4> QED
        BY <2>7, <4>1, <4>2
    <3> HIDE DEF b
    <3>7. {y \in Queued : Leads(x, y) /\ Leads(y, x)} = {b}
      BY <3>3, <3>5, <3>6
    <3> QED
      BY <3>7, FS_Singleton
  <2> QED
    BY <2>14, <2>15
<1>2. ASSUME Inv PROVE \A S \in SUBSET All : FinishMarkingWith(S) => Right(S)
  <2> HIDE DEF Right
  <2> QED
    BY <1>1, <1>2
<1>3. Inv => [\A S \in SUBSET All : FinishMarkingWith(S) => Right(S)]_vars
  BY <1>2
<1> QED
  BY <1>3, InvAlways, PTL DEF InOrder

=============================================================================
