------------------------------ MODULE OrderedMap ------------------------------
(***************************************************************************)
(* What an RPython ordered dictionary promises: a sequence of keys, each   *)
(* once, in the order in which they came, except those that were moved.    *)
(* (Its values go with the keys.)  A clear() that runs out of memory loses *)
(* it, until another one succeeds.                                         *)
(***************************************************************************)
EXTENDS Sequences, SequencesExt

CONSTANTS Key,
          Lost

VARIABLE order    \* the keys, from the first to the last, or Lost

Init == order \in {ks \in BoundedSeq(Key, 2) : IsInjective(ks)}

Without(k) == RemoveAt(order, CHOOSE i \in 1 .. Len(order) : order[i] = k)

\* A new key goes to the end; an old one keeps its place.
With(ks, k) == IF k \in ToSet(ks) THEN ks ELSE Append(ks, k)
Set(k) == order' = With(order, k)

\* update() with the two items of another dictionary, in their order.
Update(j, k) == order' = With(With(order, j), k)

Delete(k) == k \in ToSet(order) /\ order' = Without(k)
PopLast == order # <<>> /\ order' = Front(order)
PopFirst == order # <<>> /\ order' = Tail(order)
MoveToLast(k) == k \in ToSet(order) /\ order' = Append(Without(k), k)
MoveToFirst(k) == k \in ToSet(order) /\ order' = <<k>> \o Without(k)
Clear == order' = <<>>

Lose == order' = Lost

Next ==
    \/ /\ order # Lost
       /\ \/ \E k \in Key : Set(k) \/ Delete(k) \/ MoveToLast(k) \/ MoveToFirst(k)
          \/ \E j, k \in Key : j # k /\ Update(j, k)
          \/ PopLast \/ PopFirst
    \/ Clear \/ Lose

Spec == Init /\ [][Next]_order
=============================================================================
