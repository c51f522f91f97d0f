--------------------------- MODULE SignalsProofs ---------------------------
(***************************************************************************)
(* What holds of signals and actions for any threads, signals and actions, *)
(* any check interval and any depth of re-entrant calls.                   *)
(***************************************************************************)
EXTENDS Signals, SequenceTheorems, FiniteSetTheorems, WellFoundedInduction,
        TLAPS

Call == [for : {"signal", "action"}, rest : SUBSET Actions]

Types ==
    /\ ticker \in -1 .. Interval
    /\ bits \subseteq Signals /\ inHandler \subseteq Signals /\ owed \subseteq Signals
    /\ arrivals \in 0 .. MaxArrivals
    /\ pending \in Signals \cup {NoSignal}
    /\ fireElsewhere \in BOOLEAN /\ enabled \subseteq Threads
    /\ fired \subseteq Actions /\ flagged \subseteq Actions
    /\ holder \in Threads \cup {NoThread}
    /\ pc \in [Threads -> PCs]
    /\ value \in [Threads -> -1 .. Interval]
    /\ calls \in [Threads -> Seq(Call)]

\* Whoever is in the interpreter has the GIL.
HasGil == \A t \in Threads : pc[t] \notin {"outside", "return", "yielding"} => holder = t

\* The depth of the calls: the dispatcher is not entered at the bound.
Depth ==
    \A t \in Threads :
        /\ Len(calls[t]) <= MaxDepth
        /\ pc[t] \notin {"execute", "next", "outside", "return"} => Len(calls[t]) < MaxDepth
        /\ pc[t] = "next" => Len(calls[t]) > 0

\* A pending signal that is not fired in another thread: the ticker was forced, and
\* no decrement under way overwrites it, until the dispatcher looks.
Armed ==
    pending # NoSignal /\ ~fireElsewhere =>
        \/ \E t \in Threads : pc[t] \in {"reset", "poll"}
        \/ /\ ticker = -1
           /\ \A t \in Threads : pc[t] = "decrement" => value[t] = -1

\* The action a is still to be performed in the i-th call of thread t.
In(a, t, i) == i \in 1 .. Len(calls[t]) /\ a \in calls[t][i].rest

\* The call of a signal handler has no actions to perform.
HandlersHaveNone ==
    \A t \in Threads : \A i \in 1 .. Len(calls[t]) :
        calls[t][i].for = "signal" => calls[t][i].rest = {}

FlaggedIsThere ==
    \A a \in Actions : a \in flagged => a \in fired \/ \E t \in Threads, i \in Nat : In(a, t, i)

ThereIsFlagged ==
    \A a \in Actions :
        /\ a \in fired => a \in flagged
        /\ \A t \in Threads, i \in Nat : In(a, t, i) => a \in flagged /\ a \notin fired

InOneCall ==
    \A a \in Actions, t, u \in Threads, i, j \in Nat :
        In(a, t, i) /\ In(a, u, j) => t = u /\ i = j

Lists == HandlersHaveNone /\ FlaggedIsThere /\ ThereIsFlagged /\ InOneCall

Inv == Types /\ HasGil /\ Depth /\ Armed /\ NoSignalLost /\ Lists

-----------------------------------------------------------------------------
(* Sequences of calls. *)

\* What a call added on top of a thread's calls leaves of the others.
LEMMA Pushed ==
    ASSUME NEW s \in Seq(Call), NEW c \in Call
    PROVE  /\ <<c>> \o s \in Seq(Call)
           /\ Len(<<c>> \o s) = Len(s) + 1
           /\ (<<c>> \o s)[1] = c
           /\ \A i \in 1 .. Len(s) : (<<c>> \o s)[i + 1] = s[i]
<1>1. <<c>> \in Seq(Call) /\ Len(<<c>>) = 1 /\ <<c>>[1] = c
  OBVIOUS
<1>2. /\ <<c>> \o s \in Seq(Call)
      /\ Len(<<c>> \o s) = 1 + Len(s)
      /\ \A i \in 1 .. 1 + Len(s) :
            (<<c>> \o s)[i] = IF i <= 1 THEN <<c>>[i] ELSE s[i - 1]
  BY <1>1, ConcatProperties
<1> QED
  BY <1>1, <1>2

\* What removing the top call leaves of the others.
LEMMA Popped ==
    ASSUME NEW s \in Seq(Call), s # <<>>
    PROVE  /\ Tail(s) \in Seq(Call)
           /\ Len(s) > 0
           /\ Len(Tail(s)) = Len(s) - 1
           /\ \A i \in 1 .. Len(s) - 1 : Tail(s)[i] = s[i + 1]
           /\ Head(s) = s[1]
BY HeadTailProperties, SMT

\* Replacing what is left of the top call.
LEMMA Worked ==
    ASSUME NEW s \in Seq(Call), Len(s) > 0, NEW R \in SUBSET Actions
    PROVE  LET r == [s EXCEPT ![1] = [s[1] EXCEPT !.rest = R]]
           IN  /\ r \in Seq(Call)
               /\ Len(r) = Len(s)
               /\ r[1].for = s[1].for /\ r[1].rest = R
               /\ \A i \in 2 .. Len(s) : r[i] = s[i]
<1> DEFINE c == [s[1] EXCEPT !.rest = R]
<1>1. s[1] \in Call
  BY SMT
<1>2. c \in Call /\ c.for = s[1].for /\ c.rest = R
  BY <1>1 DEF Call
<1>3. ASSUME NEW d \in Call
      PROVE  /\ [s EXCEPT ![1] = d] \in Seq(Call)
             /\ Len([s EXCEPT ![1] = d]) = Len(s)
             /\ [s EXCEPT ![1] = d][1] = d
             /\ \A i \in 2 .. Len(s) : [s EXCEPT ![1] = d][i] = s[i]
  BY SMT
<1> HIDE DEF c
<1>4. LET r == [s EXCEPT ![1] = c]
      IN  /\ r \in Seq(Call)
          /\ Len(r) = Len(s)
          /\ r[1].for = s[1].for /\ r[1].rest = R
          /\ \A i \in 2 .. Len(s) : r[i] = s[i]
  BY <1>2, <1>3
<1> QED
  BY <1>4 DEF c

-----------------------------------------------------------------------------
(* What a thread does to the lists of actions. *)

\* A call is added on top, with actions that are in no call.
LEMMA PushKeepsCalls ==
    ASSUME Types, NEW t \in Threads, NEW c \in Call,
           calls' = [calls EXCEPT ![t] = <<c>> \o @]
    PROVE  /\ calls' \in [Threads -> Seq(Call)]
           /\ Len(calls'[t]) = Len(calls[t]) + 1
           /\ \A u \in Threads \ {t} : calls'[u] = calls[u]
           /\ calls'[t][1] = c
           /\ \A i \in 1 .. Len(calls[t]) : calls'[t][i + 1] = calls[t][i]
<1>1. calls[t] \in Seq(Call)
  BY DEF Types
<1>2. calls'[t] = <<c>> \o calls[t]
  BY DEF Types
<1> QED
  BY <1>1, <1>2, Pushed DEF Types

\* A call is removed from the top.
LEMMA PopKeepsCalls ==
    ASSUME Types, NEW t \in Threads, calls[t] # <<>>,
           calls' = [calls EXCEPT ![t] = Tail(@)]
    PROVE  /\ calls' \in [Threads -> Seq(Call)]
           /\ Len(calls[t]) > 0
           /\ Len(calls'[t]) = Len(calls[t]) - 1
           /\ \A u \in Threads \ {t} : calls'[u] = calls[u]
           /\ \A i \in 1 .. Len(calls[t]) - 1 : calls'[t][i] = calls[t][i + 1]
           /\ Top(t) = calls[t][1]
<1>1. calls[t] \in Seq(Call)
  BY DEF Types
<1>2. calls'[t] = Tail(calls[t])
  BY DEF Types
<1> QED
  BY <1>1, <1>2, Popped DEF Types, Top

\* A finished call, which has nothing left to perform, is removed.
LEMMA PopKeepsLists ==
    ASSUME Types, Lists, NEW t \in Threads, calls[t] # <<>>, Top(t).rest = {},
           calls' = [calls EXCEPT ![t] = Tail(@)], UNCHANGED actions
    PROVE  Lists'
<1>1. /\ calls' \in [Threads -> Seq(Call)]
      /\ Len(calls[t]) > 0
      /\ Len(calls'[t]) = Len(calls[t]) - 1
      /\ \A u \in Threads \ {t} : calls'[u] = calls[u]
      /\ \A i \in 1 .. Len(calls[t]) - 1 : calls'[t][i] = calls[t][i + 1]
      /\ Top(t) = calls[t][1]
  BY PopKeepsCalls
<1> DEFINE Was(u, i) == IF u = t THEN i + 1 ELSE i
<1>2. \A u \in Threads : Len(calls[u]) \in Nat
  BY DEF Types
<1>3. ASSUME NEW a \in Actions, NEW u \in Threads, NEW i \in Nat
      PROVE  In(a, u, i)' => In(a, u, Was(u, i))
  BY <1>1, <1>2 DEF In
<1>4. ASSUME NEW a \in Actions, NEW u \in Threads, NEW i \in Nat, In(a, u, i)
      PROVE  \E j \in Nat : In(a, u, j)'
  <2>1. CASE u # t
    BY <2>1, <1>1, <1>4 DEF In
  <2>2. CASE u = t
    <3>1. i # 1
      BY <2>2, <1>1, <1>4 DEF In
    <3>2. i - 1 \in 1 .. Len(calls[t]) - 1
      BY <3>1, <2>2, <1>2, <1>4 DEF In
    <3>3. calls'[t][i - 1] = calls[t][i]
      BY <3>2, <1>1, <1>2
    <3>4. In(a, t, i - 1)'
      BY <3>2, <3>3, <2>2, <1>1, <1>4 DEF In
    <3> QED
      BY <3>2, <3>4, <2>2
  <2> QED
    BY <2>1, <2>2
<1>5. HandlersHaveNone'
  <2> SUFFICES ASSUME NEW u \in Threads, NEW i \in 1 .. Len(calls'[u]), calls'[u][i].for = "signal"
               PROVE  calls'[u][i].rest = {}
    BY DEF HandlersHaveNone
  <2>1. CASE u # t
    BY <2>1, <1>1 DEF Lists, HandlersHaveNone
  <2>2. CASE u = t
    <3>1. i \in 1 .. Len(calls[t]) - 1 /\ i + 1 \in 1 .. Len(calls[t])
      BY <2>2, <1>1, <1>2
    <3> QED
      BY <3>1, <2>2, <1>1 DEF Lists, HandlersHaveNone
  <2> QED
    BY <2>1, <2>2
<1>6. FlaggedIsThere'
  BY <1>4 DEF Lists, FlaggedIsThere, actions
<1>7. ThereIsFlagged'
  <2>1. \A u \in Threads, i \in Nat : Was(u, i) \in Nat
    OBVIOUS
  <2> QED
    BY <2>1, <1>3 DEF Lists, ThereIsFlagged, actions
<1>8. InOneCall'
  <2> SUFFICES ASSUME NEW a \in Actions, NEW u \in Threads, NEW v \in Threads,
                      NEW i \in Nat, NEW j \in Nat, In(a, u, i)', In(a, v, j)'
               PROVE  u = v /\ i = j
    BY DEF InOneCall
  <2>1. In(a, u, Was(u, i)) /\ In(a, v, Was(v, j))
    BY <1>3
  <2>2. Was(u, i) \in Nat /\ Was(v, j) \in Nat
    OBVIOUS
  <2>3. u = v /\ Was(u, i) = Was(v, j)
    BY <2>1, <2>2 DEF Lists, InOneCall
  <2> QED
    BY <2>3
<1> QED
  BY <1>5, <1>6, <1>7, <1>8 DEF Lists

\* A call is begun, with nothing to perform or with all that was fired.
LEMMA PushKeepsLists ==
    ASSUME Types, Lists, NEW t \in Threads, NEW c \in Call,
           c.for = "signal" => c.rest = {},
           c.rest = {} \/ c.rest = fired,
           calls' = [calls EXCEPT ![t] = <<c>> \o @],
           fired' = fired \ c.rest, flagged' = flagged
    PROVE  Lists'
<1>1. /\ calls' \in [Threads -> Seq(Call)]
      /\ Len(calls'[t]) = Len(calls[t]) + 1
      /\ \A u \in Threads \ {t} : calls'[u] = calls[u]
      /\ calls'[t][1] = c
      /\ \A i \in 1 .. Len(calls[t]) : calls'[t][i + 1] = calls[t][i]
  BY PushKeepsCalls
<1>2. \A u \in Threads : Len(calls[u]) \in Nat
  BY DEF Types
<1> DEFINE New(u, i) == u = t /\ i = 1
           Was(u, i) == IF u = t THEN i - 1 ELSE i
<1>3. ASSUME NEW a \in Actions, NEW u \in Threads, NEW i \in Nat, In(a, u, i)', ~New(u, i)
      PROVE  In(a, u, Was(u, i)) /\ Was(u, i) \in Nat
  <2>1. CASE u # t
    BY <2>1, <1>1, <1>3 DEF In
  <2>2. CASE u = t
    <3>1. i - 1 \in 1 .. Len(calls[t])
      BY <2>2, <1>1, <1>2, <1>3 DEF In
    <3>2. calls'[t][(i - 1) + 1] = calls[t][i - 1] /\ (i - 1) + 1 = i
      BY <3>1, <1>1
    <3> QED
      BY <3>1, <3>2, <2>2, <1>3 DEF In
  <2> QED
    BY <2>1, <2>2
<1>4. ASSUME NEW a \in Actions, NEW u \in Threads, NEW i \in Nat, In(a, u, i)', New(u, i)
      PROVE  a \in c.rest
  BY <1>1, <1>4 DEF In
<1>5. ASSUME NEW a \in Actions, NEW u \in Threads, NEW i \in Nat, In(a, u, i)
      PROVE  \E j \in Nat : In(a, u, j)'
  <2>1. CASE u # t
    BY <2>1, <1>1, <1>5 DEF In
  <2>2. CASE u = t
    <3>1. i \in 1 .. Len(calls[t]) /\ i + 1 \in 1 .. Len(calls'[t]) /\ i + 1 \in Nat
      BY <2>2, <1>1, <1>2, <1>5 DEF In
    <3> QED
      BY <3>1, <2>2, <1>1, <1>5 DEF In
  <2> QED
    BY <2>1, <2>2
<1>6. \A a \in c.rest : In(a, t, 1)'
  BY <1>1, <1>2 DEF In
<1>7. HandlersHaveNone'
  <2> SUFFICES ASSUME NEW u \in Threads, NEW i \in 1 .. Len(calls'[u]), calls'[u][i].for = "signal"
               PROVE  calls'[u][i].rest = {}
    BY DEF HandlersHaveNone
  <2>1. CASE u # t
    BY <2>1, <1>1 DEF Lists, HandlersHaveNone
  <2>2. CASE u = t /\ i = 1
    BY <2>2, <1>1
  <2>3. CASE u = t /\ i # 1
    <3>1. i - 1 \in 1 .. Len(calls[t])
      BY <2>3, <1>1, <1>2
    <3>2. calls'[t][(i - 1) + 1] = calls[t][i - 1] /\ (i - 1) + 1 = i
      BY <3>1, <1>1
    <3> QED
      BY <3>1, <3>2, <2>3 DEF Lists, HandlersHaveNone
  <2> QED
    BY <2>1, <2>2, <2>3
<1>8. FlaggedIsThere'
  <2> SUFFICES ASSUME NEW a \in Actions, a \in flagged, a \notin fired'
               PROVE  \E u \in Threads, i \in Nat : In(a, u, i)'
    BY DEF FlaggedIsThere
  <2>1. CASE a \in c.rest
    BY <2>1, <1>6
  <2>2. CASE a \notin c.rest
    BY <2>2, <1>5 DEF Lists, FlaggedIsThere
  <2> QED
    BY <2>1, <2>2
<1>9. ThereIsFlagged'
  <2> SUFFICES ASSUME NEW a \in Actions
               PROVE  /\ a \in fired' => a \in flagged'
                      /\ \A u \in Threads, i \in Nat : In(a, u, i)' => a \in flagged' /\ a \notin fired'
    BY DEF ThereIsFlagged
  <2>1. a \in fired' => a \in flagged'
    BY DEF Lists, ThereIsFlagged
  <2>2. ASSUME NEW u \in Threads, NEW i \in Nat, In(a, u, i)'
        PROVE  a \in flagged' /\ a \notin fired'
    <3>1. CASE New(u, i)
      BY <3>1, <2>2, <1>4 DEF Lists, ThereIsFlagged
    <3>2. CASE ~New(u, i)
      <4>1. In(a, u, Was(u, i)) /\ Was(u, i) \in Nat
        BY <3>2, <2>2, <1>3
      <4> QED
        BY <4>1 DEF Lists, ThereIsFlagged
    <3> QED
      BY <3>1, <3>2
  <2> QED
    BY <2>1, <2>2
<1>10. InOneCall'
  <2> SUFFICES ASSUME NEW a \in Actions, NEW u \in Threads, NEW v \in Threads,
                      NEW i \in Nat, NEW j \in Nat, In(a, u, i)', In(a, v, j)'
               PROVE  u = v /\ i = j
    BY DEF InOneCall
  <2>1. ASSUME NEW w \in Threads, NEW k \in Nat, In(a, w, k)', a \in c.rest
        PROVE  New(w, k)
    <3>1. a \in fired
      BY <2>1
    <3>2. SUFFICES ASSUME ~New(w, k) PROVE FALSE
      OBVIOUS
    <3>3. In(a, w, Was(w, k)) /\ Was(w, k) \in Nat
      BY <3>2, <2>1, <1>3
    <3> QED
      BY <3>1, <3>3 DEF Lists, ThereIsFlagged
  <2>2. CASE a \in c.rest
    BY <2>1, <2>2
  <2>3. CASE a \notin c.rest
    <3>1. ~New(u, i) /\ ~New(v, j)
      BY <2>3, <1>4
    <3>2. In(a, u, Was(u, i)) /\ Was(u, i) \in Nat /\ In(a, v, Was(v, j)) /\ Was(v, j) \in Nat
      BY <3>1, <1>3
    <3>3. u = v /\ Was(u, i) = Was(v, j)
      BY <3>2 DEF Lists, InOneCall
    <3> QED
      BY <3>3
  <2> QED
    BY <2>2, <2>3
<1> QED
  BY <1>7, <1>8, <1>9, <1>10 DEF Lists

\* An action leaves its call and its flag at the same time.
LEMMA WorkKeepsLists ==
    ASSUME Types, Lists, NEW t \in Threads, Len(calls[t]) > 0,
           NEW b \in calls[t][1].rest,
           calls' = [calls EXCEPT ![t][1].rest = @ \ {b}],
           flagged' = flagged \ {b}, fired' = fired
    PROVE  Lists' /\ calls' \in [Threads -> Seq(Call)] /\ Len(calls'[t]) = Len(calls[t])
                  /\ \A u \in Threads \ {t} : calls'[u] = calls[u]
<1> DEFINE rest == calls[t][1].rest \ {b}
<1>1. calls[t] \in Seq(Call) /\ calls[t][1] \in Call /\ Len(calls[t]) \in Nat
  BY DEF Types
<1>2. rest \in SUBSET Actions /\ b \in Actions
  BY <1>1 DEF Call
<1>3. calls'[t] = [calls[t] EXCEPT ![1] = [calls[t][1] EXCEPT !.rest = rest]]
  BY <1>1 DEF Types
<1> HIDE DEF rest
<1>4. LET r == [calls[t] EXCEPT ![1] = [calls[t][1] EXCEPT !.rest = rest]]
      IN  /\ r \in Seq(Call)
          /\ Len(r) = Len(calls[t])
          /\ r[1].for = calls[t][1].for /\ r[1].rest = rest
          /\ \A i \in 2 .. Len(calls[t]) : r[i] = calls[t][i]
  BY <1>1, <1>2, Worked
<1>5. /\ calls'[t] \in Seq(Call)
      /\ Len(calls'[t]) = Len(calls[t])
      /\ calls'[t][1].for = calls[t][1].for /\ calls'[t][1].rest = rest
      /\ \A i \in 2 .. Len(calls[t]) : calls'[t][i] = calls[t][i]
  BY <1>3, <1>4
<1> USE DEF rest
<1>6. calls' \in [Threads -> Seq(Call)] /\ \A u \in Threads \ {t} : calls'[u] = calls[u]
  BY <1>5 DEF Types
<1>7. ASSUME NEW a \in Actions, NEW u \in Threads, NEW i \in Nat
      PROVE  In(a, u, i)' <=> In(a, u, i) /\ ~(u = t /\ i = 1 /\ a = b)
  <2>1. CASE u # t
    BY <2>1, <1>6 DEF In
  <2>2. CASE u = t /\ i = 1
    BY <2>2, <1>5 DEF In
  <2>3. CASE u = t /\ i # 1
    <3>1. i \in 1 .. Len(calls[t]) => calls'[t][i] = calls[t][i]
      BY <2>3, <1>1, <1>5
    <3> QED
      BY <3>1, <2>3, <1>5 DEF In
  <2> QED
    BY <2>1, <2>2, <2>3
<1>8. In(b, t, 1)
  BY <1>1 DEF In
<1>9. HandlersHaveNone'
  <2> SUFFICES ASSUME NEW u \in Threads, NEW i \in 1 .. Len(calls'[u]), calls'[u][i].for = "signal"
               PROVE  calls'[u][i].rest = {}
    BY DEF HandlersHaveNone
  <2>1. CASE u # t
    BY <2>1, <1>6 DEF Lists, HandlersHaveNone
  <2>2. CASE u = t /\ i = 1
    BY <2>2, <1>5 DEF Lists, HandlersHaveNone
  <2>3. CASE u = t /\ i # 1
    <3>1. i \in 2 .. Len(calls[t]) /\ i \in 1 .. Len(calls[t])
      BY <2>3, <1>1, <1>5
    <3> QED
      BY <3>1, <2>3, <1>5 DEF Lists, HandlersHaveNone
  <2> QED
    BY <2>1, <2>2, <2>3
<1>10. FlaggedIsThere'
  BY <1>7 DEF Lists, FlaggedIsThere
<1>11. ThereIsFlagged'
  <2>1. b \notin fired
    BY <1>2, <1>8 DEF Lists, ThereIsFlagged
  <2> SUFFICES ASSUME NEW a \in Actions
               PROVE  /\ a \in fired' => a \in flagged'
                      /\ \A u \in Threads, i \in Nat : In(a, u, i)' => a \in flagged' /\ a \notin fired'
    BY DEF ThereIsFlagged
  <2>2. a \in fired' => a \in flagged'
    BY <2>1 DEF Lists, ThereIsFlagged
  <2>3. ASSUME NEW u \in Threads, NEW i \in Nat, In(a, u, i)'
        PROVE  a \in flagged' /\ a \notin fired'
    <3>1. In(a, u, i) /\ ~(u = t /\ i = 1 /\ a = b)
      BY <2>3, <1>7
    <3>2. a # b
      BY <3>1, <1>8 DEF Lists, InOneCall
    <3> QED
      BY <3>1, <3>2 DEF Lists, ThereIsFlagged
  <2> QED
    BY <2>2, <2>3
<1>12. InOneCall'
  BY <1>7 DEF Lists, InOneCall
<1> QED
  BY <1>5, <1>6, <1>9, <1>10, <1>11, <1>12 DEF Lists

-----------------------------------------------------------------------------
(* One step of the system. *)

\* The signal that the dispatcher looks at is there.
LEMMA LowestIsIn == ASSUME NEW S \in SUBSET Nat, S # {} PROVE Lowest(S) \in S
<1>1. PICK x \in S : \A y \in S : <<y, x>> \notin OpToRel(<, Nat)
  BY NatLessThanWellFounded, WFMin, Zenon
<1>2. \A y \in S : x <= y
  <2> SUFFICES ASSUME NEW y \in S, y < x PROVE FALSE
    OBVIOUS
  <2>1. <<y, x>> \in Nat \X Nat /\ <<y, x>>[1] < <<y, x>>[2]
    OBVIOUS
  <2>2. <<y, x>> \in OpToRel(<, Nat)
    BY <2>1 DEF OpToRel
  <2> QED
    BY <1>1, <2>2
<1> QED
  BY <1>2 DEF Lowest

\* So it is a signal that C recorded and no handler was called for.
LEMMA NextIsOwed ==
    ASSUME Types, NoSignalLost, pending # NoSignal \/ bits # {}
    PROVE  Next_n \in Signals /\ Next_n # NoSignal /\ Next_n \in owed
<1>1. Signals \subseteq Nat
  BY BoundsAssumption
<1>2. CASE pending # NoSignal
  BY <1>1, <1>2 DEF Next_n, Types, NoSignalLost, NoSignal
<1>3. CASE pending = NoSignal
  <2>1. Lowest(bits) \in bits
    BY <1>1, <1>3, LowestIsIn DEF Types
  <2>2. Next_n = Lowest(bits) /\ owed = bits
    BY <1>3 DEF Next_n, NoSignalLost
  <2>3. bits \subseteq Signals
    BY DEF Types
  <2>4. Next_n \in Signals /\ Next_n \in owed
    BY <2>1, <2>2, <2>3
  <2>5. Next_n \in Nat
    BY <1>1, <2>4
  <2>6. Next_n # NoSignal
    BY <2>5 DEF NoSignal
  <2> QED
    BY <2>4, <2>6
<1> QED
  BY <1>2, <1>3

\* The lists depend on the actions and on the calls only.
LEMMA ListsKept ==
    ASSUME Lists, UNCHANGED <<actions, calls>>
    PROVE  Lists'
BY DEF Lists, HandlersHaveNone, FlaggedIsThere, ThereIsFlagged, InOneCall, In, actions

\* Every step is one of these.
LEMMA Cases ==
    ASSUME Next
    PROVE  \/ \E s \in Signals : Arrive(s) \/ ForceTicker(s)
           \/ \E t \in Threads :
                 \/ Trace(t) \/ Decrement(t) \/ Execute(t) \/ Except(t)
                 \/ Reset(t) \/ PollNothing(t) \/ PollReport(t) \/ PollKeep(t)
                 \/ Yield(t) \/ TakeList(t) \/ NextAction(t) \/ LastAction(t)
                 \/ HandlerReturns(t) \/ HandlerRaises(t) \/ ActionReturns(t) \/ Switch(t)
                 \/ Leave(t) \/ ComeBack(t) \/ EnableSignals(t) \/ DisableSignals(t)
                 \/ \E a \in Actions : Fire(t, a)
BY Zenon DEF Next, Run, CallEnds

\* Nothing has arrived, nothing is fired and nobody is in the dispatcher.
LEMMA Start == Init => Inv
<1> SUFFICES ASSUME Init PROVE Inv
  OBVIOUS
<1> USE DEF Init
<1>1. Types
  <2>1. calls \in [Threads -> Seq(Call)]
    OBVIOUS
  <2>2. pc \in [Threads -> PCs]
    BY DEF PCs
  <2>3. 0 \in -1 .. Interval /\ 0 \in 0 .. MaxArrivals
    BY BoundsAssumption
  <2>4. value \in [Threads -> -1 .. Interval]
    BY <2>3
  <2> QED
    BY <2>1, <2>2, <2>3, <2>4, ThreadsAssumption DEF Types
<1>2. HasGil /\ Armed /\ NoSignalLost
  BY ThreadsAssumption DEF HasGil, Armed, NoSignalLost, NoSignal
<1>3. \A t \in Threads : calls[t] = <<>> /\ Len(calls[t]) = 0
  OBVIOUS
<1>4. Depth
  BY <1>3, BoundsAssumption DEF Depth
<1>5. Lists
  BY <1>3 DEF Lists, HandlersHaveNone, FlaggedIsThere, ThereIsFlagged, InOneCall, In
<1> QED
  BY <1>1, <1>2, <1>4, <1>5 DEF Inv

\* Each action keeps the invariant: a step per action, under it a step per part of
\* the invariant that the action can disturb.
LEMMA Step == Inv /\ [Next]_vars => Inv'
<1> SUFFICES ASSUME Inv, [Next]_vars PROVE Inv'
  OBVIOUS
<1> USE ThreadsAssumption, BoundsAssumption
<1>t. Types /\ HasGil /\ Depth /\ Armed /\ NoSignalLost /\ Lists
  BY DEF Inv
<1>1. ASSUME NEW s \in Signals, Arrive(s) PROVE Inv'
  <2>2. calls' = calls
    BY <1>t, <1>1 DEF Arrive
  <2>3. Lists'
    BY <1>t, <1>1, ListsKept DEF Arrive
  <2>4. Types'
    BY <2>2, <1>t, <1>1 DEF Arrive, Types, handlers, check, actions, PCs, NoSignal
  <2>5. HasGil' /\ Depth'
    BY <2>2, <1>t, <1>1 DEF Arrive, Types, HasGil, Depth
  <2>6. Armed' /\ NoSignalLost'
    BY <1>t, <1>1 DEF Arrive, Types, HasGil, Armed, NoSignalLost, handlers, check, NoSignal
  <2> QED
    BY <2>3, <2>4, <2>5, <2>6 DEF Inv
<1>2. ASSUME NEW s \in Signals, ForceTicker(s) PROVE Inv'
  <2>2. calls' = calls
    BY <1>t, <1>2 DEF ForceTicker
  <2>3. Lists'
    BY <1>t, <1>2, ListsKept DEF ForceTicker
  <2>4. Types'
    BY <2>2, <1>t, <1>2 DEF ForceTicker, Types, handlers, check, actions, PCs, NoSignal
  <2>5. HasGil' /\ Depth'
    BY <2>2, <1>t, <1>2 DEF ForceTicker, Types, HasGil, Depth
  <2>6. Armed' /\ NoSignalLost'
    BY <1>t, <1>2 DEF ForceTicker, Types, HasGil, Armed, NoSignalLost, handlers, check, NoSignal
  <2> QED
    BY <2>3, <2>4, <2>5, <2>6 DEF Inv
<1>3. ASSUME NEW t \in Threads, Trace(t) PROVE Inv'
  <2>2. calls' = calls
    BY <1>t, <1>3 DEF Trace
  <2>3. Lists'
    BY <1>t, <1>3, ListsKept DEF Trace
  <2>4. Types'
    BY <2>2, <1>t, <1>3 DEF Trace, At, Goto, Types, handlers, check, actions, PCs, NoSignal
  <2>5. HasGil' /\ Depth'
    BY <2>2, <1>t, <1>3 DEF Trace, At, Goto, Types, HasGil, Depth
  <2>6. Armed' /\ NoSignalLost'
    BY <1>t, <1>3 DEF Trace, At, Goto, Types, HasGil, Armed, NoSignalLost, handlers, check, NoSignal
  <2> QED
    BY <2>3, <2>4, <2>5, <2>6 DEF Inv
<1>4. ASSUME NEW t \in Threads, Decrement(t) PROVE Inv'
  <2>2. calls' = calls
    BY <1>t, <1>4 DEF Decrement
  <2>3. Lists'
    BY <1>t, <1>4, ListsKept DEF Decrement
  <2>4. Types'
    BY <2>2, <1>t, <1>4 DEF Decrement, At, Goto, Types, handlers, check, actions, PCs, NoSignal
  <2>5. HasGil' /\ Depth'
    BY <2>2, <1>t, <1>4 DEF Decrement, At, Goto, Types, HasGil, Depth
  <2>6. Armed' /\ NoSignalLost'
    BY <1>t, <1>4 DEF Decrement, At, Goto, Types, HasGil, Armed, NoSignalLost, handlers, check, NoSignal
  <2> QED
    BY <2>3, <2>4, <2>5, <2>6 DEF Inv
<1>5. ASSUME NEW t \in Threads, Execute(t) PROVE Inv'
  <2>2. calls' = calls
    BY <1>t, <1>5 DEF Execute
  <2>3. Lists'
    BY <1>t, <1>5, ListsKept DEF Execute
  <2>4. Types'
    BY <2>2, <1>t, <1>5 DEF Execute, At, Goto, Types, handlers, check, actions, PCs, NoSignal
  <2>5. HasGil' /\ Depth'
    BY <2>2, <1>t, <1>5 DEF Execute, At, Goto, Types, HasGil, Depth
  <2>6. Armed' /\ NoSignalLost'
    BY <1>t, <1>5 DEF Execute, At, Goto, Types, HasGil, Armed, NoSignalLost, handlers, check, NoSignal
  <2> QED
    BY <2>3, <2>4, <2>5, <2>6 DEF Inv
<1>6. ASSUME NEW t \in Threads, Except(t) PROVE Inv'
  <2>2. calls' = calls
    BY <1>t, <1>6 DEF Except
  <2>3. Lists'
    BY <1>t, <1>6, ListsKept DEF Except
  <2>4. Types'
    BY <2>2, <1>t, <1>6 DEF Except, At, Goto, Types, handlers, check, actions, PCs, NoSignal
  <2>5. HasGil' /\ Depth'
    BY <2>2, <1>t, <1>6 DEF Except, At, Goto, Types, HasGil, Depth
  <2>6. Armed' /\ NoSignalLost'
    BY <1>t, <1>6 DEF Except, At, Goto, Types, HasGil, Armed, NoSignalLost, handlers, check, NoSignal
  <2> QED
    BY <2>3, <2>4, <2>5, <2>6 DEF Inv
<1>7. ASSUME NEW t \in Threads, Reset(t) PROVE Inv'
  <2>2. calls' = calls
    BY <1>t, <1>7 DEF Reset
  <2>3. Lists'
    BY <1>t, <1>7, ListsKept DEF Reset
  <2>4. Types'
    BY <2>2, <1>t, <1>7 DEF Reset, At, Goto, Types, handlers, check, actions, PCs, NoSignal
  <2>5. HasGil' /\ Depth'
    BY <2>2, <1>t, <1>7 DEF Reset, At, Goto, Types, HasGil, Depth
  <2>6. Armed' /\ NoSignalLost'
    BY <1>t, <1>7 DEF Reset, At, Goto, Types, HasGil, Armed, NoSignalLost, handlers, check, NoSignal
  <2> QED
    BY <2>3, <2>4, <2>5, <2>6 DEF Inv
<1>8. ASSUME NEW t \in Threads, PollNothing(t) PROVE Inv'
  <2>2. calls' = calls
    BY <1>t, <1>8 DEF PollNothing
  <2>3. Lists'
    BY <1>t, <1>8, ListsKept DEF PollNothing
  <2>4. Types'
    BY <2>2, <1>t, <1>8 DEF PollNothing, At, Goto, Types, handlers, check, actions, PCs, NoSignal
  <2>5. HasGil' /\ Depth'
    BY <2>2, <1>t, <1>8 DEF PollNothing, At, Goto, Types, HasGil, Depth
  <2>6. Armed' /\ NoSignalLost'
    BY <1>t, <1>8 DEF PollNothing, At, Goto, Types, HasGil, Armed, NoSignalLost, handlers, check, NoSignal
  <2> QED
    BY <2>3, <2>4, <2>5, <2>6 DEF Inv
<1>9. ASSUME NEW t \in Threads, PollReport(t) PROVE Inv'
  <2>1. /\ calls' = [calls EXCEPT ![t] = <<Report>> \o @]
        /\ Report \in Call /\ Report.rest = {}
        /\ fired' = fired /\ flagged' = flagged
    BY <1>t, <1>9 DEF PollReport, Report, Call, actions
  <2>2. /\ calls' \in [Threads -> Seq(Call)]
        /\ Len(calls'[t]) = Len(calls[t]) + 1
        /\ \A u \in Threads \ {t} : calls'[u] = calls[u]
    BY <2>1, <1>t, PushKeepsCalls
  <2>3. Lists'
    <3>1. fired' = fired \ Report.rest
      BY <2>1
    <3> QED
      BY <2>1, <3>1, <1>t, PushKeepsLists
  <2>4. Types'
    BY <2>2, <1>t, <1>9 DEF PollReport, At, Goto, Next_n, Taken, Report, Types, handlers, check, actions, PCs, NoSignal
  <2>5. HasGil' /\ Depth'
    BY <2>2, <1>t, <1>9 DEF PollReport, At, Goto, Next_n, Taken, Report, Types, HasGil, Depth
  <2>6. Armed' /\ NoSignalLost'
    BY <1>t, <1>9 DEF PollReport, At, Goto, Next_n, Taken, Report, Types, HasGil, Armed, NoSignalLost, handlers, check, NoSignal
  <2> QED
    BY <2>3, <2>4, <2>5, <2>6 DEF Inv
<1>10. ASSUME NEW t \in Threads, PollKeep(t) PROVE Inv'
  <2>1. Next_n \in Signals /\ Next_n # NoSignal /\ Next_n \in owed
    BY <1>t, <1>10, NextIsOwed DEF PollKeep
  <2>2. UNCHANGED <<calls, inHandler, arrivals, owed, ticker, enabled, fired, flagged, holder, value>>
    BY <1>t, <1>10 DEF PollKeep, actions
  <2>3. Lists'
    BY <1>t, <1>10, ListsKept DEF PollKeep
  <2>4. Types'
    <3>1. pending' = Next_n /\ bits' \subseteq bits /\ fireElsewhere' = TRUE
      BY <1>t, <1>10 DEF PollKeep
    <3>2. pc' \in [Threads -> PCs]
      BY <1>t, <1>10 DEF PollKeep, Goto, PCs, Types
    <3> QED
      BY <2>1, <2>2, <3>1, <3>2, <1>t DEF Types
  <2>5. HasGil' /\ Depth'
    BY <2>2, <1>t, <1>10 DEF PollKeep, At, Goto, Types, HasGil, Depth
  <2>6. Armed' /\ NoSignalLost'
    <3>1. Armed'
      BY <1>t, <1>10 DEF PollKeep, Armed
    <3>2. NoSignalLost'
      <4>1. CASE pending # NoSignal
        BY <4>1, <2>1, <1>t, <1>10 DEF PollKeep, Next_n, Taken, NoSignalLost
      <4>2. CASE pending = NoSignal
        BY <4>2, <2>1, <1>t, <1>10 DEF PollKeep, Next_n, Taken, NoSignalLost
      <4> QED
        BY <4>1, <4>2
    <3> QED
      BY <3>1, <3>2
  <2> QED
    BY <2>3, <2>4, <2>5, <2>6 DEF Inv
<1>11. ASSUME NEW t \in Threads, Yield(t) PROVE Inv'
  <2>2. calls' = calls
    BY <1>t, <1>11 DEF Yield
  <2>3. Lists'
    BY <1>t, <1>11, ListsKept DEF Yield
  <2>4. Types'
    BY <2>2, <1>t, <1>11 DEF Yield, At, Goto, Types, handlers, check, actions, PCs, NoSignal
  <2>5. HasGil' /\ Depth'
    BY <2>2, <1>t, <1>11 DEF Yield, At, Goto, Types, HasGil, Depth
  <2>6. Armed' /\ NoSignalLost'
    BY <1>t, <1>11 DEF Yield, At, Goto, Types, HasGil, Armed, NoSignalLost, handlers, check, NoSignal
  <2> QED
    BY <2>3, <2>4, <2>5, <2>6 DEF Inv
<1>12. ASSUME NEW t \in Threads, TakeList(t) PROVE Inv'
  <2>1. CASE fired = {}
    <3>2. UNCHANGED <<fired, flagged, calls>>
      BY <1>t, <1>12, <2>1 DEF TakeList
    <3>3. Lists'
      BY <1>t, <3>2, ListsKept DEF actions
    <3>4. Types'
      BY <3>2, <1>t, <1>12, <2>1 DEF TakeList, At, Goto, Types, handlers, check, PCs
    <3>5. HasGil' /\ Depth'
      BY <3>2, <1>t, <1>12, <2>1 DEF TakeList, At, Goto, Types, HasGil, Depth
    <3>6. Armed' /\ NoSignalLost'
      BY <1>t, <1>12, <2>1 DEF TakeList, At, Goto, Types, HasGil, Armed, NoSignalLost, handlers, check, NoSignal
    <3> QED
      BY <3>3, <3>4, <3>5, <3>6 DEF Inv
  <2>2. CASE fired # {}
    <3>1. /\ calls' = [calls EXCEPT ![t] = <<Perform(fired)>> \o @]
          /\ Perform(fired) \in Call /\ Perform(fired).rest = fired
          /\ Perform(fired).for # "signal"
          /\ fired' = {} /\ flagged' = flagged
      BY <1>t, <1>12, <2>2 DEF TakeList, Perform, Call, Types
    <3>2. /\ calls' \in [Threads -> Seq(Call)]
          /\ Len(calls'[t]) = Len(calls[t]) + 1
          /\ \A u \in Threads \ {t} : calls'[u] = calls[u]
      BY <3>1, <1>t, PushKeepsCalls
    <3>3. Lists'
      <4>1. fired' = fired \ Perform(fired).rest
        BY <3>1
      <4> QED
        BY <3>1, <4>1, <1>t, PushKeepsLists
    <3>4. fireElsewhere' \in BOOLEAN
      BY <1>t, <1>12, Zenon DEF TakeList, check, Types
    <3>5. pc[t] = "list" /\ pc' = [pc EXCEPT ![t] = "next"]
      BY <1>12, <2>2 DEF TakeList, At, Goto
    <3>6. UNCHANGED <<ticker, bits, inHandler, arrivals, owed, pending,
                      fireElsewhere, enabled, holder, value>>
      BY <1>12 DEF TakeList, handlers, check
    <3>7. Types'
      <4>1. fired' = {} /\ flagged' = flagged
        BY <3>1
      <4>2. pc' \in [Threads -> PCs]
        BY <1>t, <3>5 DEF PCs, Types
      <4> QED
        BY <3>2, <3>4, <3>6, <4>1, <4>2, <1>t DEF Types
    <3>8. HasGil'
      BY <3>5, <3>6, <1>t DEF HasGil, Types
    <3>9. Depth'
      <4>1. Len(calls[t]) \in Nat
        BY <1>t DEF Types
      <4> QED
        BY <3>2, <3>5, <4>1, <1>t DEF Depth, Types
    <3>10. Armed' /\ NoSignalLost'
      BY <3>5, <3>6, <1>t DEF Types, HasGil, Armed, NoSignalLost
    <3> QED
      BY <3>3, <3>7, <3>8, <3>9, <3>10 DEF Inv
  <2> QED
    BY <2>1, <2>2
<1>13. ASSUME NEW t \in Threads, NextAction(t) PROVE Inv'
  <2> PICK b \in Top(t).rest :
           /\ flagged' = flagged \ {b}
           /\ calls' = [calls EXCEPT ![t][1].rest = @ \ {b}]
    BY <1>13 DEF NextAction
  <2>1. Len(calls[t]) > 0 /\ Top(t) = calls[t][1] /\ calls[t] \in Seq(Call)
    BY <1>t, <1>13 DEF NextAction, At, Depth, Top, Types
  <2>2. /\ calls' \in [Threads -> Seq(Call)]
        /\ Len(calls'[t]) = Len(calls[t])
        /\ \A u \in Threads \ {t} : calls'[u] = calls[u]
        /\ Lists'
    BY <2>1, <1>t, <1>13, WorkKeepsLists DEF NextAction
  <2>3. Lists'
    BY <2>2
  <2>4. Types'
    BY <2>2, <1>t, <1>13 DEF NextAction, At, Goto, Types, handlers, check, actions, PCs, NoSignal
  <2>5. HasGil' /\ Depth'
    BY <2>2, <1>t, <1>13 DEF NextAction, At, Goto, Types, HasGil, Depth
  <2>6. Armed' /\ NoSignalLost'
    BY <1>t, <1>13 DEF NextAction, At, Goto, Types, HasGil, Armed, NoSignalLost, handlers, check, NoSignal
  <2> QED
    BY <2>3, <2>4, <2>5, <2>6 DEF Inv
<1>14. ASSUME NEW t \in Threads, LastAction(t) PROVE Inv'
  <2>1. /\ calls[t] # <<>> /\ Top(t).rest = {}
        /\ calls' = [calls EXCEPT ![t] = Tail(@)]
        /\ UNCHANGED actions
    BY <1>t, <1>14 DEF LastAction, Calling, At, Return, Depth, Lists, HandlersHaveNone, Top, Types
  <2>2. /\ calls' \in [Threads -> Seq(Call)]
        /\ Len(calls[t]) > 0 /\ Len(calls'[t]) = Len(calls[t]) - 1
        /\ \A u \in Threads \ {t} : calls'[u] = calls[u]
    BY <2>1, <1>t, PopKeepsCalls
  <2>3. Lists'
    BY <2>1, <1>t, PopKeepsLists
  <2>4. Types'
    BY <2>2, <1>t, <1>14 DEF LastAction, At, Goto, Return, Types, handlers, check, actions, PCs, NoSignal
  <2>5. HasGil' /\ Depth'
    BY <2>2, <1>t, <1>14 DEF LastAction, At, Goto, Return, Types, HasGil, Depth
  <2>6. Armed' /\ NoSignalLost'
    BY <1>t, <1>14 DEF LastAction, At, Goto, Return, Types, HasGil, Armed, NoSignalLost, handlers, check, NoSignal
  <2> QED
    BY <2>3, <2>4, <2>5, <2>6 DEF Inv
<1>15. ASSUME NEW t \in Threads, HandlerReturns(t) PROVE Inv'
  <2>1. /\ calls[t] # <<>> /\ Top(t).rest = {}
        /\ calls' = [calls EXCEPT ![t] = Tail(@)]
        /\ UNCHANGED actions
    <3>1. calls[t] # <<>> /\ Top(t).for = "signal"
      BY <1>15 DEF HandlerReturns, Calling
    <3>2. Len(calls[t]) > 0 /\ Len(calls[t]) \in Nat /\ Top(t) = calls[t][1]
      BY <1>t, <3>1, Popped DEF Top, Types
    <3>3. Top(t).rest = {}
      BY <1>t, <3>1, <3>2 DEF Lists, HandlersHaveNone
    <3> QED
      BY <1>15, <3>1, <3>3 DEF HandlerReturns, Return
  <2>2. /\ calls' \in [Threads -> Seq(Call)]
        /\ Len(calls[t]) > 0 /\ Len(calls'[t]) = Len(calls[t]) - 1
        /\ \A u \in Threads \ {t} : calls'[u] = calls[u]
    BY <2>1, <1>t, PopKeepsCalls
  <2>3. Lists'
    BY <2>1, <1>t, PopKeepsLists
  <2>4. Types'
    BY <2>2, <1>t, <1>15 DEF HandlerReturns, Calling, At, Goto, Return, Types, handlers, check, actions, PCs, NoSignal
  <2>5. HasGil' /\ Depth'
    BY <2>2, <1>t, <1>15 DEF HandlerReturns, Calling, At, Goto, Return, Types, HasGil, Depth
  <2>6. Armed' /\ NoSignalLost'
    BY <1>t, <1>15 DEF HandlerReturns, Calling, At, Goto, Return, Types, HasGil, Armed, NoSignalLost, handlers, check, NoSignal
  <2> QED
    BY <2>3, <2>4, <2>5, <2>6 DEF Inv
<1>16. ASSUME NEW t \in Threads, HandlerRaises(t) PROVE Inv'
  <2>1. /\ calls[t] # <<>> /\ Top(t).rest = {}
        /\ calls' = [calls EXCEPT ![t] = Tail(@)]
        /\ UNCHANGED actions
    <3>1. calls[t] # <<>> /\ Top(t).for = "signal"
      BY <1>16 DEF HandlerRaises, Calling
    <3>2. Len(calls[t]) > 0 /\ Len(calls[t]) \in Nat /\ Top(t) = calls[t][1]
      BY <1>t, <3>1, Popped DEF Top, Types
    <3>3. Top(t).rest = {}
      BY <1>t, <3>1, <3>2 DEF Lists, HandlersHaveNone
    <3> QED
      BY <1>16, <3>1, <3>3 DEF HandlerRaises, Return
  <2>2. /\ calls' \in [Threads -> Seq(Call)]
        /\ Len(calls[t]) > 0 /\ Len(calls'[t]) = Len(calls[t]) - 1
        /\ \A u \in Threads \ {t} : calls'[u] = calls[u]
    BY <2>1, <1>t, PopKeepsCalls
  <2>3. Lists'
    BY <2>1, <1>t, PopKeepsLists
  <2>4. Types'
    BY <2>2, <1>t, <1>16 DEF HandlerRaises, Calling, At, Goto, Return, Types, handlers, check, actions, PCs, NoSignal
  <2>5. HasGil' /\ Depth'
    BY <2>2, <1>t, <1>16 DEF HandlerRaises, Calling, At, Goto, Return, Types, HasGil, Depth
  <2>6. Armed' /\ NoSignalLost'
    BY <1>t, <1>16 DEF HandlerRaises, Calling, At, Goto, Return, Types, HasGil, Armed, NoSignalLost, handlers, check, NoSignal
  <2> QED
    BY <2>3, <2>4, <2>5, <2>6 DEF Inv
<1>17. ASSUME NEW t \in Threads, ActionReturns(t) PROVE Inv'
  <2>2. calls' = calls
    BY <1>t, <1>17 DEF ActionReturns
  <2>3. Lists'
    BY <1>t, <1>17, ListsKept DEF ActionReturns
  <2>4. Types'
    BY <2>2, <1>t, <1>17 DEF ActionReturns, Calling, At, Goto, Types, handlers, check, actions, PCs, NoSignal
  <2>5. HasGil' /\ Depth'
    BY <2>2, <1>t, <1>17 DEF ActionReturns, Calling, At, Goto, Types, HasGil, Depth
  <2>6. Armed' /\ NoSignalLost'
    BY <1>t, <1>17 DEF ActionReturns, Calling, At, Goto, Types, HasGil, Armed, NoSignalLost, handlers, check, NoSignal
  <2> QED
    BY <2>3, <2>4, <2>5, <2>6 DEF Inv
<1>18. ASSUME NEW t \in Threads, Switch(t) PROVE Inv'
  <2>2. calls' = calls
    BY <1>t, <1>18 DEF Switch
  <2>3. Lists'
    BY <1>t, <1>18, ListsKept DEF Switch
  <2>4. Types'
    <3>1. pc' \in [Threads -> PCs]
      BY <1>t, <1>18 DEF Switch, Goto, PCs, Types
    <3>2. fireElsewhere' = FALSE \/ fireElsewhere' = fireElsewhere
      BY <1>18, Zenon DEF Switch, AfterThreadSwitch
    <3>4. ticker' = -1 \/ ticker' = ticker
      BY <1>18 DEF Switch, AfterThreadSwitch
    <3>5. fireElsewhere' \in BOOLEAN
      BY <3>2, <1>t, Zenon DEF Types
    <3>6. ticker' \in -1 .. Interval
      BY <3>4, <1>t DEF Types
    <3>3. /\ UNCHANGED <<bits, inHandler, arrivals, owed, pending, enabled, fired, flagged, value>>
          /\ holder' = t
      BY <1>18 DEF Switch, handlers, actions
    <3> QED
      BY <2>2, <3>1, <3>3, <3>5, <3>6, <1>t DEF Types
  <2>5. HasGil' /\ Depth'
    BY <2>2, <1>t, <1>18 DEF Switch, AfterThreadSwitch, Goto, Types, HasGil, Depth
  <2>6. Armed' /\ NoSignalLost'
    BY <1>t, <1>18 DEF Switch, AfterThreadSwitch, Goto, Types, HasGil, Armed, NoSignalLost, handlers, check, NoSignal
  <2> QED
    BY <2>3, <2>4, <2>5, <2>6 DEF Inv
<1>19. ASSUME NEW t \in Threads, Leave(t) PROVE Inv'
  <2>2. calls' = calls
    BY <1>t, <1>19 DEF Leave
  <2>3. Lists'
    BY <1>t, <1>19, ListsKept DEF Leave
  <2>4. Types'
    BY <2>2, <1>t, <1>19 DEF Leave, At, Goto, Types, handlers, check, actions, PCs, NoSignal
  <2>5. HasGil' /\ Depth'
    BY <2>2, <1>t, <1>19 DEF Leave, At, Goto, Types, HasGil, Depth
  <2>6. Armed' /\ NoSignalLost'
    BY <1>t, <1>19 DEF Leave, At, Goto, Types, HasGil, Armed, NoSignalLost, handlers, check, NoSignal
  <2> QED
    BY <2>3, <2>4, <2>5, <2>6 DEF Inv
<1>20. ASSUME NEW t \in Threads, ComeBack(t) PROVE Inv'
  <2>2. calls' = calls
    BY <1>t, <1>20 DEF ComeBack
  <2>3. Lists'
    BY <1>t, <1>20, ListsKept DEF ComeBack
  <2>4. Types'
    BY <2>2, <1>t, <1>20 DEF ComeBack, At, Goto, Types, handlers, check, actions, PCs, NoSignal
  <2>5. HasGil' /\ Depth'
    BY <2>2, <1>t, <1>20 DEF ComeBack, At, Goto, Types, HasGil, Depth
  <2>6. Armed' /\ NoSignalLost'
    BY <1>t, <1>20 DEF ComeBack, At, Goto, Types, HasGil, Armed, NoSignalLost, handlers, check, NoSignal
  <2> QED
    BY <2>3, <2>4, <2>5, <2>6 DEF Inv
<1>21. ASSUME NEW t \in Threads, EnableSignals(t) PROVE Inv'
  <2>2. calls' = calls
    BY <1>t, <1>21 DEF EnableSignals
  <2>3. Lists'
    BY <1>t, <1>21, ListsKept DEF EnableSignals
  <2>4. Types'
    BY <2>2, <1>t, <1>21 DEF EnableSignals, At, Goto, Types, handlers, check, actions, PCs, NoSignal
  <2>5. HasGil' /\ Depth'
    BY <2>2, <1>t, <1>21 DEF EnableSignals, At, Goto, Types, HasGil, Depth
  <2>6. Armed' /\ NoSignalLost'
    BY <1>t, <1>21 DEF EnableSignals, At, Goto, Types, HasGil, Armed, NoSignalLost, handlers, check, NoSignal
  <2> QED
    BY <2>3, <2>4, <2>5, <2>6 DEF Inv
<1>22. ASSUME NEW t \in Threads, DisableSignals(t) PROVE Inv'
  <2>2. calls' = calls
    BY <1>t, <1>22 DEF DisableSignals
  <2>3. Lists'
    BY <1>t, <1>22, ListsKept DEF DisableSignals
  <2>4. Types'
    BY <2>2, <1>t, <1>22 DEF DisableSignals, At, Goto, Types, handlers, check, actions, PCs, NoSignal
  <2>5. HasGil' /\ Depth'
    BY <2>2, <1>t, <1>22 DEF DisableSignals, At, Goto, Types, HasGil, Depth
  <2>6. Armed' /\ NoSignalLost'
    BY <1>t, <1>22 DEF DisableSignals, At, Goto, Types, HasGil, Armed, NoSignalLost, handlers, check, NoSignal
  <2> QED
    BY <2>3, <2>4, <2>5, <2>6 DEF Inv
<1>23. ASSUME NEW t \in Threads, NEW b \in Actions, Fire(t, b) PROVE Inv'
  <2>1. \A u \in Threads, i \in Nat : ~In(b, u, i)
    BY <1>t, <1>23 DEF Fire, Lists, ThereIsFlagged
  <2>2. fired' = fired \cup {b} /\ flagged' = flagged \cup {b} /\ calls' = calls
    BY <1>t, <1>23 DEF Fire
  <2>3. Lists'
    <3>1. \A a \in Actions, u \in Threads, i \in Nat : In(a, u, i)' <=> In(a, u, i)
      BY <2>2 DEF In
    <3>2. HandlersHaveNone'
      BY <2>2, <1>t DEF Lists, HandlersHaveNone
    <3>3. FlaggedIsThere'
      BY <2>2, <3>1, <1>t DEF Lists, FlaggedIsThere
    <3>4. ThereIsFlagged'
      BY <2>1, <2>2, <3>1, <1>t DEF Lists, ThereIsFlagged
    <3>5. InOneCall'
      BY <3>1, <1>t DEF Lists, InOneCall
    <3> QED
      BY <3>2, <3>3, <3>4, <3>5 DEF Lists
  <2>4. Types'
    BY <2>2, <1>t, <1>23 DEF Fire, At, Types, handlers, check
  <2>5. HasGil' /\ Depth'
    BY <2>2, <1>t, <1>23 DEF Fire, At, Types, HasGil, Depth
  <2>6. Armed' /\ NoSignalLost'
    BY <1>t, <1>23 DEF Fire, At, Types, HasGil, Armed, NoSignalLost, handlers, check, NoSignal
  <2> QED
    BY <2>3, <2>4, <2>5, <2>6 DEF Inv
<1>24. CASE UNCHANGED vars
  <2>1. UNCHANGED <<ticker, bits, inHandler, arrivals, owed, pending, fireElsewhere, enabled,
                    fired, flagged, holder, pc, value, calls>>
    BY <1>24 DEF vars, handlers, check, actions
  <2>2. Lists'
    BY <1>t, <2>1, ListsKept DEF actions
  <2> QED
    BY <1>t, <2>1, <2>2 DEF Inv, Types, HasGil, Depth, Armed, NoSignalLost
<1> QED
  BY Cases, <1>1, <1>2, <1>3, <1>4, <1>5, <1>6, <1>7, <1>8, <1>9, <1>10, <1>11, <1>12, <1>13, <1>14, <1>15, <1>16, <1>17, <1>18, <1>19, <1>20, <1>21, <1>22, <1>23, <1>24

-----------------------------------------------------------------------------
(* The theorems. *)

\* The invariant holds in every state.
LEMMA AlwaysInv == SafeSpec => []Inv
BY Start, Step, PTL DEF SafeSpec

\* Every variable keeps its type, and the calls of a thread their depth.
THEOREM Typing == SafeSpec => []TypeOK
<1>1. Inv => TypeOK
  <2> SUFFICES ASSUME Inv PROVE TypeOK
    OBVIOUS
  <2>1. Types /\ Depth
    BY DEF Inv
  <2>2. ASSUME NEW t \in Threads
        PROVE  /\ Len(calls[t]) <= MaxDepth
               /\ \A i \in 1 .. Len(calls[t]) :
                     calls[t][i] \in [for : {"signal", "action"}, rest : SUBSET Actions]
    <3>1. calls[t] \in Seq(Call)
      BY <2>1 DEF Types
    <3>2. \A i \in 1 .. Len(calls[t]) : calls[t][i] \in Call
      BY <3>1
    <3> QED
      BY <2>1, <3>2 DEF Depth, Call
  <2> QED
    BY <2>1, <2>2 DEF Types, TypeOK
<1> QED
  BY <1>1, AlwaysInv, PTL

\* What the C handler has recorded stays in the bits or in pending_signal until the
\* app-level handler is called, whichever threads poll in between.
THEOREM SignalsAreNotLost == SafeSpec => []NoSignalLost
<1>1. Inv => NoSignalLost
  BY DEF Inv
<1> QED
  BY <1>1, AlwaysInv, PTL

\* A signal that a thread without signals has taken from C never waits with the
\* ticker counting down: the read of decrement_ticker before the -1 is no danger.
THEOREM PendingStaysArmed == SafeSpec => []PendingIsArmed
<1>1. Inv => PendingIsArmed
  BY DEF Inv, Armed, PendingIsArmed
<1> QED
  BY <1>1, AlwaysInv, PTL

\* At any depth of re-entrant dispatchers, and when handlers raise, an action with
\* _fired is in one list to be performed, and no other action is in any.
THEOREM ActionsAreListedOnce == SafeSpec => []FiredIsListed
<1>1. Inv => FiredIsListed
  <2> SUFFICES ASSUME Inv, NEW a \in Actions
               PROVE  /\ a \in flagged <=> (a \in fired \/ Places(a) # {})
                      /\ a \in fired => Places(a) = {}
                      /\ Cardinality(Places(a)) <= 1
    BY DEF FiredIsListed
  <2>1. Lists /\ Depth /\ Types
    BY DEF Inv
  <2>2. ASSUME NEW p \in Places(a)
        PROVE  p[1] \in Threads /\ p[2] \in Nat /\ p = <<p[1], p[2]>> /\ In(a, p[1], p[2])
    <3>1. p \in Threads \X (1 .. MaxDepth)
      BY DEF Places
    <3>2. p[1] \in Threads /\ p[2] \in 1 .. MaxDepth /\ p = <<p[1], p[2]>>
      BY <3>1
    <3>3. p[2] <= Len(calls[p[1]]) /\ a \in calls[p[1]][p[2]].rest
      BY DEF Places
    <3>4. Len(calls[p[1]]) \in Nat /\ p[2] \in Nat /\ p[2] >= 1
      BY <2>1, <3>2, BoundsAssumption DEF Types
    <3> QED
      BY <3>2, <3>3, <3>4 DEF In
  <2>3. ASSUME NEW t \in Threads, NEW i \in Nat, In(a, t, i)
        PROVE  <<t, i>> \in Places(a)
    <3>1. Len(calls[t]) \in Nat /\ Len(calls[t]) <= MaxDepth
      BY <2>1 DEF Types, Depth
    <3>2. i \in 1 .. MaxDepth /\ i <= Len(calls[t]) /\ a \in calls[t][i].rest
      BY <2>3, <3>1, BoundsAssumption DEF In
    <3> QED
      BY <3>2 DEF Places
  <2>4. a \in flagged => a \in fired \/ Places(a) # {}
    BY <2>1, <2>3 DEF Lists, FlaggedIsThere
  <2>5. (a \in fired => a \in flagged) /\ (Places(a) # {} => a \in flagged /\ a \notin fired)
    BY <2>1, <2>2 DEF Lists, ThereIsFlagged
  <2>6. Cardinality(Places(a)) <= 1
    <3>1. CASE Places(a) = {}
      BY <3>1, FS_EmptySet
    <3>2. CASE Places(a) # {}
      <4>1. PICK p \in Places(a) : TRUE
        BY <3>2
      <4>2. ASSUME NEW q \in Places(a) PROVE q = p
        <5>1. p[1] = q[1] /\ p[2] = q[2]
          BY <2>1, <2>2, <4>1 DEF Lists, InOneCall
        <5> QED
          BY <5>1, <2>2, <4>1
      <4>3. Places(a) = {p}
        BY <4>1, <4>2
      <4> QED
        BY <4>3, FS_Singleton
    <3> QED
      BY <3>1, <3>2
  <2> QED
    BY <2>4, <2>5, <2>6
<1> QED
  BY <1>1, AlwaysInv, PTL

-----------------------------------------------------------------------------
(* The GIL under the signals is the one of module Gil. *)

\* The threads that have asked for the GIL.
wants == {t \in Threads : pc[t] \in {"return", "yielding"}}

Lock == INSTANCE GilLock

\* Who has the GIL is not in an external call and does not wait for it.
HolderRuns == \A t \in Threads : holder = t => pc[t] \notin {"outside", "return", "yielding"}

\* Each step keeps HolderRuns and is a step or a stutter of the abstract lock.
LEMMA LockStep ==
    Inv /\ HolderRuns /\ [Next]_vars => HolderRuns' /\ [Lock!LockNext]_Lock!lockVars
<1> SUFFICES ASSUME Inv, HolderRuns, [Next]_vars
             PROVE  HolderRuns' /\ [Lock!LockNext]_Lock!lockVars
  OBVIOUS
<1> DEFINE Good == HolderRuns' /\ [Lock!LockNext]_Lock!lockVars
           Awake == {"trace", "decrement", "execute", "except", "reset", "poll", "yield",
                     "list", "next"}
<1> USE ThreadsAssumption
<1>1. pc \in [Threads -> PCs]
  BY DEF Inv, Types
\* The holder goes on, or somebody else does something without the GIL.
<1>2. ASSUME UNCHANGED <<holder, pc>> PROVE Good
  BY <1>2 DEF HolderRuns, wants, Lock!lockVars
<1>3. ASSUME NEW t \in Threads, holder = t, holder' = holder,
             NEW l \in Awake, Goto(t, l)
      PROVE  Good
  <2>1. HolderRuns'
    BY <1>1, <1>3 DEF Goto, HolderRuns
  <2>2. wants' = wants
    BY <1>1, <1>3 DEF Goto, HolderRuns, wants
  <2> QED
    BY <1>3, <2>1, <2>2 DEF Lock!lockVars
<1> HIDE DEF Good
<1>4. ASSUME NEW s \in Signals, Arrive(s) \/ ForceTicker(s) PROVE Good
  BY <1>2, <1>4 DEF Arrive, ForceTicker
<1>5. ASSUME NEW t \in Threads,
             \/ EnableSignals(t) \/ DisableSignals(t)
             \/ \E a \in Actions : Fire(t, a)
      PROVE  Good
  BY <1>2, <1>5 DEF EnableSignals, DisableSignals, Fire
<1>6. ASSUME NEW t \in Threads,
             \/ Trace(t) \/ Decrement(t) \/ Execute(t) \/ Except(t)
             \/ Reset(t) \/ PollNothing(t) \/ PollReport(t) \/ PollKeep(t)
             \/ TakeList(t) \/ NextAction(t) \/ LastAction(t)
             \/ HandlerReturns(t) \/ HandlerRaises(t) \/ ActionReturns(t)
      PROVE  Good
  <2>1. holder = t /\ holder' = holder /\ \E l \in Awake : Goto(t, l)
    <3>1. CASE Trace(t) \/ Decrement(t) \/ Execute(t) \/ Except(t)
      BY <3>1 DEF Trace, Decrement, Execute, Except, At
    <3>2. CASE Reset(t) \/ PollNothing(t) \/ PollReport(t) \/ PollKeep(t)
      BY <3>2 DEF Reset, PollNothing, PollReport, PollKeep, At
    <3>3. CASE TakeList(t) \/ NextAction(t) \/ LastAction(t)
      BY <3>3 DEF TakeList, NextAction, LastAction, At
    <3>4. CASE HandlerReturns(t) \/ HandlerRaises(t) \/ ActionReturns(t)
      BY <3>4 DEF HandlerReturns, HandlerRaises, ActionReturns, Calling, At
    <3> QED
      BY <1>6, <3>1, <3>2, <3>3, <3>4
  <2> QED
    BY <1>3, <2>1
\* A thread leaves, comes back, gets the GIL or lets others go first.
<1>7. ASSUME NEW t \in Threads, Leave(t) PROVE Good
  <2>1. holder = t /\ holder' = NoThread /\ Goto(t, "outside") /\ pc[t] = "execute"
    BY <1>7 DEF Leave, At
  <2>2. wants' = wants
    BY <1>1, <2>1 DEF Goto, wants
  <2> QED
    BY <2>1, <2>2 DEF Good, HolderRuns, Lock!LockNext, Lock!Free
<1>8. ASSUME NEW t \in Threads, ComeBack(t) PROVE Good
  <2>1. pc[t] = "outside" /\ holder' = holder /\ Goto(t, "return") /\ holder # t
    BY <1>8 DEF ComeBack, HolderRuns
  <2>2. t \notin wants /\ wants' = wants \cup {t}
    BY <1>1, <2>1 DEF Goto, wants
  <2>3. HolderRuns'
    BY <1>1, <2>1 DEF Goto, HolderRuns
  <2> QED
    BY <2>1, <2>2, <2>3 DEF Good, Lock!LockNext, Lock!Want
<1>9. ASSUME NEW t \in Threads, Switch(t) PROVE Good
  <2>1. /\ holder = NoThread /\ holder' = t /\ pc[t] \in {"return", "yielding"}
        /\ \E l \in {"list", "execute"} : Goto(t, l)
    BY <1>9 DEF Switch
  <2>2. t \in wants /\ wants' = wants \ {t}
    BY <1>1, <2>1 DEF Goto, wants
  <2>3. HolderRuns'
    BY <1>1, <2>1 DEF Goto, HolderRuns
  <2> QED
    BY <2>1, <2>2, <2>3 DEF Good, Lock!LockNext, Lock!Grant
<1>10. ASSUME NEW t \in Threads, Yield(t) PROVE Good
  <2>1. holder = t /\ pc[t] = "yield"
    BY <1>10 DEF Yield, At
  <2>2. CASE holder' = NoThread /\ Goto(t, "yielding")
    <3>1. wants' = wants \cup {t}
      BY <1>1, <2>2 DEF Goto, wants
    <3> QED
      BY <2>1, <2>2, <3>1 DEF Good, HolderRuns, Lock!LockNext, Lock!Requeue
  <2>3. CASE holder' = holder /\ Goto(t, "list")
    BY <1>3, <2>1, <2>3
  <2> QED
    BY <1>10, <2>2, <2>3 DEF Yield
<1>11. ASSUME UNCHANGED vars PROVE Good
  BY <1>2, <1>11 DEF vars
<1>12. Good
  BY Cases, <1>4, <1>5, <1>6, <1>7, <1>8, <1>9, <1>10, <1>11
<1> QED
  BY <1>12 DEF Good

\* What the threads do with the GIL around bytecodes, external calls and yields are
\* steps that module GilLock allows its users, and which Gil implements: signals and
\* actions take no more from the GIL than that.
THEOREM SignalsUseTheLock == SafeSpec => [][Lock!LockNext]_Lock!lockVars
<1>1. Init => HolderRuns
  BY ThreadsAssumption DEF Init, HolderRuns
<1> QED
  BY <1>1, LockStep, AlwaysInv, PTL DEF SafeSpec
=============================================================================
