---------------------------- MODULE RuntimeProofs ----------------------------
(***************************************************************************)
(* What holds of two parts of the runtime library of RPython, which share  *)
(* nothing:                                                                *)
(*                                                                         *)
(*   - the locks of module ThreadLock, for every set of threads and every  *)
(*     choice of calls, in both builds;                                    *)
(*                                                                         *)
(*   - the dictionaries of module OrderedDict, for every set of keys and   *)
(*     every choice of the numbers that its assumptions allow.             *)
(***************************************************************************)
EXTENDS ThreadLock, OrderedDict, FiniteSetTheorems, SequenceTheorems,
        WellFoundedInduction, TLAPS

-----------------------------------------------------------------------------
(*                                  LOCKS                                  *)

\* A call's request and result follow its place in the code.
Flow ==
    \A t \in Threads :
        /\ pc[t] \in {"acquire", "waiting", "woken", "timed_out"} =>
              request[t] # None /\ result[t] = None
        /\ pc[t] = "returned" => request[t] # None /\ result[t] # None
        /\ pc[t] \in {"app", "release", "wake"} => request[t] = None /\ result[t] = None
        /\ pc[t] \in {"waiting", "woken", "timed_out"} =>
              ~semaphores /\ request[t] \notin Unblocking
        /\ pc[t] = "timed_out" => request[t] \in Limited
        /\ result[t] = "failure" => request[t] # "wait"
        /\ result[t] = "intr" => request[t] \in Interruptible

\* RPyThreadReleaseLock runs with the GIL.
ReleaseHasGil == \A t \in Threads : pc[t] \in {"release", "wake"} => gil = t

\* Nobody posts a semaphore that is free.
Posts ==
    /\ avail \in {0, 1}
    /\ \A t \in Threads : semaphores /\ pc[t] = "wake" => avail = 0

\* Who accounts for a lock that is taken.
Own(t) ==
    \/ t \in holding
    \/ result[t] = "acquired"
    \/ pc[t] = "release"
    \/ semaphores /\ pc[t] = "wake"

OneOwner ==
    ~stray => /\ \A t, u \in Threads : Own(t) /\ Own(u) => t = u
              /\ \A t \in Threads : Own(t) => avail = 0
              /\ \A t \in holding : result[t] # "acquired" /\ pc[t] \notin {"release", "wake"}

SomeOwner == avail = 0 /\ ~probed => \E t \in Threads : Own(t)

Types ==
    /\ semaphores \in Builds /\ stray \in BOOLEAN /\ probed \in BOOLEAN
    /\ gil \in Threads \cup {NoThread}
    /\ pc \in [Threads -> PCs]
    /\ request \in [Threads -> Requests \cup {None}]
    /\ result \in [Threads -> Results \cup {None}]
    /\ holding \subseteq Threads

Inv == Types /\ Flow /\ ReleaseHasGil /\ Posts /\ NoLostWakeup

-----------------------------------------------------------------------------
\* The ways in which the system goes on.
LEMMA Cases ==
    ASSUME Next
    PROVE  \E t \in Threads :
              \/ TakeGil(t) \/ LeaveGil(t) \/ AskRelease(t) \/ Fork(t)
              \/ \E r \in Requests : Ask(t, r)
              \/ GetFree(t) \/ RefusedAtOnce(t) \/ CondWait(t)
              \/ GetAwake(t) \/ CondInterrupt(t) \/ WaitAgain(t) \/ GiveUp(t)
              \/ SemNotTaken(t) \/ SemTaken(t) \/ SemPost(t) \/ CondUnlock(t) \/ CondSignal(t)
              \/ TellAcquired(t) \/ LockedFree(t) \/ IsAcquiredFree(t) \/ TellFailure(t)
              \/ Retry(t)
              \/ SemTimeout(t) \/ SemInterrupt(t) \/ Wakeup(t) \/ CondTimeout(t)
BY DEF Next, Call, Acquire, Release, Tell, Disturb

\* The invariant of both builds, with and without stray releases.
LEMMA Invariance == SafeSpec => []Inv
<1>1. Init => Inv
  BY ThreadsAssumption, RequestsAssumption, BuildsAssumption
  DEF Init, Inv, Types, Flow, ReleaseHasGil, Posts, NoLostWakeup, PCs, Results
<1>2. Inv /\ [Next]_vars => Inv'
  <2> SUFFICES ASSUME Inv, [Next]_vars PROVE Inv'
    OBVIOUS
  <2> USE ThreadsAssumption, RequestsAssumption
      DEF Inv, Types, Flow, ReleaseHasGil, Posts, NoLostWakeup, PCs, kept, Goto, App, Back, Done,
          Return, Acquired, Results, AllRequests, Unblocking, Limited, Interruptible, KeepsGil
  <2>1. CASE UNCHANGED vars
    BY <2>1 DEF vars
  <2>2. ASSUME NEW t \in Threads,
               TakeGil(t) \/ LeaveGil(t) \/ AskRelease(t) \/ Fork(t)
        PROVE  Inv'
    <3>1. CASE TakeGil(t)
      BY <3>1 DEF TakeGil
    <3>2. CASE LeaveGil(t)
      BY <3>2 DEF LeaveGil
    <3>3. CASE AskRelease(t)
      BY <3>3 DEF AskRelease
    <3>4. CASE Fork(t)
      BY <3>4 DEF Fork
    <3> QED
      BY <2>2, <3>1, <3>2, <3>3, <3>4
  <2>3. ASSUME NEW t \in Threads, NEW r \in Requests, Ask(t, r)
        PROVE  Inv'
    BY <2>3 DEF Ask
  <2>4. ASSUME NEW t \in Threads, GetFree(t) \/ GetAwake(t)
        PROVE  Inv'
    BY <2>4 DEF GetFree, GetAwake
  <2>5. ASSUME NEW t \in Threads,
               \/ RefusedAtOnce(t) \/ CondInterrupt(t) \/ GiveUp(t)
               \/ SemTimeout(t) \/ SemInterrupt(t)
        PROVE  Inv'
    BY <2>5 DEF RefusedAtOnce, CondInterrupt, GiveUp, SemTimeout, SemInterrupt
  <2>6. ASSUME NEW t \in Threads,
               CondWait(t) \/ WaitAgain(t) \/ Wakeup(t) \/ CondTimeout(t)
        PROVE  Inv'
    BY <2>6 DEF CondWait, WaitAgain, Wakeup, CondTimeout
  <2>7. ASSUME NEW t \in Threads,
               SemNotTaken(t) \/ SemTaken(t) \/ SemPost(t) \/ CondUnlock(t)
        PROVE  Inv'
    <3>1. CASE SemNotTaken(t)
      BY <3>1 DEF SemNotTaken
    <3>2. CASE SemTaken(t)
      BY <3>2 DEF SemTaken
    <3>3. CASE SemPost(t)
      <4>1. \A u \in Threads \ {t} : pc[u] \notin {"release", "wake"} /\ pc'[u] = pc[u]
        BY <3>3 DEF SemPost
      <4>2. avail = 0 /\ avail' = 1 /\ pc'[t] = "app"
        BY <3>3 DEF SemPost
      <4>3. (Types /\ Flow /\ ReleaseHasGil)'
        BY <3>3 DEF SemPost
      <4>4. Posts'
        BY <4>1, <4>2
      <4>5. NoLostWakeup'
        BY <3>3, <4>1, <4>2 DEF SemPost
      <4> QED
        BY <4>3, <4>4, <4>5
    <3>4. CASE CondUnlock(t)
      BY <3>4 DEF CondUnlock
    <3> QED
      BY <2>7, <3>1, <3>2, <3>3, <3>4
  <2>8. ASSUME NEW t \in Threads, CondSignal(t)
        PROVE  Inv'
    BY <2>8 DEF CondSignal
  <2>9. ASSUME NEW t \in Threads, TellAcquired(t) \/ TellFailure(t) \/ Retry(t)
        PROVE  Inv'
    <3>1. CASE TellAcquired(t)
      BY <3>1 DEF TellAcquired
    <3>2. CASE TellFailure(t)
      BY <3>2 DEF TellFailure
    <3>3. CASE Retry(t)
      BY <3>3 DEF Retry
    <3> QED
      BY <2>9, <3>1, <3>2, <3>3
  <2>10. ASSUME NEW t \in Threads, LockedFree(t) \/ IsAcquiredFree(t)
         PROVE  Inv'
    <3>1. CASE LockedFree(t)
      BY <3>1 DEF LockedFree
    <3>2. CASE IsAcquiredFree(t)
      BY <3>2 DEF IsAcquiredFree
    <3> QED
      BY <2>10, <3>1, <3>2
  <2> QED
    BY <2>1, <2>2, <2>3, <2>4, <2>5, <2>6, <2>7, <2>8, <2>9, <2>10, Cases
<1> QED
  BY <1>1, <1>2, PTL DEF SafeSpec

-----------------------------------------------------------------------------
\* Type correctness; the semaphore counts no further than 1.
THEOREM Typing == SafeSpec => []TypeOK
<1>1. Inv => TypeOK
  <2> SUFFICES ASSUME Inv PROVE avail \in 0 .. Cardinality(Threads)
    BY DEF Inv, Types, TypeOK
  <2>1. Cardinality(Threads) \in Nat /\ Cardinality(Threads) # 0
    BY ThreadsAssumption, FS_CardinalityType, FS_EmptySet
  <2> QED
    BY <2>1 DEF Inv, Posts
<1> QED
  BY <1>1, Invariance, PTL

\* Between sem_getvalue and sem_post of a release no other release comes.
THEOREM SemaphoreIsBinary == SafeSpec => []AtMostOne
<1>1. Inv => AtMostOne
  BY DEF Inv, Posts, AtMostOne
<1> QED
  BY <1>1, Invariance, PTL

\* A free lock with threads that wait for it has a wakeup under way.
THEOREM WakeupsArrive == SafeSpec => []NoLostWakeup
BY Invariance, PTL DEF Inv

-----------------------------------------------------------------------------
\* As long as only threads with the lock have released it, at most one thread accounts for it.
LEMMA Ownership == SafeSpec => []OneOwner
<1>1. Init => OneOwner
  BY RequestsAssumption DEF Init, OneOwner, Own, Results
<1>2. Inv /\ OneOwner /\ [Next]_vars => OneOwner'
  <2> SUFFICES ASSUME Inv, OneOwner, [Next]_vars PROVE OneOwner'
    OBVIOUS
  <2> USE ThreadsAssumption, RequestsAssumption
      DEF Inv, Types, Flow, ReleaseHasGil, Posts, kept, Goto, App, Back, Done, Return, Acquired, Results,
          OneOwner, Own, AllRequests, Unblocking, Limited, Interruptible
  <2>1. CASE UNCHANGED vars
    BY <2>1 DEF vars
  <2>2. ASSUME NEW t \in Threads,
               TakeGil(t) \/ LeaveGil(t) \/ AskRelease(t) \/ Fork(t)
        PROVE  OneOwner'
    <3>1. CASE TakeGil(t)
      BY <3>1 DEF TakeGil
    <3>2. CASE LeaveGil(t)
      BY <3>2 DEF LeaveGil
    <3>3. CASE AskRelease(t)
      BY <3>3 DEF AskRelease
    <3>4. CASE Fork(t)
      BY <3>4 DEF Fork
    <3> QED
      BY <2>2, <3>1, <3>2, <3>3, <3>4
  <2>3. ASSUME NEW t \in Threads, NEW r \in Requests, Ask(t, r)
        PROVE  OneOwner'
    BY <2>3 DEF Ask
  <2>4. ASSUME NEW t \in Threads, GetFree(t) \/ GetAwake(t)
        PROVE  OneOwner'
    BY <2>4 DEF GetFree, GetAwake
  <2>5. ASSUME NEW t \in Threads,
               \/ RefusedAtOnce(t) \/ CondInterrupt(t) \/ GiveUp(t)
               \/ SemTimeout(t) \/ SemInterrupt(t)
        PROVE  OneOwner'
    BY <2>5 DEF RefusedAtOnce, CondInterrupt, GiveUp, SemTimeout, SemInterrupt
  <2>6. ASSUME NEW t \in Threads,
               CondWait(t) \/ WaitAgain(t) \/ Wakeup(t) \/ CondTimeout(t)
        PROVE  OneOwner'
    BY <2>6 DEF CondWait, WaitAgain, Wakeup, CondTimeout
  <2>7. ASSUME NEW t \in Threads,
               SemNotTaken(t) \/ SemTaken(t) \/ SemPost(t) \/ CondUnlock(t)
        PROVE  OneOwner'
    <3>1. CASE SemNotTaken(t)
      BY <3>1 DEF SemNotTaken
    <3>2. CASE SemTaken(t)
      BY <3>2 DEF SemTaken
    <3>3. CASE SemPost(t)
      <4>1. ~stray => \A u \in Threads \ {t} : ~Own(u) /\ pc'[u] = pc[u]
        BY <3>3 DEF SemPost
      <4>2. ~stray => \A u \in Threads : ~Own(u)'
        BY <3>3, <4>1 DEF SemPost
      <4> QED
        BY <3>3, <4>2 DEF SemPost
    <3>4. CASE CondUnlock(t)
      <4>1. ~stray => \A u \in Threads \ {t} : ~Own(u) /\ pc'[u] = pc[u]
        BY <3>4 DEF CondUnlock
      <4>2. ~stray => \A u \in Threads : ~Own(u)'
        BY <3>4, <4>1 DEF CondUnlock
      <4> QED
        BY <3>4, <4>2 DEF CondUnlock
    <3> QED
      BY <2>7, <3>1, <3>2, <3>3, <3>4
  <2>8. ASSUME NEW t \in Threads, CondSignal(t)
        PROVE  OneOwner'
    BY <2>8 DEF CondSignal
  <2>9. ASSUME NEW t \in Threads, TellAcquired(t) \/ TellFailure(t) \/ Retry(t)
        PROVE  OneOwner'
    BY <2>9 DEF TellAcquired, TellFailure, Retry
  <2>10. ASSUME NEW t \in Threads, LockedFree(t) \/ IsAcquiredFree(t)
         PROVE  OneOwner'
    BY <2>10 DEF LockedFree, IsAcquiredFree
  <2> QED
    BY <2>1, <2>2, <2>3, <2>4, <2>5, <2>6, <2>7, <2>8, <2>9, <2>10, Cases
<1> QED
  BY <1>1, <1>2, Invariance, PTL DEF SafeSpec

\* Two threads never have the lock, in either build.
THEOREM LockMutualExclusion == SafeSpec => []MutualExclusion
<1>1. Inv /\ OneOwner => MutualExclusion
  BY DEF Inv, Types, OneOwner, Own, MutualExclusion
<1> QED
  BY <1>1, Invariance, Ownership, PTL

-----------------------------------------------------------------------------
\* Until is_acquired() finds the lock free, a lock that is taken is accounted for.
LEMMA Accounting == SafeSpec => []SomeOwner
<1>1. Init => SomeOwner
  BY DEF Init, SomeOwner
<1>2. Inv /\ SomeOwner /\ [Next]_vars => SomeOwner'
  <2> SUFFICES ASSUME Inv, SomeOwner, [Next]_vars PROVE SomeOwner'
    OBVIOUS
  <2> USE ThreadsAssumption, RequestsAssumption
      DEF Inv, Types, Flow, ReleaseHasGil, Posts, kept, Goto, App, Back, Done, Return, Acquired, Results,
          SomeOwner, Own, AllRequests, Unblocking, Limited, Interruptible
  <2>1. CASE UNCHANGED vars
    BY <2>1 DEF vars
  <2>2. ASSUME NEW t \in Threads,
               TakeGil(t) \/ LeaveGil(t) \/ AskRelease(t) \/ Fork(t)
        PROVE  SomeOwner'
    BY <2>2 DEF TakeGil, LeaveGil, AskRelease, Fork
  <2>3. ASSUME NEW t \in Threads, NEW r \in Requests, Ask(t, r)
        PROVE  SomeOwner'
    BY <2>3 DEF Ask
  <2>4. ASSUME NEW t \in Threads, GetFree(t) \/ GetAwake(t)
        PROVE  SomeOwner'
    BY <2>4 DEF GetFree, GetAwake
  <2>5. ASSUME NEW t \in Threads,
               \/ RefusedAtOnce(t) \/ CondInterrupt(t) \/ GiveUp(t)
               \/ SemTimeout(t) \/ SemInterrupt(t)
        PROVE  SomeOwner'
    BY <2>5 DEF RefusedAtOnce, CondInterrupt, GiveUp, SemTimeout, SemInterrupt
  <2>6. ASSUME NEW t \in Threads,
               CondWait(t) \/ WaitAgain(t) \/ Wakeup(t) \/ CondTimeout(t)
        PROVE  SomeOwner'
    BY <2>6 DEF CondWait, WaitAgain, Wakeup, CondTimeout
  <2>7. ASSUME NEW t \in Threads,
               SemNotTaken(t) \/ SemTaken(t) \/ SemPost(t) \/ CondUnlock(t)
        PROVE  SomeOwner'
    BY <2>7 DEF SemNotTaken, SemTaken, SemPost, CondUnlock
  <2>8. ASSUME NEW t \in Threads, CondSignal(t)
        PROVE  SomeOwner'
    BY <2>8 DEF CondSignal
  <2>9. ASSUME NEW t \in Threads, TellAcquired(t) \/ TellFailure(t) \/ Retry(t)
        PROVE  SomeOwner'
    BY <2>9 DEF TellAcquired, TellFailure, Retry
  <2>10. ASSUME NEW t \in Threads, LockedFree(t) \/ IsAcquiredFree(t)
         PROVE  SomeOwner'
    BY <2>10 DEF LockedFree, IsAcquiredFree
  <2> QED
    BY <2>1, <2>2, <2>3, <2>4, <2>5, <2>6, <2>7, <2>8, <2>9, <2>10, Cases
<1> QED
  BY <1>1, <1>2, Invariance, PTL DEF SafeSpec

\* No path of the code takes the lock and forgets it, except is_acquired().
THEOREM TakenLocksAreGiven == SafeSpec => []TakenIsGiven
<1>1. SomeOwner => TakenIsGiven
  BY DEF SomeOwner, Own, TakenIsGiven, Given
<1> QED
  BY <1>1, Accounting, PTL

-----------------------------------------------------------------------------
\* The contract's step for each step of the code.
LEMMA StepKeepsContract ==
    ASSUME Inv, Next
    PROVE  Contract!Next \/ UNCHANGED <<avail = 0, request, result>>
<1> USE ThreadsAssumption, RequestsAssumption
    DEF Inv, Types, Flow, Posts, kept, Goto, App, Back, Done, Return, Acquired, Results,
        AllRequests, Unblocking, Limited, Interruptible
<1>1. ASSUME NEW t \in Threads,
             \/ TakeGil(t) \/ LeaveGil(t) \/ AskRelease(t) \/ Fork(t)
             \/ CondWait(t) \/ WaitAgain(t) \/ Wakeup(t) \/ CondTimeout(t)
             \/ SemNotTaken(t) \/ SemTaken(t) \/ CondSignal(t)
      PROVE  UNCHANGED <<avail = 0, request, result>>
  BY <1>1 DEF TakeGil, LeaveGil, AskRelease, Fork, CondWait, WaitAgain, Wakeup,
     CondTimeout, SemNotTaken, SemTaken, CondSignal
<1>2. ASSUME NEW t \in Threads, NEW r \in Requests, Ask(t, r)
      PROVE  Contract!Ask(t)
  BY <1>2 DEF Ask, Contract!Ask
<1>3. ASSUME NEW t \in Threads, GetFree(t) \/ GetAwake(t)
      PROVE  Contract!Grant(t)
  BY <1>3 DEF GetFree, GetAwake, Contract!Grant, Contract!Open
<1>4. ASSUME NEW t \in Threads, RefusedAtOnce(t) \/ SemTimeout(t) \/ GiveUp(t)
      PROVE  Contract!Refuse(t)
  BY <1>4 DEF RefusedAtOnce, SemTimeout, GiveUp, Contract!Refuse, Contract!Open
<1>5. ASSUME NEW t \in Threads, CondInterrupt(t) \/ SemInterrupt(t)
      PROVE  Contract!Interrupt(t)
  BY <1>5 DEF CondInterrupt, SemInterrupt, Contract!Interrupt, Contract!Open
<1>6. ASSUME NEW t \in Threads, SemPost(t) \/ CondUnlock(t)
      PROVE  Contract!Release \/ UNCHANGED <<avail = 0, request, result>>
  BY <1>6 DEF SemPost, CondUnlock, Contract!Release
<1>7. ASSUME NEW t \in Threads,
             TellAcquired(t) \/ LockedFree(t) \/ IsAcquiredFree(t) \/ TellFailure(t)
      PROVE  Contract!Finish(t)
  BY <1>7 DEF TellAcquired, LockedFree, IsAcquiredFree, TellFailure, Contract!Finish
<1>8. ASSUME NEW t \in Threads, Retry(t)
      PROVE  Contract!AskAgain(t)
  BY <1>8 DEF Retry, Contract!AskAgain
<1> QED
  BY <1>1, <1>2, <1>3, <1>4, <1>5, <1>6, <1>7, <1>8, Cases DEF Contract!Next

\* Both builds of the lock, with everything around them, keep the contract.
THEOREM LockKeepsContract == SafeSpec => KeepsContract
<1>1. Init => Contract!Init
  BY DEF Init, Contract!Init
<1>2. Inv /\ [Next]_vars => [Contract!Next]_(Contract!vars)
  <2> SUFFICES ASSUME Inv, [Next]_vars
               PROVE  Contract!Next \/ UNCHANGED <<avail = 0, request, result>>
    BY DEF Contract!vars
  <2>1. CASE UNCHANGED vars
    BY <2>1 DEF vars
  <2>2. CASE Next
    BY <2>2, StepKeepsContract
  <2> QED
    BY <2>1, <2>2
<1> QED
  BY <1>1, <1>2, Invariance, PTL DEF SafeSpec, KeepsContract, Contract!Spec

-----------------------------------------------------------------------------
(*                              DICTIONARIES                               *)

-----------------------------------------------------------------------------
(* Induction, as facts about sets. *)

\* The order of the numbers is well founded.
LEMMA LessIsWellFounded == IsWellFoundedOn({p \in Nat \X Nat : p[1] < p[2]}, Nat)
  BY NatLessThanWellFounded DEF OpToRel

\* A set of numbers that is not empty has a least member.
LEMMA LeastNumber ==
    ASSUME NEW U \in SUBSET Nat, U # {}
    PROVE  \E x \in U : \A y \in U : x <= y
<1> DEFINE R == {p \in Nat \X Nat : p[1] < p[2]}
<1>1. IsWellFoundedOn(R, Nat)
  BY LessIsWellFounded
<1>2. PICK x \in U : \A y \in U : <<y, x>> \notin R
  <2>1. U \subseteq Nat
    OBVIOUS
  <2> HIDE DEF R
  <2> QED
    BY <1>1, <2>1, WFMin
<1>3. ASSUME NEW y \in U, ~(x <= y) PROVE FALSE
  <2>1. x \in Nat /\ y \in Nat /\ y < x
    BY <1>3
  <2>2. <<y, x>> \in R
    BY <2>1
  <2> QED
    BY <1>2, <2>2
<1> QED
  BY <1>3

\* Numbers up to n that are not empty as a set have a greatest member.
LEMMA GreatestNumber ==
    ASSUME NEW n \in Nat, NEW U \in SUBSET (0 .. n), U # {}
    PROVE  \E x \in U : \A y \in U : y <= x
<1> DEFINE V == {m \in Nat : n - m \in U}
<1>1. V \in SUBSET Nat
  OBVIOUS
<1>2. V # {}
  <2>1. PICK u \in U : TRUE
    OBVIOUS
  <2>2. n - u \in Nat /\ n - (n - u) = u
    OBVIOUS
  <2> QED
    BY <2>1, <2>2
<1>3. PICK x \in V : \A y \in V : x <= y
  <2> HIDE DEF V
  <2> QED
    BY <1>1, <1>2, LeastNumber
<1>4. ASSUME NEW y \in U PROVE y <= n - x
  <2>1. n - y \in V
    OBVIOUS
  <2>2. x <= n - y
    BY <1>3, <2>1
  <2> QED
    BY <2>2
<1> QED
  BY <1>4

\* A set of numbers that contains 0 and every successor contains all.
LEMMA Counting ==
    ASSUME NEW T \in SUBSET Nat, 0 \in T, \A n \in T : n + 1 \in T
    PROVE  T = Nat
<1>1. SUFFICES ASSUME Nat \ T # {} PROVE FALSE
  OBVIOUS
<1>2. PICK x \in Nat \ T : \A y \in Nat \ T : x <= y
  BY <1>1, LeastNumber
<1>3. x # 0 /\ x - 1 \in Nat /\ (x - 1) + 1 = x
  BY <1>2
<1>4. x - 1 \in T
  BY <1>2, <1>3
<1> QED
  BY <1>3, <1>4

\* What an array of entries holds.
Entry == Key \cup {Gone}

\* Every sequence of entries is built from the empty one by Append.
LEMMA EntryBuilding ==
    ASSUME NEW T, <<>> \in T,
           \A s \in Seq(Entry), x \in Entry : s \in T => Append(s, x) \in T
    PROVE  Seq(Entry) \subseteq T
<1> DEFINE N == {n \in Nat : \A s \in Seq(Entry) : Len(s) = n => s \in T}
<1>1. 0 \in N
  <2>1. ASSUME NEW s \in Seq(Entry), Len(s) = 0 PROVE s = <<>>
    BY <2>1, EmptySeq
  <2> QED
    BY <2>1
<1>2. ASSUME NEW n \in N PROVE n + 1 \in N
  <2>1. SUFFICES ASSUME NEW s \in Seq(Entry), Len(s) = n + 1 PROVE s \in T
    OBVIOUS
  <2>2. s # <<>>
    BY <2>1, EmptySeq
  <2>3. PICK t \in Seq(Entry), x \in Entry : s = Append(t, x)
    BY <2>2, SequenceEmptyOrAppend
  <2>4. Len(s) = Len(t) + 1 /\ Len(t) \in Nat
    BY <2>3, AppendProperties, LenProperties
  <2>5. t \in T
    BY <2>1, <2>4
  <2> QED
    BY <2>3, <2>5
<1>3. N = Nat
  <2> HIDE DEF N
  <2>1. N \in SUBSET Nat
    BY DEF N
  <2> QED
    BY <1>1, <1>2, <2>1, Counting
<1> QED
  BY <1>3, LenProperties

-----------------------------------------------------------------------------
(* Keys. *)

\* f computes Keys(e) entry by entry.
Keeps(e, f) ==
    /\ f[0] = <<>>
    /\ \A i \in 1 .. Len(e) :
            f[i] = IF e[i] = Gone THEN f[i - 1] ELSE Append(f[i - 1], e[i])

\* Keys is computed by a function that looks at one entry after another.
LEMMA KeysUnrolled ==
    ASSUME NEW e \in Seq(Entry)
    PROVE  \E f : Keeps(e, f) /\ Keys(e) = f[Len(e)]
<1> DEFINE N == Len(e)
           Good(k, g) == g = [i \in 0 .. k |->
               IF i = 0 THEN <<>>
               ELSE IF e[i] = Gone THEN g[i - 1] ELSE Append(g[i - 1], e[i])]
           T == {k \in Nat : \E g : Good(k, g)}
<1>0. N \in Nat
  BY LenProperties
<1>1. 0 \in T
  <2> DEFINE g == [i \in 0 .. 0 |-> <<>>]
  <2>1. Good(0, g)
    OBVIOUS
  <2> QED
    BY <2>1
<1>2. ASSUME NEW k \in T PROVE k + 1 \in T
  <2>1. PICK g : Good(k, g)
    OBVIOUS
  <2> DEFINE last == IF e[k + 1] = Gone THEN g[k] ELSE Append(g[k], e[k + 1])
             h == [i \in 0 .. k + 1 |-> IF i \in 0 .. k THEN g[i] ELSE last]
  <2>2. \A i \in 0 .. k : g[i] = IF i = 0 THEN <<>>
                                 ELSE IF e[i] = Gone THEN g[i - 1] ELSE Append(g[i - 1], e[i])
    BY <2>1
  <2>3. k \in Nat
    OBVIOUS
  <2> HIDE DEF Good
  <2>4. ASSUME NEW i \in 0 .. k + 1
        PROVE  h[i] = IF i = 0 THEN <<>>
                      ELSE IF e[i] = Gone THEN h[i - 1] ELSE Append(h[i - 1], e[i])
    <3>1. CASE i \in 0 .. k
      <4>1. h[i] = g[i]
        BY <3>1
      <4>2. i # 0 => i - 1 \in 0 .. k /\ i - 1 \in 0 .. k + 1
        BY <2>3, <3>1
      <4>3. i # 0 => h[i - 1] = g[i - 1]
        BY <4>2
      <4> HIDE DEF h
      <4> QED
        BY <2>2, <3>1, <4>1, <4>3
    <3>2. CASE i \notin 0 .. k
      <4>1. i = k + 1 /\ i # 0 /\ i - 1 = k /\ k \in 0 .. k /\ k \in 0 .. k + 1
        BY <2>3, <3>2
      <4>2. h[i - 1] = g[k]
        BY <4>1
      <4>3. h[i] = last
        BY <3>2
      <4> HIDE DEF h
      <4> QED
        BY <4>1, <4>2, <4>3
    <3> QED
      BY <3>1, <3>2
  <2>5. h = [i \in 0 .. k + 1 |->
               IF i = 0 THEN <<>>
               ELSE IF e[i] = Gone THEN h[i - 1] ELSE Append(h[i - 1], e[i])]
    <3>1. h = [i \in 0 .. k + 1 |-> h[i]]
      OBVIOUS
    <3> HIDE DEF h
    <3> QED
      BY <2>4, <3>1
  <2> HIDE DEF h
  <2>6. Good(k + 1, h)
    BY <2>5 DEF Good
  <2> QED
    BY <2>3, <2>6
<1>3. T = Nat
  <2> HIDE DEF T
  <2>1. T \in SUBSET Nat
    BY DEF T
  <2> QED
    BY <1>1, <1>2, <2>1, Counting
<1>4. PICK f : Good(N, f) /\ Keys(e) = f[N]
  <2>1. \E g : Good(N, g)
    BY <1>0, <1>3
  <2> QED
    BY <2>1 DEF Keys
<1>5. \A i \in 0 .. N : f[i] = IF i = 0 THEN <<>>
                               ELSE IF e[i] = Gone THEN f[i - 1] ELSE Append(f[i - 1], e[i])
  BY <1>4
<1>6. Keeps(e, f)
  <2> HIDE DEF Good
  <2>1. f[0] = <<>>
    BY <1>0, <1>5
  <2>2. ASSUME NEW i \in 1 .. Len(e)
        PROVE  f[i] = IF e[i] = Gone THEN f[i - 1] ELSE Append(f[i - 1], e[i])
    <3>1. i \in 0 .. N /\ i # 0
      BY <1>0
    <3> QED
      BY <1>5, <3>1
  <2> QED
    BY <2>1, <2>2 DEF Keeps
<1> QED
  BY <1>4, <1>6

\* There is one way to compute it.
LEMMA KeysComputed ==
    ASSUME NEW e \in Seq(Entry), NEW f, Keeps(e, f)
    PROVE  Keys(e) = f[Len(e)]
<1>1. PICK g : Keeps(e, g) /\ Keys(e) = g[Len(e)]
  BY KeysUnrolled
<1>0. Len(e) \in Nat
  BY LenProperties
<1> DEFINE T == {i \in Nat : i \in 0 .. Len(e) => f[i] = g[i]}
<1>2. 0 \in T
  BY <1>1 DEF Keeps
<1>3. ASSUME NEW i \in T PROVE i + 1 \in T
  <2>1. SUFFICES ASSUME i + 1 \in 0 .. Len(e) PROVE f[i + 1] = g[i + 1]
    OBVIOUS
  <2>2. i \in 0 .. Len(e) /\ i + 1 \in 1 .. Len(e) /\ (i + 1) - 1 = i /\ i \in Nat
    BY <1>0, <2>1
  <2>3. f[i] = g[i]
    BY <2>2
  <2>4. f[i + 1] = IF e[i + 1] = Gone THEN f[i] ELSE Append(f[i], e[i + 1])
    BY <2>2 DEF Keeps
  <2>5. g[i + 1] = IF e[i + 1] = Gone THEN g[i] ELSE Append(g[i], e[i + 1])
    BY <1>1, <2>2 DEF Keeps
  <2> QED
    BY <2>3, <2>4, <2>5
<1>4. T = Nat
  <2> HIDE DEF T
  <2>1. T \in SUBSET Nat
    BY DEF T
  <2> QED
    BY <1>2, <1>3, <2>1, Counting
<1> QED
  BY <1>0, <1>1, <1>4

\* No entries, no keys.
LEMMA KeysEmpty == Keys(<<>>) = <<>>
<1>1. <<>> \in Seq(Entry) /\ Len(<<>>) = 0
  BY EmptySeq
<1>2. PICK f : Keeps(<<>>, f) /\ Keys(<<>>) = f[Len(<<>>)]
  BY <1>1, KeysUnrolled
<1> QED
  BY <1>1, <1>2 DEF Keeps

\* A new entry adds its key, unless it is deleted.
LEMMA KeysAppend ==
    ASSUME NEW e \in Seq(Entry), NEW x \in Entry
    PROVE  Keys(Append(e, x)) = IF x = Gone THEN Keys(e) ELSE Append(Keys(e), x)
<1> DEFINE a == Append(e, x)
<1>1. /\ a \in Seq(Entry) /\ Len(a) = Len(e) + 1 /\ Len(e) \in Nat
      /\ \A i \in 1 .. Len(e) : a[i] = e[i]
      /\ a[Len(e) + 1] = x
  BY AppendProperties, LenProperties
<1> HIDE DEF a
<1>2. PICK f : Keeps(a, f) /\ Keys(a) = f[Len(a)]
  BY <1>1, KeysUnrolled
<1>3. Keeps(e, f)
  BY <1>1, <1>2 DEF Keeps
<1>4. Keys(e) = f[Len(e)]
  BY <1>3, KeysComputed
<1>5. f[Len(e) + 1] = IF x = Gone THEN f[Len(e)] ELSE Append(f[Len(e)], x)
  <2>1. Len(e) + 1 \in 1 .. Len(a) /\ (Len(e) + 1) - 1 = Len(e)
    BY <1>1
  <2> QED
    BY <1>1, <1>2, <2>1 DEF Keeps
<1> QED
  BY <1>1, <1>2, <1>4, <1>5 DEF a

\* The live keys are keys, and not more than there are entries.
LEMMA KeysType ==
    ASSUME NEW e \in Seq(Entry)
    PROVE  Keys(e) \in Seq(Key) /\ Len(Keys(e)) \in 0 .. Len(e)
<1> DEFINE T == {s \in Seq(Entry) : Keys(s) \in Seq(Key) /\ Len(Keys(s)) \in 0 .. Len(s)}
<1>1. <<>> \in T
  <2>1. \A S : <<>> \in Seq(S) /\ Len(<<>>) = 0
    BY EmptySeq
  <2>2. Keys(<<>>) = <<>> /\ 0 \in 0 .. 0
    BY KeysEmpty
  <2> QED
    BY <2>1, <2>2
<1>2. ASSUME NEW s \in Seq(Entry), NEW x \in Entry, s \in T PROVE Append(s, x) \in T
  <2>1. /\ Append(s, x) \in Seq(Entry) /\ Len(Append(s, x)) = Len(s) + 1 /\ Len(s) \in Nat
        /\ Keys(s) \in Seq(Key) /\ Len(Keys(s)) \in 0 .. Len(s)
    BY <1>2, AppendProperties, LenProperties
  <2>2. Keys(Append(s, x)) = IF x = Gone THEN Keys(s) ELSE Append(Keys(s), x)
    BY KeysAppend
  <2>3. CASE x = Gone
    BY <2>1, <2>2, <2>3
  <2>4. CASE x # Gone
    <3>1. x \in Key
      BY <2>4 DEF Entry
    <3>2. Append(Keys(s), x) \in Seq(Key) /\ Len(Append(Keys(s), x)) = Len(Keys(s)) + 1
      BY <2>1, <3>1, AppendProperties
    <3>3. Keys(Append(s, x)) = Append(Keys(s), x)
      BY <2>2, <2>4
    <3>4. Len(Keys(s)) + 1 \in 0 .. Len(s) + 1
      BY <2>1
    <3> HIDE DEF Keys
    <3> QED
      BY <2>1, <3>2, <3>3, <3>4
  <2> QED
    BY <2>3, <2>4
<1>3. Seq(Entry) \subseteq T
  <2> HIDE DEF T
  <2> QED
    BY <1>1, <1>2, EntryBuilding
<1> QED
  BY <1>3

\* The keys of entries that follow others follow their keys.
LEMMA KeysConcat ==
    ASSUME NEW e \in Seq(Entry), NEW u \in Seq(Entry)
    PROVE  Keys(e \o u) = Keys(e) \o Keys(u)
<1> DEFINE T == {s \in Seq(Entry) : Keys(e \o s) = Keys(e) \o Keys(s)}
<1>0. Keys(e) \in Seq(Key)
  BY KeysType
<1>1. <<>> \in T
  <2>1. Keys(e) \o <<>> = Keys(e) /\ e \o <<>> = e /\ <<>> \in Seq(Entry)
    BY <1>0, ConcatEmptySeq, EmptySeq
  <2> QED
    BY <2>1, KeysEmpty
<1>2. ASSUME NEW s \in Seq(Entry), NEW x \in Entry, s \in T PROVE Append(s, x) \in T
  <2>1. /\ Append(s, x) \in Seq(Entry) /\ Append(s, x) = s \o <<x>> /\ <<x>> \in Seq(Entry)
        /\ e \o s \in Seq(Entry)
    BY AppendProperties, AppendIsConcat, ConcatProperties
  <2>2. e \o Append(s, x) = Append(e \o s, x)
    BY <2>1, ConcatAssociative, AppendIsConcat
  <2>3. Keys(e \o s) = Keys(e) \o Keys(s) /\ Keys(s) \in Seq(Key)
    BY <1>2, KeysType
  <2>4. Keys(e \o Append(s, x)) = IF x = Gone THEN Keys(e) \o Keys(s)
                                  ELSE Append(Keys(e) \o Keys(s), x)
    BY <2>1, <2>2, <2>3, KeysAppend
  <2>5. Keys(Append(s, x)) = IF x = Gone THEN Keys(s) ELSE Append(Keys(s), x)
    BY KeysAppend
  <2>6. x # Gone => Append(Keys(e) \o Keys(s), x) = Keys(e) \o Append(Keys(s), x)
    <3>1. SUFFICES ASSUME x \in Key
                   PROVE  Append(Keys(e) \o Keys(s), x) = Keys(e) \o Append(Keys(s), x)
      BY DEF Entry
    <3>2. Keys(e) \o Keys(s) \in Seq(Key) /\ <<x>> \in Seq(Key)
      BY <1>0, <2>3, <3>1, ConcatProperties
    <3>3. Append(Keys(e) \o Keys(s), x) = (Keys(e) \o Keys(s)) \o <<x>>
      BY <3>1, <3>2, AppendIsConcat
    <3>4. Append(Keys(s), x) = Keys(s) \o <<x>>
      BY <2>3, <3>1, AppendIsConcat
    <3> QED
      BY <1>0, <2>3, <3>2, <3>3, <3>4, ConcatAssociative
  <2> QED
    BY <2>1, <2>4, <2>5, <2>6
<1>3. Seq(Entry) \subseteq T
  <2> HIDE DEF T
  <2> QED
    BY <1>1, <1>2, EntryBuilding
<1> QED
  BY <1>3

\* The keys are the entries that are not deleted.
LEMMA KeysMembers ==
    ASSUME NEW e \in Seq(Entry), NEW k \in Key
    PROVE  (\E j \in 1 .. Len(Keys(e)) : Keys(e)[j] = k) <=> (\E i \in 1 .. Len(e) : e[i] = k)
<1> DEFINE Has(s) == \E i \in 1 .. Len(s) : s[i] = k
           T == {s \in Seq(Entry) : Has(Keys(s)) <=> Has(s)}
<1>0. k # Gone
  BY SizesAssumption
<1>1. <<>> \in T
  BY KeysEmpty, EmptySeq
<1>2. \A S : \A s \in Seq(S), x \in S : Has(Append(s, x)) <=> Has(s) \/ x = k
  <2> SUFFICES ASSUME NEW S, NEW s \in Seq(S), NEW x \in S
               PROVE  Has(Append(s, x)) <=> Has(s) \/ x = k
    OBVIOUS
  <2>1. /\ Len(Append(s, x)) = Len(s) + 1 /\ Len(s) \in Nat
        /\ \A i \in 1 .. Len(s) : Append(s, x)[i] = s[i]
        /\ Append(s, x)[Len(s) + 1] = x
    BY AppendProperties, LenProperties
  <2>2. ASSUME Has(Append(s, x)) PROVE Has(s) \/ x = k
    BY <2>1, <2>2
  <2>3. ASSUME Has(s) PROVE Has(Append(s, x))
    BY <2>1, <2>3
  <2>4. ASSUME x = k PROVE Has(Append(s, x))
    <3>1. Len(s) + 1 \in 1 .. Len(Append(s, x))
      BY <2>1
    <3> QED
      BY <2>1, <2>4, <3>1
  <2> QED
    BY <2>2, <2>3, <2>4
<1>3. ASSUME NEW s \in Seq(Entry), NEW x \in Entry, s \in T PROVE Append(s, x) \in T
  <2> HIDE DEF Has
  <2>1. Append(s, x) \in Seq(Entry) /\ Keys(s) \in Seq(Key)
    BY AppendProperties, KeysType
  <2>2. Keys(Append(s, x)) = IF x = Gone THEN Keys(s) ELSE Append(Keys(s), x)
    BY KeysAppend
  <2>3. Has(Append(s, x)) <=> Has(s) \/ x = k
    BY <1>2
  <2>4. x # Gone => (Has(Append(Keys(s), x)) <=> Has(Keys(s)) \/ x = k)
    BY <1>2, <2>1 DEF Entry
  <2> QED
    BY <1>0, <1>3, <2>1, <2>2, <2>3, <2>4
<1>4. Seq(Entry) \subseteq T
  <2> HIDE DEF T
  <2> QED
    BY <1>1, <1>3, EntryBuilding
<1> QED
  BY <1>4

\* Every key is in one entry at most.
Distinct(e) == \A i, j \in 1 .. Len(e) : e[i] # Gone /\ e[i] = e[j] => i = j

\* A sequence stays distinct if what is appended is new.
LEMMA DistinctAppend ==
    ASSUME NEW S, NEW s \in Seq(S), NEW x \in S, x # Gone
    PROVE  Distinct(Append(s, x)) <=> Distinct(s) /\ \A i \in 1 .. Len(s) : s[i] # x
<1>1. /\ Len(Append(s, x)) = Len(s) + 1 /\ Len(s) \in Nat
      /\ \A i \in 1 .. Len(s) : Append(s, x)[i] = s[i]
      /\ Append(s, x)[Len(s) + 1] = x
  BY AppendProperties, LenProperties
<1>2. ASSUME Distinct(Append(s, x)) PROVE Distinct(s) /\ \A i \in 1 .. Len(s) : s[i] # x
  <2>1. Distinct(s)
    BY <1>1, <1>2 DEF Distinct
  <2>2. ASSUME NEW i \in 1 .. Len(s), s[i] = x PROVE FALSE
    BY <1>1, <1>2, <2>2 DEF Distinct
  <2> QED
    BY <2>1, <2>2
<1>3. ASSUME Distinct(s), \A i \in 1 .. Len(s) : s[i] # x PROVE Distinct(Append(s, x))
  BY <1>1, <1>3 DEF Distinct
<1> QED
  BY <1>2, <1>3

\* The live keys are distinct if the entries are.
LEMMA KeysDistinct ==
    ASSUME NEW e \in Seq(Entry), Distinct(e)
    PROVE  Distinct(Keys(e))
<1> DEFINE T == {s \in Seq(Entry) : Distinct(s) => Distinct(Keys(s))}
<1>1. <<>> \in T
  BY KeysEmpty, EmptySeq
<1>2. ASSUME NEW s \in Seq(Entry), NEW x \in Entry, s \in T PROVE Append(s, x) \in T
  <2>1. Append(s, x) \in Seq(Entry) /\ Keys(s) \in Seq(Key)
    BY AppendProperties, KeysType
  <2>2. Keys(Append(s, x)) = IF x = Gone THEN Keys(s) ELSE Append(Keys(s), x)
    BY KeysAppend
  <2>3. SUFFICES ASSUME Distinct(Append(s, x)) PROVE Distinct(Keys(Append(s, x)))
    BY <2>1
  <2>4. Distinct(s)
    <3>1. /\ Len(Append(s, x)) = Len(s) + 1 /\ Len(s) \in Nat
          /\ \A i \in 1 .. Len(s) : Append(s, x)[i] = s[i]
      BY AppendProperties, LenProperties
    <3> QED
      BY <2>3, <3>1 DEF Distinct
  <2>5. Distinct(Keys(s))
    BY <1>2, <2>4
  <2>6. CASE x = Gone
    BY <2>2, <2>5, <2>6
  <2>7. CASE x # Gone
    <3>1. x \in Key
      BY <2>7 DEF Entry
    <3>2. \A i \in 1 .. Len(s) : s[i] # x
      BY <2>3, <2>7, DistinctAppend
    <3>3. \A j \in 1 .. Len(Keys(s)) : Keys(s)[j] # x
      BY <3>1, <3>2, KeysMembers
    <3> QED
      BY <2>1, <2>2, <2>5, <2>7, <3>1, <3>3, DistinctAppend
  <2> QED
    BY <2>6, <2>7
<1>3. Seq(Entry) \subseteq T
  <2> HIDE DEF T
  <2> QED
    BY <1>1, <1>2, EntryBuilding
<1> QED
  BY <1>3

\* Deleted entries have no keys, and an array without them is its keys.
LEMMA KeysOfGone ==
    ASSUME NEW e \in Seq(Entry), \A i \in 1 .. Len(e) : e[i] = Gone
    PROVE  Keys(e) = <<>>
<1>1. PICK f : Keeps(e, f) /\ Keys(e) = f[Len(e)]
  BY KeysUnrolled
<1>2. Len(e) \in Nat /\ Keys(e) \in Seq(Key)
  BY LenProperties, KeysType
<1>3. SUFFICES ASSUME Keys(e) # <<>> PROVE FALSE
  OBVIOUS
<1>4. Len(Keys(e)) \in Nat \ {0}
  BY <1>2, <1>3, EmptySeq
<1>5. 1 \in 1 .. Len(Keys(e)) /\ Keys(e)[1] \in Key
  BY <1>2, <1>4, ElementOfSeq
<1>6. \E i \in 1 .. Len(e) : e[i] = Keys(e)[1]
  BY <1>5, KeysMembers
<1> QED
  BY <1>5, <1>6, SizesAssumption

\* Entries that are all valid are their own keys.
LEMMA KeysOfValid ==
    ASSUME NEW e \in Seq(Entry), \A i \in 1 .. Len(e) : e[i] # Gone
    PROVE  Keys(e) = e
<1> DEFINE T == {s \in Seq(Entry) : (\A i \in 1 .. Len(s) : s[i] # Gone) => Keys(s) = s}
<1>1. <<>> \in T
  BY KeysEmpty, EmptySeq
<1>2. ASSUME NEW s \in Seq(Entry), NEW x \in Entry, s \in T PROVE Append(s, x) \in T
  <2>1. /\ Append(s, x) \in Seq(Entry) /\ Len(Append(s, x)) = Len(s) + 1 /\ Len(s) \in Nat
        /\ \A i \in 1 .. Len(s) : Append(s, x)[i] = s[i]
        /\ Append(s, x)[Len(s) + 1] = x
    BY AppendProperties, LenProperties
  <2>2. SUFFICES ASSUME \A i \in 1 .. Len(Append(s, x)) : Append(s, x)[i] # Gone
                 PROVE  Keys(Append(s, x)) = Append(s, x)
    BY <2>1
  <2>3. x # Gone /\ \A i \in 1 .. Len(s) : s[i] # Gone
    BY <2>1, <2>2
  <2> QED
    BY <1>2, <2>3, KeysAppend
<1>3. Seq(Entry) \subseteq T
  <2> HIDE DEF T
  <2> QED
    BY <1>1, <1>2, EntryBuilding
<1> QED
  BY <1>3

\* Compacted entries are all valid: ll_dict_remove_deleted_items is idempotent.
LEMMA KeysOfKeys ==
    ASSUME NEW e \in Seq(Entry)
    PROVE  /\ Keys(e) \in Seq(Entry) /\ Keys(Keys(e)) = Keys(e)
           /\ \A i \in 1 .. Len(Keys(e)) : Keys(e)[i] \in Key /\ Keys(e)[i] # Gone
<1>1. Keys(e) \in Seq(Key)
  BY KeysType
<1>2. Keys(e) \in Seq(Entry)
  BY <1>1, SeqMonotonic DEF Entry
<1>3. \A i \in 1 .. Len(Keys(e)) : Keys(e)[i] \in Key /\ Keys(e)[i] # Gone
  BY <1>1, ElementOfSeq, SizesAssumption
<1> QED
  BY <1>2, <1>3, KeysOfValid

\* The keys of a single entry.
LEMMA KeysOfOne ==
    ASSUME NEW x \in Entry
    PROVE  <<x>> \in Seq(Entry) /\ Keys(<<x>>) = IF x = Gone THEN <<>> ELSE <<x>>
<1>1. <<x>> = Append(<<>>, x) /\ <<>> \in Seq(Entry)
  OBVIOUS
<1>2. Keys(<<x>>) = IF x = Gone THEN Keys(<<>>) ELSE Append(Keys(<<>>), x)
  BY <1>1, KeysAppend
<1> QED
  BY <1>1, <1>2, KeysEmpty
\* The keys before and after an entry.
Before(e, i) == Keys(SubSeq(e, 1, i - 1))
After(e, i) == Keys(SubSeq(e, i + 1, Len(e)))

\* The elements of a part of the entries.
LEMMA PartOf ==
    ASSUME NEW e \in Seq(Entry), NEW m \in 1 .. Len(e) + 1, NEW n \in 0 .. Len(e), m <= n + 1
    PROVE  /\ SubSeq(e, m, n) \in Seq(Entry) /\ Len(SubSeq(e, m, n)) = n + 1 - m
           /\ \A j \in 1 .. n + 1 - m : SubSeq(e, m, n)[j] = e[m + j - 1]
<1>1. m \in Int /\ n \in Int /\ Len(e) \in Nat
  BY LenProperties
<1>2. \A j \in m .. n : e[j] \in Entry
  <2>1. \A j \in m .. n : j \in 1 .. Len(e)
    BY <1>1
  <2> QED
    BY <2>1, ElementOfSeq
<1>3. /\ SubSeq(e, m, n) \in Seq(Entry)
      /\ Len(SubSeq(e, m, n)) = IF m <= n THEN n - m + 1 ELSE 0
      /\ \A j \in 1 .. n - m + 1 : SubSeq(e, m, n)[j] = e[m + j - 1]
  BY <1>1, <1>2, SubSeqProperties
<1> QED
  BY <1>1, <1>3

\* The keys of entries cut in two.
LEMMA KeysCut ==
    ASSUME NEW e \in Seq(Entry), NEW m \in 0 .. Len(e)
    PROVE  /\ SubSeq(e, 1, m) \in Seq(Entry) /\ SubSeq(e, m + 1, Len(e)) \in Seq(Entry)
           /\ Keys(e) = Keys(SubSeq(e, 1, m)) \o Keys(SubSeq(e, m + 1, Len(e)))
<1>1. Len(e) \in Nat /\ m \in Nat
  BY LenProperties
<1>2. SubSeq(e, 1, m) \in Seq(Entry) /\ SubSeq(e, m + 1, Len(e)) \in Seq(Entry)
  <2>1. /\ 1 \in 1 .. Len(e) + 1 /\ m \in 0 .. Len(e) /\ 1 <= m + 1
        /\ m + 1 \in 1 .. Len(e) + 1 /\ Len(e) \in 0 .. Len(e) /\ m + 1 <= Len(e) + 1
    BY <1>1
  <2> QED
    BY <2>1, PartOf
<1>3. SubSeq(e, 1, m) \o SubSeq(e, m + 1, Len(e)) = e
  <2>1. /\ 1 \in 1 .. Len(e) + 1 /\ m \in 1 - 1 .. Len(e) /\ Len(e) \in m .. Len(e)
    BY <1>1
  <2>2. SubSeq(e, 1, m) \o SubSeq(e, m + 1, Len(e)) = SubSeq(e, 1, Len(e))
    BY <2>1, ConcatAdjacentSubSeq
  <2> QED
    BY <2>2, SubSeqFull
<1>4. Keys(SubSeq(e, 1, m) \o SubSeq(e, m + 1, Len(e)))
          = Keys(SubSeq(e, 1, m)) \o Keys(SubSeq(e, m + 1, Len(e)))
  BY <1>2, KeysConcat
<1> QED
  BY <1>2, <1>3, <1>4

\* The keys of entries are those before one of them, its own, and those after it.
LEMMA KeysAround ==
    ASSUME NEW e \in Seq(Entry), NEW i \in 1 .. Len(e)
    PROVE  /\ Before(e, i) \in Seq(Key) /\ After(e, i) \in Seq(Key)
           /\ Keys(e) = IF e[i] = Gone THEN Before(e, i) \o After(e, i)
                        ELSE (Before(e, i) \o <<e[i]>>) \o After(e, i)
<1>1. Len(e) \in Nat /\ i \in Nat /\ e[i] \in Entry
  BY LenProperties, ElementOfSeq
<1>2. /\ SubSeq(e, 1, i) \in Seq(Entry) /\ SubSeq(e, i + 1, Len(e)) \in Seq(Entry)
      /\ Keys(e) = Keys(SubSeq(e, 1, i)) \o After(e, i)
  <2>1. i \in 0 .. Len(e)
    BY <1>1
  <2> QED
    BY <2>1, KeysCut DEF After
<1>3. SubSeq(e, 1, i - 1) \in Seq(Entry)
  <2>1. 1 \in 1 .. Len(e) + 1 /\ i - 1 \in 0 .. Len(e) /\ 1 <= (i - 1) + 1
    BY <1>1
  <2> QED
    BY <2>1, PartOf
<1>4. SubSeq(e, 1, i) = Append(SubSeq(e, 1, i - 1), e[i])
  <2>1. SubSeq(e, 1, i) = SubSeq(e, 1, i - 1) \o <<e[i]>>
    <3>1. 1 \in 1 .. Len(e) /\ i \in 1 .. Len(e)
      BY <1>1
    <3> QED
      BY <3>1, SubSeqRecursiveSecond
  <2> QED
    BY <1>1, <1>3, <2>1, AppendIsConcat
<1>5. Keys(SubSeq(e, 1, i)) = IF e[i] = Gone THEN Before(e, i) ELSE Append(Before(e, i), e[i])
  BY <1>1, <1>3, <1>4, KeysAppend DEF Before
<1>6. Before(e, i) \in Seq(Key) /\ After(e, i) \in Seq(Key)
  BY <1>2, <1>3, KeysType DEF Before, After
<1>7. e[i] # Gone => Append(Before(e, i), e[i]) = Before(e, i) \o <<e[i]>>
  <2>1. SUFFICES ASSUME e[i] \in Key PROVE Append(Before(e, i), e[i]) = Before(e, i) \o <<e[i]>>
    BY <1>1 DEF Entry
  <2> QED
    BY <1>6, <2>1, AppendIsConcat
<1> QED
  BY <1>2, <1>5, <1>6, <1>7

\* What a change of one entry does to the keys.
LEMMA KeysChanged ==
    ASSUME NEW e \in Seq(Entry), NEW i \in 1 .. Len(e), NEW x \in Entry
    PROVE  /\ [e EXCEPT ![i] = x] \in Seq(Entry) /\ Len([e EXCEPT ![i] = x]) = Len(e)
           /\ \A j \in 1 .. Len(e) : [e EXCEPT ![i] = x][j] = IF j = i THEN x ELSE e[j]
           /\ Keys([e EXCEPT ![i] = x]) = IF x = Gone THEN Before(e, i) \o After(e, i)
                                          ELSE (Before(e, i) \o <<x>>) \o After(e, i)
<1> DEFINE c == [e EXCEPT ![i] = x]
<1>1. /\ c \in Seq(Entry) /\ Len(c) = Len(e)
      /\ \A j \in 1 .. Len(e) : c[j] = IF j = i THEN x ELSE e[j]
  BY ExceptSeq
<1> HIDE DEF c
<1>2. i \in 1 .. Len(c) /\ c[i] = x /\ Len(e) \in Nat /\ i \in Nat
  BY <1>1, LenProperties
<1>3. Before(c, i) = Before(e, i)
  <2>1. 1 \in 1 .. Len(e) + 1 /\ i - 1 \in 0 .. Len(e) /\ 1 <= (i - 1) + 1
    BY <1>2
  <2>2. /\ SubSeq(e, 1, i - 1) \in Seq(Entry) /\ Len(SubSeq(e, 1, i - 1)) = (i - 1) + 1 - 1
        /\ \A j \in 1 .. (i - 1) + 1 - 1 : SubSeq(e, 1, i - 1)[j] = e[1 + j - 1]
    BY <2>1, PartOf
  <2>3. /\ SubSeq(c, 1, i - 1) \in Seq(Entry) /\ Len(SubSeq(c, 1, i - 1)) = (i - 1) + 1 - 1
        /\ \A j \in 1 .. (i - 1) + 1 - 1 : SubSeq(c, 1, i - 1)[j] = c[1 + j - 1]
    BY <1>1, <2>1, PartOf
  <2>4. \A j \in 1 .. Len(SubSeq(c, 1, i - 1)) : SubSeq(c, 1, i - 1)[j] = SubSeq(e, 1, i - 1)[j]
    <3>1. ASSUME NEW j \in 1 .. Len(SubSeq(c, 1, i - 1)) PROVE SubSeq(c, 1, i - 1)[j] = SubSeq(e, 1, i - 1)[j]
      <4>1. j \in 1 .. (i - 1) + 1 - 1 /\ 1 + j - 1 \in 1 .. Len(e) /\ 1 + j - 1 # i
        BY <1>2, <2>3
      <4> QED
        BY <1>1, <2>2, <2>3, <4>1
    <3> QED
      BY <3>1
  <2>5. SubSeq(c, 1, i - 1) = SubSeq(e, 1, i - 1)
    BY <2>2, <2>3, <2>4, SeqEqual
  <2> QED
    BY <2>5 DEF Before
<1>4. After(c, i) = After(e, i)
  <2>1. i + 1 \in 1 .. Len(e) + 1 /\ Len(e) \in 0 .. Len(e) /\ i + 1 <= Len(e) + 1
    BY <1>2
  <2>2. /\ SubSeq(e, i + 1, Len(e)) \in Seq(Entry)
        /\ Len(SubSeq(e, i + 1, Len(e))) = Len(e) + 1 - (i + 1)
        /\ \A j \in 1 .. Len(e) + 1 - (i + 1) : SubSeq(e, i + 1, Len(e))[j] = e[(i + 1) + j - 1]
    BY <2>1, PartOf
  <2>3. /\ SubSeq(c, i + 1, Len(e)) \in Seq(Entry)
        /\ Len(SubSeq(c, i + 1, Len(e))) = Len(e) + 1 - (i + 1)
        /\ \A j \in 1 .. Len(e) + 1 - (i + 1) : SubSeq(c, i + 1, Len(e))[j] = c[(i + 1) + j - 1]
    BY <1>1, <2>1, PartOf
  <2>4. \A j \in 1 .. Len(SubSeq(c, i + 1, Len(e))) :
            SubSeq(c, i + 1, Len(e))[j] = SubSeq(e, i + 1, Len(e))[j]
    <3>1. ASSUME NEW j \in 1 .. Len(SubSeq(c, i + 1, Len(e)))
          PROVE  SubSeq(c, i + 1, Len(e))[j] = SubSeq(e, i + 1, Len(e))[j]
      <4>1. /\ j \in 1 .. Len(e) + 1 - (i + 1)
            /\ (i + 1) + j - 1 \in 1 .. Len(e) /\ (i + 1) + j - 1 # i
        BY <1>2, <2>3
      <4> QED
        BY <1>1, <2>2, <2>3, <4>1
    <3> QED
      BY <3>1
  <2>5. SubSeq(c, i + 1, Len(e)) = SubSeq(e, i + 1, Len(e))
    BY <2>2, <2>3, <2>4, SeqEqual
  <2> QED
    BY <1>1, <2>5 DEF After
<1>5. Keys(c) = IF x = Gone THEN Before(e, i) \o After(e, i)
                ELSE (Before(e, i) \o <<x>>) \o After(e, i)
  BY <1>1, <1>2, <1>3, <1>4, KeysAround
<1> QED
  BY <1>1, <1>5 DEF c

\* and to how many they are.
LEMMA CountChanged ==
    ASSUME NEW e \in Seq(Entry), NEW i \in 1 .. Len(e), NEW x \in Entry
    PROVE  Len(Keys([e EXCEPT ![i] = x])) = Len(Keys(e)) - (IF e[i] = Gone THEN 0 ELSE 1)
                                                         + (IF x = Gone THEN 0 ELSE 1)
<1>1. /\ Before(e, i) \in Seq(Key) /\ After(e, i) \in Seq(Key) /\ e[i] \in Entry
      /\ Keys(e) = IF e[i] = Gone THEN Before(e, i) \o After(e, i)
                   ELSE (Before(e, i) \o <<e[i]>>) \o After(e, i)
  BY KeysAround, ElementOfSeq
<1>2. Keys([e EXCEPT ![i] = x]) = IF x = Gone THEN Before(e, i) \o After(e, i)
                                  ELSE (Before(e, i) \o <<x>>) \o After(e, i)
  BY KeysChanged
<1>3. \A y \in Key : Len((Before(e, i) \o <<y>>) \o After(e, i))
                         = Len(Before(e, i)) + 1 + Len(After(e, i))
  <2> SUFFICES ASSUME NEW y \in Key
               PROVE  Len((Before(e, i) \o <<y>>) \o After(e, i))
                          = Len(Before(e, i)) + 1 + Len(After(e, i))
    OBVIOUS
  <2>1. <<y>> \in Seq(Key) /\ Len(<<y>>) = 1
    OBVIOUS
  <2> QED
    BY <1>1, <2>1, ConcatProperties
<1>4. /\ Len(Before(e, i) \o After(e, i)) = Len(Before(e, i)) + Len(After(e, i))
      /\ Len(Before(e, i)) \in Nat /\ Len(After(e, i)) \in Nat
  BY <1>1, ConcatProperties, LenProperties
<1> DEFINE others == Len(Before(e, i)) + Len(After(e, i))
<1>5. ASSUME NEW c, NEW y \in Entry,
             Keys(c) = IF y = Gone THEN Before(e, i) \o After(e, i)
                       ELSE (Before(e, i) \o <<y>>) \o After(e, i)
      PROVE  Len(Keys(c)) = others + (IF y = Gone THEN 0 ELSE 1)
  <2>1. CASE y = Gone
    BY <1>4, <1>5, <2>1
  <2>2. CASE y # Gone
    <3>1. y \in Key
      BY <2>2 DEF Entry
    <3>2. Len(Keys(c)) = Len(Before(e, i)) + 1 + Len(After(e, i))
      BY <1>3, <1>5, <2>2, <3>1
    <3> QED
      BY <1>4, <2>2, <3>2
  <2> QED
    BY <2>1, <2>2
<1>6. /\ Len(Keys(e)) = others + (IF e[i] = Gone THEN 0 ELSE 1)
      /\ Len(Keys([e EXCEPT ![i] = x])) = others + (IF x = Gone THEN 0 ELSE 1)
  <2> HIDE DEF others
  <2> QED
    BY <1>1, <1>2, <1>5
<1>7. others \in Nat
  BY <1>4
<1> HIDE DEF others
<1> QED
  BY <1>6, <1>7

\* Entries after the last valid one, or before the first, have no keys.
LEMMA KeysTrimmed ==
    ASSUME NEW e \in Seq(Entry), NEW m \in 0 .. Len(e), \A j \in m + 1 .. Len(e) : e[j] = Gone
    PROVE  Keys(SubSeq(e, 1, m)) = Keys(e)
<1>1. Len(e) \in Nat /\ m \in Nat
  BY LenProperties
<1>2. m + 1 \in 1 .. Len(e) + 1 /\ Len(e) \in 0 .. Len(e) /\ m + 1 <= Len(e) + 1
  BY <1>1
<1>3. /\ SubSeq(e, m + 1, Len(e)) \in Seq(Entry)
      /\ Len(SubSeq(e, m + 1, Len(e))) = Len(e) + 1 - (m + 1)
      /\ \A j \in 1 .. Len(e) + 1 - (m + 1) : SubSeq(e, m + 1, Len(e))[j] = e[(m + 1) + j - 1]
  BY <1>2, PartOf
<1>4. \A j \in 1 .. Len(SubSeq(e, m + 1, Len(e))) : SubSeq(e, m + 1, Len(e))[j] = Gone
  <2>1. ASSUME NEW j \in 1 .. Len(SubSeq(e, m + 1, Len(e)))
        PROVE  SubSeq(e, m + 1, Len(e))[j] = Gone
    <3>1. j \in 1 .. Len(e) + 1 - (m + 1) /\ (m + 1) + j - 1 \in m + 1 .. Len(e)
      BY <1>1, <1>3
    <3> QED
      BY <1>3, <3>1
  <2> QED
    BY <2>1
<1>5. Keys(SubSeq(e, m + 1, Len(e))) = <<>>
  BY <1>3, <1>4, KeysOfGone
<1>6. /\ SubSeq(e, 1, m) \in Seq(Entry)
      /\ Keys(e) = Keys(SubSeq(e, 1, m)) \o Keys(SubSeq(e, m + 1, Len(e)))
  BY KeysCut
<1>7. Keys(SubSeq(e, 1, m)) \in Seq(Key)
  BY <1>6, KeysType
<1> QED
  BY <1>5, <1>6, <1>7, ConcatEmptySeq

\* An entry that is deleted.
LEMMA KeysRemoved ==
    ASSUME NEW e \in Seq(Entry), NEW i \in 1 .. Len(e)
    PROVE  /\ [e EXCEPT ![i] = Gone] \in Seq(Entry) /\ Len([e EXCEPT ![i] = Gone]) = Len(e)
           /\ \A j \in 1 .. Len(e) : [e EXCEPT ![i] = Gone][j] = IF j = i THEN Gone ELSE e[j]
           /\ Keys([e EXCEPT ![i] = Gone]) = Before(e, i) \o After(e, i)
<1> DEFINE u == [e EXCEPT ![i] = Gone]
<1>1. Gone \in Entry
  BY DEF Entry
<1>2. /\ u \in Seq(Entry) /\ Len(u) = Len(e)
      /\ \A j \in 1 .. Len(e) : u[j] = IF j = i THEN Gone ELSE e[j]
      /\ Keys(u) = IF Gone = Gone THEN Before(e, i) \o After(e, i)
                   ELSE (Before(e, i) \o <<Gone>>) \o After(e, i)
  BY <1>1, KeysChanged
<1> HIDE DEF u
<1>3. Keys(u) = Before(e, i) \o After(e, i)
  BY <1>2
<1> QED
  BY <1>2, <1>3 DEF u

-----------------------------------------------------------------------------
(* Sizes of tables. *)

Doubled(n, m) == IF n < m THEN 2 * n ELSE n

\* The sizes of tables, one step.
LEMMA TablesUnrolled ==
    /\ TableOf[0] = InitSize
    /\ \A m \in Nat : m # 0 => TableOf[m] = Doubled(TableOf[m - 1], m)
<1> DEFINE Good(k, g) == g = [i \in 0 .. k |-> IF i = 0 THEN InitSize ELSE Doubled(g[i - 1], i)]
           T == {k \in Nat : \E g : Good(k, g)}
<1>1. 0 \in T
  <2> DEFINE g == [i \in 0 .. 0 |-> InitSize]
  <2>1. Good(0, g)
    OBVIOUS
  <2> QED
    BY <2>1
<1>2. ASSUME NEW k \in T PROVE k + 1 \in T
  <2>1. PICK g : Good(k, g)
    OBVIOUS
  <2> DEFINE h == [i \in 0 .. k + 1 |-> IF i \in 0 .. k THEN g[i] ELSE Doubled(g[k], k + 1)]
  <2>2. \A i \in 0 .. k : g[i] = IF i = 0 THEN InitSize ELSE Doubled(g[i - 1], i)
    BY <2>1
  <2>3. k \in Nat
    OBVIOUS
  <2> HIDE DEF Good
  <2>4. ASSUME NEW i \in 0 .. k + 1
        PROVE  h[i] = IF i = 0 THEN InitSize ELSE Doubled(h[i - 1], i)
    <3>1. CASE i \in 0 .. k
      <4>1. h[i] = g[i]
        BY <3>1
      <4>2. i # 0 => i - 1 \in 0 .. k /\ i - 1 \in 0 .. k + 1
        BY <2>3, <3>1
      <4>3. i # 0 => h[i - 1] = g[i - 1]
        BY <4>2
      <4> HIDE DEF h
      <4> QED
        BY <2>2, <3>1, <4>1, <4>3
    <3>2. CASE i \notin 0 .. k
      <4>1. i = k + 1 /\ i # 0 /\ i - 1 = k /\ k \in 0 .. k /\ k \in 0 .. k + 1
        BY <2>3, <3>2
      <4>2. h[i - 1] = g[k]
        BY <4>1
      <4>3. h[i] = Doubled(g[k], k + 1)
        BY <3>2
      <4> HIDE DEF h
      <4> QED
        BY <4>1, <4>2, <4>3
    <3> QED
      BY <3>1, <3>2
  <2>5. h = [i \in 0 .. k + 1 |-> IF i = 0 THEN InitSize ELSE Doubled(h[i - 1], i)]
    <3>1. h = [i \in 0 .. k + 1 |-> h[i]]
      OBVIOUS
    <3> HIDE DEF h
    <3> QED
      BY <2>4, <3>1
  <2> HIDE DEF h
  <2>6. Good(k + 1, h)
    BY <2>5 DEF Good
  <2> QED
    BY <2>3, <2>6
<1>3. T = Nat
  <2> HIDE DEF T
  <2>1. T \in SUBSET Nat
    BY DEF T
  <2> QED
    BY <1>1, <1>2, <2>1, Counting
<1>4. ASSUME NEW k \in Nat, NEW g, Good(k, g), NEW l \in Nat, NEW h, Good(l, h)
      PROVE  \A i \in Nat : i <= k /\ i <= l => g[i] = h[i]
  <2>1. /\ \A i \in 0 .. k : g[i] = IF i = 0 THEN InitSize ELSE Doubled(g[i - 1], i)
        /\ \A i \in 0 .. l : h[i] = IF i = 0 THEN InitSize ELSE Doubled(h[i - 1], i)
    BY <1>4
  <2> DEFINE U == {i \in Nat : i <= k /\ i <= l => g[i] = h[i]}
  <2>2. 0 \in U
    BY <2>1
  <2>3. ASSUME NEW i \in U PROVE i + 1 \in U
    <3>1. SUFFICES ASSUME i + 1 <= k, i + 1 <= l PROVE g[i + 1] = h[i + 1]
      OBVIOUS
    <3>2. /\ i \in Nat /\ i <= k /\ i <= l /\ i + 1 \in 0 .. k /\ i + 1 \in 0 .. l
          /\ i + 1 # 0 /\ (i + 1) - 1 = i
      BY <3>1
    <3>3. g[i] = h[i]
      BY <3>2
    <3> QED
      BY <2>1, <3>2, <3>3
  <2>4. U = Nat
    <3> HIDE DEF U
    <3>1. U \in SUBSET Nat
      BY DEF U
    <3> QED
      BY <2>2, <2>3, <3>1, Counting
  <2> QED
    BY <2>4
<1> DEFINE chosen(m) == CHOOSE g : Good(m, g)
           f == [m \in Nat |-> chosen(m)[m]]
<1>5. ASSUME NEW m \in Nat PROVE Good(m, chosen(m))
  <2>1. \E g : Good(m, g)
    BY <1>3
  <2> HIDE DEF Good
  <2> QED
    BY <2>1
<1>6. ASSUME NEW m \in Nat
      PROVE  f[m] = IF m = 0 THEN InitSize ELSE Doubled(f[m - 1], m)
  <2>1. f[m] = chosen(m)[m]
    OBVIOUS
  <2>2. chosen(m)[m] = IF m = 0 THEN InitSize ELSE Doubled(chosen(m)[m - 1], m)
    <3>1. Good(m, chosen(m)) /\ m \in 0 .. m
      BY <1>5
    <3> HIDE DEF chosen
    <3> QED
      BY <3>1
  <2>3. m # 0 => f[m - 1] = chosen(m)[m - 1]
    <3>1. SUFFICES ASSUME m # 0 PROVE f[m - 1] = chosen(m)[m - 1]
      OBVIOUS
    <3>2. m - 1 \in Nat /\ m - 1 <= m /\ m - 1 <= m - 1
      BY <3>1
    <3>3. f[m - 1] = chosen(m - 1)[m - 1]
      BY <3>2
    <3>4. Good(m, chosen(m)) /\ Good(m - 1, chosen(m - 1))
      BY <1>5, <3>2
    <3> HIDE DEF chosen, f, Good
    <3> QED
      BY <1>4, <3>2, <3>3, <3>4
  <2> HIDE DEF chosen, f
  <2> QED
    BY <2>1, <2>2, <2>3
<1>7. f = [m \in Nat |-> IF m = 0 THEN InitSize ELSE Doubled(f[m - 1], m)]
  <2>1. f = [m \in Nat |-> f[m]]
    OBVIOUS
  <2> HIDE DEF f
  <2> QED
    BY <1>6, <2>1
<1>8. \E g : g = [m \in Nat |-> IF m = 0 THEN InitSize ELSE Doubled(g[m - 1], m)]
  <2> HIDE DEF f
  <2> QED
    BY <1>7
<1>9. TableOf = [m \in Nat |-> IF m = 0 THEN InitSize ELSE Doubled(TableOf[m - 1], m)]
  BY <1>8 DEF TableOf, Doubled
<1> QED
  BY <1>9

Tables == {TableOf[m] : m \in Nat}

\* Tables are large enough, and compaction makes room in those of bytes.
LEMMA TableSizes ==
    /\ Tables \subseteq Nat \ {0} /\ InitSize \in Tables
    /\ \A m \in Nat : TableOf[m] \in Tables /\ TableOf[m] >= m
    /\ \A n \in Tables : n <= ByteSize => Overallocated((2 * n) \div 3) + 3 <= ByteSize
<1>1. /\ TableOf[0] = InitSize
      /\ \A m \in Nat : m # 0 => TableOf[m] = Doubled(TableOf[m - 1], m)
  BY TablesUnrolled
<1> DEFINE T == {m \in Nat : TableOf[m] \in Nat \ {0} /\ TableOf[m] >= m}
<1>2. 0 \in T
  BY <1>1, SizesAssumption
<1>3. ASSUME NEW m \in T PROVE m + 1 \in T
  <2>1. m \in Nat /\ m + 1 \in Nat /\ m + 1 # 0 /\ (m + 1) - 1 = m
    OBVIOUS
  <2>2. TableOf[m + 1] = Doubled(TableOf[m], m + 1)
    BY <1>1, <2>1
  <2>3. TableOf[m] \in Nat \ {0} /\ TableOf[m] >= m
    OBVIOUS
  <2> QED
    BY <2>1, <2>2, <2>3 DEF Doubled
<1>4. T = Nat
  <2> HIDE DEF T
  <2>1. T \in SUBSET Nat
    BY DEF T
  <2> QED
    BY <1>2, <1>3, <2>1, Counting
<1>5. \A m \in Nat : TableOf[m] \in Nat \ {0} /\ TableOf[m] >= m
  BY <1>4
<1>6. InitSize \in Tables
  BY <1>1 DEF Tables
<1>7. ASSUME NEW n \in Tables, n <= ByteSize
      PROVE  Overallocated((2 * n) \div 3) + 3 <= ByteSize
  <2>1. PICK m \in Nat : n = TableOf[m]
    BY DEF Tables
  <2>2. m \in 0 .. ByteSize
    BY <1>5, <1>7, <2>1, SizesAssumption
  <2> QED
    BY <1>7, <2>1, <2>2, BytesAssumption
<1> QED
  BY <1>5, <1>6, <1>7 DEF Tables

-----------------------------------------------------------------------------
(* Dictionaries whose counts are sound, whatever their slots hold. *)

Dicts == [entries : Seq(Entry), size : Nat, n : Nat, rc : Int, taken : Nat, skip : Nat,
          slot : [Key -> Nat]]

\* Each item takes a slot, and resize_counter leaves a third of the slots.
Paid(x) ==
    /\ x.n \in Tables
    /\ x.rc > 0
    /\ x.rc + 3 * x.taken <= 2 * x.n
    /\ Live(x) <= x.taken

Sound(x) ==
    /\ x \in Dicts
    /\ Ever(x) <= x.size
    /\ x.skip <= Ever(x)
    /\ \A i \in 1 .. x.skip : x.entries[i] = Gone
    /\ x.n = 0 => /\ x.size = Ever(x) /\ x.taken = 0
                  /\ \A i \in 1 .. Ever(x) : x.entries[i] # Gone
    /\ x.n # 0 => Paid(x)

\* The types of the fields and of what is counted.
LEMMA Counts ==
    ASSUME NEW x \in Dicts
    PROVE  /\ Ever(x) \in Nat /\ Live(x) \in Nat /\ Live(x) <= Ever(x)
           /\ x.entries \in Seq(Entry) /\ x.size \in Nat /\ x.n \in Nat /\ x.rc \in Int
           /\ x.taken \in Nat /\ x.skip \in Nat /\ x.slot \in [Key -> Nat]
<1>1. /\ x.entries \in Seq(Entry) /\ x.size \in Nat /\ x.n \in Nat /\ x.rc \in Int
      /\ x.taken \in Nat /\ x.skip \in Nat /\ x.slot \in [Key -> Nat]
  BY DEF Dicts
<1>2. Len(Keys(x.entries)) \in 0 .. Len(x.entries) /\ Len(x.entries) \in Nat
  BY <1>1, KeysType, LenProperties
<1> QED
  BY <1>1, <1>2 DEF Ever, Live

\* An array is allocated with two entries to spare, and more for more items.
LEMMA Allocation ==
    /\ \A m \in Nat : Overallocated(m) \in Nat /\ Overallocated(m) >= m + 2
    /\ \A m, n \in Nat : m <= n => Overallocated(m) <= Overallocated(n)
  BY SizesAssumption DEF Overallocated

\* What is stored in a slot is a number.
LEMMA StoredIsNat == \A n, i \in Nat : Stored(n, i) \in Nat
  BY SizesAssumption DEF Stored

\* ll_dict_reindex, field by field.
LEMMA Reindexing ==
    ASSUME NEW x \in Dicts, NEW n \in Nat
    PROVE  /\ Reindexed(x, n) \in Dicts
           /\ Reindexed(x, n).entries = x.entries /\ Reindexed(x, n).size = x.size
           /\ Reindexed(x, n).n = n /\ Reindexed(x, n).skip = 0
           /\ Reindexed(x, n).rc = 2 * n - 3 * Live(x) /\ Reindexed(x, n).taken = Live(x)
           /\ Ever(Reindexed(x, n)) = Ever(x) /\ Live(Reindexed(x, n)) = Live(x)
           /\ Reindexed(x, n).slot =
                 [k \in Key |-> IF k \in ToSet(x.entries)
                                THEN Stored(n, CHOOSE i \in 1 .. Ever(x) : x.entries[i] = k)
                                ELSE 0]
<1> DEFINE r == Reindexed(x, n)
           index == [k \in Key |-> IF k \in ToSet(x.entries)
                                   THEN Stored(n, CHOOSE i \in 1 .. Ever(x) : x.entries[i] = k)
                                   ELSE 0]
           count == Live(x)
<1>0. Live(x) \in Nat /\ n \in Nat
  BY Counts
<1>1. r = [entries |-> x.entries, size |-> x.size, n |-> n, rc |-> 2 * n - 3 * Live(x),
           taken |-> Live(x), skip |-> 0, slot |-> index]
  <2>1. r = [x EXCEPT !.n = n, !.rc = 2 * n - 3 * count, !.taken = count, !.skip = 0,
                      !.slot = index]
    BY DEF Reindexed
  <2> HIDE DEF index, count, r
  <2>2. x = [entries |-> x.entries, size |-> x.size, n |-> x.n, rc |-> x.rc,
             taken |-> x.taken, skip |-> x.skip, slot |-> x.slot]
    BY DEF Dicts
  <2>3. r = [entries |-> x.entries, size |-> x.size, n |-> n, rc |-> 2 * n - 3 * count,
             taken |-> count, skip |-> 0, slot |-> index]
    BY <2>1, <2>2
  <2> QED
    BY <2>3 DEF count
<1>2. index \in [Key -> Nat]
  <2>1. ASSUME NEW k \in Key, k \in ToSet(x.entries)
        PROVE  Stored(n, CHOOSE i \in 1 .. Ever(x) : x.entries[i] = k) \in Nat
    <3>1. \E i \in 1 .. Ever(x) : x.entries[i] = k
      <4>1. x.entries \in Seq(Entry) /\ DOMAIN x.entries = 1 .. Len(x.entries)
        BY Counts, LenProperties
      <4> QED
        BY <2>1, <4>1 DEF ToSet, Ever
    <3>2. (CHOOSE i \in 1 .. Ever(x) : x.entries[i] = k) \in 1 .. Ever(x)
      BY <3>1
    <3>3. (CHOOSE i \in 1 .. Ever(x) : x.entries[i] = k) \in Nat
      BY <3>2, Counts
    <3> QED
      BY <3>3, StoredIsNat
  <2> QED
    BY <2>1
<1> HIDE DEF index
<1>3. r \in Dicts
  BY <1>1, <1>2, Counts DEF Dicts
<1>4. r.entries = x.entries
  BY <1>1
<1> QED
  BY <1>1, <1>3, <1>4 DEF Ever, Live, index

\* ll_dict_reindex, into a table that is large enough for the live items.
LEMMA SoundReindexed ==
    ASSUME NEW x \in Dicts, Ever(x) <= x.size, NEW n \in Tables, 2 * n - 3 * Live(x) > 0
    PROVE  Sound(Reindexed(x, n)) /\ n # 0
<1>1. n \in Nat \ {0}
  BY TableSizes
<1> DEFINE r == Reindexed(x, n)
<1>2. /\ r \in Dicts /\ r.entries = x.entries /\ r.size = x.size /\ r.n = n /\ r.skip = 0
      /\ r.rc = 2 * n - 3 * Live(x) /\ r.taken = Live(x)
      /\ Ever(r) = Ever(x) /\ Live(r) = Live(x)
  BY <1>1, Reindexing
<1> HIDE DEF r
<1>3. Paid(r)
  BY <1>1, <1>2, Counts DEF Paid
<1>4. Sound(r)
  BY <1>1, <1>2, <1>3, Counts DEF Sound
<1> QED
  BY <1>1, <1>4 DEF r

\* What is bought with n slots is less than two thirds of them.
LEMMA SoundNumbers ==
    ASSUME NEW x, Sound(x), x.n # 0
    PROVE  /\ x \in Dicts /\ x.n \in Tables /\ x.n \in Nat \ {0} /\ Ever(x) <= x.size
           /\ x.rc > 0 /\ x.rc + 3 * x.taken <= 2 * x.n /\ Live(x) <= x.taken
           /\ 2 * x.n - 3 * Live(x) >= x.rc
           /\ Live(x) <= (2 * x.n) \div 3
<1>1. /\ x \in Dicts /\ x.n \in Tables /\ Ever(x) <= x.size
      /\ x.rc > 0 /\ x.rc + 3 * x.taken <= 2 * x.n /\ Live(x) <= x.taken
  BY DEF Sound, Paid
<1>2. x.n \in Nat \ {0}
  BY <1>1, TableSizes
<1>3. Live(x) \in Nat /\ x.rc \in Int /\ x.taken \in Nat /\ x.n \in Nat
  BY <1>1, Counts
<1>4. 2 * x.n - 3 * Live(x) >= x.rc /\ 3 * Live(x) <= 2 * x.n
  BY <1>1, <1>3
<1>5. Live(x) <= (2 * x.n) \div 3
  BY <1>3, <1>4
<1> QED
  BY <1>1, <1>2, <1>4, <1>5

\* ll_dict_remove_deleted_items
LEMMA SoundCompacted ==
    ASSUME NEW x, Sound(x), x.n # 0
    PROVE  /\ Sound(Compacted(x)) /\ Compacted(x).n = x.n
           /\ Compacted(x).entries = Keys(x.entries) /\ Ever(Compacted(x)) = Live(x)
           /\ Live(Compacted(x)) = Live(x) /\ Compacted(x).taken = Live(x)
           /\ Compacted(x).rc = 2 * x.n - 3 * Live(x)
           /\ Compacted(x).size = IF Shrinks(x) THEN Overallocated(Live(x)) ELSE x.size
<1>1. /\ x \in Dicts /\ x.n \in Tables /\ x.n \in Nat \ {0} /\ Ever(x) <= x.size
      /\ 2 * x.n - 3 * Live(x) > 0
  <2>1. /\ x \in Dicts /\ x.n \in Tables /\ x.n \in Nat \ {0} /\ Ever(x) <= x.size
        /\ x.rc > 0 /\ 2 * x.n - 3 * Live(x) >= x.rc
    BY SoundNumbers
  <2> QED
    BY <2>1, Counts
<1> DEFINE size == IF Shrinks(x) THEN Overallocated(Live(x)) ELSE x.size
           y == [x EXCEPT !.entries = Keys(@), !.size = size]
<1>2. /\ Keys(x.entries) \in Seq(Entry) /\ Keys(Keys(x.entries)) = Keys(x.entries)
      /\ Len(Keys(x.entries)) = Live(x)
  BY <1>1, Counts, KeysOfKeys DEF Live
<1>3. /\ Live(x) \in Nat /\ Ever(x) \in Nat /\ x.size \in Nat /\ Live(x) <= Ever(x)
  BY <1>1, Counts
<1>4. size \in Nat /\ Live(x) <= size
  <2>1. Overallocated(Live(x)) \in Nat /\ Overallocated(Live(x)) >= Live(x) + 2
    BY <1>3, Allocation
  <2> QED
    BY <1>1, <1>3, <2>1
<1> HIDE DEF size
<1>5. /\ y \in Dicts /\ y.entries = Keys(x.entries) /\ y.size = size /\ y.n = x.n
  BY <1>1, <1>2, <1>4, Counts DEF Dicts
<1>6. Ever(y) = Live(x) /\ Live(y) = Live(x)
  BY <1>2, <1>5 DEF Ever, Live
<1>7. Compacted(x) = Reindexed(y, x.n)
  BY DEF Compacted, size
<1> HIDE DEF y
<1>8. Sound(Reindexed(y, x.n))
  BY <1>1, <1>4, <1>5, <1>6, SoundReindexed
<1>9. /\ Reindexed(y, x.n).entries = y.entries /\ Reindexed(y, x.n).size = y.size
      /\ Reindexed(y, x.n).n = x.n /\ Reindexed(y, x.n).rc = 2 * x.n - 3 * Live(y)
      /\ Reindexed(y, x.n).taken = Live(y) /\ Ever(Reindexed(y, x.n)) = Ever(y)
      /\ Live(Reindexed(y, x.n)) = Live(y)
  BY <1>1, <1>5, Reindexing
<1> QED
  BY <1>5, <1>6, <1>7, <1>8, <1>9 DEF size

\* ll_dict_grow makes room, also when it does so by compaction.
LEMMA SoundGrown ==
    ASSUME NEW x, Sound(x), x.n # 0, Full(x)
    PROVE  /\ Sound(Grown(x)) /\ Grown(x).n = x.n /\ Live(Grown(x)) = Live(x)
           /\ Ever(Grown(x)) < Grown(x).size /\ Keys(Grown(x).entries) = Keys(x.entries)
           /\ Grown(x).taken = IF CompactsToGrow(x) THEN Live(x) ELSE x.taken
<1>1. /\ x \in Dicts /\ x.n \in Tables /\ x.n \in Nat \ {0} /\ Ever(x) = x.size
      /\ Live(x) <= (2 * x.n) \div 3
  BY SoundNumbers DEF Full
<1>2. /\ Live(x) \in Nat /\ Ever(x) \in Nat /\ x.size \in Nat /\ Live(x) <= Ever(x)
  BY <1>1, Counts
<1>3. CASE CompactsToGrow(x)
  <2>1. Grown(x) = Compacted(x)
    BY <1>3 DEF Grown
  <2>2. /\ Sound(Compacted(x)) /\ Compacted(x).n = x.n
        /\ Compacted(x).entries = Keys(x.entries) /\ Ever(Compacted(x)) = Live(x)
        /\ Live(Compacted(x)) = Live(x) /\ Compacted(x).taken = Live(x)
        /\ Compacted(x).size = IF Shrinks(x) THEN Overallocated(Live(x)) ELSE x.size
    BY SoundCompacted
  <2>3. Live(x) < x.size
    <3>1. CASE Live(x) < Ever(x) \div 2
      BY <1>1, <1>2, <3>1
    <3>2. CASE x.n <= ByteSize /\ Overallocated(x.size) > ByteSize - 3
      <4>1. Overallocated((2 * x.n) \div 3) + 3 <= ByteSize
        BY <1>1, <3>2, TableSizes
      <4>2. (2 * x.n) \div 3 \in Nat
        BY <1>1
      <4>3. Overallocated(Live(x)) <= Overallocated((2 * x.n) \div 3)
        BY <1>1, <1>2, <4>2, Allocation
      <4>4. Overallocated(Live(x)) < Overallocated(x.size)
        <5>1. /\ Overallocated(Live(x)) \in Nat /\ Overallocated((2 * x.n) \div 3) \in Nat
              /\ Overallocated(x.size) \in Nat /\ ByteSize \in Nat
          BY <1>2, <4>2, Allocation, SizesAssumption
        <5> QED
          BY <3>2, <4>1, <4>3, <5>1
      <4>5. Live(x) # x.size
        <5>1. Overallocated(x.size) \in Nat
          BY <1>2, Allocation
        <5> QED
          BY <4>4, <5>1
      <4> QED
        BY <1>1, <1>2, <4>5
    <3> QED
      BY <1>3, <3>1, <3>2 DEF CompactsToGrow
  <2>4. Live(x) < Compacted(x).size
    <3>1. Overallocated(Live(x)) \in Nat /\ Overallocated(Live(x)) >= Live(x) + 2
      BY <1>2, Allocation
    <3> QED
      BY <1>2, <2>2, <2>3, <3>1
  <2>5. Keys(Compacted(x).entries) = Keys(x.entries)
    BY <1>1, <2>2, Counts, KeysOfKeys
  <2> QED
    BY <1>3, <2>1, <2>2, <2>4, <2>5
<1>4. CASE ~CompactsToGrow(x)
  <2> DEFINE y == [x EXCEPT !.size = Overallocated(@)]
  <2>1. Grown(x) = y
    BY <1>4 DEF Grown
  <2>2. /\ y \in Dicts /\ y.entries = x.entries /\ y.size = Overallocated(x.size)
        /\ y.n = x.n /\ y.rc = x.rc /\ y.taken = x.taken /\ y.skip = x.skip
    BY <1>1, <1>2, Allocation DEF Dicts
  <2> HIDE DEF y
  <2>3. Ever(y) = Ever(x) /\ Live(y) = Live(x)
    BY <2>2 DEF Ever, Live
  <2>4. Ever(y) < y.size
    <3>1. Overallocated(x.size) \in Nat /\ Overallocated(x.size) >= x.size + 2
      BY <1>2, Allocation
    <3> QED
      BY <1>1, <1>2, <2>2, <2>3, <3>1
  <2>5. Paid(y)
    BY <2>2, <2>3 DEF Sound, Paid
  <2>6. Ever(y) <= y.size
    <3>1. Overallocated(x.size) \in Nat
      BY <1>2, Allocation
    <3> QED
      BY <1>2, <2>2, <2>3, <2>4, <3>1
  <2>7. Sound(y)
    BY <2>2, <2>3, <2>5, <2>6 DEF Sound
  <2> QED
    BY <1>4, <2>1, <2>2, <2>3, <2>4, <2>7
<1> QED
  BY <1>3, <1>4

\* _ll_dict_resize_to
LEMMA SoundResizedTo ==
    ASSUME NEW x, Sound(x), x.n # 0, NEW extra \in Nat
    PROVE  /\ Sound(ResizedTo(x, extra)) /\ ResizedTo(x, extra).n # 0
           /\ Live(ResizedTo(x, extra)) = Live(x) /\ ResizedTo(x, extra).taken = Live(x)
           /\ Keys(ResizedTo(x, extra).entries) = Keys(x.entries)
           /\ ResizedTo(x, extra).rc > 4 * extra
           /\ Ever(x) < x.size => Ever(ResizedTo(x, extra)) < ResizedTo(x, extra).size
<1>1. /\ x \in Dicts /\ x.n \in Tables /\ x.n \in Nat \ {0} /\ Ever(x) <= x.size
  BY SoundNumbers
<1>2. /\ Live(x) \in Nat /\ Ever(x) \in Nat /\ x.size \in Nat /\ Live(x) <= Ever(x)
  BY <1>1, Counts
<1> DEFINE n == NewSize(x, extra)
           r == ResizedTo(x, extra)
<1>3. n \in Tables /\ n \in Nat \ {0} /\ n >= 2 * (Live(x) + extra) + 1
  <2>1. 2 * (Live(x) + extra) + 1 \in Nat
    BY <1>2
  <2> QED
    BY <2>1, TableSizes DEF NewSize
<1>4. r = IF n < x.n THEN Compacted(x) ELSE Reindexed(x, n)
  BY DEF ResizedTo
<1> HIDE DEF n, r
<1>5. CASE n < x.n
  <2>1. /\ Sound(Compacted(x)) /\ Compacted(x).n = x.n
        /\ Compacted(x).entries = Keys(x.entries) /\ Ever(Compacted(x)) = Live(x)
        /\ Live(Compacted(x)) = Live(x) /\ Compacted(x).taken = Live(x)
        /\ Compacted(x).rc = 2 * x.n - 3 * Live(x)
        /\ Compacted(x).size = IF Shrinks(x) THEN Overallocated(Live(x)) ELSE x.size
    BY SoundCompacted
  <2>2. 2 * x.n - 3 * Live(x) > 4 * extra
    BY <1>1, <1>2, <1>3, <1>5
  <2>3. Ever(x) < x.size => Live(x) < Compacted(x).size
    <3>1. Overallocated(Live(x)) \in Nat /\ Overallocated(Live(x)) >= Live(x) + 2
      BY <1>2, Allocation
    <3> QED
      BY <1>2, <2>1, <3>1
  <2>4. Keys(Keys(x.entries)) = Keys(x.entries)
    BY <1>1, Counts, KeysOfKeys
  <2> QED
    BY <1>1, <1>4, <1>5, <2>1, <2>2, <2>3, <2>4 DEF r
<1>6. CASE ~(n < x.n)
  <2>1. 2 * n - 3 * Live(x) > 0 /\ 2 * n - 3 * Live(x) > 4 * extra
    BY <1>2, <1>3
  <2>2. Sound(Reindexed(x, n))
    BY <1>1, <1>3, <2>1, SoundReindexed
  <2>3. /\ Reindexed(x, n).entries = x.entries /\ Reindexed(x, n).size = x.size
        /\ Reindexed(x, n).n = n /\ Reindexed(x, n).rc = 2 * n - 3 * Live(x)
        /\ Reindexed(x, n).taken = Live(x) /\ Ever(Reindexed(x, n)) = Ever(x)
        /\ Live(Reindexed(x, n)) = Live(x)
    BY <1>1, <1>3, Reindexing
  <2> QED
    BY <1>3, <1>4, <1>6, <2>1, <2>2, <2>3 DEF r
<1> QED
  BY <1>5, <1>6

\* ll_ensure_indexes
LEMMA SoundEnsured ==
    ASSUME NEW x, Sound(x)
    PROVE  /\ Sound(Ensured(x)) /\ Ensured(x).n # 0 /\ Ensured(x).entries = x.entries
           /\ Ensured(x).size = x.size /\ Live(Ensured(x)) = Live(x) /\ Ever(Ensured(x)) = Ever(x)
           /\ x.n # 0 => Ensured(x) = x
<1>1. x \in Dicts /\ Ever(x) <= x.size
  BY DEF Sound
<1>2. /\ Live(x) \in Nat /\ Ever(x) \in Nat /\ x.size \in Nat /\ x.n \in Nat
      /\ x.taken \in Nat /\ x.rc \in Int /\ x.skip \in Nat
  BY <1>1, Counts
<1>3. CASE x.n # 0
  BY <1>3 DEF Ensured
<1>4. CASE x.n = 0 /\ Live(x) = 0
  <2>2. /\ InitSize \in Tables /\ InitSize \in Nat /\ InitSize # 0
    BY TableSizes, SizesAssumption
  <2> DEFINE double == 2 * InitSize
             y == [x EXCEPT !.n = InitSize, !.rc = double]
  <2>1. Ensured(x) = y
    BY <1>4 DEF Ensured
  <2>0. double \in Int /\ double = 2 * InitSize
    BY <2>2
  <2> HIDE DEF double
  <2>3. /\ y \in Dicts /\ y.entries = x.entries /\ y.size = x.size /\ y.n = InitSize
        /\ y.rc = 2 * InitSize /\ y.taken = x.taken /\ y.skip = x.skip
    BY <1>1, <2>0, <2>2 DEF Dicts
  <2> HIDE DEF y
  <2>4. Ever(y) = Ever(x) /\ Live(y) = Live(x)
    BY <2>3 DEF Ever, Live
  <2>5. x.taken = 0
    BY <1>4 DEF Sound
  <2>6. Paid(y)
    BY <1>4, <2>2, <2>3, <2>4, <2>5 DEF Paid
  <2>7. Sound(y)
    BY <2>2, <2>3, <2>4, <2>6 DEF Sound
  <2> QED
    BY <1>4, <2>1, <2>2, <2>3, <2>4, <2>7
<1>5. CASE x.n = 0 /\ Live(x) # 0
  <2> DEFINE m == (3 * Live(x)) \div 2 + 1
  <2>1. m \in Nat /\ 2 * m > 3 * Live(x)
    BY <1>2
  <2>2. TableOf[m] \in Tables /\ TableOf[m] \in Nat /\ TableOf[m] >= m /\ TableOf[m] # 0
    BY <2>1, TableSizes
  <2>3. Ensured(x) = Reindexed(x, TableOf[m])
    BY <1>5 DEF Ensured
  <2> HIDE DEF m
  <2>4. 2 * TableOf[m] - 3 * Live(x) > 0
    BY <1>2, <2>1, <2>2
  <2>5. Sound(Reindexed(x, TableOf[m]))
    BY <1>1, <2>2, <2>4, SoundReindexed
  <2>6. /\ Reindexed(x, TableOf[m]).entries = x.entries
        /\ Reindexed(x, TableOf[m]).size = x.size
        /\ Reindexed(x, TableOf[m]).n = TableOf[m]
        /\ Ever(Reindexed(x, TableOf[m])) = Ever(x) /\ Live(Reindexed(x, TableOf[m])) = Live(x)
    BY <1>1, <2>2, Reindexing
  <2> QED
    BY <1>5, <2>2, <2>3, <2>5, <2>6
<1> QED
  BY <1>3, <1>4, <1>5

\* Storing: what Put has done before it adds the entry.
RoomFor(x) ==
    LET grown == IF Full(x) THEN Grown(x) ELSE x
    IN  IF grown.rc - 3 <= 0 THEN Resized(grown) ELSE grown
NewSlots(x, more) ==
    LET grown == IF Full(x) THEN Grown(x) ELSE x
    IN  IF grown.rc - 3 <= 0 \/ (Full(x) /\ CompactsToGrow(x)) THEN 1 ELSE more

\* Before an entry is added there is room for it, a slot, and a positive resize_counter.
LEMMA SoundRoom ==
    ASSUME NEW x, Sound(x), x.n # 0
    PROVE  /\ Sound(RoomFor(x)) /\ RoomFor(x).n # 0 /\ Live(RoomFor(x)) = Live(x)
           /\ Keys(RoomFor(x).entries) = Keys(x.entries)
           /\ Ever(RoomFor(x)) < RoomFor(x).size /\ RoomFor(x).rc > 3
           /\ \A more \in {0, 1} : Live(x) + 1 <= x.taken + more =>
                 /\ NewSlots(x, more) \in {0, 1}
                 /\ Live(x) + 1 <= RoomFor(x).taken + NewSlots(x, more)
<1>1. x \in Dicts /\ x.n # 0 /\ Live(x) \in Nat /\ Ever(x) <= x.size /\ Ever(x) \in Nat /\ x.size \in Nat
  BY Counts DEF Sound
<1> DEFINE g == IF Full(x) THEN Grown(x) ELSE x
<1>2. /\ Sound(g) /\ g.n # 0 /\ Live(g) = Live(x) /\ Keys(g.entries) = Keys(x.entries)
      /\ Ever(g) < g.size
      /\ g.taken = IF Full(x) /\ CompactsToGrow(x) THEN Live(x) ELSE x.taken
  <2>1. CASE Full(x)
    BY <1>1, <2>1, SoundGrown
  <2>2. CASE ~Full(x)
    BY <1>1, <2>2 DEF Full
  <2> QED
    BY <2>1, <2>2
<1>3. /\ RoomFor(x) = IF g.rc - 3 <= 0 THEN Resized(g) ELSE g
      /\ \A more : NewSlots(x, more) =
            IF g.rc - 3 <= 0 \/ (Full(x) /\ CompactsToGrow(x)) THEN 1 ELSE more
  BY DEF RoomFor, NewSlots
<1> HIDE DEF g
<1>4. g \in Dicts /\ g.rc \in Int /\ Live(g) \in Nat /\ Live(g) + 1 \in Nat
  BY <1>2, Counts DEF Sound
<1>5. x.taken \in Nat
  BY <1>1, Counts
<1>6. CASE g.rc - 3 <= 0
  <2> DEFINE r == ResizedTo(g, Live(g) + 1)
  <2>1. RoomFor(x) = r
    BY <1>3, <1>6 DEF Resized
  <2>2. /\ Sound(r) /\ r.n # 0 /\ Live(r) = Live(g) /\ r.taken = Live(g)
        /\ Keys(r.entries) = Keys(g.entries)
        /\ Ever(g) < g.size => Ever(r) < r.size
    BY <1>2, <1>4, SoundResizedTo
  <2>3. r.rc > 3
    <3>1. Sound(g) /\ g.n # 0
      BY <1>2
    <3>2. r.rc > 4 * (Live(g) + 1)
      BY <1>4, <3>1, SoundResizedTo
    <3>3. r.rc \in Int
      BY <2>2, Counts DEF Sound
    <3> HIDE DEF r
    <3> QED
      BY <1>4, <3>2, <3>3
  <2>4. \A more \in {0, 1} : NewSlots(x, more) = 1
    BY <1>3, <1>6
  <2> HIDE DEF r
  <2> QED
    BY <1>2, <1>4, <2>1, <2>2, <2>3, <2>4
<1>7. CASE ~(g.rc - 3 <= 0)
  <2>1. RoomFor(x) = g /\ g.rc > 3
    BY <1>3, <1>4, <1>7
  <2>2. \A more \in {0, 1} :
            NewSlots(x, more) = IF Full(x) /\ CompactsToGrow(x) THEN 1 ELSE more
    BY <1>3, <1>7
  <2> QED
    BY <1>1, <1>2, <1>5, <2>1, <2>2
<1> QED
  BY <1>6, <1>7

\* What Put does after it has made room.
LEMMA PutInRoom ==
    ASSUME NEW x, Sound(x), x.n # 0, NEW k \in Key, NEW more \in {0, 1}
    PROVE  Put(x, k, more) =
               [entries |-> Append(RoomFor(x).entries, k), size |-> RoomFor(x).size,
                n |-> RoomFor(x).n, rc |-> RoomFor(x).rc - 3,
                taken |-> RoomFor(x).taken + NewSlots(x, more), skip |-> RoomFor(x).skip,
                slot |-> [RoomFor(x).slot EXCEPT
                             ![k] = Stored(RoomFor(x).n, Ever(RoomFor(x)) + 1)]]
<1> DEFINE room == RoomFor(x)
           new == NewSlots(x, more)
           v == Stored(room.n, Ever(room) + 1)
<1>1. Put(x, k, more) = [room EXCEPT !.entries = Append(@, k), !.rc = @ - 3, !.taken = @ + new,
                                     !.slot[k] = v]
  BY DEF Put, RoomFor, NewSlots
<1>2. room \in Dicts
  BY SoundRoom DEF Sound
<1> HIDE DEF room, new, v
<1>3. Put(x, k, more) = [entries |-> Append(room.entries, k), size |-> room.size, n |-> room.n,
                         rc |-> room.rc - 3, taken |-> room.taken + new, skip |-> room.skip,
                         slot |-> [room.slot EXCEPT ![k] = v]]
  BY <1>1, <1>2 DEF Dicts
<1> QED
  BY <1>3 DEF room, new, v

\* _ll_dict_setitem_lookup_done puts the key behind the others.
LEMMA SoundPut ==
    ASSUME NEW x, Sound(x), x.n # 0, NEW k \in Key, NEW more \in {0, 1},
           Live(x) + 1 <= x.taken + more
    PROVE  /\ Sound(Put(x, k, more)) /\ Put(x, k, more).n # 0
           /\ Keys(Put(x, k, more).entries) = Append(Keys(x.entries), k)
<1> DEFINE room == RoomFor(x)
           new == NewSlots(x, more)
           p == Put(x, k, more)
<1>1. /\ Sound(room) /\ room.n # 0 /\ Live(room) = Live(x)
      /\ Keys(room.entries) = Keys(x.entries) /\ Ever(room) < room.size /\ room.rc > 3
      /\ new \in {0, 1} /\ Live(x) + 1 <= room.taken + new
  BY SoundRoom
<1>0. p = [entries |-> Append(room.entries, k), size |-> room.size, n |-> room.n,
           rc |-> room.rc - 3, taken |-> room.taken + new, skip |-> room.skip,
           slot |-> [room.slot EXCEPT ![k] = Stored(room.n, Ever(room) + 1)]]
  BY PutInRoom
<1> HIDE DEF room, new, p
<1>2. /\ p.entries = Append(room.entries, k) /\ p.size = room.size /\ p.n = room.n
      /\ p.rc = room.rc - 3 /\ p.taken = room.taken + new /\ p.skip = room.skip
      /\ p.slot = [room.slot EXCEPT ![k] = Stored(room.n, Ever(room) + 1)]
  BY <1>0
<1>3. /\ room \in Dicts /\ room.entries \in Seq(Entry) /\ room.size \in Nat /\ room.n \in Nat
      /\ room.rc \in Int /\ room.taken \in Nat /\ room.skip \in Nat
      /\ room.slot \in [Key -> Nat] /\ Ever(room) \in Nat /\ Live(room) \in Nat
  BY <1>1, Counts DEF Sound
<1>4. k \in Entry /\ k # Gone
  BY SizesAssumption DEF Entry
<1>5. /\ p.entries \in Seq(Entry) /\ Len(p.entries) = Len(room.entries) + 1
      /\ \A i \in 1 .. Len(room.entries) : p.entries[i] = room.entries[i]
  BY <1>2, <1>3, <1>4, AppendProperties
<1>6. Keys(p.entries) = Append(Keys(x.entries), k)
  BY <1>1, <1>2, <1>3, <1>4, KeysAppend
<1>7. p.slot \in [Key -> Nat]
  <2>1. Stored(room.n, Ever(room) + 1) \in Nat
    <3>1. Ever(room) + 1 \in Nat
      BY <1>3
    <3> QED
      BY <1>3, <3>1, StoredIsNat
  <2> QED
    BY <1>2, <1>3, <2>1
<1>8. p \in Dicts
  <2>0. /\ p.size = room.size /\ p.n = room.n /\ p.rc = room.rc - 3
        /\ p.taken = room.taken + new /\ p.skip = room.skip /\ new \in {0, 1}
        /\ room.rc \in Int /\ room.taken \in Nat
    BY <1>1, <1>2, <1>3
  <2>1. p.size \in Nat /\ p.n \in Nat /\ p.rc \in Int /\ p.taken \in Nat /\ p.skip \in Nat
    BY <1>3, <2>0
  <2>2. p = [entries |-> p.entries, size |-> p.size, n |-> p.n, rc |-> p.rc,
             taken |-> p.taken, skip |-> p.skip, slot |-> p.slot]
    BY <1>0
  <2> QED
    BY <1>5, <1>7, <2>1, <2>2 DEF Dicts
<1>9. Ever(p) = Ever(room) + 1
  BY <1>5 DEF Ever
<1>10. Live(p) = Live(x) + 1
  <2>1. Keys(x.entries) \in Seq(Key)
    BY <1>1, <1>3, KeysType
  <2>2. Len(Append(Keys(x.entries), k)) = Len(Keys(x.entries)) + 1
    BY <2>1, AppendProperties
  <2> QED
    BY <1>6, <2>2 DEF Live
<1>11. Paid(p)
  <2>1. room.n \in Tables /\ room.rc + 3 * room.taken <= 2 * room.n
    BY <1>1 DEF Sound, Paid
  <2>2. Live(x) + 1 <= p.taken /\ p.rc > 0
    BY <1>1, <1>2, <1>3
  <2>3. p.rc + 3 * p.taken <= 2 * p.n
    <3>1. p.rc = room.rc - 3 /\ p.taken = room.taken + new /\ p.n = room.n /\ new \in {0, 1}
      BY <1>1, <1>2
    <3>2. room.rc \in Int /\ room.taken \in Nat /\ room.n \in Nat
      BY <1>3
    <3> QED
      BY <2>1, <3>1, <3>2
  <2> QED
    BY <1>2, <1>10, <2>1, <2>2, <2>3 DEF Paid
<1>12. Sound(p)
  <2>1. Ever(p) <= p.size /\ p.skip <= Ever(p) /\ p.n # 0
    <3>1. room.skip <= Ever(room)
      BY <1>1 DEF Sound
    <3>2. /\ p.size = room.size /\ p.skip = room.skip /\ p.n = room.n /\ room.n # 0
          /\ Ever(room) < room.size
      BY <1>1, <1>2
    <3>3. Ever(room) \in Nat /\ room.size \in Nat /\ room.skip \in Nat
      BY <1>3
    <3> QED
      BY <1>9, <3>1, <3>2, <3>3
  <2>2. \A i \in 1 .. p.skip : p.entries[i] = Gone
    <3>1. /\ \A i \in 1 .. room.skip : room.entries[i] = Gone
          /\ room.skip <= Len(room.entries) /\ Len(room.entries) \in Nat
      BY <1>1, <1>3 DEF Sound, Ever
    <3> QED
      BY <1>2, <1>3, <1>5, <3>1
  <2> QED
    BY <1>8, <1>11, <2>1, <2>2 DEF Sound
<1> QED
  BY <1>1, <1>2, <1>6, <1>12 DEF p

\* Storing a key: a key that is found stays where it is.
LEMMA SoundSetItem ==
    ASSUME NEW x, Sound(x), x.n # 0, NEW k \in Key
    PROVE  /\ Sound(SetItem(x, k)) /\ SetItem(x, k).n # 0
           /\ Keys(SetItem(x, k).entries) = IF Found(x, k) THEN Keys(x.entries)
                                            ELSE Append(Keys(x.entries), k)
<1>1. Live(x) <= x.taken /\ Live(x) \in Nat /\ x.taken \in Nat
  <2>1. x \in Dicts /\ Live(x) <= x.taken
    BY SoundNumbers
  <2> QED
    BY <2>1, Counts
<1>2. CASE Found(x, k)
  BY <1>2 DEF SetItem
<1>3. CASE ~Found(x, k)
  <2>1. SetItem(x, k) = Put(x, k, 1)
    BY <1>3 DEF SetItem
  <2>2. Live(x) + 1 <= x.taken + 1 /\ 1 \in {0, 1}
    BY <1>1
  <2>3. /\ Sound(Put(x, k, 1)) /\ Put(x, k, 1).n # 0
        /\ Keys(Put(x, k, 1).entries) = Append(Keys(x.entries), k)
    BY <2>2, SoundPut
  <2> QED
    BY <1>3, <2>1, <2>3
<1> QED
  BY <1>2, <1>3

\* _ll_dict_rescue
LEMMA SoundFailures ==
    ASSUME NEW x, Sound(x), x.n # 0, NEW y \in Failures(x)
    PROVE  Sound(y) /\ y.n # 0 /\ Keys(y.entries) = Keys(x.entries)
<1>1. PICK z : /\ y = Reindexed(z, z.n)
               /\ z = x \/ z = (IF Full(x) THEN Grown(x) ELSE x)
  BY DEF Failures
<1>2. Sound(z) /\ z.n # 0 /\ Keys(z.entries) = Keys(x.entries)
  <2>1. CASE z = x
    BY <2>1
  <2>2. CASE z # x
    <3>1. Full(x) /\ z = Grown(x)
      BY <1>1, <2>2
    <3>2. Sound(Grown(x)) /\ Grown(x).n = x.n /\ Keys(Grown(x).entries) = Keys(x.entries)
      BY <3>1, SoundGrown
    <3> QED
      BY <3>1, <3>2
  <2> QED
    BY <2>1, <2>2
<1>3. /\ z \in Dicts /\ z.n \in Tables /\ z.n \in Nat \ {0} /\ Ever(z) <= z.size
      /\ 2 * z.n - 3 * Live(z) > 0
  <2>1. /\ z \in Dicts /\ z.n \in Tables /\ z.n \in Nat \ {0} /\ Ever(z) <= z.size
        /\ z.rc > 0 /\ 2 * z.n - 3 * Live(z) >= z.rc
    BY <1>2, SoundNumbers
  <2> QED
    BY <2>1, Counts
<1>4. Sound(Reindexed(z, z.n))
  BY <1>3, SoundReindexed
<1>5. Reindexed(z, z.n).entries = z.entries /\ Reindexed(z, z.n).n = z.n
  BY <1>3, Reindexing
<1> QED
  BY <1>1, <1>2, <1>4, <1>5

\* ll_prepare_dict_update.
LEMMA SoundPrepared ==
    ASSUME NEW x, Sound(x), x.n # 0
    PROVE  /\ Sound(Prepared(x)) /\ Prepared(x).n # 0
           /\ Keys(Prepared(x).entries) = Keys(x.entries)
<1>1. /\ Sound(ResizedTo(x, 2)) /\ ResizedTo(x, 2).n # 0
      /\ Keys(ResizedTo(x, 2).entries) = Keys(x.entries)
  BY SoundResizedTo
<1> QED
  BY <1>1 DEF Prepared

\* ll_dict_update.
LEMMA SoundUpdatedBy ==
    ASSUME NEW x, Sound(x), x.n # 0, NEW j \in Key, NEW k \in Key
    PROVE  Sound(UpdatedBy(x, j, k)) /\ UpdatedBy(x, j, k).n # 0
<1> DEFINE y == Prepared(x)
<1>1. Sound(y) /\ y.n # 0
  BY SoundPrepared
<1>2. UpdatedBy(x, j, k) = SetItem(SetItem(y, j), k)
  BY DEF UpdatedBy
<1> HIDE DEF y
<1>3. Sound(SetItem(y, j)) /\ SetItem(y, j).n # 0
  BY <1>1, SoundSetItem
<1> QED
  BY <1>2, <1>3, SoundSetItem

\* A lookup that succeeds.
LEMMA FoundAt ==
    ASSUME NEW x \in Dicts, NEW k \in Key, Found(x, k)
    PROVE  /\ Position(x, k) \in 1 .. Ever(x) /\ x.entries[Position(x, k)] = k
           /\ x.entries[Position(x, k)] # Gone
<1>1. x.slot[k] \in Nat /\ Ever(x) \in Nat
  BY Counts
<1> QED
  BY <1>1, SizesAssumption DEF Found, Position

\* There are live items if and only if there is a valid entry.
LEMMA SomeValid ==
    ASSUME NEW e \in Seq(Entry)
    PROVE  Len(Keys(e)) # 0 <=> \E i \in 1 .. Len(e) : e[i] # Gone
<1>1. ASSUME NEW i \in 1 .. Len(e), e[i] # Gone PROVE Len(Keys(e)) # 0
  <2>1. e[i] \in Key
    BY <1>1, ElementOfSeq DEF Entry
  <2>2. \E j \in 1 .. Len(Keys(e)) : Keys(e)[j] = e[i]
    BY <2>1, KeysMembers
  <2> QED
    BY <2>2
<1>2. ASSUME Len(Keys(e)) # 0, \A i \in 1 .. Len(e) : e[i] = Gone PROVE FALSE
  <2>1. Keys(e) = <<>>
    BY <1>2, KeysOfGone
  <2> QED
    BY <1>2, <2>1, EmptySeq
<1> QED
  BY <1>1, <1>2

\* Trimmed ends at the last valid entry and keeps the keys.
LEMMA TrimmedEnds ==
    ASSUME NEW e \in Seq(Entry), Len(Keys(e)) # 0
    PROVE  \E m \in 1 .. Len(e) :
              /\ e[m] # Gone /\ \A j \in m + 1 .. Len(e) : e[j] = Gone
              /\ Trimmed(e) \in Seq(Entry) /\ Len(Trimmed(e)) = m
              /\ \A j \in 1 .. m : Trimmed(e)[j] = e[j]
              /\ Keys(Trimmed(e)) = Keys(e)
<1> DEFINE valid == {i \in 1 .. Len(e) : e[i] # Gone}
           m == CHOOSE i \in valid : \A j \in valid : j <= i
<1>0. Len(e) \in Nat
  BY LenProperties
<1>1. m \in valid /\ \A j \in valid : j <= m
  <2>1. valid # {} /\ valid \in SUBSET (0 .. Len(e))
    BY <1>0, SomeValid
  <2> HIDE DEF valid
  <2>2. \E i \in valid : \A j \in valid : j <= i
    BY <1>0, <2>1, GreatestNumber
  <2> QED
    BY <2>2
<1>2. Trimmed(e) = SubSeq(e, 1, m)
  BY DEF Trimmed
<1> HIDE DEF m
<1>3. /\ m \in 1 .. Len(e) /\ e[m] # Gone /\ m \in Nat /\ m \in 0 .. Len(e)
      /\ \A j \in m + 1 .. Len(e) : e[j] = Gone
  BY <1>0, <1>1
<1>4. /\ SubSeq(e, 1, m) \in Seq(Entry) /\ Len(SubSeq(e, 1, m)) = m + 1 - 1
      /\ \A j \in 1 .. m + 1 - 1 : SubSeq(e, 1, m)[j] = e[1 + j - 1]
  <2>1. 1 \in 1 .. Len(e) + 1 /\ 1 <= m + 1
    BY <1>0, <1>3
  <2> QED
    BY <1>3, <2>1, PartOf
<1>5. Keys(SubSeq(e, 1, m)) = Keys(e)
  BY <1>3, KeysTrimmed
<1>6. /\ Len(Trimmed(e)) = m
      /\ \A j \in 1 .. m : Trimmed(e)[j] = e[j]
  BY <1>2, <1>3, <1>4
<1> QED
  BY <1>2, <1>3, <1>4, <1>5, <1>6

\* Entries of a sound dictionary may be replaced: by as many live ones, or fewer.
LEMMA SoundReplaced ==
    ASSUME NEW x, Sound(x), x.n # 0, NEW y,
           y.entries \in Seq(Entry), Len(y.entries) <= x.size, Len(Keys(y.entries)) <= Live(x),
           y.skip \in 0 .. Len(y.entries), \A i \in 1 .. y.skip : y.entries[i] = Gone,
           y.slot \in [Key -> Nat],
           y = [entries |-> y.entries, size |-> x.size, n |-> x.n, rc |-> x.rc,
                taken |-> x.taken, skip |-> y.skip, slot |-> y.slot]
    PROVE  Sound(y) /\ y.n # 0
<1>1. /\ x \in Dicts /\ x.n \in Tables /\ x.n \in Nat /\ x.rc > 0
      /\ x.rc + 3 * x.taken <= 2 * x.n /\ Live(x) <= x.taken
  BY SoundNumbers
<1>2. /\ x.size \in Nat /\ x.rc \in Int /\ x.taken \in Nat /\ Live(x) \in Nat
  BY <1>1, Counts
<1>3. y.size = x.size /\ y.n = x.n /\ y.rc = x.rc /\ y.taken = x.taken
  OBVIOUS
<1>4. y.skip \in Nat /\ y.skip <= Len(y.entries) /\ Len(y.entries) \in Nat
  BY LenProperties
<1>5. y \in Dicts
  BY <1>1, <1>2, <1>4 DEF Dicts
<1>6. Len(Keys(y.entries)) \in Nat
  BY <1>5, Counts DEF Live
<1>7. Paid(y)
  BY <1>1, <1>2, <1>3, <1>6 DEF Paid, Live
<1> QED
  BY <1>3, <1>4, <1>5, <1>7 DEF Sound, Ever

\* A deleted item gives its slot and its entry up, and no other item moves.
LEMMA SoundMarked ==
    ASSUME NEW x, Sound(x), x.n # 0, NEW i \in 1 .. Ever(x), x.entries[i] # Gone
    PROVE  /\ Sound(Marked(x, i)) /\ Marked(x, i).n # 0 /\ Marked(x, i).n = x.n
           /\ Marked(x, i).size = x.size /\ x.entries[i] \in Key
           /\ Marked(x, i).slot = [x.slot EXCEPT ![x.entries[i]] = 0]
           /\ Ever(Marked(x, i)) <= Ever(x)
           /\ \A j \in 1 .. Ever(Marked(x, i)) :
                 Marked(x, i).entries[j] = IF j = i THEN Gone ELSE x.entries[j]
           /\ Keys(Marked(x, i).entries) = Before(x.entries, i) \o After(x.entries, i)
<1> DEFINE k == x.entries[i]
           e == [x.entries EXCEPT ![i] = Gone]
           new == IF Live(x) = 1 THEN <<>> ELSE IF i = Ever(x) THEN Trimmed(e) ELSE e
           skip == IF Live(x) = 1 THEN 0 ELSE x.skip
           index == [x.slot EXCEPT ![k] = 0]
           m == Marked(x, i)
<1>1. x \in Dicts /\ Ever(x) <= x.size /\ x.skip <= Ever(x) /\ \A j \in 1 .. x.skip : x.entries[j] = Gone
  BY DEF Sound
<1>2. /\ x.entries \in Seq(Entry) /\ Len(x.entries) = Ever(x) /\ Ever(x) \in Nat /\ x.size \in Nat
      /\ Live(x) \in Nat /\ x.slot \in [Key -> Nat] /\ x.skip \in Nat /\ i \in Nat
  BY <1>1, Counts DEF Ever
<1>3. k \in Key
  BY <1>2, ElementOfSeq DEF Entry
<1>4. m = [entries |-> new, size |-> x.size, n |-> x.n, rc |-> x.rc, taken |-> x.taken,
           skip |-> skip, slot |-> index]
  <2>1. m = [x EXCEPT !.slot[k] = 0, !.entries = new, !.skip = skip]
    BY DEF Marked
  <2> HIDE DEF m, new, skip, k
  <2> QED
    BY <1>1, <2>1 DEF Dicts, index
<1>5. /\ e \in Seq(Entry) /\ Len(e) = Ever(x)
      /\ \A j \in 1 .. Ever(x) : e[j] = IF j = i THEN Gone ELSE x.entries[j]
      /\ Keys(e) = Before(x.entries, i) \o After(x.entries, i)
      /\ Len(Keys(e)) = Live(x) - 1
  <2>1. Gone \in Entry /\ i \in 1 .. Len(x.entries)
    BY <1>2 DEF Entry
  <2>2. Len(Keys(e)) = Len(Keys(x.entries)) - 1 + 0
    <3>1. Len(Keys(e)) = Len(Keys(x.entries)) - (IF x.entries[i] = Gone THEN 0 ELSE 1)
                                              + (IF Gone = Gone THEN 0 ELSE 1)
      BY <1>2, <2>1, CountChanged
    <3> HIDE DEF e
    <3> QED
      BY <3>1
  <2>3. /\ e \in Seq(Entry) /\ Len(e) = Len(x.entries)
        /\ \A j \in 1 .. Len(x.entries) : e[j] = IF j = i THEN Gone ELSE x.entries[j]
        /\ Keys(e) = Before(x.entries, i) \o After(x.entries, i)
    <3>1. /\ e \in Seq(Entry) /\ Len(e) = Len(x.entries)
          /\ \A j \in 1 .. Len(x.entries) : e[j] = IF j = i THEN Gone ELSE x.entries[j]
          /\ Keys(e) = IF Gone = Gone THEN Before(x.entries, i) \o After(x.entries, i)
                       ELSE (Before(x.entries, i) \o <<Gone>>) \o After(x.entries, i)
      BY <1>2, <2>1, KeysChanged
    <3> HIDE DEF e
    <3> QED
      BY <3>1
  <2>4. Len(Keys(x.entries)) = Live(x)
    BY DEF Live
  <2> HIDE DEF e
  <2> QED
    BY <1>2, <2>2, <2>3, <2>4
<1> HIDE DEF e, index, m
<1>6. /\ new \in Seq(Entry) /\ Len(new) \in 0 .. Ever(x)
      /\ \A j \in 1 .. Len(new) : new[j] = e[j]
      /\ Keys(new) = Keys(e)
      /\ skip \in 0 .. Len(new)
  <2>1. CASE Live(x) = 1
    <3>1. new = <<>> /\ skip = 0 /\ <<>> \in Seq(Entry) /\ Len(<<>>) = 0
      BY <2>1
    <3>2. Keys(e) = <<>>
      <4>1. Keys(e) \in Seq(Key) /\ Len(Keys(e)) = 0
        <5>1. Len(Keys(e)) = Live(x) - 1 /\ e \in Seq(Entry)
          BY <1>5
        <5>2. Len(Keys(e)) = 0
          BY <2>1, <5>1
        <5> QED
          BY <5>1, <5>2, KeysType
      <4> QED
        BY <4>1, EmptySeq
    <3> HIDE DEF new, skip
    <3> QED
      BY <1>2, <3>1, <3>2, KeysEmpty
  <2>2. CASE Live(x) # 1 /\ i = Ever(x)
    <3>1. new = Trimmed(e) /\ skip = x.skip
      BY <2>2
    <3>2. Len(Keys(e)) # 0
      BY <1>2, <1>5, <2>2
    <3>3. PICK l \in 1 .. Len(e) :
              /\ e[l] # Gone /\ \A j \in l + 1 .. Len(e) : e[j] = Gone
              /\ Trimmed(e) \in Seq(Entry) /\ Len(Trimmed(e)) = l
              /\ \A j \in 1 .. l : Trimmed(e)[j] = e[j]
              /\ Keys(Trimmed(e)) = Keys(e)
      BY <1>5, <3>2, TrimmedEnds
    <3> HIDE DEF new, skip
    <3>4. ~(l <= x.skip)
      <4>1. SUFFICES ASSUME l <= x.skip PROVE FALSE
        OBVIOUS
      <4>2. l \in 1 .. x.skip /\ l \in 1 .. Ever(x)
        BY <1>2, <1>5, <3>3, <4>1
      <4> QED
        BY <1>1, <1>5, <3>3, <4>2
    <3>5. l \in 0 .. Ever(x) /\ x.skip \in 0 .. l
      BY <1>2, <1>5, <3>3, <3>4
    <3> QED
      BY <3>1, <3>3, <3>5
  <2>3. CASE Live(x) # 1 /\ i # Ever(x)
    <3>1. new = e /\ skip = x.skip
      BY <2>3
    <3>2. Ever(x) \in 0 .. Ever(x) /\ x.skip \in 0 .. Ever(x)
      BY <1>1, <1>2
    <3> HIDE DEF new, skip
    <3> QED
      BY <1>5, <3>1, <3>2
  <2> QED
    BY <2>1, <2>2, <2>3
<1>7. \A j \in 1 .. skip : new[j] = Gone
  <2>1. ASSUME NEW j \in 1 .. skip PROVE new[j] = Gone
    <3>1. j \in 1 .. x.skip /\ j \in 1 .. Len(new) /\ j \in 1 .. Ever(x)
      BY <1>1, <1>2, <1>6, <2>1
    <3> HIDE DEF new, skip
    <3> QED
      BY <1>1, <1>5, <1>6, <3>1
  <2> QED
    BY <2>1
<1>8. index \in [Key -> Nat]
  BY <1>2, <1>3 DEF index
<1> HIDE DEF new, skip, k
<1>9. m.entries = new /\ m.skip = skip /\ m.slot = index /\ m.size = x.size /\ m.n = x.n
  BY <1>4
<1>10. Sound(m) /\ m.n # 0
  <2>1. Len(m.entries) <= x.size /\ Len(Keys(m.entries)) <= Live(x)
    BY <1>1, <1>2, <1>5, <1>6, <1>9
  <2>2. m = [entries |-> m.entries, size |-> x.size, n |-> x.n, rc |-> x.rc,
             taken |-> x.taken, skip |-> m.skip, slot |-> m.slot]
    BY <1>4, <1>9
  <2> QED
    BY <1>6, <1>7, <1>8, <1>9, <2>1, <2>2, SoundReplaced
<1>11. Ever(m) = Len(new) /\ Len(new) <= Ever(x)
  BY <1>2, <1>6, <1>9 DEF Ever
<1>12. \A j \in 1 .. Ever(m) : m.entries[j] = IF j = i THEN Gone ELSE x.entries[j]
  <2>1. ASSUME NEW j \in 1 .. Ever(m) PROVE m.entries[j] = IF j = i THEN Gone ELSE x.entries[j]
    <3>1. j \in 1 .. Len(new) /\ j \in 1 .. Ever(x)
      BY <1>2, <1>6, <1>11
    <3> QED
      BY <1>5, <1>6, <1>9, <3>1
  <2> QED
    BY <2>1
<1> QED
  BY <1>3, <1>5, <1>6, <1>9, <1>10, <1>11, <1>12 DEF m, index, k

\* _ll_dict_del.
LEMMA SoundDeleted ==
    ASSUME NEW x, Sound(x), x.n # 0, NEW i \in 1 .. Ever(x), x.entries[i] # Gone
    PROVE  /\ Sound(Deleted(x, i)) /\ Deleted(x, i).n # 0
           /\ Keys(Deleted(x, i).entries) = Before(x.entries, i) \o After(x.entries, i)
<1>1. /\ Sound(Marked(x, i)) /\ Marked(x, i).n # 0
      /\ Keys(Marked(x, i).entries) = Before(x.entries, i) \o After(x.entries, i)
  BY SoundMarked
<1>2. Deleted(x, i) = IF Dwindled(Marked(x, i)) THEN Resized(Marked(x, i)) ELSE Marked(x, i)
  BY DEF Deleted
<1>3. Live(Marked(x, i)) + 1 \in Nat
  BY <1>1, Counts DEF Sound
<1>4. /\ Sound(Resized(Marked(x, i))) /\ Resized(Marked(x, i)).n # 0
      /\ Keys(Resized(Marked(x, i)).entries) = Keys(Marked(x, i).entries)
  BY <1>1, <1>3, SoundResizedTo DEF Resized
<1> QED
  BY <1>1, <1>2, <1>4

\* An item is deleted also when there is no memory for a smaller table.
Deletions(x, i) == {Deleted(x, i)} \cup DeletedOnly(x, i)

LEMMA SoundDeletions ==
    ASSUME NEW x, Sound(x), x.n # 0, NEW i \in 1 .. Ever(x), x.entries[i] # Gone,
           NEW y \in Deletions(x, i)
    PROVE  Sound(y) /\ y.n # 0 /\ Keys(y.entries) = Before(x.entries, i) \o After(x.entries, i)
<1>1. /\ Sound(Deleted(x, i)) /\ Deleted(x, i).n # 0
      /\ Keys(Deleted(x, i).entries) = Before(x.entries, i) \o After(x.entries, i)
  BY SoundDeleted
<1>2. /\ Sound(Marked(x, i)) /\ Marked(x, i).n # 0
      /\ Keys(Marked(x, i).entries) = Before(x.entries, i) \o After(x.entries, i)
  BY SoundMarked
<1>3. y = Deleted(x, i) \/ y = Marked(x, i)
  BY DEF Deletions, DeletedOnly
<1> QED
  BY <1>1, <1>2, <1>3

\* ll_dict_move_to_last takes the entry out and stores the key again, in its own slot.
LEMMA SoundTakenOut ==
    ASSUME NEW x, Sound(x), x.n # 0, NEW i \in 1 .. Ever(x), x.entries[i] # Gone
    PROVE  /\ Sound(TakenOut(x, i)) /\ TakenOut(x, i).n # 0
           /\ Live(TakenOut(x, i)) + 1 = Live(x)
           /\ TakenOut(x, i) = [entries |-> [x.entries EXCEPT ![i] = Gone], size |-> x.size,
                                n |-> x.n, rc |-> x.rc, taken |-> x.taken, skip |-> x.skip,
                                slot |-> x.slot]
           /\ \A j \in 1 .. Ever(x) :
                 TakenOut(x, i).entries[j] = IF j = i THEN Gone ELSE x.entries[j]
           /\ Ever(TakenOut(x, i)) = Ever(x)
           /\ Keys(TakenOut(x, i).entries) = Before(x.entries, i) \o After(x.entries, i)
<1> DEFINE e == [x.entries EXCEPT ![i] = Gone]
           y == TakenOut(x, i)
<1>0. x = [entries |-> x.entries, size |-> x.size, n |-> x.n, rc |-> x.rc, taken |-> x.taken,
           skip |-> x.skip, slot |-> x.slot]
  BY DEF Sound, Dicts
<1>1. x \in Dicts /\ Ever(x) <= x.size /\ x.skip <= Ever(x) /\ \A j \in 1 .. x.skip : x.entries[j] = Gone
  BY DEF Sound
<1>2. /\ x.entries \in Seq(Entry) /\ Len(x.entries) = Ever(x) /\ Ever(x) \in Nat
      /\ Live(x) \in Nat /\ x.slot \in [Key -> Nat] /\ x.skip \in Nat /\ Gone \in Entry
      /\ Live(x) = Len(Keys(x.entries))
  BY <1>1, Counts DEF Ever, Entry, Live
<1>3. y = [entries |-> e, size |-> x.size, n |-> x.n, rc |-> x.rc, taken |-> x.taken,
           skip |-> x.skip, slot |-> x.slot]
  BY <1>0 DEF TakenOut
<1>4. Len(Keys(e)) = Len(Keys(x.entries)) - (IF x.entries[i] = Gone THEN 0 ELSE 1)
                                          + (IF Gone = Gone THEN 0 ELSE 1)
  BY <1>2, CountChanged
<1>5. /\ e \in Seq(Entry) /\ Len(e) = Len(x.entries)
      /\ \A j \in 1 .. Len(x.entries) : e[j] = IF j = i THEN Gone ELSE x.entries[j]
      /\ Keys(e) = IF Gone = Gone THEN Before(x.entries, i) \o After(x.entries, i)
                   ELSE (Before(x.entries, i) \o <<Gone>>) \o After(x.entries, i)
  BY <1>2, KeysChanged
<1> HIDE DEF e, y
<1>6. Len(Keys(e)) + 1 = Live(x) /\ Len(Keys(e)) <= Live(x)
  BY <1>2, <1>4
<1>7. /\ y.entries = e /\ y.skip = x.skip /\ y.slot = x.slot
  BY <1>3
<1>8. Sound(y) /\ y.n # 0
  <2>1. /\ y.entries \in Seq(Entry) /\ Len(y.entries) <= x.size
        /\ Len(Keys(y.entries)) <= Live(x) /\ y.skip \in 0 .. Len(y.entries)
        /\ y.slot \in [Key -> Nat]
    BY <1>1, <1>2, <1>5, <1>6, <1>7
  <2>2. \A j \in 1 .. y.skip : y.entries[j] = Gone
    <3>1. ASSUME NEW j \in 1 .. y.skip PROVE y.entries[j] = Gone
      <4>1. j \in 1 .. x.skip /\ j \in 1 .. Len(x.entries)
        BY <1>1, <1>2, <1>7, <3>1
      <4> QED
        BY <1>1, <1>5, <1>7, <4>1
    <3> QED
      BY <3>1
  <2>3. y = [entries |-> y.entries, size |-> x.size, n |-> x.n, rc |-> x.rc,
             taken |-> x.taken, skip |-> y.skip, slot |-> y.slot]
    BY <1>3, <1>7
  <2> QED
    BY <2>1, <2>2, <2>3, SoundReplaced
<1>9. Live(y) + 1 = Live(x) /\ Ever(y) = Ever(x)
  BY <1>2, <1>5, <1>6, <1>7 DEF Live, Ever
<1>10. Keys(e) = Before(x.entries, i) \o After(x.entries, i)
  BY <1>5
<1> QED
  BY <1>2, <1>3, <1>5, <1>7, <1>8, <1>9, <1>10 DEF e, y

\* ll_dict_move_to_last, for a key that is not the last.
LEMMA SoundMovedToLast ==
    ASSUME NEW x, Sound(x), x.n # 0, NEW k \in Key, Found(x, k), Position(x, k) # Ever(x)
    PROVE  /\ Sound(Put(TakenOut(x, Position(x, k)), k, 0))
           /\ MovedToLast(x, k) = Put(TakenOut(x, Position(x, k)), k, 0)
           /\ Keys(MovedToLast(x, k).entries)
                 = Append(Before(x.entries, Position(x, k)) \o After(x.entries, Position(x, k)), k)
<1> DEFINE i == Position(x, k)
           y == TakenOut(x, i)
<1>1. i \in 1 .. Ever(x) /\ x.entries[i] # Gone
  BY FoundAt DEF Sound
<1>2. Live(x) <= x.taken
  BY SoundNumbers
<1> HIDE DEF i
<1>3. /\ Sound(y) /\ y.n # 0 /\ Live(y) + 1 = Live(x) /\ y.taken = x.taken
      /\ Keys(y.entries) = Before(x.entries, i) \o After(x.entries, i)
  BY <1>1, SoundTakenOut
<1> HIDE DEF y
<1>4. Live(y) + 1 <= y.taken + 0 /\ 0 \in {0, 1}
  <2>1. y.taken \in Nat
    BY <1>3, Counts DEF Sound
  <2> QED
    BY <1>2, <1>3, <2>1
<1>5. Sound(Put(y, k, 0)) /\ Keys(Put(y, k, 0).entries) = Append(Keys(y.entries), k)
  BY <1>3, <1>4, SoundPut
<1>6. MovedToLast(x, k) = Put(y, k, 0)
  BY DEF MovedToLast, y, i
<1> QED
  BY <1>3, <1>5, <1>6 DEF y, i

\* Nothing valid is before the first valid entry.
LEMMA NothingBefore ==
    ASSUME NEW e \in Seq(Entry), NEW i \in 1 .. Len(e), \A j \in 1 .. i - 1 : e[j] = Gone
    PROVE  Before(e, i) = <<>>
<1>1. Len(e) \in Nat /\ i \in Nat
  BY LenProperties
<1>2. 1 \in 1 .. Len(e) + 1 /\ i - 1 \in 0 .. Len(e) /\ 1 <= (i - 1) + 1
  BY <1>1
<1>3. /\ SubSeq(e, 1, i - 1) \in Seq(Entry) /\ Len(SubSeq(e, 1, i - 1)) = (i - 1) + 1 - 1
      /\ \A j \in 1 .. (i - 1) + 1 - 1 : SubSeq(e, 1, i - 1)[j] = e[1 + j - 1]
  BY <1>2, PartOf
<1>4. \A j \in 1 .. Len(SubSeq(e, 1, i - 1)) : SubSeq(e, 1, i - 1)[j] = Gone
  <2>1. ASSUME NEW j \in 1 .. Len(SubSeq(e, 1, i - 1)) PROVE SubSeq(e, 1, i - 1)[j] = Gone
    <3>1. j \in 1 .. (i - 1) + 1 - 1 /\ 1 + j - 1 \in 1 .. i - 1
      BY <1>1, <1>3
    <3> QED
      BY <1>3, <3>1
  <2> QED
    BY <2>1
<1> QED
  BY <1>3, <1>4, KeysOfGone DEF Before

\* A key that is put before all others is the first of the keys.
LEMMA PutBeforeAll ==
    ASSUME NEW e \in Seq(Entry), NEW i \in 1 .. Len(e), \A j \in 1 .. i : e[j] = Gone, NEW k \in Key
    PROVE  Keys([e EXCEPT ![i] = k]) = <<k>> \o Keys(e)
<1>1. Before(e, i) = <<>> /\ e[i] = Gone
  <2>1. Len(e) \in Nat /\ i \in Nat
    BY LenProperties
  <2>2. (\A j \in 1 .. i - 1 : e[j] = Gone) /\ i \in 1 .. i
    BY <2>1
  <2> QED
    BY <2>2, NothingBefore
<1>2. k \in Entry /\ k # Gone
  BY SizesAssumption DEF Entry
<1>3. After(e, i) \in Seq(Key) /\ Keys(e) = Before(e, i) \o After(e, i)
  BY <1>1, KeysAround
<1>4. Keys([e EXCEPT ![i] = k]) = (Before(e, i) \o <<k>>) \o After(e, i)
  BY <1>2, KeysChanged
<1>5. <<>> \o <<k>> = <<k>> /\ <<>> \o After(e, i) = After(e, i)
  <2>1. <<k>> \in Seq(Key)
    OBVIOUS
  <2> QED
    BY <1>3, <2>1, ConcatEmptySeq
<1> QED
  BY <1>1, <1>3, <1>4, <1>5

\* The first valid entry exists when there are live items, also behind the high bits.
LEMMA FirstValidIs ==
    ASSUME NEW x, Sound(x), Live(x) # 0
    PROVE  /\ FirstValid(x) \in x.skip + 1 .. Ever(x) /\ FirstValid(x) \in 1 .. Ever(x)
           /\ x.entries[FirstValid(x)] # Gone
           /\ \A j \in 1 .. FirstValid(x) - 1 : x.entries[j] = Gone
<1>1. /\ x.entries \in Seq(Entry) /\ Len(x.entries) = Ever(x) /\ Ever(x) \in Nat
      /\ x.skip \in Nat /\ x.skip <= Ever(x) /\ \A j \in 1 .. x.skip : x.entries[j] = Gone
      /\ Len(Keys(x.entries)) # 0
  BY Counts DEF Sound, Ever, Live
<1> DEFINE V == {i \in Nat : i \in 1 .. Ever(x) /\ x.entries[i] # Gone}
<1>2. V # {}
  BY <1>1, SomeValid
<1>3. PICK f \in V : \A y \in V : f <= y
  <2>1. V \in SUBSET Nat
    OBVIOUS
  <2> HIDE DEF V
  <2> QED
    BY <1>2, <2>1, LeastNumber
<1>4. f \in x.skip + 1 .. Ever(x)
  BY <1>1
<1>5. \A j \in x.skip + 1 .. f - 1 : x.entries[j] = Gone
  <2>1. ASSUME NEW j \in x.skip + 1 .. f - 1, x.entries[j] # Gone PROVE FALSE
    <3>1. j \in V /\ ~(f <= j)
      BY <1>1, <2>1
    <3> QED
      BY <1>3, <3>1
  <2> QED
    BY <2>1
<1> DEFINE P(i) == x.entries[i] # Gone /\ \A j \in x.skip + 1 .. i - 1 : x.entries[j] = Gone
<1>6. /\ FirstValid(x) \in x.skip + 1 .. Ever(x) /\ x.entries[FirstValid(x)] # Gone
      /\ \A j \in x.skip + 1 .. FirstValid(x) - 1 : x.entries[j] = Gone
  <2>1. P(f)
    BY <1>3, <1>5
  <2>2. FirstValid(x) = CHOOSE i \in x.skip + 1 .. Ever(x) : P(i)
    BY DEF FirstValid
  <2> HIDE DEF P, V
  <2>3. FirstValid(x) \in x.skip + 1 .. Ever(x) /\ P(FirstValid(x))
    BY <1>4, <2>1, <2>2
  <2> QED
    BY <2>3 DEF P
<1>7. \A j \in 1 .. FirstValid(x) - 1 : x.entries[j] = Gone
  <2>1. ASSUME NEW j \in 1 .. FirstValid(x) - 1 PROVE x.entries[j] = Gone
    <3>1. j \in 1 .. x.skip \/ j \in x.skip + 1 .. FirstValid(x) - 1
      BY <1>1, <1>6, <2>1
    <3> QED
      BY <1>1, <1>6, <3>1
  <2> QED
    BY <2>1
<1> QED
  BY <1>1, <1>6, <1>7

\* ll_dictiter
LEMMA SoundIterated ==
    ASSUME NEW x, Sound(x)
    PROVE  /\ Sound(Iterated(x)) /\ Iterated(x).entries = x.entries /\ Iterated(x).n = x.n
           /\ Iterated(x).size = x.size /\ Iterated(x).slot = x.slot
<1>1. x \in Dicts
  BY DEF Sound
<1>2. /\ x.entries \in Seq(Entry) /\ Len(x.entries) = Ever(x) /\ Ever(x) \in Nat
      /\ Live(x) = Len(Keys(x.entries))
  BY <1>1, Counts DEF Ever, Live
<1> DEFINE skip == IF Live(x) = 0 THEN Ever(x) ELSE FirstValid(x) - 1
           y == Iterated(x)
<1>3. skip \in Nat /\ skip <= Ever(x) /\ \A j \in 1 .. skip : x.entries[j] = Gone
  <2>1. CASE Live(x) = 0
    <3>1. \A j \in 1 .. Len(x.entries) : x.entries[j] = Gone
      BY <1>2, <2>1, SomeValid
    <3> QED
      BY <1>2, <2>1, <3>1
  <2>2. CASE Live(x) # 0
    <3>1. FirstValid(x) \in 1 .. Ever(x) /\ \A j \in 1 .. FirstValid(x) - 1 : x.entries[j] = Gone
      BY <2>2, FirstValidIs
    <3> QED
      BY <1>2, <2>2, <3>1
  <2> QED
    BY <2>1, <2>2
<1>4. y = [x EXCEPT !.skip = skip]
  BY DEF Iterated
<1> HIDE DEF skip, y
<1>5. /\ y \in Dicts /\ y.entries = x.entries /\ y.size = x.size /\ y.n = x.n /\ y.rc = x.rc
      /\ y.taken = x.taken /\ y.skip = skip /\ y.slot = x.slot
  BY <1>1, <1>3, <1>4 DEF Dicts
<1>6. Ever(y) = Ever(x) /\ Live(y) = Live(x)
  BY <1>5 DEF Ever, Live
<1>7. x.n # 0 => Paid(y)
  BY <1>5, <1>6 DEF Sound, Paid
<1>8. Sound(y)
  BY <1>3, <1>5, <1>6, <1>7 DEF Sound
<1> QED
  BY <1>5, <1>8 DEF y

\* The compaction at the beginning of ll_dict_move_to_first.
LEMMA SoundTidied ==
    ASSUME NEW x, Sound(x)
    PROVE  /\ Sound(Tidied(x)) /\ Keys(Tidied(x).entries) = Keys(x.entries)
           /\ Tidied(x).n = x.n /\ Live(Tidied(x)) = Live(x)
           /\ Tidied(x) = x \/ (x.n # 0 /\ Tidied(x) = Compacted(x))
           /\ Ever(Tidied(x)) <= 2 * (Live(x) + Spare) + 1
<1>1. /\ x \in Dicts /\ Live(x) \in Nat /\ Ever(x) \in Nat /\ x.size \in Nat /\ Ever(x) <= x.size
      /\ x.entries \in Seq(Entry) /\ Live(x) = Len(Keys(x.entries)) /\ Live(x) <= Ever(x)
      /\ Spare \in Nat
  BY Counts, SizesAssumption DEF Sound, Live
<1>2. CASE Live(x) < x.size \div 2 - Spare
  <2>1. Tidied(x) = Compacted(x)
    BY <1>2 DEF Tidied
  <2>2. x.n # 0
    <3>1. SUFFICES ASSUME x.n = 0 PROVE FALSE
      OBVIOUS
    <3>2. x.size = Ever(x) /\ \A i \in 1 .. Len(x.entries) : x.entries[i] # Gone
      BY <3>1 DEF Sound, Ever
    <3>3. Keys(x.entries) = x.entries
      BY <1>1, <3>2, KeysOfValid
    <3>4. Live(x) = x.size
      BY <1>1, <3>2, <3>3 DEF Ever
    <3> QED
      BY <1>1, <1>2, <3>4
  <2>3. /\ Sound(Compacted(x)) /\ Compacted(x).n = x.n
        /\ Compacted(x).entries = Keys(x.entries) /\ Ever(Compacted(x)) = Live(x)
        /\ Live(Compacted(x)) = Live(x)
    BY <2>2, SoundCompacted
  <2>4. Keys(Keys(x.entries)) = Keys(x.entries)
    BY <1>1, KeysOfKeys
  <2>5. Live(x) <= 2 * (Live(x) + Spare) + 1
    BY <1>1
  <2> QED
    BY <2>1, <2>2, <2>3, <2>4, <2>5
<1>3. CASE ~(Live(x) < x.size \div 2 - Spare)
  <2>1. Tidied(x) = x
    BY <1>3 DEF Tidied
  <2>2. Ever(x) <= 2 * (Live(x) + Spare) + 1
    BY <1>1, <1>3
  <2> QED
    BY <2>1, <2>2
<1> QED
  BY <1>2, <1>3

\* ll_dict_move_to_first, into the room before the first entry.
LEMMA MovedBeforeFirstIs ==
    ASSUME NEW x, Sound(x), x.n # 0, NEW k \in Key, Found(x, k),
           x.entries[1] = Gone, FirstValid(x) # Position(x, k)
    PROVE  LET i == Position(x, k)
               first == FirstValid(x)
               y == MovedBeforeFirst(x, k)
           IN  /\ first - 1 \in 1 .. Ever(x) /\ first \in 1 .. Ever(x) /\ first < i
               /\ \A j \in 1 .. first - 1 : x.entries[j] = Gone
               /\ y = [entries |-> [[x.entries EXCEPT ![i] = Gone] EXCEPT ![first - 1] = k],
                       size |-> x.size, n |-> x.n, rc |-> x.rc, taken |-> x.taken,
                       skip |-> first - 2,
                       slot |-> [x.slot EXCEPT ![k] = Stored(x.n, first - 1)]]
<1> DEFINE i == Position(x, k)
           first == FirstValid(x)
<1>0. x = [entries |-> x.entries, size |-> x.size, n |-> x.n, rc |-> x.rc, taken |-> x.taken,
           skip |-> x.skip, slot |-> x.slot]
  BY DEF Sound, Dicts
<1>1. i \in 1 .. Ever(x) /\ x.entries[i] = k /\ k # Gone
  BY FoundAt, SizesAssumption DEF Sound
<1>2. /\ x.entries \in Seq(Entry) /\ Len(x.entries) = Ever(x) /\ Ever(x) \in Nat
      /\ Live(x) = Len(Keys(x.entries)) /\ DOMAIN x.entries = 1 .. Ever(x)
  BY Counts, LenProperties DEF Sound, Ever, Live
<1>3. Live(x) # 0
  BY <1>1, <1>2, SomeValid
<1>4. /\ first \in 1 .. Ever(x) /\ x.entries[first] # Gone
      /\ \A j \in 1 .. first - 1 : x.entries[j] = Gone
  BY <1>3, FirstValidIs
<1>5. MovedBeforeFirst(x, k) = [x EXCEPT !.entries[first - 1] = k, !.entries[i] = Gone,
                                         !.skip = first - 2,
                                         !.slot[k] = Stored(x.n, first - 1)]
  BY DEF MovedBeforeFirst
<1>6. first # i
  OBVIOUS
<1> DEFINE v == Stored(x.n, first - 1)
<1> HIDE DEF i, first, v
<1>7. first # 1 /\ first - 1 \in 1 .. Ever(x) /\ first < i
  <2>1. ~(i < first)
    BY <1>1, <1>2, <1>4
  <2> QED
    BY <1>1, <1>2, <1>4, <1>6, <2>1
<1>8. MovedBeforeFirst(x, k) =
          [entries |-> [[x.entries EXCEPT ![first - 1] = k] EXCEPT ![i] = Gone],
           size |-> x.size, n |-> x.n, rc |-> x.rc, taken |-> x.taken, skip |-> first - 2,
           slot |-> [x.slot EXCEPT ![k] = v]]
  <2>1. MovedBeforeFirst(x, k) = [x EXCEPT !.entries[first - 1] = k, !.entries[i] = Gone,
                                           !.skip = first - 2, !.slot[k] = v]
    BY <1>5 DEF v
  <2> QED
    BY <1>0, <2>1
<1>9. [[x.entries EXCEPT ![first - 1] = k] EXCEPT ![i] = Gone]
          = [[x.entries EXCEPT ![i] = Gone] EXCEPT ![first - 1] = k]
  <2>1. first - 1 # i
    BY <1>2, <1>4, <1>7
  <2> QED
    BY <1>1, <1>2, <1>7, <2>1
<1> QED
  BY <1>4, <1>7, <1>8, <1>9 DEF v, i, first

\* The key comes before all others, in a deleted entry.
LEMMA SoundMovedBeforeFirst ==
    ASSUME NEW x, Sound(x), x.n # 0, NEW k \in Key, Found(x, k), x.entries[1] = Gone
    PROVE  /\ Sound(MovedBeforeFirst(x, k)) /\ MovedBeforeFirst(x, k).n # 0
           /\ Keys(MovedBeforeFirst(x, k).entries)
                 = <<k>> \o (Before(x.entries, Position(x, k)) \o After(x.entries, Position(x, k)))
<1> DEFINE i == Position(x, k)
           first == FirstValid(x)
           y == MovedBeforeFirst(x, k)
           e == [x.entries EXCEPT ![i] = Gone]
<1>0. x \in Dicts /\ Ever(x) <= x.size
  BY DEF Sound
<1>1. i \in 1 .. Ever(x) /\ x.entries[i] = k /\ k # Gone /\ k \in Entry /\ Gone \in Entry
  BY <1>0, FoundAt, SizesAssumption DEF Entry
<1>2. /\ x.entries \in Seq(Entry) /\ Len(x.entries) = Ever(x) /\ Ever(x) \in Nat
      /\ Live(x) = Len(Keys(x.entries)) /\ x.slot \in [Key -> Nat] /\ x.n \in Nat
      /\ Live(x) \in Nat /\ x.size \in Nat
  BY <1>0, Counts DEF Ever, Live
<1>3. Live(x) # 0
  BY <1>1, <1>2, SomeValid
<1>4. /\ first \in 1 .. Ever(x) /\ \A j \in 1 .. first - 1 : x.entries[j] = Gone
  BY <1>3, FirstValidIs
<1>5. CASE first = i
  <2>1. y = [x EXCEPT !.skip = i - 1]
    BY <1>5 DEF MovedBeforeFirst
  <2>2. i - 1 \in Nat /\ i - 1 <= Ever(x)
    BY <1>1, <1>2
  <2> HIDE DEF i, y
  <2>3. /\ y = [entries |-> x.entries, size |-> x.size, n |-> x.n, rc |-> x.rc,
                taken |-> x.taken, skip |-> i - 1, slot |-> x.slot]
    BY <1>0, <2>1 DEF Dicts
  <2>4. y.entries = x.entries /\ y.skip = i - 1 /\ y.slot = x.slot
    BY <2>3
  <2>5. Sound(y) /\ y.n # 0
    <3>1. /\ y.entries \in Seq(Entry) /\ Len(y.entries) <= x.size
          /\ Len(Keys(y.entries)) <= Live(x) /\ y.skip \in 0 .. Len(y.entries)
          /\ y.slot \in [Key -> Nat]
      BY <1>0, <1>2, <2>2, <2>4
    <3>2. \A j \in 1 .. y.skip : y.entries[j] = Gone
      BY <1>4, <1>5, <2>4
    <3>3. y = [entries |-> y.entries, size |-> x.size, n |-> x.n, rc |-> x.rc,
               taken |-> x.taken, skip |-> y.skip, slot |-> y.slot]
      BY <2>3, <2>4
    <3> QED
      BY <3>1, <3>2, <3>3, SoundReplaced
  <2>6. Before(x.entries, i) = <<>>
    BY <1>1, <1>2, <1>4, <1>5, NothingBefore
  <2>7. /\ After(x.entries, i) \in Seq(Key)
        /\ Keys(x.entries) = (Before(x.entries, i) \o <<k>>) \o After(x.entries, i)
    BY <1>1, <1>2, KeysAround
  <2>8. <<>> \o <<k>> = <<k>> /\ <<>> \o After(x.entries, i) = After(x.entries, i)
    <3>1. <<k>> \in Seq(Key)
      OBVIOUS
    <3> QED
      BY <2>7, <3>1, ConcatEmptySeq
  <2> QED
    BY <2>4, <2>5, <2>6, <2>7, <2>8 DEF i, y
<1>6. CASE first # i
  <2>1. /\ first - 1 \in 1 .. Ever(x) /\ first < i
        /\ y = [entries |-> [e EXCEPT ![first - 1] = k], size |-> x.size, n |-> x.n,
                rc |-> x.rc, taken |-> x.taken, skip |-> first - 2,
                slot |-> [x.slot EXCEPT ![k] = Stored(x.n, first - 1)]]
    BY <1>6, MovedBeforeFirstIs
  <2>2. /\ e \in Seq(Entry) /\ Len(e) = Len(x.entries)
        /\ \A j \in 1 .. Len(x.entries) : e[j] = IF j = i THEN Gone ELSE x.entries[j]
        /\ Keys(e) = Before(x.entries, i) \o After(x.entries, i)
    <3>1. i \in 1 .. Len(x.entries)
      BY <1>1, <1>2
    <3> HIDE DEF i
    <3> QED
      BY <1>2, <3>1, KeysRemoved
  <2>3. Len(Keys(e)) = Len(Keys(x.entries)) - (IF x.entries[i] = Gone THEN 0 ELSE 1)
                                            + (IF Gone = Gone THEN 0 ELSE 1)
    BY <1>1, <1>2, CountChanged
  <2> HIDE DEF e, y, i, first
  <2>4. \A j \in 1 .. first - 1 : e[j] = Gone
    <3>1. ASSUME NEW j \in 1 .. first - 1 PROVE e[j] = Gone
      <4>1. j \in 1 .. Len(x.entries)
        BY <1>2, <1>4, <3>1
      <4> QED
        BY <1>4, <2>2, <4>1
    <3> QED
      BY <3>1
  <2> DEFINE f == first - 1
             moved == [e EXCEPT ![f] = k]
  <2>5. f \in 1 .. Len(e) /\ f \in Nat
    BY <1>2, <2>1, <2>2
  <2>6. Keys(moved) = <<k>> \o Keys(e)
    <3>1. \A j \in 1 .. f : e[j] = Gone
      BY <2>4
    <3> HIDE DEF f
    <3> QED
      BY <2>2, <2>5, <3>1, PutBeforeAll
  <2>7. /\ moved \in Seq(Entry) /\ Len(moved) = Len(e)
        /\ \A j \in 1 .. Len(e) : moved[j] = IF j = f THEN k ELSE e[j]
    <3> HIDE DEF f
    <3> QED
      BY <1>1, <2>2, <2>5, KeysChanged
  <2>8. Len(Keys(moved)) = Len(Keys(e)) + 1 /\ Len(Keys(e)) \in Nat /\ Keys(e) \in Seq(Key)
    <3> HIDE DEF moved
    <3>3. Keys(e) \in Seq(Key) /\ Len(Keys(e)) \in Nat
      BY <2>2, KeysType, LenProperties
    <3>1. Keys(e) \in Seq(Key) /\ <<k>> \in Seq(Key) /\ Len(<<k>>) = 1 /\ Len(Keys(e)) \in Nat
      BY <3>3
    <3>2. Len(<<k>> \o Keys(e)) = Len(<<k>>) + Len(Keys(e))
      BY <3>1, ConcatProperties
    <3> QED
      BY <2>6, <3>1, <3>2
  <2>9. y = [entries |-> moved, size |-> x.size, n |-> x.n, rc |-> x.rc, taken |-> x.taken,
             skip |-> first - 2, slot |-> [x.slot EXCEPT ![k] = Stored(x.n, f)]]
    BY <2>1
  <2> HIDE DEF moved, f
  <2>10. y.entries = moved /\ y.skip = first - 2 /\ y.slot = [x.slot EXCEPT ![k] = Stored(x.n, f)]
    BY <2>9
  <2>11. Sound(y) /\ y.n # 0
    <3>1. Len(Keys(moved)) <= Live(x)
      BY <1>1, <1>2, <2>3, <2>8
    <3>2. first - 2 \in 0 .. Len(moved) /\ Len(moved) <= x.size
      BY <1>0, <1>2, <1>4, <2>1, <2>2, <2>7
    <3>3. \A j \in 1 .. first - 2 : moved[j] = Gone
      <4>1. ASSUME NEW j \in 1 .. first - 2 PROVE moved[j] = Gone
        <5>1. j \in 1 .. first - 1 /\ j \in 1 .. Len(e) /\ j # f
          BY <1>2, <1>4, <2>1, <2>2, <4>1 DEF f
        <5> QED
          BY <2>4, <2>7, <5>1
      <4> QED
        BY <4>1
    <3>4. y.slot \in [Key -> Nat]
      <4>1. Stored(x.n, f) \in Nat
        BY <1>2, <2>5, StoredIsNat
      <4> QED
        BY <1>2, <2>10, <4>1
    <3>5. y = [entries |-> y.entries, size |-> x.size, n |-> x.n, rc |-> x.rc,
               taken |-> x.taken, skip |-> y.skip, slot |-> y.slot]
      BY <2>9, <2>10
    <3> QED
      BY <2>7, <2>10, <3>1, <3>2, <3>3, <3>4, <3>5, SoundReplaced
  <2>12. Keys(e) = Before(x.entries, i) \o After(x.entries, i)
    BY <2>2
  <2> QED
    BY <2>6, <2>10, <2>11, <2>12 DEF i, y
<1> QED
  BY <1>5, <1>6

\* ll_dict_move_to_first, when it makes room before the first entry.
NewRoom(x) == ((Overallocated(Ever(x)) - Ever(x)) * 3) \div 4
Gap(x) == [j \in 1 .. NewRoom(x) |-> Gone]
RoomMade(x, k) ==
    [x EXCEPT !.entries = [(Gap(x) \o [x.entries EXCEPT ![Position(x, k)] = Gone])
                              EXCEPT ![NewRoom(x)] = k],
              !.size = Overallocated(Ever(x))]

\* There is room for at least one entry, within what is allocated.
LEMMA NewRoomSize ==
    ASSUME NEW x \in Dicts
    PROVE  /\ NewRoom(x) \in Nat /\ NewRoom(x) >= 1
           /\ NewRoom(x) + Ever(x) <= Overallocated(Ever(x))
           /\ Gap(x) \in Seq(Entry) /\ Len(Gap(x)) = NewRoom(x)
           /\ \A j \in 1 .. Len(Gap(x)) : Gap(x)[j] = Gone
<1>1. Ever(x) \in Nat
  BY Counts
<1>2. /\ Overallocated(Ever(x)) \in Nat /\ Overallocated(Ever(x)) >= Ever(x) + 2
  BY <1>1, Allocation
<1> DEFINE more == Overallocated(Ever(x)) - Ever(x)
<1>3. more \in Nat /\ more >= 2 /\ NewRoom(x) = (more * 3) \div 4
  BY <1>1, <1>2 DEF NewRoom
<1>4. more + Ever(x) = Overallocated(Ever(x))
  BY <1>1, <1>2
<1> HIDE DEF more
<1>5. NewRoom(x) \in Nat /\ NewRoom(x) >= 1 /\ NewRoom(x) <= more
  BY <1>3
<1>6. NewRoom(x) + Ever(x) <= Overallocated(Ever(x))
  BY <1>1, <1>3, <1>4, <1>5
<1>7. Gone \in Entry
  BY DEF Entry
<1>8. Gap(x) \in [1 .. NewRoom(x) -> Entry]
  BY <1>7 DEF Gap
<1>9. Gap(x) \in Seq(Entry) /\ Len(Gap(x)) = NewRoom(x)
  BY <1>5, <1>8
<1>10. \A j \in 1 .. Len(Gap(x)) : Gap(x)[j] = Gone
  BY <1>9 DEF Gap
<1> QED
  BY <1>5, <1>6, <1>9, <1>10

\* Its entries, one by one.
LEMMA RoomMadeIs ==
    ASSUME NEW x, Sound(x), x.n # 0, NEW k \in Key, Found(x, k)
    PROVE  LET m == RoomMade(x, k)
               i == Position(x, k)
           IN  /\ m \in Dicts /\ m.size = Overallocated(Ever(x)) /\ m.n = x.n
               /\ Ever(m) = NewRoom(x) + Ever(x) /\ Ever(m) <= m.size
               /\ Live(m) = Live(x)
               /\ \A j \in 1 .. NewRoom(x) - 1 : m.entries[j] = Gone
               /\ m.entries[NewRoom(x)] = k
               /\ \A j \in 1 .. Ever(x) :
                     m.entries[NewRoom(x) + j] = IF j = i THEN Gone ELSE x.entries[j]
               /\ Keys(m.entries) = <<k>> \o (Before(x.entries, i) \o After(x.entries, i))
<1> DEFINE m == RoomMade(x, k)
           i == Position(x, k)
           f == NewRoom(x)
           gap == Gap(x)
           e == [x.entries EXCEPT ![i] = Gone]
           shifted == gap \o e
           moved == [shifted EXCEPT ![f] = k]
           size == Overallocated(Ever(x))
<1>0. x \in Dicts /\ x = [entries |-> x.entries, size |-> x.size, n |-> x.n, rc |-> x.rc,
                          taken |-> x.taken, skip |-> x.skip, slot |-> x.slot]
  BY DEF Sound, Dicts
<1>1. i \in 1 .. Ever(x) /\ x.entries[i] = k /\ k # Gone /\ k \in Entry
  BY <1>0, FoundAt, SizesAssumption DEF Entry
<1>2. /\ x.entries \in Seq(Entry) /\ Len(x.entries) = Ever(x) /\ Ever(x) \in Nat
      /\ Live(x) = Len(Keys(x.entries)) /\ Live(x) \in Nat
  BY <1>0, Counts DEF Ever, Live
<1>3. /\ f \in Nat /\ f >= 1 /\ f + Ever(x) <= size
      /\ gap \in Seq(Entry) /\ Len(gap) = f /\ \A j \in 1 .. Len(gap) : gap[j] = Gone
  BY <1>0, NewRoomSize
<1>4. size \in Nat
  BY <1>2, Allocation
<1>5. /\ e \in Seq(Entry) /\ Len(e) = Len(x.entries)
      /\ \A j \in 1 .. Len(x.entries) : e[j] = IF j = i THEN Gone ELSE x.entries[j]
      /\ Keys(e) = Before(x.entries, i) \o After(x.entries, i)
  <2>1. i \in 1 .. Len(x.entries)
    BY <1>1, <1>2
  <2> HIDE DEF i
  <2> QED
    BY <1>2, <2>1, KeysRemoved
<1>6. Len(Keys(e)) + 1 = Live(x)
  <2>1. i \in 1 .. Len(x.entries) /\ Gone \in Entry
    BY <1>1, <1>2 DEF Entry
  <2>2. Len(Keys(e)) = Len(Keys(x.entries)) - (IF x.entries[i] = Gone THEN 0 ELSE 1)
                                            + (IF Gone = Gone THEN 0 ELSE 1)
    BY <1>2, <2>1, CountChanged
  <2> HIDE DEF e, i
  <2> QED
    BY <1>1, <1>2, <2>2
<1>7. m = [entries |-> moved, size |-> size, n |-> x.n, rc |-> x.rc, taken |-> x.taken,
           skip |-> x.skip, slot |-> x.slot]
  <2>1. m = [x EXCEPT !.entries = moved, !.size = size]
    BY DEF RoomMade
  <2> HIDE DEF m, moved, size
  <2> QED
    BY <1>0, <2>1
<1> HIDE DEF m, e, gap, f, i, size
<1>8. /\ shifted \in Seq(Entry) /\ Len(shifted) = f + Ever(x)
      /\ \A j \in 1 .. f : shifted[j] = Gone
      /\ \A j \in 1 .. Ever(x) : shifted[f + j] = e[j]
  <2>1. /\ gap \o e \in Seq(Entry) /\ Len(gap \o e) = Len(gap) + Len(e)
        /\ \A j \in 1 .. Len(gap) + Len(e) :
              (gap \o e)[j] = IF j <= Len(gap) THEN gap[j] ELSE e[j - Len(gap)]
    BY <1>3, <1>5, ConcatProperties
  <2> HIDE DEF shifted
  <2>2. shifted = gap \o e
    BY DEF shifted
  <2>3. ASSUME NEW j \in 1 .. f PROVE shifted[j] = Gone
    <3>1. j \in 1 .. Len(gap) + Len(e) /\ j <= Len(gap) /\ j \in 1 .. Len(gap)
      BY <1>2, <1>3, <1>5, <2>3
    <3> QED
      BY <1>3, <2>1, <2>2, <3>1
  <2>4. ASSUME NEW j \in 1 .. Ever(x) PROVE shifted[f + j] = e[j]
    <3>1. /\ f + j \in 1 .. Len(gap) + Len(e) /\ ~(f + j <= Len(gap))
          /\ (f + j) - Len(gap) = j
      BY <1>2, <1>3, <1>5, <2>4
    <3> QED
      BY <2>1, <2>2, <3>1
  <2> QED
    BY <1>2, <1>3, <1>5, <2>1, <2>2, <2>3, <2>4
<1>9. Keys(shifted) = Keys(e) /\ Keys(e) \in Seq(Key)
  <2>1. Keys(gap \o e) = Keys(gap) \o Keys(e)
    BY <1>3, <1>5, KeysConcat
  <2>2. Keys(gap) = <<>>
    BY <1>3, KeysOfGone
  <2>3. Keys(e) \in Seq(Key)
    BY <1>5, KeysType
  <2>4. <<>> \o Keys(e) = Keys(e)
    BY <2>3, ConcatEmptySeq
  <2> QED
    BY <2>1, <2>2, <2>3, <2>4
<1> HIDE DEF shifted
<1>10. f \in 1 .. Len(shifted)
  BY <1>2, <1>3, <1>8
<1>11. /\ moved \in Seq(Entry) /\ Len(moved) = Len(shifted)
       /\ \A j \in 1 .. Len(shifted) : moved[j] = IF j = f THEN k ELSE shifted[j]
  BY <1>1, <1>8, <1>10, KeysChanged
<1>12. Keys(moved) = <<k>> \o Keys(e)
  BY <1>8, <1>9, <1>10, PutBeforeAll
<1> HIDE DEF moved
<1>13. Len(Keys(moved)) = Live(x)
  <2>1. <<k>> \in Seq(Key) /\ Len(<<k>>) = 1 /\ Len(Keys(e)) \in Nat
    BY <1>9
  <2>2. Len(<<k>> \o Keys(e)) = Len(<<k>>) + Len(Keys(e))
    BY <1>9, <2>1, ConcatProperties
  <2> QED
    BY <1>2, <1>6, <1>12, <2>1, <2>2
<1>14. /\ m.entries = moved /\ m.size = size /\ m.n = x.n /\ m \in Dicts
  BY <1>0, <1>4, <1>7, <1>11 DEF Dicts
<1>15. Ever(m) = f + Ever(x) /\ Ever(m) <= m.size /\ Live(m) = Live(x)
  BY <1>3, <1>8, <1>11, <1>13, <1>14 DEF Ever, Live
<1>16. ASSUME NEW j \in 1 .. f - 1 PROVE m.entries[j] = Gone
  <2>1. j \in 1 .. Len(shifted) /\ j # f /\ j \in 1 .. f
    BY <1>2, <1>3, <1>8, <1>16
  <2> QED
    BY <1>8, <1>11, <1>14, <2>1
<1>17. m.entries[f] = k
  BY <1>10, <1>11, <1>14
<1>18. ASSUME NEW j \in 1 .. Ever(x)
       PROVE  m.entries[f + j] = IF j = i THEN Gone ELSE x.entries[j]
  <2>1. f + j \in 1 .. Len(shifted) /\ f + j # f /\ j \in 1 .. Len(x.entries)
    BY <1>2, <1>3, <1>8, <1>18
  <2> QED
    BY <1>5, <1>8, <1>11, <1>14, <2>1
<1> QED
  BY <1>5, <1>12, <1>14, <1>15, <1>16, <1>17, <1>18 DEF m, f, i, size

\* The key comes before all others, in the new room.
LEMMA SoundMovedToNewRoom ==
    ASSUME NEW x, Sound(x), x.n # 0, NEW k \in Key, Found(x, k)
    PROVE  /\ MovedToNewRoom(x, k) = Reindexed(RoomMade(x, k), x.n)
           /\ Sound(MovedToNewRoom(x, k)) /\ MovedToNewRoom(x, k).n # 0
           /\ Keys(MovedToNewRoom(x, k).entries)
                 = <<k>> \o (Before(x.entries, Position(x, k)) \o After(x.entries, Position(x, k)))
<1> DEFINE m == RoomMade(x, k)
<1>1. MovedToNewRoom(x, k) = Reindexed(m, x.n)
  BY DEF MovedToNewRoom, RoomMade, NewRoom, Gap
<1>2. /\ m \in Dicts /\ m.n = x.n /\ Ever(m) <= m.size /\ Live(m) = Live(x)
      /\ Keys(m.entries)
            = <<k>> \o (Before(x.entries, Position(x, k)) \o After(x.entries, Position(x, k)))
  BY RoomMadeIs
<1> HIDE DEF m
<1>3. /\ x \in Dicts /\ x.n \in Tables /\ x.n \in Nat /\ x.rc > 0 /\ 2 * x.n - 3 * Live(x) >= x.rc
  BY SoundNumbers
<1>4. 2 * x.n - 3 * Live(m) > 0
  BY <1>2, <1>3, Counts
<1>5. Sound(Reindexed(m, x.n))
  BY <1>2, <1>3, <1>4, SoundReindexed
<1>6. Reindexed(m, x.n).entries = m.entries /\ Reindexed(m, x.n).n = x.n
  BY <1>2, <1>3, Reindexing
<1> QED
  BY <1>1, <1>2, <1>5, <1>6 DEF m

\* ll_dict_move_to_first, in its three cases.
LEMMA SoundMovedToFirst ==
    ASSUME NEW x, Sound(x), x.n # 0, NEW k \in Key, Found(x, k)
    PROVE  /\ Sound(MovedToFirst(x, k))
           /\ Keys(MovedToFirst(x, k).entries)
                 = <<k>> \o (Before(x.entries, Position(x, k)) \o After(x.entries, Position(x, k)))
<1> DEFINE i == Position(x, k)
<1>1. /\ x.entries \in Seq(Entry) /\ Len(x.entries) = Ever(x)
      /\ i \in 1 .. Ever(x) /\ x.entries[i] = k /\ k # Gone
  BY FoundAt, Counts, SizesAssumption DEF Sound, Ever
<1>2. CASE i = 1
  <2>1. MovedToFirst(x, k) = x
    BY <1>2 DEF MovedToFirst
  <2> HIDE DEF i
  <2>2. Before(x.entries, i) = <<>>
    BY <1>1, <1>2, NothingBefore
  <2>3. /\ After(x.entries, i) \in Seq(Key)
        /\ Keys(x.entries) = (Before(x.entries, i) \o <<k>>) \o After(x.entries, i)
    BY <1>1, KeysAround
  <2>4. <<>> \o <<k>> = <<k>> /\ <<>> \o After(x.entries, i) = After(x.entries, i)
    <3>1. <<k>> \in Seq(Key)
      OBVIOUS
    <3> QED
      BY <2>3, <3>1, ConcatEmptySeq
  <2> QED
    BY <2>1, <2>2, <2>3, <2>4 DEF i
<1>3. CASE i # 1 /\ x.entries[1] # Gone
  <2>1. MovedToFirst(x, k) = MovedToNewRoom(x, k)
    BY <1>3 DEF MovedToFirst
  <2> QED
    BY <2>1, SoundMovedToNewRoom
<1>4. CASE i # 1 /\ x.entries[1] = Gone
  <2>1. MovedToFirst(x, k) = MovedBeforeFirst(x, k)
    BY <1>4 DEF MovedToFirst
  <2> QED
    BY <1>4, <2>1, SoundMovedBeforeFirst
<1> QED
  BY <1>2, <1>3, <1>4

-----------------------------------------------------------------------------
(* Beginnings. *)

\* The fields of a new dictionary.
LEMMA FreshIs ==
    ASSUME NEW e \in Seq(Entry), NEW size \in Nat
    PROVE  /\ Fresh(e, size) \in Dicts /\ Fresh(e, size).entries = e
           /\ Fresh(e, size).size = size /\ Fresh(e, size).n = 0 /\ Fresh(e, size).rc = 0
           /\ Fresh(e, size).taken = 0 /\ Fresh(e, size).skip = 0
           /\ Fresh(e, size).slot = [k \in Key |-> 0]
<1> DEFINE index == [k \in Key |-> 0]
<1>1. Fresh(e, size) = [entries |-> e, size |-> size, n |-> 0, rc |-> 0, taken |-> 0,
                        skip |-> 0, slot |-> index]
  BY DEF Fresh
<1>2. index \in [Key -> Nat] /\ 0 \in Nat /\ 0 \in Int
  OBVIOUS
<1> HIDE DEF index
<1>3. Fresh(e, size) \in Dicts
  BY <1>1, <1>2 DEF Dicts
<1> QED
  BY <1>1, <1>3 DEF index

\* An empty dictionary with a table.
LEMMA SoundEmpty ==
    ASSUME NEW size \in Nat, NEW n \in Tables
    PROVE  /\ Sound([Fresh(<<>>, size) EXCEPT !.n = n, !.rc = 2 * n])
           /\ [Fresh(<<>>, size) EXCEPT !.n = n, !.rc = 2 * n].entries = <<>>
           /\ [Fresh(<<>>, size) EXCEPT !.n = n, !.rc = 2 * n].size = size
           /\ [Fresh(<<>>, size) EXCEPT !.n = n, !.rc = 2 * n].n = n
<1> DEFINE fresh == Fresh(<<>>, size)
           double == 2 * n
           y == [fresh EXCEPT !.n = n, !.rc = double]
<1>1. n \in Nat \ {0}
  BY TableSizes
<1>2. double \in Int /\ double = 2 * n
  BY <1>1
<1>3. /\ fresh \in Dicts /\ fresh.entries = <<>> /\ fresh.size = size /\ fresh.taken = 0
      /\ fresh.skip = 0
  <2>1. <<>> \in Seq(Entry)
    OBVIOUS
  <2> QED
    BY <2>1, FreshIs
<1> HIDE DEF fresh, double
<1>4. y \in Dicts
  BY <1>1, <1>2, <1>3 DEF Dicts
<1>5. /\ y.entries = <<>> /\ y.size = size /\ y.n = n /\ y.rc = 2 * n /\ y.taken = 0 /\ y.skip = 0
  BY <1>2, <1>3 DEF Dicts
<1> HIDE DEF y
<1>6. Ever(y) = 0 /\ Live(y) = 0
  BY <1>5, KeysEmpty DEF Ever, Live
<1>7. Paid(y)
  BY <1>1, <1>5, <1>6 DEF Paid
<1>8. Sound(y)
  BY <1>1, <1>4, <1>5, <1>6, <1>7 DEF Sound
<1> QED
  BY <1>5, <1>8 DEF y, fresh, double

\* A dictionary that is given a size.
LEMMA SizedIs ==
    ASSUME NEW length \in Estimates
    PROVE  /\ Sound(Sized(length))
           /\ Sized(length).entries = <<>>
           /\ Sized(length).size = length
           /\ Sized(length).n = TableOf[(length \div 2) * 3]
<1> DEFINE n == TableOf[(length \div 2) * 3]
<1>1. length \in Nat /\ (length \div 2) * 3 \in Nat
  <2>1. length \in Nat
    BY SizesAssumption
  <2>2. length \div 2 \in Nat
    BY <2>1
  <2> QED
    BY <2>1, <2>2
<1>2. n \in Tables
  BY <1>1, TableSizes
<1> HIDE DEF n
<1> DEFINE y == [Fresh(<<>>, length) EXCEPT !.n = n, !.rc = 2 * n]
<1>3. Sized(length) = y
  BY DEF Sized, n
<1>4. Sound(y) /\ y.entries = <<>> /\ y.size = length /\ y.n = n
  <2>1. \A size \in Nat, m \in Tables :
           LET z == [Fresh(<<>>, size) EXCEPT !.n = m, !.rc = 2 * m]
           IN  Sound(z) /\ z.entries = <<>> /\ z.size = size /\ z.n = m
    BY SoundEmpty
  <2> QED
    BY <1>1, <1>2, <2>1, Zenon
<1> HIDE DEF y
<1> QED
  BY <1>3, <1>4 DEF n

\* New and prebuilt dictionaries are sound.
LEMMA SoundInit ==
    ASSUME DictInit
    PROVE  Sound(d)
<1>1. CASE d = Fresh(<<>>, 0)
  <2>1. d \in Dicts /\ d.entries = <<>> /\ d.size = 0 /\ d.n = 0 /\ d.taken = 0 /\ d.skip = 0
    <3>1. <<>> \in Seq(Entry) /\ 0 \in Nat
      OBVIOUS
    <3>2. /\ Fresh(<<>>, 0) \in Dicts /\ Fresh(<<>>, 0).entries = <<>>
          /\ Fresh(<<>>, 0).size = 0 /\ Fresh(<<>>, 0).n = 0 /\ Fresh(<<>>, 0).taken = 0
          /\ Fresh(<<>>, 0).skip = 0
      BY <3>1, FreshIs
    <3> QED
      BY <1>1, <3>2
  <2> QED
    BY <2>1 DEF Sound, Ever
<1>2. CASE \E length \in Estimates : d = Sized(length)
  <2>1. PICK length \in Estimates : d = Sized(length)
    BY <1>2
  <2> QED
    BY <2>1, SizedIs
<1>3. CASE \E j, k \in Key : j # k /\ d = Fresh(<<j, k>>, 2)
  <2>1. PICK j \in Key, k \in Key : d = Fresh(<<j, k>>, 2)
    BY <1>3
  <2>2. <<j, k>> \in Seq(Entry) /\ Len(<<j, k>>) = 2 /\ \A i \in 1 .. 2 : <<j, k>>[i] # Gone
    BY SizesAssumption DEF Entry
  <2>3. /\ d \in Dicts /\ d.entries = <<j, k>> /\ d.size = 2 /\ d.n = 0 /\ d.taken = 0
        /\ d.skip = 0
    <3> DEFINE pair == <<j, k>>
    <3>1. pair \in Seq(Entry) /\ d = Fresh(pair, 2)
      BY <2>1, <2>2
    <3> HIDE DEF pair
    <3>2. /\ Fresh(pair, 2) \in Dicts /\ Fresh(pair, 2).entries = pair
          /\ Fresh(pair, 2).size = 2 /\ Fresh(pair, 2).n = 0 /\ Fresh(pair, 2).taken = 0
          /\ Fresh(pair, 2).skip = 0
      BY <3>1, FreshIs
    <3> QED
      BY <3>1, <3>2 DEF pair
  <2>4. Ever(d) = 2
    BY <2>2, <2>3 DEF Ever
  <2>5. \A i \in 1 .. Ever(d) : d.entries[i] # Gone
    BY <2>2, <2>3, <2>4
  <2> QED
    BY <2>3, <2>4, <2>5 DEF Sound
<1> QED
  BY <1>1, <1>2, <1>3 DEF DictInit

-----------------------------------------------------------------------------
(* Operations: each keeps the dictionary sound, and what it does to the keys. *)

\* Where a live key is.
Without(x, k) == Before(x.entries, Position(x, k)) \o After(x.entries, Position(x, k))

\* Set keeps the dictionary sound and appends the key if it is new.
LEMMA SetStep ==
    ASSUME Sound(d), NEW k \in Key, Set(k)
    PROVE  /\ Sound(d')
           /\ Keys(d'.entries) = IF Found(Ensured(d), k) THEN Keys(d.entries)
                                 ELSE Append(Keys(d.entries), k)
  BY SoundEnsured, SoundSetItem DEF Set

\* A store that fails changes no keys.
LEMMA SetFailsStep ==
    ASSUME Sound(d), NEW k \in Key, SetFails(k)
    PROVE  Sound(d') /\ Keys(d'.entries) = Keys(d.entries)
  BY SoundEnsured, SoundFailures DEF SetFails

\* A lookup changes no keys.
LEMMA LookupStep ==
    ASSUME Sound(d), Lookup
    PROVE  Sound(d') /\ Keys(d'.entries) = Keys(d.entries)
  BY SoundEnsured DEF Lookup

\* Update keeps the dictionary sound.
LEMMA UpdateStep ==
    ASSUME Sound(d), NEW j \in Key, NEW k \in Key, Update(j, k)
    PROVE  Sound(d')
  BY SoundEnsured, SoundUpdatedBy DEF Update

\* An update that fails has stored no item, or the first one.
LEMMA UpdateFailsStep ==
    ASSUME Sound(d), NEW j \in Key, NEW k \in Key, UpdateFails(j, k)
    PROVE  LET x == Prepared(Ensured(d))
               y == SetItem(x, j)
           IN  /\ Sound(x) /\ x.n # 0 /\ Keys(x.entries) = Keys(d.entries)
               /\ Sound(y) /\ y.n # 0
               /\ Sound(d')
               /\ \/ d' \in Failures(x) /\ Keys(d'.entries) = Keys(x.entries)
                  \/ d' \in Failures(y) /\ Keys(d'.entries) = Keys(y.entries)
<1> DEFINE x == Prepared(Ensured(d))
           y == SetItem(x, j)
<1>1. d' \in Failures(x) \/ d' \in Failures(y)
  BY DEF UpdateFails
<1>2. Sound(x) /\ x.n # 0 /\ Keys(x.entries) = Keys(d.entries)
  BY SoundEnsured, SoundPrepared
<1> HIDE DEF x
<1>3. Sound(y) /\ y.n # 0
  BY <1>2, SoundSetItem
<1> HIDE DEF y
<1>4. ASSUME d' \in Failures(x) PROVE Sound(d') /\ Keys(d'.entries) = Keys(x.entries)
  BY <1>2, <1>4, SoundFailures
<1>5. ASSUME d' \in Failures(y) PROVE Sound(d') /\ Keys(d'.entries) = Keys(y.entries)
  BY <1>3, <1>5, SoundFailures
<1> QED
  BY <1>1, <1>2, <1>3, <1>4, <1>5 DEF x, y

\* Where a key is that is found, after ll_ensure_indexes.
LEMMA FoundIn ==
    ASSUME NEW x, Sound(x), NEW k \in Key, Found(Ensured(x), k)
    PROVE  /\ Sound(Ensured(x)) /\ Ensured(x).n # 0 /\ Ensured(x).entries = x.entries
           /\ Position(Ensured(x), k) \in 1 .. Ever(Ensured(x))
           /\ Ever(Ensured(x)) = Len(x.entries) /\ x.entries \in Seq(Entry)
           /\ Ensured(x).entries[Position(Ensured(x), k)] = k
           /\ Ensured(x).entries[Position(Ensured(x), k)] # Gone
           /\ x.entries[Position(Ensured(x), k)] = k
<1>1. /\ Sound(Ensured(x)) /\ Ensured(x).n # 0 /\ Ensured(x).entries = x.entries
      /\ Ever(Ensured(x)) = Ever(x)
  BY SoundEnsured
<1>2. Ensured(x) \in Dicts /\ x \in Dicts
  BY <1>1 DEF Sound
<1>3. /\ Position(Ensured(x), k) \in 1 .. Ever(Ensured(x))
      /\ Ensured(x).entries[Position(Ensured(x), k)] = k
      /\ Ensured(x).entries[Position(Ensured(x), k)] # Gone
  BY <1>2, FoundAt
<1>4. x.entries \in Seq(Entry)
  BY <1>2, Counts
<1> QED
  BY <1>1, <1>3, <1>4 DEF Ever

\* Delete takes out the key and nothing else, also when it fails.
LEMMA DeleteStep ==
    ASSUME Sound(d), NEW k \in Key, Delete(k) \/ DeleteFails(k)
    PROVE  LET x == Ensured(d)
           IN  /\ Found(x, k) /\ d' \in Deletions(x, Position(x, k))
               /\ Sound(d') /\ Keys(d'.entries) = Without(x, k)
<1> DEFINE x == Ensured(d)
           i == Position(x, k)
<1>1. Found(x, k) /\ d' \in Deletions(x, i)
  BY DEF Delete, DeleteFails, Deletions
<1>2. Sound(x) /\ x.n # 0 /\ i \in 1 .. Ever(x) /\ x.entries[i] # Gone
  BY <1>1, FoundIn
<1>3. Without(x, k) = Before(x.entries, i) \o After(x.entries, i)
  BY DEF Without
<1> HIDE DEF x, i
<1>4. Sound(d') /\ Keys(d'.entries) = Before(x.entries, i) \o After(x.entries, i)
  BY <1>1, <1>2, SoundDeletions
<1> QED
  BY <1>1, <1>3, <1>4 DEF x, i

\* Trimming gives up deleted entries only, so none that an iterator may not skip.
LEMMA SoundTrimmed ==
    ASSUME NEW x, Sound(x), x.n # 0, Live(x) > 0
    PROVE  /\ Sound(LastFound(x)) /\ LastFound(x).n = x.n /\ LastFound(x).size = x.size
           /\ LastFound(x).slot = x.slot
           /\ Ever(LastFound(x)) \in 1 .. Ever(x)
           /\ LastFound(x).entries[Ever(LastFound(x))] # Gone
           /\ \A j \in 1 .. Ever(LastFound(x)) : LastFound(x).entries[j] = x.entries[j]
           /\ LastFound(x).entries \in Seq(Entry)
           /\ Keys(LastFound(x).entries) = Keys(x.entries)
<1>0. x \in Dicts /\ x = [entries |-> x.entries, size |-> x.size, n |-> x.n, rc |-> x.rc,
                          taken |-> x.taken, skip |-> x.skip, slot |-> x.slot]
  BY DEF Sound, Dicts
<1>1. /\ x.entries \in Seq(Entry) /\ Len(x.entries) = Ever(x) /\ Ever(x) \in Nat
      /\ Live(x) = Len(Keys(x.entries)) /\ x.skip \in Nat /\ x.slot \in [Key -> Nat]
      /\ Live(x) \in Nat /\ x.size \in Nat
  BY <1>0, Counts DEF Ever, Live
<1>2. Ever(x) <= x.size /\ x.skip <= Ever(x) /\ \A j \in 1 .. x.skip : x.entries[j] = Gone
  BY DEF Sound
<1>3. PICK m \in 1 .. Len(x.entries) :
           /\ x.entries[m] # Gone /\ \A j \in m + 1 .. Len(x.entries) : x.entries[j] = Gone
           /\ Trimmed(x.entries) \in Seq(Entry) /\ Len(Trimmed(x.entries)) = m
           /\ \A j \in 1 .. m : Trimmed(x.entries)[j] = x.entries[j]
           /\ Keys(Trimmed(x.entries)) = Keys(x.entries)
  <2>1. Len(Keys(x.entries)) # 0
    BY <1>1
  <2> QED
    BY <1>1, <2>1, TrimmedEnds
<1> DEFINE t == Trimmed(x.entries)
           y == LastFound(x)
<1>4. y = [entries |-> t, size |-> x.size, n |-> x.n, rc |-> x.rc, taken |-> x.taken,
           skip |-> x.skip, slot |-> x.slot]
  <2> HIDE DEF t
  <2>1. y = [x EXCEPT !.entries = t]
    BY DEF LastFound, t
  <2> QED
    BY <1>0, <2>1
<1> HIDE DEF t, y
<1>5. /\ y.entries = t /\ y.skip = x.skip /\ y.slot = x.slot /\ y.n = x.n /\ y.size = x.size
  BY <1>4
<1>6. x.skip < m
  <2>1. SUFFICES ASSUME ~(x.skip < m) PROVE FALSE
    OBVIOUS
  <2>2. m \in 1 .. x.skip
    BY <1>1, <1>3, <2>1
  <2> QED
    BY <1>2, <1>3, <2>2
<1>7. t \in Seq(Entry) /\ Len(t) = m /\ Keys(t) = Keys(x.entries)
      /\ \A j \in 1 .. m : t[j] = x.entries[j]
  BY <1>3 DEF t
<1>8. Sound(y)
  <2>1. /\ y.entries \in Seq(Entry) /\ Len(y.entries) <= x.size
        /\ Len(Keys(y.entries)) <= Live(x) /\ y.skip \in 0 .. Len(y.entries)
        /\ y.slot \in [Key -> Nat]
    BY <1>1, <1>2, <1>3, <1>5, <1>6, <1>7
  <2>2. \A j \in 1 .. y.skip : y.entries[j] = Gone
    <3>1. ASSUME NEW j \in 1 .. y.skip PROVE y.entries[j] = Gone
      <4>1. j \in 1 .. x.skip /\ j \in 1 .. m
        BY <1>1, <1>3, <1>5, <1>6, <3>1
      <4> QED
        BY <1>2, <1>5, <1>7, <4>1
    <3> QED
      BY <3>1
  <2>3. y = [entries |-> y.entries, size |-> x.size, n |-> x.n, rc |-> x.rc,
             taken |-> x.taken, skip |-> y.skip, slot |-> y.slot]
    BY <1>4, <1>5
  <2> QED
    BY <2>1, <2>2, <2>3, SoundReplaced
<1>9. Ever(y) = m /\ m \in 1 .. m /\ m \in 1 .. Ever(x)
  BY <1>1, <1>3, <1>5, <1>7 DEF Ever
<1> QED
  BY <1>3, <1>5, <1>7, <1>8, <1>9 DEF y

\* PopLast takes out the last key; when it fails it may leave it there.
LEMMA PopLastStep ==
    ASSUME Sound(d), PopLast \/ PopLastFails
    PROVE  LET x == LastFound(Ensured(d))
           IN  /\ Sound(x) /\ x.n # 0 /\ Ever(x) \in 1 .. Ever(x) /\ x.entries[Ever(x)] # Gone
               /\ Keys(x.entries) = Keys(d.entries) /\ x.entries \in Seq(Entry)
               /\ Sound(d')
               /\ \/ PopLastFails /\ d' = x
                  \/ /\ d' \in Deletions(x, Ever(x))
                     /\ Keys(d'.entries) = Before(x.entries, Ever(x)) \o After(x.entries, Ever(x))
<1> DEFINE e == Ensured(d)
           x == LastFound(e)
<1>1. Sound(e) /\ e.n # 0 /\ Live(e) > 0 /\ Keys(e.entries) = Keys(d.entries)
  BY SoundEnsured DEF PopLast, PopLastFails
<1>2. (PopLastFails /\ d' = x) \/ d' \in Deletions(x, Ever(x))
  BY DEF PopLast, PopLastFails, Deletions
<1> HIDE DEF e
<1>3. /\ Sound(x) /\ x.n # 0 /\ Ever(x) \in 1 .. Ever(e) /\ x.entries[Ever(x)] # Gone
      /\ Keys(x.entries) = Keys(d.entries) /\ x.entries \in Seq(Entry)
  BY <1>1, SoundTrimmed
<1> HIDE DEF x
<1>4. Ever(x) \in 1 .. Ever(x)
  BY <1>1, <1>3, Counts DEF Sound
<1>5. ASSUME d' \in Deletions(x, Ever(x))
      PROVE  /\ Sound(d')
             /\ Keys(d'.entries) = Before(x.entries, Ever(x)) \o After(x.entries, Ever(x))
  BY <1>3, <1>4, <1>5, SoundDeletions
<1>6. Sound(d')
  BY <1>2, <1>3, <1>5
<1> QED
  BY <1>2, <1>3, <1>4, <1>5, <1>6 DEF x, e

\* PopFirst takes out the first key, also when it fails.
LEMMA PopFirstStep ==
    ASSUME Sound(d), PopFirst \/ PopFirstFails
    PROVE  LET x == Ensured(Iterated(d))
           IN  /\ Sound(d') /\ Sound(x) /\ x.n # 0 /\ FirstValid(x) \in 1 .. Ever(x)
               /\ x.entries[FirstValid(x)] # Gone /\ d' \in Deletions(x, FirstValid(x))
               /\ x.entries = d.entries
               /\ \A j \in 1 .. FirstValid(x) - 1 : x.entries[j] = Gone
               /\ Keys(d'.entries)
                     = Before(x.entries, FirstValid(x)) \o After(x.entries, FirstValid(x))
<1> DEFINE i == Iterated(d)
           x == Ensured(i)
<1>1. Sound(i) /\ i.entries = d.entries
  BY SoundIterated
<1>2. d' \in Deletions(x, FirstValid(x)) /\ Live(d) > 0
  BY DEF PopFirst, PopFirstFails, Deletions
<1> HIDE DEF i
<1>3. Sound(x) /\ x.n # 0 /\ x.entries = d.entries
  BY <1>1, SoundEnsured
<1>4. Live(x) # 0
  BY <1>2, <1>3 DEF Live
<1> HIDE DEF x
<1>5. /\ FirstValid(x) \in 1 .. Ever(x) /\ x.entries[FirstValid(x)] # Gone
      /\ \A j \in 1 .. FirstValid(x) - 1 : x.entries[j] = Gone
  BY <1>3, <1>4, FirstValidIs
<1>6. /\ Sound(d')
      /\ Keys(d'.entries)
            = Before(x.entries, FirstValid(x)) \o After(x.entries, FirstValid(x))
  BY <1>2, <1>3, <1>5, SoundDeletions
<1> QED
  BY <1>2, <1>3, <1>5, <1>6 DEF x, i

\* An iterator changes no keys.
LEMMA IterateStep ==
    ASSUME Sound(d), Iterate
    PROVE  Sound(d') /\ Keys(d'.entries) = Keys(d.entries)
  BY SoundIterated DEF Iterate

\* MoveToLast takes out the key and appends it.
LEMMA MoveToLastStep ==
    ASSUME Sound(d), NEW k \in Key, MoveToLast(k)
    PROVE  /\ Sound(d')
           /\ Keys(d'.entries) = IF Position(Ensured(d), k) = Ever(Ensured(d)) THEN Keys(d.entries)
                                 ELSE Append(Without(Ensured(d), k), k)
<1> DEFINE x == Ensured(d)
<1>1. Found(x, k) /\ d' = MovedToLast(x, k)
  BY DEF MoveToLast
<1>2. Sound(x) /\ x.n # 0 /\ x.entries = d.entries
  BY <1>1, FoundIn
<1> HIDE DEF x
<1>3. CASE Position(x, k) = Ever(x)
  <2>1. d' = x
    BY <1>1, <1>3 DEF MovedToLast
  <2> QED
    BY <1>2, <1>3, <2>1 DEF x
<1>4. CASE Position(x, k) # Ever(x)
  <2>1. /\ Sound(Put(TakenOut(x, Position(x, k)), k, 0))
        /\ MovedToLast(x, k) = Put(TakenOut(x, Position(x, k)), k, 0)
        /\ Keys(MovedToLast(x, k).entries) = Append(Without(x, k), k)
    BY <1>1, <1>2, <1>4, SoundMovedToLast DEF Without
  <2> QED
    BY <1>1, <1>4, <2>1 DEF x
<1> QED
  BY <1>3, <1>4

\* A key whose entry was taken out and whose slot was given up.
OutOfPlace(x, i, k) == [TakenOut(x, i) EXCEPT !.slot[k] = 0]

\* It is sound still: slots are not what the counts rest on.
LEMMA SoundOutOfPlace ==
    ASSUME NEW x, Sound(x), x.n # 0, NEW i \in 1 .. Ever(x), x.entries[i] # Gone, NEW k \in Key
    PROVE  /\ Sound(OutOfPlace(x, i, k)) /\ OutOfPlace(x, i, k).n = x.n /\ OutOfPlace(x, i, k).size = x.size
           /\ OutOfPlace(x, i, k).entries = TakenOut(x, i).entries
           /\ OutOfPlace(x, i, k).slot = [x.slot EXCEPT ![k] = 0]
<1> DEFINE t == TakenOut(x, i)
           y == OutOfPlace(x, i, k)
<1>1. /\ Sound(t) /\ t.n # 0
      /\ t.n = x.n /\ t.size = x.size /\ t.slot = x.slot
  <2>1. /\ Sound(t) /\ t.n # 0
        /\ t = [entries |-> [x.entries EXCEPT ![i] = Gone], size |-> x.size, n |-> x.n,
                rc |-> x.rc, taken |-> x.taken, skip |-> x.skip, slot |-> x.slot]
    BY SoundTakenOut
  <2> HIDE DEF t
  <2> QED
    BY <2>1
<1>2. y = [t EXCEPT !.slot[k] = 0]
  BY DEF OutOfPlace
<1> HIDE DEF t, y
<1>3. t = [entries |-> t.entries, size |-> t.size, n |-> t.n, rc |-> t.rc, taken |-> t.taken,
           skip |-> t.skip, slot |-> t.slot] /\ t \in Dicts
  BY <1>1 DEF Sound, Dicts
<1>4. y = [entries |-> t.entries, size |-> t.size, n |-> t.n, rc |-> t.rc, taken |-> t.taken,
           skip |-> t.skip, slot |-> [t.slot EXCEPT ![k] = 0]]
  BY <1>2, <1>3
<1>5. /\ y.entries = t.entries /\ y.skip = t.skip /\ y.slot = [t.slot EXCEPT ![k] = 0]
      /\ y.size = t.size /\ y.n = t.n
  BY <1>4
<1>6. /\ t.entries \in Seq(Entry) /\ t.slot \in [Key -> Nat] /\ t.skip \in Nat
      /\ Ever(t) = Len(t.entries) /\ Ever(t) \in Nat /\ Live(t) = Len(Keys(t.entries))
      /\ Live(t) \in Nat
  BY <1>3, Counts DEF Ever, Live
<1>7. Sound(y)
  <2>1. Len(t.entries) <= t.size /\ t.skip <= Len(t.entries) /\ \A j \in 1 .. t.skip : t.entries[j] = Gone
    BY <1>1 DEF Sound, Ever
  <2>2. y.slot \in [Key -> Nat]
    BY <1>5, <1>6
  <2>3. Len(Keys(y.entries)) <= Live(t) /\ y.skip \in 0 .. Len(y.entries)
    BY <1>5, <1>6, <2>1
  <2>4. y = [entries |-> y.entries, size |-> t.size, n |-> t.n, rc |-> t.rc,
             taken |-> t.taken, skip |-> y.skip, slot |-> y.slot]
    BY <1>4, <1>5
  <2> QED
    BY <1>1, <1>5, <1>6, <2>1, <2>2, <2>3, <2>4, SoundReplaced
<1> QED
  BY <1>1, <1>5, <1>7 DEF y, t

\* A move to the end that fails loses the key and no other.
LEMMA MoveToLastFailsStep ==
    ASSUME Sound(d), NEW k \in Key, MoveToLastFails(k)
    PROVE  Sound(d') /\ Keys(d'.entries) = Without(Ensured(d), k)
<1> DEFINE x == Ensured(d)
           i == Position(x, k)
           y == OutOfPlace(x, i, k)
<1>1. Found(x, k) /\ d' \in Failures(y)
  BY DEF MoveToLastFails, OutOfPlace
<1>2. /\ Sound(x) /\ x.n # 0 /\ i \in 1 .. Ever(x) /\ x.entries[i] # Gone
  BY <1>1, FoundIn
<1> HIDE DEF x, i
<1>3. Sound(y) /\ y.n = x.n /\ y.entries = TakenOut(x, i).entries
  BY <1>2, SoundOutOfPlace
<1>4. Keys(TakenOut(x, i).entries) = Before(x.entries, i) \o After(x.entries, i)
  BY <1>2, SoundTakenOut
<1> HIDE DEF y
<1>5. Sound(d') /\ Keys(d'.entries) = Keys(y.entries)
  BY <1>1, <1>2, <1>3, SoundFailures
<1> QED
  BY <1>3, <1>4, <1>5 DEF Without, i, x

\* MoveToFirst puts the key before the others.
LEMMA MoveToFirstStep ==
    ASSUME Sound(d), NEW k \in Key, MoveToFirst(k)
    PROVE  LET x == Ensured(Tidied(d))
           IN  /\ Sound(d') /\ Sound(x) /\ x.n # 0 /\ Found(x, k) /\ d' = MovedToFirst(x, k)
               /\ Keys(x.entries) = Keys(d.entries)
               /\ Keys(d'.entries) = <<k>> \o Without(x, k)
<1> DEFINE t == Tidied(d)
           x == Ensured(t)
<1>1. Sound(t) /\ Keys(t.entries) = Keys(d.entries)
  BY SoundTidied
<1>2. Found(x, k) /\ d' = MovedToFirst(x, k)
  BY DEF MoveToFirst
<1> HIDE DEF t
<1>3. Sound(x) /\ x.n # 0 /\ x.entries = t.entries
  BY <1>1, SoundEnsured
<1> HIDE DEF x
<1>4. /\ Sound(MovedToFirst(x, k))
      /\ Keys(MovedToFirst(x, k).entries) = <<k>> \o Without(x, k)
  BY <1>2, <1>3, SoundMovedToFirst DEF Without
<1> QED
  BY <1>1, <1>2, <1>3, <1>4 DEF x, t

\* A move to the front that fails changes no keys.
LEMMA MoveToFirstFailsStep ==
    ASSUME Sound(d), NEW k \in Key, MoveToFirstFails(k)
    PROVE  /\ Sound(d') /\ Keys(d'.entries) = Keys(d.entries)
           /\ d' = Ensured(Tidied(d))
  BY SoundTidied, SoundEnsured DEF MoveToFirstFails

\* ll_dict_clear.
LEMMA ClearStep ==
    ASSUME Clear
    PROVE  Sound(d') /\ d'.entries = <<>> /\ d'.size = 0
  BY SoundEmpty, TableSizes DEF Clear

\* A copy has the same keys.
LEMMA CopyStep ==
    ASSUME Sound(d), Copy
    PROVE  Sound(d') /\ Keys(d'.entries) = Keys(d.entries)
<1> DEFINE x == Ensured(d)
<1>1. d' = Reindexed(x, x.n)
  BY DEF Copy
<1>2. Sound(x) /\ x.n # 0 /\ x.entries = d.entries
  BY SoundEnsured
<1> HIDE DEF x
<1>3. /\ x \in Dicts /\ x.n \in Tables /\ x.n \in Nat /\ Ever(x) <= x.size
      /\ x.rc > 0 /\ 2 * x.n - 3 * Live(x) >= x.rc
  BY <1>2, SoundNumbers
<1>4. 2 * x.n - 3 * Live(x) > 0
  BY <1>3, Counts
<1>5. Sound(Reindexed(x, x.n)) /\ Reindexed(x, x.n).entries = x.entries
  BY <1>3, <1>4, SoundReindexed, Reindexing
<1> QED
  BY <1>1, <1>2, <1>5

\* Sound dictionaries have their entries.
LEMMA SoundIsIntact ==
    ASSUME NEW x, Sound(x)
    PROVE  Intact(x)
  BY DEF Sound, Intact

\* What the counters say of each other, also when the entries are lost.
Consistent(x) ==
    /\ x \in Dicts
    /\ x.skip <= Ever(x)
    /\ \A i \in 1 .. x.skip : x.entries[i] = Gone
    /\ x.n # 0 => Paid(x)

DictInv == Consistent(d) /\ (Intact(d) => Sound(d))

LEMMA SoundIsConsistent ==
    ASSUME NEW x, Sound(x)
    PROVE  Consistent(x)
  BY DEF Sound, Consistent

\* A clear() that fails loses the entries, and nothing else.
LEMMA ClearFailsStep ==
    ASSUME Consistent(d), ClearFails
    PROVE  Consistent(d') /\ ~Intact(d')
<1>1. d \in Dicts /\ Ever(d) > 0 /\ d' = [d EXCEPT !.size = 0]
  BY DEF Consistent, ClearFails
<1>2. /\ d' \in Dicts /\ d'.entries = d.entries /\ d'.size = 0 /\ d'.n = d.n /\ d'.rc = d.rc
      /\ d'.taken = d.taken /\ d'.skip = d.skip
  BY <1>1 DEF Dicts
<1>3. Ever(d') = Ever(d) /\ Live(d') = Live(d) /\ Ever(d) \in Nat
  BY <1>1, <1>2, Counts DEF Ever, Live
<1>4. Paid(d) => Paid(d')
  BY <1>2, <1>3 DEF Paid
<1> QED
  BY <1>1, <1>2, <1>3, <1>4 DEF Consistent, Intact

\* The other steps keep the dictionary sound.
LEMMA SoundNext ==
    ASSUME DictInv, [DictNext]_d
    PROVE  /\ Sound(d') \/ ClearFails \/ UNCHANGED d
           /\ Consistent(d') /\ (Intact(d') => Sound(d'))
<1>1. ASSUME Sound(d), NEW k \in Key,
             \/ Set(k) \/ SetFails(k) \/ Delete(k) \/ DeleteFails(k)
             \/ MoveToLast(k) \/ MoveToLastFails(k) \/ MoveToFirst(k) \/ MoveToFirstFails(k)
      PROVE  Sound(d')
  BY <1>1, SetStep, SetFailsStep, DeleteStep, MoveToLastStep, MoveToLastFailsStep,
     MoveToFirstStep, MoveToFirstFailsStep
<1>2. ASSUME Sound(d), NEW j \in Key, NEW k \in Key, Update(j, k) \/ UpdateFails(j, k)
      PROVE  Sound(d')
  BY <1>2, UpdateStep, UpdateFailsStep
<1>3. ASSUME Sound(d), PopLast \/ PopLastFails \/ PopFirst \/ PopFirstFails PROVE Sound(d')
  BY <1>3, PopLastStep, PopFirstStep
<1>4. ASSUME Sound(d), Lookup \/ Iterate \/ Copy PROVE Sound(d')
  BY <1>4, LookupStep, IterateStep, CopyStep
<1>5. ASSUME Clear PROVE Sound(d')
  BY <1>5, ClearStep
<1>6. Sound(d') \/ ClearFails \/ UNCHANGED d
  <2>1. Intact(d) => Sound(d)
    BY DEF DictInv
  <2> QED
    BY <2>1, <1>1, <1>2, <1>3, <1>4, <1>5 DEF DictNext
<1>7. CASE Sound(d')
  BY <1>6, <1>7, SoundIsConsistent
<1>8. CASE ClearFails
  BY <1>6, <1>8, ClearFailsStep DEF DictInv
<1>9. CASE UNCHANGED d
  <2>1. Consistent(d) /\ (Intact(d) => Sound(d)) /\ d' = d
    BY <1>9 DEF DictInv
  <2> QED
    BY <1>6, <2>1
<1> QED
  BY <1>6, <1>7, <1>8, <1>9

\* The counts of a dictionary stay sound, whatever its slots hold: also where the integers
\* of its table are too small.  Only a clear() without memory makes them speak of entries
\* that are not there; they agree with each other even then.
THEOREM DictsAreSound == DictSpec => []DictInv
<1>1. DictInit => DictInv
  BY SoundInit, SoundIsConsistent DEF DictInv
<1>2. DictInv /\ [DictNext]_d => DictInv'
  <2>1. SUFFICES ASSUME DictInv, [DictNext]_d PROVE DictInv'
    OBVIOUS
  <2>2. Consistent(d') /\ (Intact(d') => Sound(d'))
    BY <2>1, SoundNext
  <2>3. Consistent(d') <=> Consistent(d)'
    BY DEF Consistent, Ever, Live, Paid
  <2>4. Sound(d') <=> Sound(d)'
    BY DEF Sound, Ever, Live, Paid
  <2>5. Intact(d') <=> Intact(d)'
    BY DEF Intact, Ever
  <2> QED
    BY <2>2, <2>3, <2>4, <2>5 DEF DictInv
<1> QED
  BY <1>1, <1>2, PTL DEF DictSpec

\* The types, and what the assertions of the code say of resize_counter, with or without
\* the entries that a clear() without memory has given up.
THEOREM DictTyping == DictSpec => []DictTypeOK
<1>1. DictInv => DictTypeOK
  <2>1. SUFFICES ASSUME DictInv PROVE DictTypeOK
    OBVIOUS
  <2>2. d \in Dicts /\ d.skip <= Ever(d)
    BY <2>1 DEF DictInv, Consistent
  <2>3. d.n = 0 \/ d.rc > 0
    BY <2>1 DEF DictInv, Consistent, Paid
  <2>4. d.skip \in 0 .. Ever(d)
    BY <2>2, Counts
  <2>5. /\ d.entries \in Seq(Entry) /\ d.slot \in [Key -> Nat] /\ d.taken \in Nat
        /\ d.size \in Nat
    BY <2>2, Counts
  <2> QED
    BY <2>3, <2>4, <2>5 DEF DictTypeOK, Entry
<1> QED
  BY <1>1, DictsAreSound, PTL

\* Probing ends: resize_counter leaves a third of the slots, and no slot is taken that it
\* does not count.
THEOREM ProbingEnds == DictSpec => []FreeSlotLeft
<1>1. DictInv => FreeSlotLeft
  <2>1. SUFFICES ASSUME DictInv, d.n # 0 PROVE d.taken < d.n
    BY DEF FreeSlotLeft
  <2>2. /\ d \in Dicts /\ d.rc > 0 /\ d.rc + 3 * d.taken <= 2 * d.n
    BY <2>1 DEF DictInv, Consistent, Paid
  <2>3. d.rc \in Int /\ d.taken \in Nat /\ d.n \in Nat
    BY <2>2, Counts
  <2> QED
    BY <2>2, <2>3
<1> QED
  BY <1>1, DictsAreSound, PTL

\* What an iterator skips has been deleted.
THEOREM SkipsOnlyDeleted == DictSpec => []SkippedAreDeleted
<1>1. DictInv => SkippedAreDeleted
  BY DEF DictInv, Consistent, SkippedAreDeleted
<1> QED
  BY <1>1, DictsAreSound, PTL

-----------------------------------------------------------------------------
(* Dictionaries whose slots lead to their keys. *)

\* The integers of the table can hold every position, also those not used yet.
Fits(x) == x.n # 0 /\ x.n <= ByteSize => x.size + 2 <= ByteSize

Placed(x) ==
    x.n # 0 => \A i \in 1 .. Ever(x) : x.entries[i] # Gone => x.slot[x.entries[i]] = i + 1

Right(x) == Distinct(x.entries) /\ Placed(x) /\ Fits(x)

\* A slot holds the position itself when the integer type is large enough.
LEMMA StoredExactly ==
    ASSUME NEW n \in Nat, NEW i \in Nat, n <= ByteSize => i + 1 < ByteSize
    PROVE  Stored(n, i) = i + 1
<1>1. \A a \in Nat, b \in Nat \ {0} : a < b => a % b = a
  OBVIOUS
<1>2. i + 1 \in Nat /\ ByteSize \in Nat \ {0}
  BY SizesAssumption
<1>3. CASE n <= ByteSize
  <2>1. (i + 1) % ByteSize = i + 1
    BY <1>1, <1>2, <1>3
  <2> QED
    BY <1>3, <2>1 DEF Stored
<1>4. CASE ~(n <= ByteSize)
  BY <1>4 DEF Stored
<1> QED
  BY <1>3, <1>4

\* ll_dict_reindex stores the position of every key.
LEMMA RightReindexed ==
    ASSUME NEW x \in Dicts, Ever(x) <= x.size, Distinct(x.entries), NEW n \in Nat,
           n <= ByteSize => x.size + 2 <= ByteSize
    PROVE  Right(Reindexed(x, n))
<1> DEFINE r == Reindexed(x, n)
           At(k) == CHOOSE i \in 1 .. Ever(x) : x.entries[i] = k
<1>1. /\ r.entries = x.entries /\ r.size = x.size /\ r.n = n
      /\ r.slot = [k \in Key |-> IF k \in ToSet(x.entries) THEN Stored(n, At(k)) ELSE 0]
  BY Reindexing
<1>2. /\ x.entries \in Seq(Entry) /\ Len(x.entries) = Ever(x) /\ Ever(x) \in Nat
      /\ x.size \in Nat /\ DOMAIN x.entries = 1 .. Ever(x)
  BY Counts, LenProperties DEF Ever
<1> HIDE DEF r
<1>3. ASSUME NEW i \in 1 .. Ever(x), x.entries[i] # Gone
      PROVE  r.slot[x.entries[i]] = i + 1
  <2> DEFINE k == x.entries[i]
  <2>1. k \in Key /\ k \in ToSet(x.entries)
    <3>1. k \in Entry
      BY <1>2, ElementOfSeq
    <3> QED
      BY <1>2, <1>3, <3>1 DEF Entry, ToSet
  <2>2. At(k) \in 1 .. Ever(x) /\ x.entries[At(k)] = k
    <3>1. \E j \in 1 .. Ever(x) : x.entries[j] = k
      OBVIOUS
    <3> HIDE DEF k
    <3> QED
      BY <3>1
  <2>3. At(k) = i
    <3>1. x.entries[i] # Gone /\ x.entries[i] = x.entries[At(k)] /\ i \in 1 .. Len(x.entries)
      BY <1>2, <1>3, <2>2
    <3>2. At(k) \in 1 .. Len(x.entries)
      BY <1>2, <2>2
    <3> HIDE DEF At, k
    <3> QED
      BY <3>1, <3>2 DEF Distinct
  <2>4. Stored(n, i) = i + 1
    <3>1. i \in Nat /\ (n <= ByteSize => i + 1 < ByteSize)
      BY <1>2, SizesAssumption
    <3> QED
      BY <3>1, StoredExactly
  <2>5. r.slot[k] = Stored(n, At(k))
    <3> HIDE DEF At, k
    <3> QED
      BY <1>1, <2>1
  <2> HIDE DEF At
  <2> QED
    BY <2>3, <2>4, <2>5
<1>4. Ever(r) = Ever(x)
  BY <1>1 DEF Ever
<1> QED
  BY <1>1, <1>3, <1>4 DEF Right, Placed, Fits, r

\* Compaction may make the array shorter: the integers can still hold its length.
LEMMA RightCompacted ==
    ASSUME NEW x, Sound(x), x.n # 0, Right(x)
    PROVE  Right(Compacted(x))
<1>1. /\ x \in Dicts /\ x.n \in Tables /\ x.n \in Nat \ {0} /\ Ever(x) <= x.size
      /\ Live(x) <= (2 * x.n) \div 3
  BY SoundNumbers
<1> DEFINE size == IF Shrinks(x) THEN Overallocated(Live(x)) ELSE x.size
           y == [x EXCEPT !.entries = Keys(@), !.size = size]
<1>2. /\ Keys(x.entries) \in Seq(Entry) /\ Len(Keys(x.entries)) = Live(x)
      /\ Distinct(Keys(x.entries))
  BY <1>1, Counts, KeysOfKeys, KeysDistinct DEF Live, Right
<1>3. /\ Live(x) \in Nat /\ Ever(x) \in Nat /\ x.size \in Nat /\ Live(x) <= Ever(x)
      /\ (2 * x.n) \div 3 \in Nat
  BY <1>1, Counts
<1>4. /\ Overallocated(Live(x)) \in Nat /\ Overallocated(Live(x)) >= Live(x) + 2
      /\ Overallocated(Live(x)) <= Overallocated((2 * x.n) \div 3)
      /\ Overallocated((2 * x.n) \div 3) \in Nat
  BY <1>1, <1>3, Allocation
<1>5. size \in Nat /\ Live(x) <= size
  BY <1>1, <1>3, <1>4
<1>6. x.n <= ByteSize => size + 2 <= ByteSize
  <2>1. SUFFICES ASSUME x.n <= ByteSize PROVE size + 2 <= ByteSize
    OBVIOUS
  <2>2. Overallocated((2 * x.n) \div 3) + 3 <= ByteSize
    BY <1>1, <2>1, TableSizes
  <2>3. x.size + 2 <= ByteSize
    BY <1>1, <2>1 DEF Right, Fits
  <2> QED
    BY <1>3, <1>4, <2>2, <2>3, SizesAssumption
<1> HIDE DEF size
<1>7. /\ y \in Dicts /\ y.entries = Keys(x.entries) /\ y.size = size /\ y.n = x.n
  BY <1>1, <1>2, <1>5, Counts DEF Dicts
<1>8. Ever(y) = Live(x)
  BY <1>2, <1>7 DEF Ever
<1>9. Compacted(x) = Reindexed(y, x.n)
  BY DEF Compacted, size
<1> HIDE DEF y
<1>10. Right(Reindexed(y, x.n))
  BY <1>1, <1>2, <1>5, <1>6, <1>7, <1>8, RightReindexed
<1> QED
  BY <1>9, <1>10

\* ll_dict_grow detects that the integers are too small for a longer array.
LEMMA RightGrown ==
    ASSUME NEW x, Sound(x), x.n # 0, Full(x), Right(x)
    PROVE  Right(Grown(x))
<1>1. CASE CompactsToGrow(x)
  BY <1>1, RightCompacted DEF Grown
<1>2. CASE ~CompactsToGrow(x)
  <2> DEFINE y == [x EXCEPT !.size = Overallocated(@)]
  <2>1. Grown(x) = y
    BY <1>2 DEF Grown
  <2>2. x \in Dicts /\ x.n \in Nat /\ Overallocated(x.size) \in Nat
    <3>1. x \in Dicts
      BY DEF Sound
    <3>2. x.size \in Nat /\ x.n \in Nat
      BY <3>1, Counts
    <3> QED
      BY <3>1, <3>2, Allocation
  <2>3. /\ y.entries = x.entries /\ y.size = Overallocated(x.size) /\ y.n = x.n /\ y.slot = x.slot
    BY <2>2 DEF Dicts
  <2> HIDE DEF y
  <2>4. x.n <= ByteSize => Overallocated(x.size) + 2 <= ByteSize
    BY <1>2, <2>2, SizesAssumption DEF CompactsToGrow
  <2>5. Right(y)
    BY <2>3, <2>4 DEF Right, Placed, Fits, Ever
  <2> QED
    BY <2>1, <2>5
<1> QED
  BY <1>1, <1>2

\* A table that becomes larger does not get smaller integers.
LEMMA RightResizedTo ==
    ASSUME NEW x, Sound(x), x.n # 0, NEW extra \in Nat, Right(x)
    PROVE  Right(ResizedTo(x, extra))
<1>1. /\ x \in Dicts /\ x.n \in Nat \ {0} /\ Ever(x) <= x.size /\ Live(x) \in Nat /\ x.size \in Nat
  BY SoundNumbers, Counts
<1> DEFINE n == NewSize(x, extra)
           r == ResizedTo(x, extra)
<1>2. n \in Nat
  <2>1. 2 * (Live(x) + extra) + 1 \in Nat
    BY <1>1
  <2> QED
    BY <2>1, TableSizes DEF NewSize
<1>3. r = IF n < x.n THEN Compacted(x) ELSE Reindexed(x, n)
  BY DEF ResizedTo
<1> HIDE DEF n, r
<1>4. CASE n < x.n
  <2>1. Right(Compacted(x))
    BY RightCompacted
  <2> QED
    BY <1>3, <1>4, <2>1 DEF r
<1>5. CASE ~(n < x.n)
  <2>1. n <= ByteSize => x.size + 2 <= ByteSize
    BY <1>1, <1>2, <1>5, SizesAssumption DEF Right, Fits
  <2>2. Right(Reindexed(x, n))
    BY <1>1, <1>2, <2>1, RightReindexed DEF Right
  <2> QED
    BY <1>3, <1>5, <2>2 DEF r
<1> QED
  BY <1>4, <1>5

\* The table that a prebuilt or copied dictionary gets has large enough integers.
LEMMA RightEnsured ==
    ASSUME NEW x, Sound(x), Right(x)
    PROVE  Right(Ensured(x))
<1>1. /\ x \in Dicts /\ Ever(x) <= x.size /\ Live(x) \in Nat /\ Ever(x) \in Nat /\ x.size \in Nat
      /\ x.entries \in Seq(Entry) /\ Len(x.entries) = Ever(x)
  BY Counts DEF Sound, Ever
<1>2. CASE x.n # 0
  BY <1>2 DEF Ensured
<1>3. CASE x.n = 0 /\ Live(x) = 0
  <2>1. Ever(x) = 0 /\ x.size = 0
    <3>1. x.size = Ever(x) /\ \A i \in 1 .. Len(x.entries) : x.entries[i] # Gone
      BY <1>1, <1>3 DEF Sound
    <3>2. Keys(x.entries) = x.entries
      BY <1>1, <3>1, KeysOfValid
    <3> QED
      BY <1>1, <1>3, <3>1, <3>2 DEF Live
  <2> DEFINE double == 2 * InitSize
             y == [x EXCEPT !.n = InitSize, !.rc = double]
  <2>2. Ensured(x) = y
    BY <1>3 DEF Ensured
  <2> HIDE DEF double
  <2>3. y.entries = x.entries /\ y.size = x.size
    BY <1>1 DEF Dicts
  <2> HIDE DEF y
  <2>4. Ever(y) = 0
    BY <2>1, <2>3 DEF Ever
  <2>5. Right(y)
    BY <2>1, <2>3, <2>4, SizesAssumption DEF Right, Placed, Fits
  <2> QED
    BY <2>2, <2>5
<1>4. CASE x.n = 0 /\ Live(x) # 0
  <2> DEFINE m == (3 * Live(x)) \div 2 + 1
             n == TableOf[m]
  <2>1. m \in Nat /\ 2 * m > 3 * Live(x)
    BY <1>1
  <2>2. n \in Tables /\ n \in Nat /\ n >= m
    BY <2>1, TableSizes
  <2>3. Ensured(x) = Reindexed(x, n)
    BY <1>4 DEF Ensured
  <2> HIDE DEF n, m
  <2>4. x.size = Live(x)
    <3>1. x.size = Ever(x) /\ \A i \in 1 .. Len(x.entries) : x.entries[i] # Gone
      BY <1>1, <1>4 DEF Sound
    <3>2. Keys(x.entries) = x.entries
      BY <1>1, <3>1, KeysOfValid
    <3> QED
      BY <1>1, <3>1, <3>2 DEF Live
  <2>5. n <= ByteSize => x.size + 2 <= ByteSize
    <3>1. SUFFICES ASSUME n <= ByteSize PROVE x.size + 2 <= ByteSize
      OBVIOUS
    <3>2. Overallocated((2 * n) \div 3) + 3 <= ByteSize
      BY <2>2, <3>1, TableSizes
    <3>3. (2 * n) \div 3 \in Nat /\ Live(x) <= (2 * n) \div 3
      BY <1>1, <2>1, <2>2
    <3>4. /\ Overallocated((2 * n) \div 3) \in Nat
          /\ Overallocated((2 * n) \div 3) >= (2 * n) \div 3 + 2
      BY <3>3, Allocation
    <3> QED
      BY <1>1, <2>4, <3>2, <3>3, <3>4, SizesAssumption
  <2>6. Right(Reindexed(x, n))
    BY <1>1, <2>2, <2>5, RightReindexed DEF Right
  <2> QED
    BY <2>3, <2>6
<1> QED
  BY <1>2, <1>3, <1>4

\* Making room keeps slots and keys together.
LEMMA RightRoom ==
    ASSUME NEW x, Sound(x), x.n # 0, Right(x)
    PROVE  Right(RoomFor(x))
<1> DEFINE g == IF Full(x) THEN Grown(x) ELSE x
<1>1. Sound(g) /\ g.n # 0 /\ Right(g)
  <2>1. CASE Full(x)
    BY <2>1, SoundGrown, RightGrown
  <2>2. CASE ~Full(x)
    BY <2>2
  <2> QED
    BY <2>1, <2>2
<1>2. RoomFor(x) = IF g.rc - 3 <= 0 THEN Resized(g) ELSE g
  BY DEF RoomFor
<1> HIDE DEF g
<1>3. Live(g) + 1 \in Nat
  BY <1>1, Counts DEF Sound
<1>4. Right(Resized(g))
  BY <1>1, <1>3, RightResizedTo DEF Resized
<1> QED
  BY <1>1, <1>2, <1>4

\* A dictionary that keeps part of the entries of another one.
Within(y, x) ==
    /\ y.n = x.n /\ y.size = x.size /\ Ever(y) <= Ever(x)
    /\ \A j \in 1 .. Ever(y) : y.entries[j] # Gone =>
          y.entries[j] = x.entries[j] /\ y.slot[x.entries[j]] = x.slot[x.entries[j]]

\* So slots and keys stay together when entries are only given up.
LEMMA RightWithin ==
    ASSUME NEW x \in Dicts, Right(x), NEW y \in Dicts, Within(y, x)
    PROVE  Right(y)
<1>1. Ever(x) \in Nat /\ Ever(y) \in Nat
  BY Counts
<1>2. ASSUME NEW j \in 1 .. Ever(y), y.entries[j] # Gone
      PROVE  /\ j \in 1 .. Ever(x) /\ y.entries[j] = x.entries[j]
             /\ y.slot[y.entries[j]] = x.slot[x.entries[j]]
  BY <1>1, <1>2 DEF Within
<1>3. Distinct(y.entries)
  <2>1. ASSUME NEW i \in 1 .. Ever(y), NEW j \in 1 .. Ever(y), y.entries[i] # Gone,
               y.entries[i] = y.entries[j]
        PROVE  i = j
    <3>1. /\ i \in 1 .. Ever(x) /\ y.entries[i] = x.entries[i]
      BY <1>2, <2>1
    <3>2. /\ j \in 1 .. Ever(x) /\ y.entries[j] = x.entries[j]
      BY <1>2, <2>1
    <3> QED
      BY <2>1, <3>1, <3>2 DEF Right, Distinct, Ever
  <2> QED
    BY <2>1 DEF Distinct, Ever
<1>4. Placed(y)
  <2>1. SUFFICES ASSUME y.n # 0, NEW j \in 1 .. Ever(y), y.entries[j] # Gone
                 PROVE  y.slot[y.entries[j]] = j + 1
    BY DEF Placed
  <2>2. /\ j \in 1 .. Ever(x) /\ y.entries[j] = x.entries[j]
        /\ y.slot[y.entries[j]] = x.slot[x.entries[j]]
    BY <1>2, <2>1
  <2>3. x.n # 0
    BY <2>1 DEF Within
  <2> QED
    BY <2>1, <2>2, <2>3 DEF Right, Placed
<1>5. Fits(y)
  BY DEF Fits, Within, Right
<1> QED
  BY <1>3, <1>4, <1>5 DEF Right

\* A key that is not there is stored with its own position.
LEMMA RightPut ==
    ASSUME NEW x, Sound(x), x.n # 0, Right(x), NEW k \in Key, NEW more \in {0, 1},
           \A i \in 1 .. Ever(x) : x.entries[i] # k
    PROVE  Right(Put(x, k, more))
<1> DEFINE room == RoomFor(x)
           p == Put(x, k, more)
           last == Ever(room) + 1
<1>1. /\ Sound(room) /\ room.n # 0 /\ Right(room) /\ Ever(room) < room.size
      /\ Keys(room.entries) = Keys(x.entries)
  BY SoundRoom, RightRoom
<1>2. /\ p.entries = Append(room.entries, k) /\ p.size = room.size /\ p.n = room.n
      /\ p.slot = [room.slot EXCEPT ![k] = Stored(room.n, last)]
  <2> DEFINE new == NewSlots(x, more)
  <2>1. p = [entries |-> Append(room.entries, k), size |-> room.size, n |-> room.n,
             rc |-> room.rc - 3, taken |-> room.taken + new, skip |-> room.skip,
             slot |-> [room.slot EXCEPT ![k] = Stored(room.n, last)]]
    BY PutInRoom
  <2> HIDE DEF p, room, new, last
  <2> QED
    BY <2>1
<1> HIDE DEF room, p
<1>3. /\ room \in Dicts /\ room.entries \in Seq(Entry) /\ Len(room.entries) = Ever(room)
      /\ Ever(room) \in Nat /\ room.size \in Nat /\ room.n \in Nat /\ room.slot \in [Key -> Nat]
  BY <1>1, Counts DEF Sound, Ever
<1>4. k \in Entry /\ k # Gone
  BY SizesAssumption DEF Entry
<1>5. /\ Ever(p) = last /\ p.entries[last] = k
      /\ \A i \in 1 .. Ever(room) : p.entries[i] = room.entries[i]
  BY <1>2, <1>3, <1>4, AppendProperties DEF Ever
<1>6. \A i \in 1 .. Ever(room) : room.entries[i] # k
  <2>1. x.entries \in Seq(Entry) /\ Len(x.entries) = Ever(x)
    BY Counts DEF Sound, Ever
  <2>2. ~ \E i \in 1 .. Len(x.entries) : x.entries[i] = k
    BY <2>1
  <2>3. ~ \E i \in 1 .. Len(Keys(x.entries)) : Keys(x.entries)[i] = k
    BY <2>1, <2>2, KeysMembers
  <2>4. ~ \E i \in 1 .. Len(room.entries) : room.entries[i] = k
    BY <1>1, <1>3, <2>3, KeysMembers
  <2> QED
    BY <1>3, <2>4
<1>7. Stored(room.n, last) = last + 1
  <2>1. last \in Nat /\ (room.n <= ByteSize => last + 1 < ByteSize)
    BY <1>1, <1>3, SizesAssumption DEF Right, Fits
  <2> QED
    BY <1>3, <2>1, StoredExactly
<1>8. Distinct(p.entries)
  <2>1. Distinct(room.entries) /\ \A i \in 1 .. Len(room.entries) : room.entries[i] # k
    BY <1>1, <1>3, <1>6 DEF Right
  <2> QED
    BY <1>2, <1>3, <1>4, <2>1, DistinctAppend
<1>9. Placed(p)
  <2>1. SUFFICES ASSUME NEW i \in 1 .. Ever(p), p.entries[i] # Gone
                 PROVE  p.slot[p.entries[i]] = i + 1
    BY DEF Placed
  <2>2. CASE i = last
    BY <1>2, <1>3, <1>5, <1>7, <2>2
  <2>3. CASE i # last
    <3>1. i \in 1 .. Ever(room)
      BY <1>3, <1>5, <2>1, <2>3
    <3>2. p.entries[i] = room.entries[i] /\ room.entries[i] # k /\ room.entries[i] \in Entry
      BY <1>3, <1>5, <1>6, <3>1, ElementOfSeq
    <3>3. room.entries[i] \in Key
      BY <2>1, <3>2 DEF Entry
    <3>4. room.slot[room.entries[i]] = i + 1
      BY <1>1, <2>1, <3>1, <3>2 DEF Right, Placed
    <3> QED
      BY <1>2, <1>3, <3>2, <3>3, <3>4
  <2> QED
    BY <2>2, <2>3
<1>10. Fits(p)
  BY <1>1, <1>2 DEF Fits, Right
<1> QED
  BY <1>8, <1>9, <1>10 DEF Right, p

\* A key is found where there is an entry for it.
LEMMA FoundWhereThere ==
    ASSUME NEW x, Sound(x), x.n # 0, Right(x), NEW k \in Key
    PROVE  /\ Found(x, k) <=> \E i \in 1 .. Ever(x) : x.entries[i] = k
           /\ Found(x, k) <=> k \in ToSet(Keys(x.entries))
<1>1. /\ x \in Dicts /\ x.entries \in Seq(Entry) /\ Len(x.entries) = Ever(x) /\ Ever(x) \in Nat
  BY Counts DEF Sound, Ever
<1>2. ASSUME NEW i \in 1 .. Ever(x), x.entries[i] = k PROVE Found(x, k)
  <2>1. x.slot[k] = i + 1
    BY <1>2, SizesAssumption DEF Right, Placed
  <2> QED
    BY <1>1, <1>2, <2>1 DEF Found
<1>3. ASSUME Found(x, k) PROVE \E i \in 1 .. Ever(x) : x.entries[i] = k
  <2>1. Position(x, k) \in 1 .. Ever(x) /\ x.entries[Position(x, k)] = k
    BY <1>1, <1>3, FoundAt
  <2> QED
    BY <2>1
<1>4. (\E j \in 1 .. Len(Keys(x.entries)) : Keys(x.entries)[j] = k)
          <=> k \in ToSet(Keys(x.entries))
  <2>1. DOMAIN Keys(x.entries) = 1 .. Len(Keys(x.entries))
    BY <1>1, KeysType, LenProperties
  <2> QED
    BY <2>1 DEF ToSet
<1>5. (\E j \in 1 .. Len(Keys(x.entries)) : Keys(x.entries)[j] = k)
          <=> (\E i \in 1 .. Len(x.entries) : x.entries[i] = k)
  BY <1>1, KeysMembers
<1> QED
  BY <1>1, <1>2, <1>3, <1>4, <1>5

\* Storing a key stores it once: a lookup fails only for a key that is not there.
LEMMA RightSetItem ==
    ASSUME NEW x, Sound(x), x.n # 0, Right(x), NEW k \in Key
    PROVE  Right(SetItem(x, k))
<1>1. CASE Found(x, k)
  BY <1>1 DEF SetItem
<1>2. CASE ~Found(x, k)
  <2>1. SetItem(x, k) = Put(x, k, 1)
    BY <1>2 DEF SetItem
  <2>2. \A i \in 1 .. Ever(x) : x.entries[i] # k
    BY <1>2, FoundWhereThere
  <2>3. Right(Put(x, k, 1))
    BY <2>2, RightPut
  <2> QED
    BY <2>1, <2>3
<1> QED
  BY <1>1, <1>2

\* ll_prepare_dict_update leaves slots and keys together.
LEMMA RightPrepared ==
    ASSUME NEW x, Sound(x), x.n # 0, Right(x)
    PROVE  Right(Prepared(x))
<1>1. Right(ResizedTo(x, 2))
  BY RightResizedTo
<1> QED
  BY <1>1 DEF Prepared

\* The keys with one more, unless it is there.
Having(ks, k) == IF k \in ToSet(ks) THEN ks ELSE Append(ks, k)

\* A key that is stored is there once.
LEMMA KeysSetItem ==
    ASSUME NEW x, Sound(x), x.n # 0, Right(x), NEW k \in Key
    PROVE  Keys(SetItem(x, k).entries) = Having(Keys(x.entries), k)
<1>1. Found(x, k) <=> k \in ToSet(Keys(x.entries))
  BY FoundWhereThere
<1>2. Keys(SetItem(x, k).entries) = IF Found(x, k) THEN Keys(x.entries) ELSE Append(Keys(x.entries), k)
  BY SoundSetItem
<1> QED
  BY <1>1, <1>2 DEF Having

\* ll_dict_update adds the keys that are new, in their order.
LEMMA RightUpdatedBy ==
    ASSUME NEW x, Sound(x), x.n # 0, Right(x), NEW j \in Key, NEW k \in Key
    PROVE  /\ Right(UpdatedBy(x, j, k))
           /\ Keys(UpdatedBy(x, j, k).entries) = Having(Having(Keys(x.entries), j), k)
<1> DEFINE y == Prepared(x)
           z == SetItem(y, j)
<1>1. Sound(y) /\ y.n # 0 /\ Right(y) /\ Keys(y.entries) = Keys(x.entries)
  BY SoundPrepared, RightPrepared
<1>2. UpdatedBy(x, j, k) = SetItem(z, k)
  BY DEF UpdatedBy
<1> HIDE DEF y
<1>3. Sound(z) /\ z.n # 0 /\ Right(z) /\ Keys(z.entries) = Having(Keys(y.entries), j)
  BY <1>1, SoundSetItem, RightSetItem, KeysSetItem
<1> HIDE DEF z
<1>4. Right(SetItem(z, k)) /\ Keys(SetItem(z, k).entries) = Having(Keys(z.entries), k)
  BY <1>3, RightSetItem, KeysSetItem
<1> QED
  BY <1>1, <1>2, <1>3, <1>4

\* Slots are right again after a failure, because _ll_dict_rescue makes the table anew.
LEMMA RightFailures ==
    ASSUME NEW x, Sound(x), x.n # 0, Right(x), NEW y \in Failures(x)
    PROVE  Right(y)
<1>1. PICK z : /\ y = Reindexed(z, z.n)
               /\ z = x \/ z = (IF Full(x) THEN Grown(x) ELSE x)
  BY DEF Failures
<1>2. Sound(z) /\ z.n # 0 /\ Right(z)
  <2>1. CASE z = x
    BY <2>1
  <2>2. CASE z # x
    <3>1. Full(x) /\ z = Grown(x)
      BY <1>1, <2>2
    <3>2. Sound(Grown(x)) /\ Grown(x).n = x.n /\ Right(Grown(x))
      BY <3>1, SoundGrown, RightGrown
    <3> QED
      BY <3>1, <3>2
  <2> QED
    BY <2>1, <2>2
<1>3. z \in Dicts /\ z.n \in Nat \ {0} /\ Ever(z) <= z.size
  BY <1>2, SoundNumbers
<1>4. Right(Reindexed(z, z.n))
  <2>1. Distinct(z.entries) /\ (z.n <= ByteSize => z.size + 2 <= ByteSize)
    BY <1>2 DEF Right, Fits
  <2> QED
    BY <1>3, <2>1, RightReindexed
<1> QED
  BY <1>1, <1>4

\* A deletion leaves the slots of other keys alone.
LEMMA RightMarked ==
    ASSUME NEW x, Sound(x), x.n # 0, NEW i \in 1 .. Ever(x), x.entries[i] # Gone, Right(x)
    PROVE  Right(Marked(x, i))
<1> DEFINE m == Marked(x, i)
           k == x.entries[i]
<1>1. /\ Sound(m) /\ m.n # 0 /\ m.n = x.n /\ m.size = x.size /\ k \in Key
      /\ m.slot = [x.slot EXCEPT ![k] = 0] /\ Ever(m) <= Ever(x)
      /\ \A j \in 1 .. Ever(m) : m.entries[j] = IF j = i THEN Gone ELSE x.entries[j]
  BY SoundMarked
<1> HIDE DEF m
<1>2. /\ m \in Dicts /\ x \in Dicts /\ Ever(m) \in Nat /\ Ever(x) \in Nat /\ x.slot \in [Key -> Nat]
      /\ x.entries \in Seq(Entry) /\ Len(x.entries) = Ever(x)
  BY <1>1, Counts DEF Sound, Ever
<1>3. Within(m, x)
  <2>1. ASSUME NEW j \in 1 .. Ever(m), m.entries[j] # Gone
        PROVE  m.entries[j] = x.entries[j] /\ m.slot[x.entries[j]] = x.slot[x.entries[j]]
    <3>1. j # i /\ m.entries[j] = x.entries[j] /\ j \in 1 .. Ever(x)
      BY <1>1, <1>2, <2>1
    <3>2. x.entries[j] # k
      BY <1>2, <2>1, <3>1 DEF Right, Distinct
    <3> HIDE DEF k
    <3> QED
      BY <1>1, <1>2, <3>1, <3>2
  <2> QED
    BY <1>1, <2>1 DEF Within
<1>4. Right(m)
  BY <1>2, <1>3, RightWithin
<1> QED
  BY <1>4 DEF m

\* So does the resizing that may follow it.
LEMMA RightDeleted ==
    ASSUME NEW x, Sound(x), x.n # 0, NEW i \in 1 .. Ever(x), x.entries[i] # Gone, Right(x)
    PROVE  Right(Deleted(x, i))
<1> DEFINE m == Marked(x, i)
<1>1. Sound(m) /\ m.n # 0 /\ Right(m)
  BY SoundMarked, RightMarked
<1>2. Deleted(x, i) = IF Dwindled(m) THEN Resized(m) ELSE m
  BY DEF Deleted
<1> HIDE DEF m
<1>3. Live(m) + 1 \in Nat
  BY <1>1, Counts DEF Sound
<1>4. Right(Resized(m))
  BY <1>1, <1>3, RightResizedTo DEF Resized
<1> QED
  BY <1>1, <1>2, <1>4

\* And so it does when the resizing fails.
LEMMA RightDeletions ==
    ASSUME NEW x, Sound(x), x.n # 0, NEW i \in 1 .. Ever(x), x.entries[i] # Gone, Right(x),
           NEW y \in Deletions(x, i)
    PROVE  Right(y)
<1>1. y = Deleted(x, i) \/ y = Marked(x, i)
  BY DEF Deletions, DeletedOnly
<1> QED
  BY <1>1, RightDeleted, RightMarked

\* Trimming leaves the slots alone.
LEMMA RightTrimmed ==
    ASSUME NEW x, Sound(x), x.n # 0, Live(x) > 0, Right(x)
    PROVE  Right(LastFound(x))
<1> DEFINE y == LastFound(x)
<1>1. /\ Sound(y) /\ y.n = x.n /\ y.size = x.size /\ y.slot = x.slot /\ Ever(y) \in 1 .. Ever(x)
      /\ \A j \in 1 .. Ever(y) : y.entries[j] = x.entries[j]
  BY SoundTrimmed
<1> HIDE DEF y
<1>2. x \in Dicts /\ y \in Dicts /\ Ever(x) \in Nat
  BY <1>1, Counts DEF Sound
<1>3. Within(y, x)
  BY <1>1, <1>2 DEF Within
<1>4. Right(y)
  BY <1>2, <1>3, RightWithin
<1> QED
  BY <1>4 DEF y

\* A key that was taken out is nowhere else; no other key loses its slot.
LEMMA RightTakenOut ==
    ASSUME NEW x, Sound(x), x.n # 0, NEW i \in 1 .. Ever(x), x.entries[i] # Gone, Right(x)
    PROVE  /\ Right(TakenOut(x, i))
           /\ \A j \in 1 .. Ever(TakenOut(x, i)) : TakenOut(x, i).entries[j] # x.entries[i]
           /\ Right(OutOfPlace(x, i, x.entries[i]))
<1> DEFINE t == TakenOut(x, i)
           k == x.entries[i]
           y == OutOfPlace(x, i, k)
<1>1. /\ Sound(t) /\ t.n = x.n /\ t.size = x.size /\ t.slot = x.slot /\ Ever(t) = Ever(x)
      /\ \A j \in 1 .. Ever(x) : t.entries[j] = IF j = i THEN Gone ELSE x.entries[j]
  <2>1. /\ Sound(t) /\ Ever(t) = Ever(x)
        /\ \A j \in 1 .. Ever(x) : t.entries[j] = IF j = i THEN Gone ELSE x.entries[j]
        /\ t = [entries |-> [x.entries EXCEPT ![i] = Gone], size |-> x.size,
                n |-> x.n, rc |-> x.rc, taken |-> x.taken, skip |-> x.skip, slot |-> x.slot]
    BY SoundTakenOut
  <2> HIDE DEF t
  <2> QED
    BY <2>1
<1>2. /\ x \in Dicts /\ t \in Dicts /\ Ever(x) \in Nat /\ x.slot \in [Key -> Nat]
      /\ x.entries \in Seq(Entry) /\ Len(x.entries) = Ever(x)
  BY <1>1, Counts DEF Sound, Ever
<1>3. k \in Key
  BY <1>2, ElementOfSeq DEF Entry
<1>4. /\ Sound(y) /\ y.n = x.n /\ y.size = x.size /\ y.entries = t.entries
      /\ y.slot = [x.slot EXCEPT ![k] = 0]
  BY <1>3, SoundOutOfPlace
<1> HIDE DEF t, y
<1>5. \A j \in 1 .. Ever(t) : t.entries[j] # Gone => j # i /\ t.entries[j] = x.entries[j]
  BY <1>1
<1>6. Right(t)
  <2>1. Within(t, x)
    BY <1>1, <1>2, <1>5 DEF Within
  <2> QED
    BY <1>2, <2>1, RightWithin
<1>7. \A j \in 1 .. Ever(t) : t.entries[j] # k
  <2>1. ASSUME NEW j \in 1 .. Ever(t), t.entries[j] = k PROVE FALSE
    <3>1. k # Gone
      OBVIOUS
    <3>2. j # i /\ x.entries[j] = x.entries[i]
      BY <1>5, <2>1, <3>1
    <3>3. j \in 1 .. Len(x.entries) /\ i \in 1 .. Len(x.entries)
      BY <1>1, <1>2, <2>1
    <3> HIDE DEF k
    <3> QED
      BY <3>2, <3>3 DEF Right, Distinct
  <2> QED
    BY <2>1
<1>8. Right(y)
  <2>1. Ever(y) = Ever(x) /\ y \in Dicts
    BY <1>1, <1>4 DEF Ever, Sound
  <2>2. ASSUME NEW j \in 1 .. Ever(y), y.entries[j] # Gone
        PROVE  y.entries[j] = x.entries[j] /\ y.slot[x.entries[j]] = x.slot[x.entries[j]]
    <3>1. j \in 1 .. Ever(t) /\ y.entries[j] = t.entries[j]
      BY <1>1, <1>4, <2>1, <2>2
    <3>2. t.entries[j] = x.entries[j] /\ x.entries[j] # k
      BY <1>5, <1>7, <2>2, <3>1
    <3> HIDE DEF k
    <3> QED
      BY <1>2, <1>4, <3>1, <3>2
  <2>3. Within(y, x)
    BY <1>2, <1>4, <2>1, <2>2 DEF Within
  <2> QED
    BY <1>2, <2>1, <2>3, RightWithin
<1> QED
  BY <1>6, <1>7, <1>8 DEF t, y, k

\* The key that goes to the end is there once, and its slot leads to it.
LEMMA RightMovedToLast ==
    ASSUME NEW x, Sound(x), x.n # 0, NEW k \in Key, Found(x, k), Right(x)
    PROVE  Right(MovedToLast(x, k))
<1> DEFINE i == Position(x, k)
           t == TakenOut(x, i)
<1>1. i \in 1 .. Ever(x) /\ x.entries[i] # Gone /\ x.entries[i] = k
  BY FoundAt DEF Sound
<1>2. CASE i = Ever(x)
  BY <1>2 DEF MovedToLast
<1>3. CASE i # Ever(x)
  <2>1. MovedToLast(x, k) = Put(t, k, 0)
    BY <1>3 DEF MovedToLast
  <2> HIDE DEF i
  <2>2. /\ Sound(t) /\ t.n # 0 /\ Right(t) /\ \A j \in 1 .. Ever(t) : t.entries[j] # k
    BY <1>1, SoundTakenOut, RightTakenOut
  <2> HIDE DEF t
  <2>3. 0 \in {0, 1}
    OBVIOUS
  <2> QED
    BY <2>1, <2>2, <2>3, RightPut
<1> QED
  BY <1>2, <1>3

\* An iterator leaves the slots alone.
LEMMA RightIterated ==
    ASSUME NEW x, Sound(x), Right(x)
    PROVE  Right(Iterated(x))
<1>1. /\ Iterated(x).entries = x.entries /\ Iterated(x).n = x.n /\ Iterated(x).size = x.size
      /\ Iterated(x).slot = x.slot
  BY SoundIterated
<1> QED
  BY <1>1 DEF Right, Placed, Fits, Ever

\* So does the compaction at the beginning of a move to the front.
LEMMA RightTidied ==
    ASSUME NEW x, Sound(x), Right(x)
    PROVE  Right(Tidied(x))
  BY SoundTidied, RightCompacted

\* The key that goes before the first is there once, and its slot leads to it.
LEMMA RightMovedBeforeFirst ==
    ASSUME NEW x, Sound(x), x.n # 0, NEW k \in Key, Found(x, k), x.entries[1] = Gone, Right(x)
    PROVE  Right(MovedBeforeFirst(x, k))
<1> DEFINE i == Position(x, k)
           f == FirstValid(x) - 1
           y == MovedBeforeFirst(x, k)
           e == [x.entries EXCEPT ![i] = Gone]
           moved == [e EXCEPT ![f] = k]
<1>1. /\ x \in Dicts /\ i \in 1 .. Ever(x) /\ x.entries[i] # Gone /\ x.entries[i] = k
  BY FoundAt DEF Sound
<1>2. /\ x.entries \in Seq(Entry) /\ Len(x.entries) = Ever(x) /\ Ever(x) \in Nat
      /\ x.slot \in [Key -> Nat] /\ x.n \in Nat /\ x.size \in Nat /\ Ever(x) <= x.size
      /\ k \in Entry /\ k # Gone
  BY <1>1, Counts, SizesAssumption DEF Ever, Sound, Entry
<1>3. CASE FirstValid(x) = i
  <2>1. y = [x EXCEPT !.skip = i - 1]
    BY <1>3 DEF MovedBeforeFirst
  <2>2. y.entries = x.entries /\ y.size = x.size /\ y.n = x.n /\ y.slot = x.slot
    BY <1>1, <2>1 DEF Dicts
  <2> HIDE DEF y
  <2>3. Right(y)
    BY <2>2 DEF Right, Placed, Fits, Ever
  <2> QED
    BY <2>3 DEF y
<1>4. CASE FirstValid(x) # i
  <2>1. /\ f \in 1 .. Ever(x) /\ f # i
        /\ \A j \in 1 .. f : x.entries[j] = Gone
        /\ y = [entries |-> moved, size |-> x.size, n |-> x.n, rc |-> x.rc, taken |-> x.taken,
                skip |-> FirstValid(x) - 2, slot |-> [x.slot EXCEPT ![k] = Stored(x.n, f)]]
    BY <1>1, <1>2, <1>4, MovedBeforeFirstIs
  <2>2. /\ e \in Seq(Entry) /\ Len(e) = Len(x.entries)
        /\ \A j \in 1 .. Len(x.entries) : e[j] = IF j = i THEN Gone ELSE x.entries[j]
    <3>1. i \in 1 .. Len(x.entries)
      BY <1>1, <1>2
    <3> HIDE DEF i
    <3> QED
      BY <1>2, <3>1, KeysRemoved
  <2> HIDE DEF e, f, i
  <2>3. /\ moved \in Seq(Entry) /\ Len(moved) = Len(e)
        /\ \A j \in 1 .. Len(e) : moved[j] = IF j = f THEN k ELSE e[j]
    <3>1. f \in 1 .. Len(e)
      BY <1>2, <2>1, <2>2
    <3> QED
      BY <1>2, <2>2, <3>1, KeysChanged
  <2> HIDE DEF moved, y
  <2>4. y.entries = moved /\ y.size = x.size /\ y.n = x.n
        /\ y.slot = [x.slot EXCEPT ![k] = Stored(x.n, f)]
    BY <2>1
  <2>5. Ever(y) = Ever(x)
    BY <1>2, <2>2, <2>3, <2>4 DEF Ever
  <2>6. y.entries[f] = k
    BY <1>2, <2>1, <2>2, <2>3, <2>4
  <2>7. ASSUME NEW j \in 1 .. Ever(x), j # f, y.entries[j] # Gone
        PROVE  y.entries[j] = x.entries[j] /\ x.entries[j] # k /\ x.entries[j] \in Key
    <3>1. j \in 1 .. Len(e) /\ j \in 1 .. Len(x.entries) /\ i \in 1 .. Len(x.entries)
      BY <1>1, <1>2, <2>2, <2>7
    <3>2. y.entries[j] = e[j] /\ j # i /\ e[j] = x.entries[j]
      BY <2>2, <2>3, <2>4, <2>7, <3>1
    <3>3. x.entries[j] # x.entries[i]
      BY <1>1, <3>1, <3>2 DEF Right, Distinct
    <3>4. x.entries[j] \in Entry
      BY <1>2, <3>1, ElementOfSeq
    <3> QED
      BY <1>1, <2>7, <3>2, <3>3, <3>4 DEF Entry
  <2>8. Distinct(y.entries)
    <3>1. ASSUME NEW a \in 1 .. Ever(x), NEW b \in 1 .. Ever(x), y.entries[a] # Gone,
                 y.entries[a] = y.entries[b]
          PROVE  a = b
      <4>1. CASE a = f
        BY <2>6, <2>7, <3>1, <4>1
      <4>2. CASE b = f
        BY <2>6, <2>7, <3>1, <4>2
      <4>3. CASE a # f /\ b # f
        <5>1. y.entries[a] = x.entries[a] /\ y.entries[b] = x.entries[b]
          BY <2>7, <3>1, <4>3
        <5> QED
          BY <1>2, <3>1, <5>1 DEF Right, Distinct
      <4> QED
        BY <4>1, <4>2, <4>3
    <3>2. Len(y.entries) = Ever(x)
      BY <2>5 DEF Ever
    <3> QED
      BY <3>1, <3>2 DEF Distinct
  <2>9. Stored(x.n, f) = f + 1
    <3>1. f \in Nat /\ (x.n <= ByteSize => f + 1 < ByteSize)
      BY <1>2, <2>1, SizesAssumption DEF Right, Fits
    <3> QED
      BY <1>2, <3>1, StoredExactly
  <2>10. Placed(y)
    <3>1. SUFFICES ASSUME NEW j \in 1 .. Ever(x), y.entries[j] # Gone
                   PROVE  y.slot[y.entries[j]] = j + 1
      BY <2>5 DEF Placed
    <3>2. CASE j = f
      BY <1>2, <2>4, <2>6, <2>9, <3>2
    <3>3. CASE j # f
      <4>1. y.entries[j] = x.entries[j] /\ x.entries[j] # k /\ x.entries[j] \in Key
        BY <2>7, <3>1, <3>3
      <4>2. x.slot[x.entries[j]] = j + 1
        BY <3>1, <4>1 DEF Right, Placed
      <4> QED
        BY <1>2, <2>4, <4>1, <4>2
    <3> QED
      BY <3>2, <3>3
  <2>11. Fits(y)
    BY <2>4 DEF Fits, Right
  <2> QED
    BY <2>8, <2>10, <2>11 DEF Right, y
<1> QED
  BY <1>3, <1>4

\* The room that ll_dict_move_to_first makes is the only one that is not checked against
\* the integers of the table.
RoomFits(x) == x.n <= ByteSize => Overallocated(Ever(x)) + 2 <= ByteSize

\* If it fits, every key has moved and every slot leads to its key.
LEMMA RightMovedToNewRoom ==
    ASSUME NEW x, Sound(x), x.n # 0, NEW k \in Key, Found(x, k), Right(x), RoomFits(x)
    PROVE  Right(MovedToNewRoom(x, k))
<1> DEFINE m == RoomMade(x, k)
           i == Position(x, k)
           f == NewRoom(x)
<1>1. /\ x \in Dicts /\ i \in 1 .. Ever(x) /\ x.entries[i] # Gone /\ x.entries[i] = k
  BY FoundAt DEF Sound
<1>2. /\ m \in Dicts /\ m.size = Overallocated(Ever(x)) /\ m.n = x.n
      /\ Ever(m) = f + Ever(x) /\ Ever(m) <= m.size
      /\ \A j \in 1 .. f - 1 : m.entries[j] = Gone
      /\ m.entries[f] = k
      /\ \A j \in 1 .. Ever(x) : m.entries[f + j] = IF j = i THEN Gone ELSE x.entries[j]
  BY RoomMadeIs
<1>3. MovedToNewRoom(x, k) = Reindexed(m, x.n)
  BY SoundMovedToNewRoom
<1>4. f \in Nat /\ f >= 1 /\ Ever(x) \in Nat /\ x.n \in Nat /\ Len(x.entries) = Ever(x)
  BY <1>1, NewRoomSize, Counts DEF Ever
<1> HIDE DEF m, i, f
<1>5. ASSUME NEW a \in 1 .. Ever(m), m.entries[a] # Gone
      PROVE  \/ a = f
             \/ /\ a - f \in 1 .. Len(x.entries) /\ a - f # i
                /\ m.entries[a] = x.entries[a - f] /\ m.entries[a] # k
  <2>1. CASE a < f
    <3>1. a \in 1 .. f - 1
      BY <1>2, <1>4, <1>5, <2>1
    <3> QED
      BY <1>2, <1>5, <3>1
  <2>2. CASE a > f
    <3>1. a - f \in 1 .. Ever(x) /\ f + (a - f) = a
      BY <1>2, <1>4, <1>5, <2>2
    <3>2. m.entries[a] = IF a - f = i THEN Gone ELSE x.entries[a - f]
      BY <1>2, <3>1
    <3>3. a - f # i /\ m.entries[a] = x.entries[a - f]
      BY <1>5, <3>2
    <3>4. a - f \in 1 .. Len(x.entries) /\ i \in 1 .. Len(x.entries)
      BY <1>1, <1>4, <3>1
    <3>5. x.entries[a - f] # x.entries[i]
      BY <1>1, <3>3, <3>4 DEF Right, Distinct
    <3> QED
      BY <1>1, <3>3, <3>4, <3>5
  <2> QED
    BY <1>2, <1>4, <1>5, <2>1, <2>2
<1>6. Distinct(m.entries)
  <2>1. ASSUME NEW a \in 1 .. Ever(m), NEW b \in 1 .. Ever(m), m.entries[a] # Gone,
               m.entries[a] = m.entries[b]
        PROVE  a = b
    <3>1. a \in Int /\ b \in Int
      OBVIOUS
    <3>2. CASE a = f
      BY <1>2, <1>5, <2>1, <3>2
    <3>3. CASE b = f
      BY <1>2, <1>5, <2>1, <3>3
    <3>4. CASE a # f /\ b # f
      <4>1. /\ a - f \in 1 .. Len(x.entries) /\ m.entries[a] = x.entries[a - f]
            /\ b - f \in 1 .. Len(x.entries) /\ m.entries[b] = x.entries[b - f]
        BY <1>5, <2>1, <3>4
      <4>2. a - f = b - f
        BY <2>1, <4>1 DEF Right, Distinct
      <4> QED
        BY <1>4, <3>1, <4>2
    <3> QED
      BY <3>2, <3>3, <3>4
  <2> QED
    BY <2>1 DEF Distinct, Ever
<1>7. x.n <= ByteSize => m.size + 2 <= ByteSize
  BY <1>2 DEF RoomFits
<1> QED
  BY <1>2, <1>3, <1>4, <1>6, <1>7, RightReindexed

\* ll_dict_move_to_first, in its three cases.
LEMMA RightMovedToFirst ==
    ASSUME NEW x, Sound(x), x.n # 0, NEW k \in Key, Found(x, k), Right(x),
           Position(x, k) # 1 /\ x.entries[1] # Gone => RoomFits(x)
    PROVE  Right(MovedToFirst(x, k))
<1>1. CASE Position(x, k) = 1
  BY <1>1 DEF MovedToFirst
<1>2. CASE Position(x, k) # 1 /\ x.entries[1] # Gone
  BY <1>2, RightMovedToNewRoom DEF MovedToFirst
<1>3. CASE Position(x, k) # 1 /\ x.entries[1] = Gone
  BY <1>3, RightMovedBeforeFirst DEF MovedToFirst
<1> QED
  BY <1>1, <1>2, <1>3

\* A dictionary without entries has no wrong slot.
LEMMA RightEmpty ==
    ASSUME NEW x, x.entries = <<>>, x.n # 0 /\ x.n <= ByteSize => x.size + 2 <= ByteSize
    PROVE  Right(x)
<1>1. Ever(x) = 0 /\ Distinct(x.entries)
  BY DEF Ever, Distinct
<1> QED
  BY <1>1 DEF Right, Placed, Fits

\* The table that a given size is allocated with can number so many entries.
LEMMA RightInit ==
    ASSUME DictInit
    PROVE  Right(d)
<1>1. CASE d = Fresh(<<>>, 0)
  <2>1. <<>> \in Seq(Entry) /\ 0 \in Nat
    OBVIOUS
  <2>2. Fresh(<<>>, 0).entries = <<>> /\ Fresh(<<>>, 0).n = 0
    BY <2>1, FreshIs
  <2> QED
    BY <1>1, <2>2, RightEmpty
<1>2. CASE \E length \in Estimates : d = Sized(length)
  <2>1. PICK length \in Estimates : d = Sized(length)
    BY <1>2
  <2> DEFINE half == length \div 2
             n == TableOf[half * 3]
  <2>2. length \in Nat /\ half \in Nat /\ half * 3 \in Nat /\ length <= 2 * half + 1
    BY SizesAssumption
  <2>3. n \in Tables /\ n \in Nat \ {0} /\ n >= half * 3
    BY <2>2, TableSizes
  <2>4. d.entries = <<>> /\ d.size = length /\ d.n = n
    BY <2>1, SizedIs
  <2> HIDE DEF half, n
  <2>5. n <= ByteSize => length + 2 <= ByteSize
    <3>1. SUFFICES ASSUME n <= ByteSize PROVE length + 2 <= ByteSize
      OBVIOUS
    <3>2. Overallocated((2 * n) \div 3) + 3 <= ByteSize
      BY <2>3, <3>1, TableSizes
    <3>3. (2 * n) \div 3 \in Nat /\ 2 * half <= (2 * n) \div 3
      BY <2>2, <2>3
    <3>4. /\ Overallocated((2 * n) \div 3) \in Nat
          /\ Overallocated((2 * n) \div 3) >= (2 * n) \div 3 + 2
      BY <3>3, Allocation
    <3> QED
      BY <2>2, <3>2, <3>3, <3>4, SizesAssumption
  <2> QED
    BY <2>4, <2>5, RightEmpty
<1>3. CASE \E j, k \in Key : j # k /\ d = Fresh(<<j, k>>, 2)
  <2>1. PICK j \in Key, k \in Key : j # k /\ d = Fresh(<<j, k>>, 2)
    BY <1>3
  <2> DEFINE pair == <<j, k>>
  <2>2. pair \in Seq(Entry) /\ Distinct(pair)
    <3>1. pair \in Seq(Entry) /\ Len(pair) = 2 /\ pair[1] = j /\ pair[2] = k
      BY DEF Entry
    <3> HIDE DEF pair
    <3> QED
      BY <2>1, <3>1 DEF Distinct
  <2>3. d = Fresh(pair, 2)
    BY <2>1
  <2> HIDE DEF pair
  <2>4. d.entries = pair /\ d.n = 0
    BY <2>2, <2>3, FreshIs
  <2> QED
    BY <2>2, <2>4 DEF Right, Placed, Fits
<1> QED
  BY <1>1, <1>2, <1>3 DEF DictInit

\* The moves to the front that make room find integers in the table that can hold it.
NewRoomsFit ==
    Intact(d) =>
        \A k \in Key :
            LET x == Ensured(Tidied(d))
            IN  MoveToFirst(k) /\ Position(x, k) # 1 /\ x.entries[1] # Gone => RoomFits(x)

\* Every step from a sound dictionary keeps slots and keys together.
LEMMA RightStep ==
    ASSUME Sound(d), Right(d), DictNext, ~ClearFails, NewRoomsFit
    PROVE  Right(d')
<1> DEFINE x == Ensured(d)
<1>1. Sound(x) /\ x.n # 0 /\ Right(x)
  BY SoundEnsured, RightEnsured
<1>2. ASSUME NEW k \in Key, Set(k) PROVE Right(d')
  <2>1. d' = SetItem(x, k)
    BY <1>2 DEF Set
  <2> HIDE DEF x
  <2> QED
    BY <1>1, <2>1, RightSetItem
<1>3. ASSUME NEW k \in Key, SetFails(k) PROVE Right(d')
  <2>1. d' \in Failures(x)
    BY <1>3 DEF SetFails
  <2> HIDE DEF x
  <2> QED
    BY <1>1, <2>1, RightFailures
<1>4. ASSUME NEW k \in Key, Delete(k) \/ DeleteFails(k) PROVE Right(d')
  <2>1. Found(x, k) /\ d' \in Deletions(x, Position(x, k))
    BY <1>4, DeleteStep
  <2>2. Position(x, k) \in 1 .. Ever(x) /\ x.entries[Position(x, k)] # Gone
    BY <2>1, FoundIn
  <2> HIDE DEF x
  <2> QED
    BY <1>1, <2>1, <2>2, RightDeletions
<1>5. ASSUME NEW k \in Key, MoveToLast(k) PROVE Right(d')
  <2>1. Found(x, k) /\ d' = MovedToLast(x, k)
    BY <1>5 DEF MoveToLast
  <2> HIDE DEF x
  <2> QED
    BY <1>1, <2>1, RightMovedToLast
<1>6. ASSUME NEW k \in Key, MoveToLastFails(k) PROVE Right(d')
  <2> DEFINE i == Position(x, k)
             y == OutOfPlace(x, i, k)
  <2>1. Found(x, k) /\ d' \in Failures(y)
    BY <1>6 DEF MoveToLastFails, OutOfPlace
  <2>2. i \in 1 .. Ever(x) /\ x.entries[i] # Gone /\ x.entries[i] = k
    BY <2>1, FoundIn
  <2> HIDE DEF x, i
  <2>3. Sound(y) /\ y.n # 0 /\ Right(y)
    BY <1>1, <2>2, SoundOutOfPlace, RightTakenOut
  <2> HIDE DEF y
  <2> QED
    BY <2>1, <2>3, RightFailures
<1>7. ASSUME NEW k \in Key, MoveToFirst(k), NewRoomsFit PROVE Right(d')
  <2> DEFINE t == Tidied(d)
             y == Ensured(t)
  <2>1. Sound(y) /\ y.n # 0 /\ Found(y, k) /\ d' = MovedToFirst(y, k)
    BY <1>7, MoveToFirstStep
  <2>2. Position(y, k) # 1 /\ y.entries[1] # Gone => RoomFits(y)
    BY <1>7, SoundIsIntact DEF NewRoomsFit
  <2>3. Sound(t) /\ Right(t)
    BY SoundTidied, RightTidied
  <2> HIDE DEF t
  <2>4. Right(y)
    BY <2>3, RightEnsured
  <2> HIDE DEF y
  <2> QED
    BY <2>1, <2>2, <2>4, RightMovedToFirst
<1>8. ASSUME NEW j \in Key, NEW k \in Key, Update(j, k) PROVE Right(d')
  <2>1. d' = UpdatedBy(x, j, k)
    BY <1>8 DEF Update
  <2> HIDE DEF x
  <2> QED
    BY <1>1, <2>1, RightUpdatedBy
<1>9. ASSUME PopLast \/ PopLastFails PROVE Right(d')
  <2> DEFINE y == LastFound(x)
  <2>1. /\ Sound(y) /\ y.n # 0 /\ Ever(y) \in 1 .. Ever(y) /\ y.entries[Ever(y)] # Gone
        /\ d' = y \/ d' \in Deletions(y, Ever(y))
    BY <1>9, PopLastStep
  <2>2. Live(x) > 0
    BY <1>9, SoundEnsured DEF PopLast, PopLastFails
  <2> HIDE DEF x
  <2>3. Right(y)
    BY <1>1, <2>2, RightTrimmed
  <2> HIDE DEF y
  <2> QED
    BY <2>1, <2>3, RightDeletions
<1>10. ASSUME PopFirst \/ PopFirstFails PROVE Right(d')
  <2> DEFINE i == Iterated(d)
             y == Ensured(i)
  <2>1. /\ Sound(y) /\ y.n # 0 /\ FirstValid(y) \in 1 .. Ever(y) /\ y.entries[FirstValid(y)] # Gone
        /\ d' \in Deletions(y, FirstValid(y))
    BY <1>10, PopFirstStep
  <2>2. Sound(i) /\ Right(i)
    BY SoundIterated, RightIterated
  <2> HIDE DEF i
  <2>3. Right(y)
    BY <2>2, RightEnsured
  <2> HIDE DEF y
  <2> QED
    BY <2>1, <2>3, RightDeletions
<1>11. ASSUME Iterate PROVE Right(d')
  BY <1>11, RightIterated DEF Iterate
<1>12. ASSUME Clear PROVE Right(d')
  <2>1. d'.entries = <<>> /\ d'.size = 0
    BY <1>12, ClearStep
  <2> QED
    BY <2>1, RightEmpty, SizesAssumption
<1>13. ASSUME Copy PROVE Right(d')
  <2>1. d' = Reindexed(x, x.n)
    BY <1>13 DEF Copy
  <2> HIDE DEF x
  <2>2. x \in Dicts /\ x.n \in Nat /\ Ever(x) <= x.size
    BY <1>1, SoundNumbers
  <2>3. Distinct(x.entries) /\ (x.n <= ByteSize => x.size + 2 <= ByteSize)
    BY <1>1 DEF Right, Fits
  <2> QED
    BY <2>1, <2>2, <2>3, RightReindexed
<1>14. ASSUME NEW j \in Key, NEW k \in Key, UpdateFails(j, k) PROVE Right(d')
  <2> DEFINE y == Prepared(x)
             z == SetItem(y, j)
  <2>1. /\ Sound(y) /\ y.n # 0 /\ Sound(z) /\ z.n # 0
        /\ d' \in Failures(y) \/ d' \in Failures(z)
    BY <1>14, UpdateFailsStep
  <2> HIDE DEF x
  <2>2. Right(y)
    BY <1>1, RightPrepared
  <2> HIDE DEF y
  <2>3. Right(z)
    BY <2>1, <2>2, RightSetItem
  <2> HIDE DEF z
  <2> QED
    BY <2>1, <2>2, <2>3, RightFailures
<1>15. ASSUME NEW k \in Key, MoveToFirstFails(k) PROVE Right(d')
  <2> DEFINE t == Tidied(d)
  <2>1. Sound(t) /\ Right(t)
    BY SoundTidied, RightTidied
  <2>2. d' = Ensured(t)
    BY <1>15, MoveToFirstFailsStep
  <2> HIDE DEF t
  <2> QED
    BY <2>1, <2>2, RightEnsured
<1>16. ASSUME Lookup PROVE Right(d')
  BY <1>1, <1>16 DEF Lookup
<1> QED
  BY <1>2, <1>3, <1>4, <1>5, <1>6, <1>7, <1>8, <1>9, <1>10, <1>11, <1>12, <1>13, <1>14, <1>15,
     <1>16 DEF DictNext

\* Slots and keys are together in every dictionary that has its entries.
RightInv == DictInv /\ (Intact(d) => Right(d))

\* A new dictionary has its entries and its slots.
LEMMA InvInit ==
    ASSUME DictInit
    PROVE  RightInv /\ Intact(d)
  BY SoundInit, SoundIsConsistent, SoundIsIntact, RightInit DEF RightInv, DictInv

\* Slots and keys stay together until a clear() gives up the entries, and are together again
\* after the clear() that makes it a dictionary again.
LEMMA RightNext ==
    ASSUME RightInv, [DictNext]_d, [NewRoomsFit]_d
    PROVE  RightInv'
<1>1. Consistent(d') /\ (Intact(d') => Sound(d'))
  BY SoundNext DEF RightInv
<1>2. Intact(d') => Right(d')
  <2>1. CASE UNCHANGED d
    <3>1. Intact(d') <=> Intact(d)
      BY <2>1 DEF Intact, Ever
    <3>2. Right(d') <=> Right(d)
      BY <2>1 DEF Right, Placed, Fits, Ever, Distinct
    <3> QED
      BY <3>1, <3>2 DEF RightInv
  <2>2. CASE ClearFails
    BY <2>2, ClearFailsStep DEF RightInv, DictInv
  <2>3. CASE Clear
    <3>1. d'.entries = <<>> /\ d'.size = 0
      BY <2>3, ClearStep
    <3> QED
      BY <3>1, RightEmpty, SizesAssumption
  <2>4. CASE DictNext /\ NewRoomsFit /\ ~Clear /\ ~ClearFails
    <3>1. Intact(d)
      BY <2>4 DEF DictNext
    <3> QED
      BY <2>4, <3>1, RightStep DEF RightInv, DictInv
  <2> QED
    BY <2>1, <2>2, <2>3, <2>4
<1>3. Consistent(d') <=> Consistent(d)'
  BY DEF Consistent, Ever, Live, Paid
<1>4. Sound(d') <=> Sound(d)'
  BY DEF Sound, Ever, Live, Paid
<1>5. Intact(d') <=> Intact(d)'
  BY DEF Intact, Ever
<1>6. Right(d') <=> Right(d)'
  BY DEF Right, Placed, Fits, Ever, Distinct
<1> QED
  BY <1>1, <1>2, <1>3, <1>4, <1>5, <1>6 DEF RightInv, DictInv

\* What it means for the slots.
LEMMA RightIndex ==
    ASSUME RightInv
    PROVE  IndexIsRight
  BY DEF RightInv, Right, Placed, IndexIsRight

\* The slots lead to their keys, through all operations and all MemoryErrors but for two:
\* the move to the front that makes room which the integers of the table cannot hold (the
\* hypothesis excludes it), and the clear() without memory, after which IndexIsRight claims
\* nothing until another clear() succeeds.
THEOREM IndexIsRightWhileRoomFits == DictSpec /\ [][NewRoomsFit]_d => []IndexIsRight
<1>1. DictInit => RightInv
  BY InvInit
<1>2. RightInv /\ [DictNext]_d /\ [NewRoomsFit]_d => RightInv'
  BY RightNext
<1>3. RightInv => IndexIsRight
  BY RightIndex
<1> QED
  BY <1>1, <1>2, <1>3, PTL DEF DictSpec

\* A table of bytes has room for every dictionary of so few keys (for up to 93 with the
\* numbers of the code).
FewKeys ==
    /\ IsFiniteSet(Key)
    /\ Overallocated(2 * (Cardinality(Key) + Spare) + 1) + 2 <= ByteSize

\* There are no more live items than keys.
LEMMA FewLive ==
    ASSUME NEW x \in Dicts, Distinct(x.entries), IsFiniteSet(Key)
    PROVE  Live(x) <= Cardinality(Key) /\ Cardinality(Key) \in Nat
<1> DEFINE ks == Keys(x.entries)
<1>1. /\ ks \in Seq(Key) /\ Len(ks) = Live(x) /\ Live(x) \in Nat /\ DOMAIN ks = 1 .. Live(x)
      /\ Distinct(ks) /\ \A i \in 1 .. Len(ks) : ks[i] \in Key /\ ks[i] # Gone
  <2>1. x.entries \in Seq(Entry) /\ Live(x) \in Nat
    BY Counts
  <2>2. ks \in Seq(Key) /\ Distinct(ks) /\ \A i \in 1 .. Len(ks) : ks[i] \in Key /\ ks[i] # Gone
    BY <2>1, KeysType, KeysDistinct, KeysOfKeys
  <2> HIDE DEF ks
  <2> QED
    BY <2>1, <2>2, LenProperties DEF Live, ks
<1> HIDE DEF ks
<1>2. ks \in Injection(1 .. Live(x), Key)
  <2>1. ks \in [1 .. Live(x) -> Key]
    BY <1>1
  <2>2. \A a, b \in 1 .. Live(x) : ks[a] = ks[b] => a = b
    BY <1>1 DEF Distinct
  <2> QED
    BY <2>1, <2>2 DEF Injection, IsInjective
<1>3. Cardinality(1 .. Live(x)) <= Cardinality(Key)
  BY <1>2, FS_Injection
<1>4. Cardinality(1 .. Live(x)) = Live(x)
  <2>1. 1 \in Int /\ Live(x) \in Int
    BY <1>1
  <2>2. Cardinality(1 .. Live(x)) = IF 1 > Live(x) THEN 0 ELSE Live(x) - 1 + 1
    BY <2>1, FS_Interval
  <2> QED
    BY <1>1, <2>2
<1>5. Cardinality(Key) \in Nat
  BY FS_CardinalityType
<1> QED
  BY <1>3, <1>4, <1>5

\* With so few keys the room always fits.
LEMMA FewKeysFit ==
    ASSUME FewKeys, Sound(d), Right(d)
    PROVE  NewRoomsFit
<1>1. SUFFICES ASSUME NEW k \in Key, MoveToFirst(k) PROVE RoomFits(Ensured(Tidied(d)))
  BY DEF NewRoomsFit
<1> DEFINE x == Ensured(Tidied(d))
           few == 2 * (Cardinality(Key) + Spare) + 1
<1>2. d \in Dicts /\ Distinct(d.entries) /\ IsFiniteSet(Key) /\ Live(d) \in Nat
  BY Counts DEF Sound, Right, FewKeys
<1>3. Live(d) <= Cardinality(Key) /\ Cardinality(Key) \in Nat
  BY <1>2, FewLive
<1>4. Sound(Tidied(d)) /\ Ever(Tidied(d)) <= 2 * (Live(d) + Spare) + 1
  BY SoundTidied
<1>5. Ever(x) = Ever(Tidied(d)) /\ Ever(x) \in Nat
  <2>1. Sound(x) /\ Ever(x) = Ever(Tidied(d))
    BY <1>4, SoundEnsured
  <2> QED
    BY <2>1, Counts DEF Sound
<1> HIDE DEF x
<1>6. Ever(x) <= few /\ few \in Nat
  BY <1>2, <1>3, <1>4, <1>5, SizesAssumption
<1>7. Overallocated(few) + 2 <= ByteSize
  BY DEF FewKeys
<1> HIDE DEF few
<1>8. /\ Overallocated(Ever(x)) <= Overallocated(few)
      /\ Overallocated(Ever(x)) \in Nat /\ Overallocated(few) \in Nat
  BY <1>5, <1>6, Allocation
<1>9. RoomFits(x)
  BY <1>7, <1>8, SizesAssumption DEF RoomFits
<1> QED
  BY <1>9 DEF x

\* So every step of a dictionary with so few keys keeps slots and keys together.
LEMMA FewKeysNext ==
    ASSUME FewKeys, RightInv, [DictNext]_d
    PROVE  NewRoomsFit
<1>1. CASE Intact(d)
  BY <1>1, FewKeysFit DEF RightInv, DictInv
<1>2. CASE ~Intact(d)
  BY <1>2 DEF NewRoomsFit
<1> QED
  BY <1>1, <1>2

\* The slots always lead to their keys when a table of bytes has room for every dictionary,
\* except while a clear() without memory has given up the entries (IndexIsRight claims
\* nothing of them).
THEOREM IndexIsAlwaysRight ==
    ASSUME FewKeys
    PROVE  DictSpec => []IndexIsRight
<1>1. DictInit => RightInv
  BY InvInit
<1>2. RightInv /\ [DictNext]_d => RightInv'
  BY FewKeysNext, RightNext
<1>3. RightInv => IndexIsRight
  BY RightIndex
<1> QED
  BY <1>1, <1>2, <1>3, PTL DEF DictSpec

-----------------------------------------------------------------------------
(* The ordered map. *)

\* A sequence taken apart at one of its elements.
LEMMA Parts ==
    ASSUME NEW S, NEW b \in Seq(S), NEW a \in Seq(S), NEW k \in S
    PROVE  LET s == (b \o <<k>>) \o a
           IN  /\ s \in Seq(S) /\ Len(s) = Len(b) + 1 + Len(a) /\ s[Len(b) + 1] = k
               /\ SubSeq(s, 1, Len(b)) = b
               /\ SubSeq(s, Len(b) + 2, Len(s)) = a
<1> DEFINE c == b \o <<k>>
           s == c \o a
           n == Len(b)
           m == Len(a)
<1>1. <<k>> \in Seq(S) /\ Len(<<k>>) = 1 /\ <<k>>[1] = k /\ n \in Nat /\ m \in Nat
  BY LenProperties
<1>2. /\ c \in Seq(S) /\ Len(c) = n + 1
      /\ \A i \in 1 .. n + 1 : c[i] = IF i <= n THEN b[i] ELSE <<k>>[i - n]
  <2> DEFINE o == <<k>>
  <2>1. o \in Seq(S) /\ Len(o) = 1
    BY <1>1
  <2> HIDE DEF o
  <2>2. /\ b \o o \in Seq(S) /\ Len(b \o o) = Len(b) + Len(o)
        /\ \A i \in 1 .. Len(b) + Len(o) :
              (b \o o)[i] = IF i <= Len(b) THEN b[i] ELSE o[i - Len(b)]
    BY <2>1, ConcatProperties
  <2> QED
    BY <2>1, <2>2 DEF o
<1> HIDE DEF c
<1>3. /\ s \in Seq(S) /\ Len(s) = n + 1 + m
      /\ \A i \in 1 .. n + 1 + m : s[i] = IF i <= n + 1 THEN c[i] ELSE a[i - (n + 1)]
  <2>1. /\ c \o a \in Seq(S) /\ Len(c \o a) = Len(c) + Len(a)
        /\ \A i \in 1 .. Len(c) + Len(a) :
              (c \o a)[i] = IF i <= Len(c) THEN c[i] ELSE a[i - Len(c)]
    <3>1. c \in Seq(S)
      BY <1>2
    <3> QED
      BY <3>1, ConcatProperties
  <2> QED
    BY <1>2, <2>1
<1> HIDE DEF s, n, m
<1>4. /\ \A i \in 1 .. n : s[i] = b[i] /\ b[i] \in S
      /\ \A i \in 1 .. m : s[n + 1 + i] = a[i] /\ a[i] \in S
      /\ s[n + 1] = k
  <2>1. ASSUME NEW i \in 1 .. n PROVE s[i] = b[i] /\ b[i] \in S
    <3>1. i \in 1 .. n + 1 + m /\ i <= n + 1 /\ i \in 1 .. n + 1 /\ i <= n
      BY <1>1
    <3>2. b[i] \in S
      BY ElementOfSeq DEF n
    <3> QED
      BY <1>2, <1>3, <3>1, <3>2
  <2>2. ASSUME NEW i \in 1 .. m PROVE s[n + 1 + i] = a[i] /\ a[i] \in S
    <3>1. n + 1 + i \in 1 .. n + 1 + m /\ ~(n + 1 + i <= n + 1) /\ (n + 1 + i) - (n + 1) = i
      BY <1>1
    <3>2. a[i] \in S
      BY ElementOfSeq DEF m
    <3> QED
      BY <1>3, <3>1, <3>2
  <2>3. s[n + 1] = k
    <3>1. n + 1 \in 1 .. n + 1 + m /\ n + 1 \in 1 .. n + 1 /\ ~(n + 1 <= n) /\ (n + 1) - n = 1
          /\ n + 1 <= n + 1
      BY <1>1
    <3> QED
      BY <1>1, <1>2, <1>3, <3>1
  <2> QED
    BY <2>1, <2>2, <2>3
<1>5. SubSeq(s, 1, n) = b
  <2> DEFINE u == SubSeq(s, 1, n)
  <2>1. /\ u \in Seq(S) /\ Len(u) = (IF 1 <= n THEN n - 1 + 1 ELSE 0)
        /\ \A i \in 1 .. n - 1 + 1 : u[i] = s[1 + i - 1]
    <3>1. 1 \in Int /\ n \in Int /\ \A i \in 1 .. n : s[i] \in S
      BY <1>1, <1>4
    <3> QED
      BY <3>1, SubSeqProperties
  <2> HIDE DEF u
  <2>2. Len(u) = n /\ \A i \in 1 .. n : u[i] = s[i]
    BY <1>1, <2>1
  <2>3. \A i \in 1 .. Len(u) : u[i] = b[i]
    BY <1>4, <2>2
  <2>4. u = b
    BY <2>1, <2>2, <2>3, SeqEqual DEF n
  <2> QED
    BY <2>4 DEF u
<1>6. SubSeq(s, n + 2, Len(s)) = a
  <2> DEFINE l == Len(s)
             f == n + 2
             u == SubSeq(s, f, l)
  <2>1. l = n + 1 + m /\ l \in Int /\ f \in Int
    BY <1>1, <1>3
  <2>2. ASSUME NEW i \in f .. l PROVE s[i] \in S
    <3>1. i \in 1 .. Len(s)
      BY <1>1, <1>3, <2>2
    <3> QED
      BY <1>3, <3>1, ElementOfSeq
  <2>3. /\ u \in Seq(S) /\ Len(u) = (IF f <= l THEN l - f + 1 ELSE 0)
        /\ \A i \in 1 .. l - f + 1 : u[i] = s[f + i - 1]
    <3> HIDE DEF f, l
    <3> QED
      BY <2>1, <2>2, SubSeqProperties
  <2> HIDE DEF u, l
  <2>4. Len(u) = m
    BY <1>1, <2>1, <2>3
  <2>5. ASSUME NEW i \in 1 .. Len(u) PROVE u[i] = a[i]
    <3>1. i \in 1 .. l - f + 1 /\ f + i - 1 = n + 1 + i /\ i \in 1 .. m
      BY <1>1, <2>1, <2>4
    <3> QED
      BY <1>4, <2>3, <3>1
  <2>6. u = a
    BY <2>3, <2>4, <2>5, SeqEqual DEF m
  <2> QED
    BY <2>6 DEF u, l
<1> QED
  BY <1>3, <1>4, <1>5, <1>6 DEF s, c, n, m

\* Where a key is in the order, and the order without it.
LEMMA WithoutOne ==
    ASSUME NEW e \in Seq(Entry), Distinct(e), NEW i \in 1 .. Len(e), NEW k \in Key, e[i] = k
    PROVE  LET ks == Keys(e)
           IN  /\ k \in ToSet(ks) /\ ks # <<>>
               /\ RemoveAt(ks, CHOOSE j \in 1 .. Len(ks) : ks[j] = k) = Before(e, i) \o After(e, i)
               /\ After(e, i) = <<>> => Before(e, i) \o After(e, i) = Front(ks)
               /\ Before(e, i) = <<>> => Before(e, i) \o After(e, i) = Tail(ks)
<1> DEFINE b == Before(e, i)
           a == After(e, i)
           ks == Keys(e)
           p == CHOOSE j \in 1 .. Len(ks) : ks[j] = k
<1>1. k # Gone
  BY SizesAssumption
<1>2. b \in Seq(Key) /\ a \in Seq(Key) /\ ks = (b \o <<k>>) \o a
  BY <1>1, KeysAround
<1> HIDE DEF b, a
<1>3. /\ ks \in Seq(Key) /\ Len(ks) = Len(b) + 1 + Len(a) /\ ks[Len(b) + 1] = k
      /\ SubSeq(ks, 1, Len(b)) = b
      /\ SubSeq(ks, Len(b) + 2, Len(ks)) = a
  <2> HIDE DEF ks
  <2> QED
    BY <1>2, Parts
<1>4. Len(b) \in Nat /\ Len(a) \in Nat /\ Len(b) + 1 \in 1 .. Len(ks) /\ DOMAIN ks = 1 .. Len(ks)
  <2>1. Len(b) \in Nat /\ Len(a) \in Nat
    BY <1>2, LenProperties
  <2> HIDE DEF ks
  <2> QED
    BY <1>3, <2>1, LenProperties
<1>5. Distinct(ks)
  BY KeysDistinct
<1> HIDE DEF ks
<1>6. p = Len(b) + 1
  <2>1. p \in 1 .. Len(ks) /\ ks[p] = k
    BY <1>3, <1>4
  <2> HIDE DEF p
  <2> QED
    BY <1>1, <1>3, <1>4, <1>5, <2>1 DEF Distinct
<1> HIDE DEF p
<1>7. RemoveAt(ks, p) = b \o a
  <2>1. RemoveAt(ks, p) = SubSeq(ks, 1, p - 1) \o SubSeq(ks, p + 1, Len(ks))
    BY DEF RemoveAt
  <2>2. p - 1 = Len(b) /\ p + 1 = Len(b) + 2
    BY <1>4, <1>6
  <2> QED
    BY <1>3, <2>1, <2>2
<1>8. k \in ToSet(ks) /\ ks # <<>>
  <2>1. k \in ToSet(ks)
    BY <1>3, <1>4 DEF ToSet
  <2>2. Len(ks) # 0
    BY <1>3, <1>4
  <2> QED
    BY <2>1, <2>2
<1>9. ASSUME a = <<>> PROVE b \o a = Front(ks)
  <2>1. Len(ks) - 1 = Len(b)
    <3>1. Len(a) = 0
      BY <1>9
    <3> QED
      BY <1>3, <1>4, <3>1
  <2>2. Front(ks) = b
    BY <1>3, <2>1 DEF Front
  <2>3. b \o <<>> = b
    BY <1>2, ConcatEmptySeq
  <2> QED
    BY <1>9, <2>2, <2>3
<1>10. ASSUME b = <<>> PROVE b \o a = Tail(ks)
  <2>1. Len(b) + 2 = 2
    BY <1>10
  <2>2. Tail(ks) = SubSeq(ks, 2, Len(ks))
    BY <1>3, <1>8, TailIsSubSeq
  <2>3. <<>> \o a = a
    BY <1>2, ConcatEmptySeq
  <2> QED
    BY <1>3, <1>10, <2>1, <2>2, <2>3
<1> QED
  BY <1>7, <1>8, <1>9, <1>10 DEF p, ks, a, b

\* Nothing is after the last entry.
LEMMA NothingAfter ==
    ASSUME NEW e \in Seq(Entry)
    PROVE  After(e, Len(e)) = <<>>
<1>1. Len(e) \in Nat
  BY LenProperties
<1>2. SubSeq(e, Len(e) + 1, Len(e)) = <<>>
  <2>1. Len(e) + 1 \in Int /\ Len(e) \in Int /\ Len(e) < Len(e) + 1
    BY <1>1
  <2> QED
    BY <2>1, SubSeqEmpty
<1> QED
  BY <1>2, KeysEmpty DEF After

\* The helpers on sequences are those of OrderedMap.
LEMMA MapHelpers ==
    /\ \A s : Map!ToSet(s) = ToSet(s) /\ Map!Front(s) = Front(s)
    /\ \A s, i : Map!RemoveAt(s, i) = RemoveAt(s, i)
  BY DEF Map!ToSet, ToSet, Map!Front, Front, Map!RemoveAt, RemoveAt

\* The order of the map: a sequence of keys is not what stands for lost ones.
Order(x) == IF Intact(x) THEN Keys(x.entries) ELSE Lost

LEMMA OrderOfSound ==
    ASSUME NEW x, Sound(x)
    PROVE  Order(x) = Keys(x.entries) /\ Order(x) # Lost
<1>1. x \in Dicts /\ Intact(x)
  BY SoundIsIntact DEF Sound
<1>2. Keys(x.entries) \in Seq(Key)
  <2>1. x.entries \in Seq(Entry)
    BY <1>1, Counts
  <2> QED
    BY <2>1, KeysType
<1> QED
  BY <1>1, <1>2, LostAssumption DEF Order

\* What the operations of the map say of a dictionary that has its entries, before and after.
LEMMA MapMeans ==
    ASSUME Sound(d), Sound(d')
    PROVE  LET order == Keys(d.entries)
               later == Keys(d'.entries)
               Less(k) == RemoveAt(order, CHOOSE i \in 1 .. Len(order) : order[i] = k)
           IN  /\ \A k \in Key : later = Having(order, k) => Map!Set(k)
               /\ \A j, k \in Key : later = Having(Having(order, j), k) => Map!Update(j, k)
               /\ \A k \in Key : k \in ToSet(order) /\ later = Less(k) => Map!Delete(k)
               /\ \A k \in Key : k \in ToSet(order) /\ later = Append(Less(k), k) => Map!MoveToLast(k)
               /\ \A k \in Key : k \in ToSet(order) /\ later = <<k>> \o Less(k) => Map!MoveToFirst(k)
               /\ order # <<>> /\ later = Front(order) => Map!PopLast
               /\ order # <<>> /\ later = Tail(order) => Map!PopFirst
               /\ Order(d) # Lost
               /\ later = order => UNCHANGED Order(d)
<1> DEFINE o == IF Intact(d) THEN Keys(d.entries) ELSE Lost
           order == Keys(d.entries)
           later == Keys(d'.entries)
           Less(k) == RemoveAt(order, CHOOSE i \in 1 .. Len(order) : order[i] = k)
<1>1. o = order /\ o' = later /\ Order(d) # Lost
  <2>1. o = Order(d) /\ Order(d) # Lost /\ Order(d) = order
    BY OrderOfSound DEF Order
  <2>2. o' = Order(d')
    BY DEF Order, Intact, Ever
  <2>3. Order(d') = later
    BY OrderOfSound
  <2> QED
    BY <2>1, <2>2, <2>3
<1>2. ASSUME NEW k \in Key, later = Having(order, k) PROVE Map!Set(k)
  BY <1>1, <1>2, MapHelpers DEF Map!Set, Map!With, Having
<1>3. ASSUME NEW j \in Key, NEW k \in Key, later = Having(Having(order, j), k) PROVE Map!Update(j, k)
  BY <1>1, <1>3, MapHelpers DEF Map!Update, Map!With, Having
<1>4. ASSUME NEW k \in Key, k \in ToSet(order), later = Less(k) PROVE Map!Delete(k)
  BY <1>1, <1>4, MapHelpers DEF Map!Delete, Map!Without
<1>5. ASSUME NEW k \in Key, k \in ToSet(order), later = Append(Less(k), k) PROVE Map!MoveToLast(k)
  BY <1>1, <1>5, MapHelpers DEF Map!MoveToLast, Map!Without
<1>6. ASSUME NEW k \in Key, k \in ToSet(order), later = <<k>> \o Less(k) PROVE Map!MoveToFirst(k)
  BY <1>1, <1>6, MapHelpers DEF Map!MoveToFirst, Map!Without
<1>7. ASSUME order # <<>>, later = Front(order) PROVE Map!PopLast
  BY <1>1, <1>7, MapHelpers DEF Map!PopLast
<1>8. ASSUME order # <<>>, later = Tail(order) PROVE Map!PopFirst
  BY <1>1, <1>8 DEF Map!PopFirst
<1>9. later = order => UNCHANGED Order(d)
  BY <1>1 DEF Order
<1> HIDE DEF order, later, Less
<1> QED
  BY <1>1, <1>2, <1>3, <1>4, <1>5, <1>6, <1>7, <1>8, <1>9 DEF order, later, Less

\* New and prebuilt dictionaries are ordered maps.
LEMMA MapInit ==
    ASSUME DictInit
    PROVE  Map!Init
<1> DEFINE order == Keys(d.entries)
<1>1. SUFFICES order \in BoundedSeq(Key, 2) /\ IsInjective(order)
  BY SoundInit, SoundIsIntact
     DEF Map!Init, Map!BoundedSeq, Map!SeqOf, BoundedSeq, SeqOf, Map!IsInjective, IsInjective
<1>2. ASSUME d.entries = <<>> PROVE order \in BoundedSeq(Key, 2) /\ IsInjective(order)
  <2>1. order = <<>>
    BY <1>2, KeysEmpty
  <2>2. <<>> \in [1 .. 0 -> Key] /\ 0 \in 0 .. 2 /\ DOMAIN <<>> = {}
    OBVIOUS
  <2> HIDE DEF order
  <2> QED
    BY <2>1, <2>2 DEF BoundedSeq, SeqOf, IsInjective
<1>3. CASE d = Fresh(<<>>, 0)
  <2>1. <<>> \in Seq(Entry) /\ 0 \in Nat
    OBVIOUS
  <2> QED
    BY <1>2, <1>3, <2>1, FreshIs
<1>4. CASE \E length \in Estimates : d = Sized(length)
  <2>1. PICK length \in Estimates : d = Sized(length)
    BY <1>4
  <2>2. d.entries = <<>>
    BY <2>1, SizedIs
  <2> QED
    BY <1>2, <2>2
<1>5. CASE \E j, k \in Key : j # k /\ d = Fresh(<<j, k>>, 2)
  <2>1. PICK j \in Key, k \in Key : j # k /\ d = Fresh(<<j, k>>, 2)
    BY <1>5
  <2> DEFINE pair == <<j, k>>
  <2>2. /\ pair \in Seq(Entry) /\ Len(pair) = 2 /\ pair[1] = j /\ pair[2] = k /\ d = Fresh(pair, 2)
        /\ pair \in [1 .. 2 -> Key] /\ DOMAIN pair = 1 .. 2
    BY <2>1 DEF Entry
  <2> HIDE DEF pair
  <2>3. \A i \in 1 .. Len(pair) : pair[i] # Gone
    BY <2>2, SizesAssumption
  <2>4. order = pair
    BY <2>2, <2>3, FreshIs, KeysOfValid
  <2> HIDE DEF order
  <2>5. order \in BoundedSeq(Key, 2)
    BY <2>2, <2>4 DEF BoundedSeq, SeqOf
  <2>6. IsInjective(order)
    BY <2>1, <2>2, <2>4 DEF IsInjective
  <2> QED
    BY <2>5, <2>6 DEF order
<1> QED
  BY <1>3, <1>4, <1>5 DEF DictInit

\* Every operation does to the order what the map does, or leaves it as it is.
LEMMA MapStep ==
    ASSUME Sound(d), Right(d), DictNext, ~Clear, ~ClearFails, Sound(d')
    PROVE  Map!Next \/ UNCHANGED Order(d)
<1> DEFINE x == Ensured(d)
           order == Keys(d.entries)
           later == Keys(d'.entries)
           Less(k) == RemoveAt(order, CHOOSE i \in 1 .. Len(order) : order[i] = k)
<1>1. Sound(x) /\ x.n # 0 /\ Right(x) /\ x.entries = d.entries
  BY SoundEnsured, RightEnsured
<1>2. d.entries \in Seq(Entry) /\ Distinct(d.entries)
  BY Counts DEF Sound, Right
<1>3. ASSUME NEW k \in Key, Set(k) PROVE Map!Set(k)
  <2>1. d' = SetItem(x, k)
    BY <1>3 DEF Set
  <2> HIDE DEF x
  <2>2. later = Having(order, k)
    BY <1>1, <2>1, KeysSetItem
  <2> QED
    BY <2>2, MapMeans
<1>4. ASSUME NEW j \in Key, NEW k \in Key, Update(j, k) PROVE Map!Update(j, k) /\ j # k
  <2>1. d' = UpdatedBy(x, j, k) /\ j # k
    BY <1>4 DEF Update
  <2> HIDE DEF x
  <2>2. later = Having(Having(order, j), k)
    BY <1>1, <2>1, RightUpdatedBy
  <2> QED
    BY <2>1, <2>2, MapMeans
<1>5. ASSUME NEW j \in Key, NEW k \in Key, UpdateFails(j, k) PROVE Map!Set(j) \/ later = order
  <2> DEFINE y == Prepared(x)
             z == SetItem(y, j)
  <2>1. /\ Sound(y) /\ y.n # 0 /\ Keys(y.entries) = order
        /\ later = Keys(y.entries) \/ later = Keys(z.entries)
    BY <1>5, UpdateFailsStep
  <2> HIDE DEF x
  <2>2. Right(y)
    BY <1>1, RightPrepared
  <2> HIDE DEF y
  <2>3. Keys(z.entries) = Having(order, j)
    BY <2>1, <2>2, KeysSetItem
  <2> HIDE DEF z
  <2> QED
    BY <2>1, <2>3, MapMeans
<1>6. ASSUME NEW k \in Key, Found(x, k)
      PROVE  k \in ToSet(order) /\ Less(k) = Without(x, k)
  <2> DEFINE i == Position(x, k)
  <2>1. i \in 1 .. Len(d.entries) /\ d.entries[i] = k
    BY <1>6, FoundIn
  <2>2. Without(x, k) = Before(d.entries, i) \o After(d.entries, i)
    BY <1>1 DEF Without
  <2> HIDE DEF x, i
  <2> QED
    BY <1>2, <2>1, <2>2, WithoutOne
<1>7. ASSUME NEW k \in Key, Delete(k) \/ DeleteFails(k) PROVE Map!Delete(k)
  <2>1. Found(x, k) /\ later = Without(x, k)
    BY <1>7, DeleteStep
  <2> HIDE DEF x
  <2> QED
    BY <1>6, <2>1, MapMeans
<1>8. ASSUME NEW k \in Key, MoveToLastFails(k) PROVE Map!Delete(k)
  <2>1. Found(x, k) /\ later = Without(x, k)
    BY <1>8, MoveToLastFailsStep DEF MoveToLastFails
  <2> HIDE DEF x
  <2> QED
    BY <1>6, <2>1, MapMeans
<1>9. ASSUME NEW k \in Key, MoveToLast(k) PROVE Map!MoveToLast(k) \/ later = order
  <2>1. /\ Found(x, k)
        /\ later = IF Position(x, k) = Ever(x) THEN order ELSE Append(Without(x, k), k)
    BY <1>9, MoveToLastStep DEF MoveToLast
  <2> HIDE DEF x
  <2> QED
    BY <1>6, <2>1, MapMeans
<1>10. ASSUME NEW k \in Key, MoveToFirst(k) PROVE Map!MoveToFirst(k)
  <2> DEFINE y == Ensured(Tidied(d))
             i == Position(y, k)
  <2>1. /\ Sound(y) /\ y.n # 0 /\ Found(y, k) /\ Keys(y.entries) = order
        /\ later = <<k>> \o Without(y, k)
    BY <1>10, MoveToFirstStep
  <2>2. Right(y)
    BY SoundTidied, RightTidied, RightEnsured
  <2> HIDE DEF y
  <2>3. /\ y.entries \in Seq(Entry) /\ Distinct(y.entries) /\ i \in 1 .. Len(y.entries)
        /\ y.entries[i] = k
    BY <2>1, <2>2, Counts, FoundAt DEF Sound, Right, Ever
  <2>4. Without(y, k) = Before(y.entries, i) \o After(y.entries, i)
    BY DEF Without
  <2> HIDE DEF i
  <2>5. /\ k \in ToSet(Keys(y.entries))
        /\ RemoveAt(Keys(y.entries),
                    CHOOSE j \in 1 .. Len(Keys(y.entries)) : Keys(y.entries)[j] = k)
              = Without(y, k)
    BY <2>3, <2>4, WithoutOne
  <2>6. k \in ToSet(order) /\ Less(k) = Without(y, k)
    BY <2>1, <2>5
  <2> QED
    BY <2>1, <2>6, MapMeans
<1>11. ASSUME PopLast \/ PopLastFails PROVE Map!PopLast \/ later = order
  <2> DEFINE y == LastFound(x)
             i == Ever(y)
             k == y.entries[i]
  <2>1. /\ Sound(y) /\ y.n # 0 /\ i \in 1 .. i /\ k # Gone
        /\ Keys(y.entries) = order /\ y.entries \in Seq(Entry)
        /\ d' = y \/ later = Before(y.entries, i) \o After(y.entries, i)
    BY <1>11, PopLastStep
  <2>2. Live(x) > 0
    BY <1>11, SoundEnsured DEF PopLast, PopLastFails
  <2> HIDE DEF x
  <2>3. Distinct(y.entries)
    BY <1>1, <2>2, RightTrimmed DEF Right
  <2>4. i = Len(y.entries)
    BY DEF Ever
  <2> HIDE DEF y
  <2>5. After(y.entries, i) = <<>>
    BY <2>1, <2>4, NothingAfter
  <2>6. i \in 1 .. Len(y.entries) /\ k \in Key
    <3>1. i \in 1 .. Len(y.entries)
      BY <2>1, <2>4
    <3> QED
      BY <2>1, <3>1, ElementOfSeq DEF Entry
  <2> HIDE DEF i
  <2>7. y.entries[i] = k
    OBVIOUS
  <2> HIDE DEF k
  <2>8. order # <<>> /\ Before(y.entries, i) \o After(y.entries, i) = Front(order)
    BY <2>1, <2>3, <2>5, <2>6, <2>7, WithoutOne
  <2> QED
    BY <2>1, <2>8, MapMeans
<1>12. ASSUME PopFirst \/ PopFirstFails PROVE Map!PopFirst
  <2> DEFINE y == Ensured(Iterated(d))
             i == FirstValid(y)
             k == y.entries[i]
  <2>1. /\ i \in 1 .. Ever(y) /\ k # Gone /\ y.entries = d.entries
        /\ \A j \in 1 .. i - 1 : y.entries[j] = Gone
        /\ later = Before(y.entries, i) \o After(y.entries, i)
    BY <1>12, PopFirstStep
  <2>2. i \in 1 .. Len(d.entries) /\ k = d.entries[i] /\ \A j \in 1 .. i - 1 : d.entries[j] = Gone
    BY <2>1 DEF Ever
  <2>3. later = Before(d.entries, i) \o After(d.entries, i)
    BY <2>1
  <2>4. k \in Key
    <3> HIDE DEF i, y
    <3> QED
      BY <1>2, <2>1, <2>2, ElementOfSeq DEF Entry
  <2> HIDE DEF k, i, y
  <2>5. Before(d.entries, i) = <<>>
    BY <1>2, <2>2, NothingBefore
  <2>6. order # <<>> /\ Before(d.entries, i) \o After(d.entries, i) = Tail(order)
    BY <1>2, <2>2, <2>4, <2>5, WithoutOne
  <2> QED
    BY <2>3, <2>6, MapMeans
<1>13. ASSUME \/ \E k \in Key : SetFails(k) \/ MoveToFirstFails(k)
              \/ Lookup \/ Iterate \/ Copy
       PROVE  later = order
  BY <1>13, SetFailsStep, MoveToFirstFailsStep, LookupStep, IterateStep, CopyStep
<1>14. /\ Order(d) # Lost
       /\ later = order => UNCHANGED Order(d)
  BY MapMeans
<1> HIDE DEF x, order, later, Less
<1>15. ASSUME NEW k \in Key,
              \/ Set(k) \/ SetFails(k) \/ Delete(k) \/ DeleteFails(k)
              \/ MoveToLast(k) \/ MoveToLastFails(k) \/ MoveToFirst(k) \/ MoveToFirstFails(k)
       PROVE  Map!Next \/ later = order
  BY <1>3, <1>7, <1>8, <1>9, <1>10, <1>13, <1>14, <1>15 DEF Map!Next, Order
<1>16. ASSUME NEW j \in Key, NEW k \in Key, Update(j, k) \/ UpdateFails(j, k)
       PROVE  Map!Next \/ later = order
  BY <1>4, <1>5, <1>14, <1>16 DEF Map!Next, Order
<1>17. ASSUME PopLast \/ PopLastFails \/ PopFirst \/ PopFirstFails
       PROVE  Map!Next \/ later = order
  BY <1>11, <1>12, <1>14, <1>17 DEF Map!Next, Order
<1>18. Map!Next \/ later = order
  BY <1>13, <1>15, <1>16, <1>17 DEF DictNext
<1> QED
  BY <1>14, <1>18

\* What is proved of all steps, also of a clear() that succeeds, from whatever state, or fails.
LEMMA MapNext ==
    ASSUME RightInv, [DictNext]_d
    PROVE  [Map!Next]_(Order(d)) /\ (Intact(d) /\ ~Intact(d)' => ClearFails \/ UNCHANGED d)
<1>1. DictInv /\ (Intact(d) => Sound(d) /\ Right(d))
  BY DEF RightInv, DictInv
<1>2. Sound(d') \/ ClearFails \/ UNCHANGED d
  BY <1>1, SoundNext
<1>3. Intact(d)' <=> Intact(d')
  BY DEF Intact, Ever
<1>4. (Order(d))' = Order(d')
  BY <1>3 DEF Order
<1>5. Intact(d) /\ ~Intact(d)' => ClearFails \/ UNCHANGED d
  BY <1>2, <1>3, SoundIsIntact
<1>6. CASE UNCHANGED d
  <2>1. Order(d') = Order(d)
    BY <1>6 DEF Order, Intact, Ever
  <2> QED
    BY <1>4, <1>5, <2>1
<1>7. CASE ClearFails
  <2>1. ~Intact(d')
    BY <1>1, <1>7, ClearFailsStep DEF DictInv
  <2>2. (Order(d))' = Lost
    BY <1>4, <2>1 DEF Order
  <2>3. Map!Lose
    BY <1>3, <2>1 DEF Map!Lose
  <2> QED
    BY <1>5, <2>3 DEF Map!Next
<1>8. CASE Clear
  <2>1. Sound(d') /\ d'.entries = <<>>
    BY <1>8, ClearStep
  <2>2. Intact(d') /\ Keys(d'.entries) = <<>>
    BY <2>1, SoundIsIntact, KeysEmpty
  <2>3. Map!Clear
    BY <1>3, <2>2 DEF Map!Clear
  <2> QED
    BY <1>5, <2>3 DEF Map!Next
<1>9. CASE DictNext /\ ~Clear /\ ~ClearFails /\ ~UNCHANGED d
  <2>1. Intact(d)
    BY <1>9 DEF DictNext
  <2>2. Map!Next \/ UNCHANGED Order(d)
    BY <1>1, <1>2, <1>9, <2>1, MapStep
  <2> QED
    BY <1>5, <2>2
<1> QED
  BY <1>6, <1>7, <1>8, <1>9

\* The dictionary implements the ordered map, while the room that it makes fits: through all
\* operations and all MemoryErrors.  What a clear() without memory does to it is Map!Lose,
\* and it alone loses the entries.
THEOREM DictIsAnOrderedMap == DictSpec /\ [][NewRoomsFit]_d => ImplementsOrderedMap
<1>1. DictInit => RightInv /\ Map!Init
  BY InvInit, MapInit
<1>2. RightInv /\ [DictNext]_d /\ [NewRoomsFit]_d => RightInv'
  BY RightNext
<1>3. RightInv /\ [DictNext]_d => [Map!Next]_(IF Intact(d) THEN Keys(d.entries) ELSE Lost)
  BY MapNext DEF Order
<1>4. RightInv /\ [DictNext]_d => [Intact(d) /\ ~Intact(d)' => ClearFails]_d
  BY MapNext
<1> QED
  BY <1>1, <1>2, <1>3, <1>4, PTL DEF DictSpec, ImplementsOrderedMap, Map!Spec

\* With so few keys that a table of bytes has room for every dictionary it always does,
\* without any hypothesis on its steps.
THEOREM DictIsAlwaysAnOrderedMap ==
    ASSUME FewKeys
    PROVE  DictSpec => ImplementsOrderedMap
<1>1. DictInit => RightInv /\ Map!Init
  BY InvInit, MapInit
<1>2. RightInv /\ [DictNext]_d => RightInv'
  BY FewKeysNext, RightNext
<1>3. RightInv /\ [DictNext]_d => [Map!Next]_(IF Intact(d) THEN Keys(d.entries) ELSE Lost)
  BY MapNext DEF Order
<1>4. RightInv /\ [DictNext]_d => [Intact(d) /\ ~Intact(d)' => ClearFails]_d
  BY MapNext
<1> QED
  BY <1>1, <1>2, <1>3, <1>4, PTL DEF DictSpec, ImplementsOrderedMap, Map!Spec
=============================================================================
