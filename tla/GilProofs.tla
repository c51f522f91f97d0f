----------------------------- MODULE GilProofs -----------------------------
(***************************************************************************)
(* The properties of the global interpreter lock for any number of threads,*)
(* any polling budget and any number of forks.                             *)
(***************************************************************************)
EXTENDS Gil, FiniteSetTheorems, TLAPS

\* Who holds the two pthread mutexes is told by the program counters alone.
StealerHeld == \A t \in Threads : pc[t] \in HoldsStealer <=> stealer = t
MutHeld == \A t \in Threads : pc[t] \in HoldsMut <=> mut = t

\* Before RPyGilAllocate a single thread exists, and it is on the fast path.
SingleThreaded ==
    waiting = NotInitialized =>
        /\ mutexGil
        /\ \A t \in Threads : pc[t] \in {"unborn", "out", "acquire", "run"}
        /\ \A t, u \in Threads : pc[t] # "unborn" /\ pc[u] # "unborn" => t = u

CountedThreads == {t \in Threads : pc[t] \in Counted}

\* rpy_waiting_threads is never negative once initialized.
Count ==
    /\ waiting # NotInitialized => waiting \in Nat
    /\ WaitingCount

\* The part of the inductive invariant that does not count threads.
LockInv ==
    /\ MutualExclusion
    /\ OwnerHasBothHalves
    /\ NeverBothUnlocked
    /\ NeverLost
    /\ StealerHeld
    /\ MutHeld
    /\ SingleThreaded
    /\ NoAbort

Inv == TypeOK /\ LockInv /\ Count

-----------------------------------------------------------------------------
\* Every step is an action of a thread or a stutter.
LEMMA Cases ==
    ASSUME [Next]_vars
    PROVE  \/ \E t \in Threads :
                \/ Acquire(t) \/ SlowPath(t) \/ Poll(t) \/ PollRead(t)
                \/ PollTas(t) \/ Steal(t) \/ StealTas(t) \/ TimedLockWait(t)
                \/ TimedLockGet(t) \/ Leave(t) \/ LoopStop(t) \/ StopStealing(t)
                \/ YieldUnlock(t) \/ PollUnlock(t) \/ LoopStart(t) \/ CondWake(t)
                \/ Queue(t) \/ Release(t) \/ Return(t) \/ Exit(t) \/ Yield(t) \/ Fork(t)
           \/ \E t \in Threads, u \in Threads : StartThread(t, u)
           \/ UNCHANGED vars
BY DEF Next, Proceed, TakeMut, Interpret

\* Each action keeps every variable in its type.
LEMMA TypingStep == TypeOK /\ [Next]_vars => TypeOK'
<1> SUFFICES ASSUME TypeOK, [Next]_vars PROVE TypeOK'
  OBVIOUS
<1> USE ThreadsAssumption, BoundsAssumption DEF TypeOK, Goto, PCs, shared, locals
<1>1. ASSUME NEW t \in Threads, Acquire(t) PROVE TypeOK'
  BY <1>1 DEF Acquire, TestAndSet
<1>2. ASSUME NEW t \in Threads, SlowPath(t) PROVE TypeOK'
  BY <1>2 DEF SlowPath
<1>3. ASSUME NEW t \in Threads, Poll(t) PROVE TypeOK'
  BY <1>3 DEF Poll
<1>4. ASSUME NEW t \in Threads, PollRead(t) PROVE TypeOK'
  BY <1>4 DEF PollRead
<1>5. ASSUME NEW t \in Threads, PollTas(t) PROVE TypeOK'
  BY <1>5 DEF PollTas, TestAndSet
<1>6. ASSUME NEW t \in Threads, Steal(t) PROVE TypeOK'
  BY <1>6 DEF Steal
<1>7. ASSUME NEW t \in Threads, StealTas(t) PROVE TypeOK'
  BY <1>7 DEF StealTas, TestAndSet
<1>8. ASSUME NEW t \in Threads, TimedLockWait(t) PROVE TypeOK'
  BY <1>8 DEF TimedLockWait
<1>9. ASSUME NEW t \in Threads, TimedLockGet(t) PROVE TypeOK'
  BY <1>9 DEF TimedLockGet
<1>10. ASSUME NEW t \in Threads, Leave(t) PROVE TypeOK'
  BY <1>10 DEF Leave
<1>11. ASSUME NEW t \in Threads, LoopStop(t) PROVE TypeOK'
  BY <1>11 DEF LoopStop
<1>12. ASSUME NEW t \in Threads, StopStealing(t) PROVE TypeOK'
  BY <1>12 DEF StopStealing
<1>13. ASSUME NEW t \in Threads, YieldUnlock(t) PROVE TypeOK'
  BY <1>13 DEF YieldUnlock
<1>14. ASSUME NEW t \in Threads, PollUnlock(t) PROVE TypeOK'
  BY <1>14 DEF PollUnlock
<1>15. ASSUME NEW t \in Threads, LoopStart(t) PROVE TypeOK'
  BY <1>15 DEF LoopStart
<1>16. ASSUME NEW t \in Threads, CondWake(t) PROVE TypeOK'
  BY <1>16 DEF CondWake
<1>17. ASSUME NEW t \in Threads, Queue(t) PROVE TypeOK'
  BY <1>17 DEF Queue
<1>18. ASSUME NEW t \in Threads, Release(t) PROVE TypeOK'
  BY <1>18 DEF Release
<1>19. ASSUME NEW t \in Threads, Return(t) PROVE TypeOK'
  BY <1>19 DEF Return
<1>20. ASSUME NEW t \in Threads, Exit(t) PROVE TypeOK'
  BY <1>20 DEF Exit
<1>21. ASSUME NEW t \in Threads, Yield(t) PROVE TypeOK'
  BY <1>21 DEF Yield
<1>22. ASSUME NEW t \in Threads, Fork(t) PROVE TypeOK'
  <2>1. pc' \in [Threads -> PCs]
    BY <1>22 DEF Fork
  <2>2. forks' \in 0..MaxForks
    BY <1>22 DEF Fork
  <2>3. CASE waiting < 0
    BY <1>22, <2>1, <2>2, <2>3 DEF Fork
  <2>4. CASE ~(waiting < 0)
    BY <1>22, <2>1, <2>2, <2>4 DEF Fork
  <2> QED
    BY <2>3, <2>4
<1>23. ASSUME NEW t \in Threads, NEW u \in Threads, StartThread(t, u) PROVE TypeOK'
  BY <1>23 DEF StartThread
<1>24. CASE UNCHANGED vars
  BY <1>24 DEF vars
<1> QED
  BY <1>1, <1>2, <1>3, <1>4, <1>5, <1>6, <1>7, <1>8, <1>9, <1>10, <1>11,
     <1>12, <1>13, <1>14, <1>15, <1>16, <1>17, <1>18, <1>19, <1>20, <1>21,
     <1>22, <1>23, <1>24, Cases

\* Type correctness.
THEOREM Typing == SafeSpec => []TypeOK
<1>1. Init => TypeOK
  BY ThreadsAssumption, BoundsAssumption DEF Init, TypeOK, PCs, NotInitialized
<1> QED
  BY <1>1, TypingStep, PTL DEF SafeSpec

-----------------------------------------------------------------------------
\* Each action keeps who owns the GIL and its mutexes in step with the words
\* and flags in memory.
LEMMA LockInvStep == TypeOK /\ LockInv /\ Count /\ [Next]_vars => LockInv'
<1> SUFFICES ASSUME TypeOK, LockInv, Count, [Next]_vars PROVE LockInv'
  OBVIOUS
<1> USE ThreadsAssumption DEF TypeOK, LockInv, Goto, shared, locals, Owning,
      Owners, HoldsStealer, HoldsMut, MutualExclusion, OwnerHasBothHalves,
      NeverBothUnlocked, NeverLost, StealerHeld, MutHeld, SingleThreaded, NoAbort,
      Count, NotInitialized
<1>1. ASSUME NEW t \in Threads, Acquire(t) PROVE LockInv'
  BY <1>1 DEF Acquire, TestAndSet
<1>2. ASSUME NEW t \in Threads, SlowPath(t) PROVE LockInv'
  BY <1>2 DEF SlowPath
<1>3. ASSUME NEW t \in Threads, Poll(t) PROVE LockInv'
  BY <1>3 DEF Poll
<1>4. ASSUME NEW t \in Threads, PollRead(t) PROVE LockInv'
  BY <1>4 DEF PollRead
<1>5. ASSUME NEW t \in Threads, PollTas(t) PROVE LockInv'
  BY <1>5 DEF PollTas, TestAndSet
<1>6. ASSUME NEW t \in Threads, Steal(t) PROVE LockInv'
  BY <1>6 DEF Steal
<1>7. ASSUME NEW t \in Threads, StealTas(t) PROVE LockInv'
  BY <1>7 DEF StealTas, TestAndSet
<1>8. ASSUME NEW t \in Threads, TimedLockWait(t) PROVE LockInv'
  BY <1>8 DEF TimedLockWait
<1>9. ASSUME NEW t \in Threads, TimedLockGet(t) PROVE LockInv'
  BY <1>9 DEF TimedLockGet
<1>10. ASSUME NEW t \in Threads, Leave(t) PROVE LockInv'
  BY <1>10 DEF Leave
<1>11. ASSUME NEW t \in Threads, LoopStop(t) PROVE LockInv'
  BY <1>11 DEF LoopStop
<1>12. ASSUME NEW t \in Threads, StopStealing(t) PROVE LockInv'
  BY <1>12 DEF StopStealing
<1>13. ASSUME NEW t \in Threads, YieldUnlock(t) PROVE LockInv'
  BY <1>13 DEF YieldUnlock
<1>14. ASSUME NEW t \in Threads, PollUnlock(t) PROVE LockInv'
  BY <1>14 DEF PollUnlock
<1>15. ASSUME NEW t \in Threads, LoopStart(t) PROVE LockInv'
  BY <1>15 DEF LoopStart
<1>16. ASSUME NEW t \in Threads, CondWake(t) PROVE LockInv'
  BY <1>16 DEF CondWake
<1>17. ASSUME NEW t \in Threads, Queue(t) PROVE LockInv'
  BY <1>17 DEF Queue
<1>18. ASSUME NEW t \in Threads, Release(t) PROVE LockInv'
  BY <1>18 DEF Release
<1>19. ASSUME NEW t \in Threads, Return(t) PROVE LockInv'
  BY <1>19 DEF Return
<1>20. ASSUME NEW t \in Threads, Exit(t) PROVE LockInv'
  BY <1>20 DEF Exit
<1>21. ASSUME NEW t \in Threads, Yield(t) PROVE LockInv'
  BY <1>21 DEF Yield
<1>22. ASSUME NEW t \in Threads, Fork(t) PROVE LockInv'
  BY <1>22 DEF Fork
<1>23. ASSUME NEW t \in Threads, NEW u \in Threads, StartThread(t, u) PROVE LockInv'
  BY <1>23 DEF StartThread
<1>24. CASE UNCHANGED vars
  BY <1>24 DEF vars
<1> QED
  BY <1>1, <1>2, <1>3, <1>4, <1>5, <1>6, <1>7, <1>8, <1>9, <1>10, <1>11,
     <1>12, <1>13, <1>14, <1>15, <1>16, <1>17, <1>18, <1>19, <1>20, <1>21,
     <1>22, <1>23, <1>24, Cases

-----------------------------------------------------------------------------
\* Only SlowPath and Leave change the counter, StartThread and Fork reset it
\* when nobody is counted; every other action leaves counter and set alone.
LEMMA CountStep == TypeOK /\ LockInv /\ Count /\ [Next]_vars => Count'
<1> SUFFICES ASSUME TypeOK, LockInv, Count, [Next]_vars PROVE Count'
  OBVIOUS
<1> DEFINE Same == waiting' = waiting /\ CountedThreads' = CountedThreads
<1> USE ThreadsAssumption DEF Count, WaitingCount, NotInitialized
<1>fin. IsFiniteSet(CountedThreads)
  BY FS_Subset DEF CountedThreads
<1>same. Same => Count'
  BY DEF CountedThreads
<1> HIDE DEF Same
<1>enter. ASSUME NEW t \in Threads, SlowPath(t) PROVE Count'
  <2>0. waiting # NotInitialized
    BY <1>enter DEF SlowPath, Goto, LockInv, SingleThreaded
  <2>1. waiting \in Nat /\ waiting' = waiting + 1
    BY <1>enter, <2>0 DEF SlowPath
  <2>2. t \notin CountedThreads /\ CountedThreads' = CountedThreads \cup {t}
    BY <1>enter, <2>1 DEF SlowPath, Goto, TypeOK, CountedThreads, Counted
  <2>3. Cardinality(CountedThreads') = Cardinality(CountedThreads) + 1
    BY <1>fin, <2>2, FS_AddElement
  <2> QED
    BY <2>1, <2>3 DEF CountedThreads
<1>leave. ASSUME NEW t \in Threads, Leave(t) PROVE Count'
  <2>1. t \in CountedThreads /\ CountedThreads' = CountedThreads \ {t}
    BY <1>leave DEF Leave, Goto, TypeOK, CountedThreads, Counted
  <2>2. waiting # NotInitialized
    BY <2>1 DEF LockInv, SingleThreaded, CountedThreads, Counted
  <2>3. waiting \in Nat /\ waiting' = waiting - 1
    BY <1>leave, <2>2 DEF Leave
  <2>4. Cardinality(CountedThreads') = Cardinality(CountedThreads) - 1
    BY <1>fin, <2>1, FS_RemoveElement
  <2>5. Cardinality(CountedThreads') \in Nat
    BY <1>fin, <2>1, FS_RemoveElement, FS_CardinalityType
  <2> QED
    BY <2>2, <2>3, <2>4, <2>5 DEF CountedThreads
<1>fork. ASSUME NEW t \in Threads, Fork(t) PROVE Count'
  <2>1. CASE waiting < 0
    BY <1>fork, <2>1 DEF Fork, TypeOK
  <2>2. CASE ~(waiting < 0)
    <3>1. CountedThreads' = {}
      BY <1>fork DEF Fork, CountedThreads, Counted
    <3> QED
      BY <1>fork, <2>2, <3>1, FS_EmptySet DEF Fork, CountedThreads
  <2> QED
    BY <2>1, <2>2
<1>start. ASSUME NEW t \in Threads, NEW u \in Threads, StartThread(t, u) PROVE Count'
  <2>1. CountedThreads' = CountedThreads
    BY <1>start DEF StartThread, TypeOK, CountedThreads, Counted
  <2>2. CASE waiting < 0
    <3>1. CountedThreads = {}
      BY <2>2 DEF LockInv, SingleThreaded, CountedThreads, Counted, TypeOK
    <3> QED
      BY <1>start, <2>1, <2>2, <3>1, FS_EmptySet DEF StartThread, CountedThreads
  <2>3. CASE ~(waiting < 0)
    BY <1>start, <1>same, <2>1, <2>3 DEF StartThread, Same
  <2> QED
    BY <2>2, <2>3
<1>other. ASSUME NEW t \in Threads,
                 \/ Acquire(t) \/ Poll(t) \/ PollRead(t) \/ PollTas(t)
                 \/ Steal(t) \/ StealTas(t) \/ TimedLockWait(t) \/ TimedLockGet(t)
                 \/ LoopStop(t) \/ StopStealing(t)
          PROVE  Same
  BY <1>other DEF Same, CountedThreads, Counted, TypeOK, Goto, shared, TestAndSet, Acquire,
     Poll, PollRead, PollTas, Steal, StealTas, TimedLockWait,
     TimedLockGet, LoopStop, StopStealing
<1>others. ASSUME NEW t \in Threads,
                  \/ YieldUnlock(t) \/ PollUnlock(t) \/ LoopStart(t) \/ CondWake(t)
                  \/ Queue(t) \/ Release(t) \/ Return(t) \/ Exit(t) \/ Yield(t)
           PROVE  Same
  BY <1>others DEF Same, CountedThreads, Counted, TypeOK, Goto, shared, YieldUnlock, PollUnlock,
     LoopStart, CondWake, Queue, Release, Return, Exit, Yield
<1>stutter. CASE UNCHANGED vars
  BY <1>stutter, <1>same DEF Same, vars, CountedThreads
<1> QED
  BY <1>same, <1>enter, <1>leave, <1>fork, <1>start, <1>other, <1>others, <1>stutter, Cases

-----------------------------------------------------------------------------
\* The inductive invariant: the lock and the counter need each other (no thread
\* can be counted before the GIL is allocated, and the count says who waits).
LEMMA Invariance == SafeSpec => []Inv
<1>1. Init => Inv
  <2> SUFFICES ASSUME Init PROVE Inv
    OBVIOUS
  <2>1. TypeOK
    BY ThreadsAssumption, BoundsAssumption DEF Init, TypeOK, PCs, NotInitialized
  <2>2. LockInv
    BY ThreadsAssumption DEF Init, LockInv, Owning, Owners, HoldsStealer, HoldsMut,
       MutualExclusion, OwnerHasBothHalves, NeverBothUnlocked, NeverLost, StealerHeld,
       MutHeld, SingleThreaded, NoAbort, NotInitialized
  <2>3. Count
    BY DEF Init, Count, WaitingCount
  <2> QED
    BY <2>1, <2>2, <2>3 DEF Inv
<1>2. Inv /\ [Next]_vars => Inv'
  BY TypingStep, LockInvStep, CountStep DEF Inv
<1> QED
  BY <1>1, <1>2, PTL DEF SafeSpec

\* At any time at most one thread executes with the GIL.
THEOREM GilMutualExclusion == SafeSpec => []MutualExclusion
<1>1. Inv => MutualExclusion
  BY DEF Inv, LockInv
<1> QED
  BY <1>1, Invariance, PTL

\* The claim of the comment thread_gil.c:15-16.
THEOREM GilNeverBothUnlocked == SafeSpec => []NeverBothUnlocked
<1>1. Inv => NeverBothUnlocked
  BY DEF Inv, LockInv
<1> QED
  BY <1>1, Invariance, PTL

\* Whoever runs has both halves, by whichever way it got in: the fast path, the
\* poll, a timed wait that succeeded or a theft.
THEOREM GilOwnerHasBothHalves == SafeSpec => []OwnerHasBothHalves
<1>1. Inv => OwnerHasBothHalves
  BY DEF Inv, LockInv
<1> QED
  BY <1>1, Invariance, PTL

\* A GIL that nobody has can be taken, whatever forks and yields came before.
THEOREM GilNeverLost == SafeSpec => []NeverLost
<1>1. Inv => NeverLost
  BY DEF Inv, LockInv
<1> QED
  BY <1>1, Invariance, PTL

\* rpy_waiting_threads is exact, so RPyGilYieldThread never skips a waiter.
THEOREM GilWaitingCount == SafeSpec => []WaitingCount
<1>1. Inv => WaitingCount
  BY DEF Inv, Count
<1> QED
  BY <1>1, Invariance, PTL

\* Threads started through start_new_thread never meet the fatal error.
THEOREM GilNoAbort == SafeSpec => []NoAbort
<1>1. Inv => NoAbort
  BY DEF Inv, LockInv
<1> QED
  BY <1>1, Invariance, PTL

-----------------------------------------------------------------------------
(* The abstract lock. *)

\* The holder is the owner, when there is just one (f is pc or pc').
LEMMA OnlyOwner ==
    ASSUME NEW f,
           \A t, u \in Threads : f[t] \in Owners /\ f[u] \in Owners => t = u,
           NEW t \in Threads, f[t] \in Owners
    PROVE  (IF \E u \in Threads : f[u] \in Owners
            THEN CHOOSE u \in Threads : f[u] \in Owners ELSE NoThread) = t
OBVIOUS

\* Before and after a step the abstract holder is the owner, if there is one.
LEMMA HolderStep ==
    ASSUME Inv, Inv'
    PROVE  /\ \A t \in Threads : Owning(t) => holder = t
           /\ \A t \in Threads : Owning(t)' => holder' = t
           /\ (\A t \in Threads : ~Owning(t)) => holder = NoThread
           /\ (\A t \in Threads : ~Owning(t)') => holder' = NoThread
<1>1. ASSUME NEW t \in Threads, Owning(t) PROVE holder = t
  BY <1>1, OnlyOwner DEF Inv, LockInv, MutualExclusion, Owning, holder
<1>2. ASSUME NEW t \in Threads, Owning(t)' PROVE holder' = t
  BY <1>2, OnlyOwner DEF Inv, LockInv, MutualExclusion, Owning, holder
<1> QED
  BY <1>1, <1>2 DEF Owning, holder

\* Every step of the implementation is a step or a stutter of the abstract lock.
LEMMA RefinementStep == Inv /\ Inv' /\ [Next]_vars => [Lock!LockNext]_Lock!lockVars
<1> SUFFICES ASSUME Inv, Inv', [Next]_vars PROVE [Lock!LockNext]_Lock!lockVars
  OBVIOUS
<1> DEFINE Entered(t) == (\A u \in Threads : ~Owning(u)) /\ Owning(t)'
           Left(t) == Owning(t) /\ (\A u \in Threads : ~Owning(u)')
           SameOwner == \A u \in Threads : Owning(u)' <=> Owning(u)
<1> USE ThreadsAssumption
<1>grant. ASSUME NEW t \in Threads, Entered(t), t \in wants, wants' = wants \ {t}
          PROVE  Lock!LockNext
  BY <1>grant, HolderStep DEF Lock!LockNext, Lock!Grant
<1>requeue. ASSUME NEW t \in Threads, Left(t), wants' = wants \cup {t}
            PROVE  Lock!LockNext
  BY <1>requeue, HolderStep DEF Lock!LockNext, Lock!Requeue
<1>same. ASSUME SameOwner PROVE holder' = holder
  BY <1>same, HolderStep
<1>stutter. ASSUME SameOwner, wants' = wants PROVE UNCHANGED Lock!lockVars
  BY <1>stutter, <1>same DEF Lock!lockVars
<1> USE DEF Inv, TypeOK, Goto, Owning, Owners, Wanting, wants
<1>1. ASSUME NEW t \in Threads, Acquire(t) PROVE [Lock!LockNext]_Lock!lockVars
  <2>1. \/ Entered(t) /\ t \in wants /\ wants' = wants \ {t}
        \/ SameOwner /\ wants' = wants
    BY <1>1 DEF Acquire, TestAndSet, LockInv, OwnerHasBothHalves
  <2> QED
    BY <2>1, <1>grant, <1>stutter
<1>2. ASSUME NEW t \in Threads, PollTas(t) PROVE [Lock!LockNext]_Lock!lockVars
  <2>1. \/ Entered(t) /\ t \in wants /\ wants' = wants \ {t}
        \/ SameOwner /\ wants' = wants
    BY <1>2 DEF PollTas, TestAndSet, LockInv, OwnerHasBothHalves
  <2> QED
    BY <2>1, <1>grant, <1>stutter
<1>3. ASSUME NEW t \in Threads, StealTas(t) PROVE [Lock!LockNext]_Lock!lockVars
  <2>1. \/ Entered(t) /\ t \in wants /\ wants' = wants \ {t}
        \/ SameOwner /\ wants' = wants
    BY <1>3 DEF StealTas, TestAndSet, LockInv, OwnerHasBothHalves
  <2> QED
    BY <2>1, <1>grant, <1>stutter
<1>4. ASSUME NEW t \in Threads, TimedLockGet(t) PROVE [Lock!LockNext]_Lock!lockVars
  <2>1. \/ Entered(t) /\ t \in wants /\ wants' = wants \ {t}
        \/ SameOwner /\ wants' = wants
    BY <1>4 DEF TimedLockGet, LockInv, OwnerHasBothHalves
  <2> QED
    BY <2>1, <1>grant, <1>stutter
<1>5. ASSUME NEW t \in Threads, CondWake(t) PROVE [Lock!LockNext]_Lock!lockVars
  <2>1. \/ Entered(t) /\ t \in wants /\ wants' = wants \ {t}
        \/ SameOwner /\ wants' = wants
    BY <1>5 DEF CondWake, LockInv, OwnerHasBothHalves
  <2> QED
    BY <2>1, <1>grant, <1>stutter
<1>6. ASSUME NEW t \in Threads, YieldUnlock(t) PROVE [Lock!LockNext]_Lock!lockVars
  <2>1. Left(t) /\ wants' = wants \cup {t}
    BY <1>6 DEF YieldUnlock, LockInv, MutualExclusion
  <2> QED
    BY <2>1, <1>requeue
<1>7. ASSUME NEW t \in Threads, PollUnlock(t) PROVE [Lock!LockNext]_Lock!lockVars
  <2>1. Left(t) /\ wants' = wants \cup {t}
    BY <1>7 DEF PollUnlock, LockInv, MutualExclusion
  <2> QED
    BY <2>1, <1>requeue
<1>8. ASSUME NEW t \in Threads, Release(t) PROVE [Lock!LockNext]_Lock!lockVars
  <2>1. Left(t) /\ wants' = wants
    BY <1>8 DEF Release, LockInv, MutualExclusion
  <2> QED
    BY <2>1, HolderStep DEF Lock!LockNext, Lock!Free
<1>9. ASSUME NEW t \in Threads, Return(t) PROVE [Lock!LockNext]_Lock!lockVars
  <2>1. SameOwner /\ ~Owning(t) /\ t \notin wants /\ wants' = wants \cup {t}
    BY <1>9 DEF Return
  <2>2. holder # t
    BY <2>1, ThreadsAssumption DEF holder
  <2> QED
    BY <2>1, <2>2, <1>same DEF Lock!LockNext, Lock!Want
<1>10. ASSUME NEW t \in Threads, NEW u \in Threads, StartThread(t, u)
      PROVE [Lock!LockNext]_Lock!lockVars
  <2>1. SameOwner /\ ~Owning(u) /\ u \notin wants /\ wants' = wants \cup {u}
    BY <1>10 DEF StartThread
  <2>2. holder # u
    BY <2>1, ThreadsAssumption DEF holder
  <2> QED
    BY <2>1, <2>2, <1>same DEF Lock!LockNext, Lock!Want
<1>11. ASSUME NEW t \in Threads, Fork(t) PROVE [Lock!LockNext]_Lock!lockVars
  <2>1. Owning(t) /\ Owning(t)' /\ wants' = {}
    BY <1>11 DEF Fork
  <2>2. holder = t /\ holder' = t
    BY <2>1, HolderStep
  <2> QED
    BY <2>1, <2>2 DEF Lock!LockNext, Lock!ForkChild
<1>12. ASSUME NEW t \in Threads, SlowPath(t) PROVE [Lock!LockNext]_Lock!lockVars
  <2>1. SameOwner /\ wants' = wants
    BY <1>12 DEF SlowPath, LockInv, OwnerHasBothHalves, SingleThreaded, NoAbort, Count, NotInitialized
  <2> QED
    BY <2>1, <1>stutter
<1>13. ASSUME NEW t \in Threads, Poll(t) PROVE [Lock!LockNext]_Lock!lockVars
  <2>1. SameOwner /\ wants' = wants
    BY <1>13 DEF Poll
  <2> QED
    BY <2>1, <1>stutter
<1>14. ASSUME NEW t \in Threads, PollRead(t) PROVE [Lock!LockNext]_Lock!lockVars
  <2>1. SameOwner /\ wants' = wants
    BY <1>14 DEF PollRead
  <2> QED
    BY <2>1, <1>stutter
<1>15. ASSUME NEW t \in Threads, Steal(t) PROVE [Lock!LockNext]_Lock!lockVars
  <2>1. SameOwner /\ wants' = wants
    BY <1>15 DEF Steal
  <2> QED
    BY <2>1, <1>stutter
<1>16. ASSUME NEW t \in Threads, TimedLockWait(t) PROVE [Lock!LockNext]_Lock!lockVars
  <2>1. SameOwner /\ wants' = wants
    BY <1>16 DEF TimedLockWait
  <2> QED
    BY <2>1, <1>stutter
<1>17. ASSUME NEW t \in Threads, Leave(t) PROVE [Lock!LockNext]_Lock!lockVars
  <2>1. SameOwner /\ wants' = wants
    BY <1>17 DEF Leave
  <2> QED
    BY <2>1, <1>stutter
<1>18. ASSUME NEW t \in Threads, LoopStop(t) PROVE [Lock!LockNext]_Lock!lockVars
  <2>1. SameOwner /\ wants' = wants
    BY <1>18 DEF LoopStop
  <2> QED
    BY <2>1, <1>stutter
<1>19. ASSUME NEW t \in Threads, StopStealing(t) PROVE [Lock!LockNext]_Lock!lockVars
  <2>1. SameOwner /\ wants' = wants
    BY <1>19 DEF StopStealing
  <2> QED
    BY <2>1, <1>stutter
<1>20. ASSUME NEW t \in Threads, LoopStart(t) PROVE [Lock!LockNext]_Lock!lockVars
  <2>1. SameOwner /\ wants' = wants
    BY <1>20 DEF LoopStart
  <2> QED
    BY <2>1, <1>stutter
<1>21. ASSUME NEW t \in Threads, Queue(t) PROVE [Lock!LockNext]_Lock!lockVars
  <2>1. SameOwner /\ wants' = wants
    BY <1>21 DEF Queue
  <2> QED
    BY <2>1, <1>stutter
<1>22. ASSUME NEW t \in Threads, Exit(t) PROVE [Lock!LockNext]_Lock!lockVars
  <2>1. SameOwner /\ wants' = wants
    BY <1>22 DEF Exit
  <2> QED
    BY <2>1, <1>stutter
<1>23. ASSUME NEW t \in Threads, Yield(t) PROVE [Lock!LockNext]_Lock!lockVars
  <2>1. SameOwner /\ wants' = wants
    BY <1>23 DEF Yield
  <2> QED
    BY <2>1, <1>stutter
<1>24. CASE UNCHANGED vars
  BY <1>24, <1>stutter DEF vars
<1> QED
  BY Cases, <1>1, <1>2, <1>3, <1>4, <1>5, <1>6, <1>7, <1>8, <1>9, <1>10,
     <1>11, <1>12, <1>13, <1>14, <1>15, <1>16, <1>17, <1>18, <1>19, <1>20,
     <1>21, <1>22, <1>23, <1>24

\* The two halves, the counter and the queue implement the abstract lock: every
\* behaviour of the implementation, seen as who holds and who wants, is one of
\* the abstract specification.
THEOREM GilImplementsLock == SafeSpec => Lock!LockSafeSpec
<1>1. Init => Lock!LockInit
  BY ThreadsAssumption DEF Init, Lock!LockInit, holder, wants, Owning, Owners, Wanting
<1> QED
  BY <1>1, RefinementStep, Invariance, PTL DEF SafeSpec, Lock!LockSafeSpec
=============================================================================
