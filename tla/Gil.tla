-------------------------------- MODULE Gil --------------------------------
(***************************************************************************)
(* The global interpreter lock: rpython/translator/c/src/thread_gil.c with *)
(* the mutexes of thread_pthread.c, the inlined fast paths of thread.h and *)
(* the callers in rgil.py and pypy/module/thread.                          *)
(*                                                                         *)
(* The lock is two locks.  `fastgil' is a word set by an atomic exchange;  *)
(* `mutexGil' is the flag of a mutex and condition variable.  The GIL is   *)
(* held while both are locked and is free as soon as either is not.  A     *)
(* thread that finds it held counts itself in `waiting', polls for a       *)
(* while, queues on `stealer', and then, alone, tries to take either half. *)
(*                                                                         *)
(* One step per access to shared memory.  mutexGil is only touched with    *)
(* `mut' held, so the short critical section of mutex2_unlock is a step.   *)
(***************************************************************************)
EXTENDS Integers, FiniteSets

CONSTANTS Threads, Main, NoThread,
          PollBudgets,   \* the values n may have when early polling begins
          MaxForks       \* bound: how many times the model follows a fork
                         \* into the child (each child is a new process)

ASSUME ThreadsAssumption ==
    /\ IsFiniteSet(Threads)
    /\ Main \in Threads
    /\ NoThread \notin Threads
ASSUME BoundsAssumption == PollBudgets \subseteq Nat /\ MaxForks \in Nat

NotInitialized == -42

VARIABLES
    fastgil,      \* rpy_fastgil: 0 is unlocked, 1 is locked
    mutexGil,     \* mutex_gil.locked
    mut,          \* the thread that holds mutex_gil.mut, or NoThread
    stealer,      \* the thread that holds mutex_gil_stealer, or NoThread
    waiting,      \* rpy_waiting_threads
    pc,           \* where each thread is
    oldWaiting,   \* per thread: old_waiting_threads
    polls,        \* per thread: n, the early polls left
    forks         \* the forks followed so far

vars == <<fastgil, mutexGil, mut, stealer, waiting, pc, oldWaiting, polls, forks>>
shared == <<fastgil, mutexGil, mut, stealer, waiting>>
locals == <<oldWaiting, polls, forks>>

PCs == {"unborn", "out", "acquire", "run", "yield", "slow", "poll", "pollRead",
        "pollTas", "pollUnlock", "queue", "loopStart", "steal", "stealTas",
        "timedLock", "condWait", "leave", "loopStop", "stopStealing", "abort"}

\* Where a thread has the GIL: in the interpreter, or on its way there
\* after taking one of the halves, or still about to give it back.
Owners == {"run", "yield", "pollUnlock", "leave", "loopStop", "stopStealing"}

\* Where a thread is counted in rpy_waiting_threads.
Counted == {"poll", "pollRead", "pollTas", "pollUnlock", "queue", "loopStart",
            "steal", "stealTas", "timedLock", "condWait", "leave"}

\* Where a thread has asked for the GIL and not got it.
Wanting == {"acquire", "slow", "poll", "pollRead", "pollTas", "queue",
            "loopStart", "steal", "stealTas", "timedLock", "condWait"}

HoldsStealer == {"loopStart", "steal", "stealTas", "timedLock", "condWait",
                 "leave", "loopStop", "stopStealing"}
HoldsMut == {"steal", "stealTas", "timedLock", "leave", "loopStop"}

Init ==
    /\ fastgil = 0
    /\ mutexGil = TRUE
    /\ mut = NoThread
    /\ stealer = NoThread
    /\ waiting = NotInitialized
    /\ pc = [t \in Threads |-> IF t = Main THEN "out" ELSE "unborn"]
    /\ oldWaiting = [t \in Threads |-> 0]
    /\ polls = [t \in Threads |-> 0]
    /\ forks = 0

Goto(t, from, to) == pc[t] = from /\ pc' = [pc EXCEPT ![t] = to]

-----------------------------------------------------------------------------
(* The interpreter.  All of these run with the GIL, except Return and Exit. *)

\* setup_threads and RPyGilAllocate, from the first start_new_thread; then
\* the new thread exists and will ask for the GIL before anything else.
StartThread(t, u) ==
    /\ pc[t] = "run"
    /\ pc[u] = "unborn"
    /\ waiting' = IF waiting < 0 THEN 0 ELSE waiting
    /\ pc' = [pc EXCEPT ![u] = "acquire"]
    /\ UNCHANGED <<fastgil, mutexGil, mut, stealer, locals>>

\* _RPyGilRelease, around an external call.
Release(t) ==
    /\ Goto(t, "run", "out")
    /\ fastgil' = 0
    /\ UNCHANGED <<mutexGil, mut, stealer, waiting, locals>>

\* The external call returns.
Return(t) == Goto(t, "out", "acquire") /\ UNCHANGED <<shared, locals>>

\* A thread function has returned and released the GIL for the last time.
\* The end of the last thread is the end of the process: not a step.
Exit(t) ==
    /\ t # Main
    /\ \E u \in Threads \ {t} : pc[u] # "unborn"
    /\ Goto(t, "out", "unborn")
    /\ UNCHANGED <<shared, locals>>

\* Mutant: an off-by-one in the test for waiting threads.
YieldIfMany(t) ==
    /\ waiting > 1
    /\ Goto(t, "run", "yield")
    /\ UNCHANGED <<shared, locals>>

\* RPyGilYieldThread, up to the release of the mutex: only if somebody waits.
Yield(t) ==
    /\ waiting > 0
    /\ Goto(t, "run", "yield")
    /\ UNCHANGED <<shared, locals>>

\* Mutant: asks again without having unlocked the mutex.
YieldNoUnlock(t) ==
    /\ mut = NoThread
    /\ Goto(t, "yield", "acquire")
    /\ UNCHANGED <<shared, locals>>

\* Mutant: runs on after unlocking, without RPyGilAcquire.
YieldAndRun(t) ==
    /\ mut = NoThread
    /\ Goto(t, "yield", "run")
    /\ mutexGil' = FALSE
    /\ UNCHANGED <<fastgil, mut, stealer, waiting, locals>>

\* mutex2_unlock(&mutex_gil), then RPyGilAcquire.
YieldUnlock(t) ==
    /\ mut = NoThread
    /\ Goto(t, "yield", "acquire")
    /\ mutexGil' = FALSE
    /\ UNCHANGED <<fastgil, mut, stealer, waiting, locals>>

\* os.fork, in the child: the other threads are gone, and the handler that
\* RPyGilAllocate registered makes the mutexes anew.
Fork(t) ==
    /\ pc[t] = "run"
    /\ forks < MaxForks
    /\ forks' = forks + 1
    /\ pc' = [u \in Threads |-> IF u = t THEN "run" ELSE "unborn"]
    /\ IF waiting < 0
       THEN UNCHANGED <<mutexGil, mut, stealer, waiting>>
       ELSE /\ mutexGil' = TRUE
            /\ mut' = NoThread
            /\ stealer' = NoThread
            /\ waiting' = 0
    /\ UNCHANGED <<fastgil, oldWaiting, polls>>

-----------------------------------------------------------------------------
(* RPyGilAcquire. *)

\* pypy_lock_test_and_set(&rpy_fastgil, 1): the caller goes to `won' if the
\* word was 0 and to `lost' if it was not.
TestAndSet(t, from, won, lost) ==
    /\ Goto(t, from, IF fastgil = 0 THEN won ELSE lost)
    /\ fastgil' = 1

Acquire(t) ==
    /\ TestAndSet(t, "acquire", "run", "slow")
    /\ UNCHANGED <<mutexGil, mut, stealer, waiting, locals>>

\* Counts itself in, unless the GIL was never allocated: a fatal error.
SlowPath(t) ==
    /\ Goto(t, "slow", IF waiting < 0 THEN "abort" ELSE "poll")
    /\ waiting' = IF waiting < 0 THEN waiting ELSE waiting + 1
    /\ oldWaiting' = [oldWaiting EXCEPT ![t] = waiting']
    /\ \E n \in PollBudgets : polls' = [polls EXCEPT ![t] = n]
    /\ UNCHANGED <<fastgil, mutexGil, mut, stealer, forks>>

\* One round of early polling, or its end when n is used up or the number of
\* waiting threads has changed.
Poll(t) ==
    /\ polls' = [polls EXCEPT ![t] = IF @ >= 0 THEN @ - 1 ELSE @]
    /\ Goto(t, "poll", IF polls[t] >= 0 /\ oldWaiting[t] = waiting
                       THEN "pollRead" ELSE "queue")
    /\ UNCHANGED <<shared, oldWaiting, forks>>

PollRead(t) ==
    /\ Goto(t, "pollRead", IF fastgil = 0 THEN "pollTas" ELSE "poll")
    /\ UNCHANGED <<shared, locals>>

PollTas(t) ==
    /\ TestAndSet(t, "pollTas", "pollUnlock", "poll")
    /\ UNCHANGED <<mutexGil, mut, stealer, waiting, locals>>

\* Mutant: takes the mutex's place in the queue and keeps the GIL.
PollAndRun(t) ==
    /\ mut = NoThread
    /\ Goto(t, "pollUnlock", "run")
    /\ mutexGil' = FALSE
    /\ UNCHANGED <<fastgil, mut, stealer, waiting, locals>>

\* Got it before queueing: pass it to the stealer and queue all the same.
PollUnlock(t) ==
    /\ mut = NoThread
    /\ Goto(t, "pollUnlock", "queue")
    /\ mutexGil' = FALSE
    /\ UNCHANGED <<fastgil, mut, stealer, waiting, locals>>

\* mutex1_lock(&mutex_gil_stealer)
Queue(t) ==
    /\ stealer = NoThread
    /\ Goto(t, "queue", "loopStart")
    /\ stealer' = t
    /\ UNCHANGED <<fastgil, mutexGil, mut, waiting, locals>>

LoopStart(t) ==
    /\ mut = NoThread
    /\ Goto(t, "loopStart", "steal")
    /\ mut' = t
    /\ UNCHANGED <<fastgil, mutexGil, stealer, waiting, locals>>

Steal(t) ==
    /\ Goto(t, "steal", IF fastgil = 0 THEN "stealTas" ELSE "timedLock")
    /\ UNCHANGED <<shared, locals>>

StealTas(t) ==
    /\ TestAndSet(t, "stealTas", "leave", "timedLock")
    /\ UNCHANGED <<mutexGil, mut, stealer, waiting, locals>>

\* mutex2_lock_timeout finds mutex_gil locked: pthread_cond_timedwait.
TimedLockWait(t) ==
    /\ mutexGil
    /\ Goto(t, "timedLock", "condWait")
    /\ mut' = NoThread
    /\ UNCHANGED <<fastgil, mutexGil, stealer, waiting, locals>>

\* ... or unlocked, and takes it.
TimedLockGet(t) ==
    /\ ~mutexGil
    /\ Goto(t, "timedLock", "leave")
    /\ mutexGil' = TRUE
    /\ UNCHANGED <<fastgil, mut, stealer, waiting, locals>>

\* Woken by the signal, by the timeout or by nothing: mut is held again and
\* the flag is looked at once more.
CondWake(t) ==
    /\ mut = NoThread
    /\ Goto(t, "condWait", IF mutexGil THEN "steal" ELSE "leave")
    /\ mut' = t
    /\ mutexGil' = TRUE
    /\ UNCHANGED <<fastgil, stealer, waiting, locals>>

Leave(t) ==
    /\ Goto(t, "leave", "loopStop")
    /\ waiting' = waiting - 1
    /\ UNCHANGED <<fastgil, mutexGil, mut, stealer, locals>>

LoopStop(t) ==
    /\ Goto(t, "loopStop", "stopStealing")
    /\ mut' = NoThread
    /\ UNCHANGED <<fastgil, mutexGil, stealer, waiting, locals>>

StopStealing(t) ==
    /\ Goto(t, "stopStealing", "run")
    /\ stealer' = NoThread
    /\ UNCHANGED <<fastgil, mutexGil, mut, waiting, locals>>

-----------------------------------------------------------------------------
\* The steps a thread takes by itself, and those that wait for another one.
Proceed(t) ==
    \/ Acquire(t) \/ SlowPath(t) \/ Poll(t) \/ PollRead(t) \/ PollTas(t)
    \/ Steal(t) \/ StealTas(t) \/ TimedLockWait(t) \/ TimedLockGet(t)
    \/ Leave(t) \/ LoopStop(t) \/ StopStealing(t)

TakeMut(t) == YieldUnlock(t) \/ PollUnlock(t) \/ LoopStart(t) \/ CondWake(t)

Interpret(t) ==
    \/ \E u \in Threads : StartThread(t, u)
    \/ Release(t) \/ Return(t) \/ Exit(t) \/ Yield(t) \/ Fork(t)

Next == \E t \in Threads : Proceed(t) \/ TakeMut(t) \/ Queue(t) \/ Interpret(t)

SafeSpec == Init /\ [][Next]_vars

(***************************************************************************)
(* A thread keeps running; a pthread mutex that is free again and again is *)
(* got in the end (the comment at Queue relies on it); and GILReleaseAction*)
(* is a periodic action, so whatever mix of threads executes bytecode, one *)
(* of them yields in the end.  Nothing obliges a thread to release, to     *)
(* return from an external call, to start threads or to fork.              *)
(***************************************************************************)
Fairness ==
    /\ \A t \in Threads :
          WF_vars(Proceed(t)) /\ SF_vars(TakeMut(t)) /\ SF_vars(Queue(t))
    /\ SF_vars(\E t \in Threads : Yield(t))

Spec == SafeSpec /\ Fairness

-----------------------------------------------------------------------------
(* Properties. *)

Owning(t) == pc[t] \in Owners

TypeOK ==
    /\ fastgil \in {0, 1}
    /\ mutexGil \in BOOLEAN
    /\ mut \in Threads \cup {NoThread}
    /\ stealer \in Threads \cup {NoThread}
    /\ waiting \in Int
    /\ pc \in [Threads -> PCs]
    /\ oldWaiting \in [Threads -> Int]
    /\ polls \in [Threads -> Int]
    /\ forks \in 0..MaxForks

\* At most one thread has the GIL, counting the thread that has taken a half
\* and not yet left the slow path, and the one that is about to give it back.
MutualExclusion ==
    \A t, u \in Threads : Owning(t) /\ Owning(u) => t = u

\* "It should never be the case that both are unlocked at the same time"
\* (thread_gil.c:15-16), or two threads could take one half each.
NeverBothUnlocked == fastgil = 1 \/ mutexGil

\* The GIL is not lost: when no thread has it, one half is there to be taken.
NeverLost == (\A t \in Threads : ~Owning(t)) => fastgil = 0 \/ ~mutexGil

\* What check_and_save_old_fastgil and the other asserts of the C code rely
\* on: whoever has the GIL finds both halves locked.
OwnerHasBothHalves == \A t \in Threads : Owning(t) => fastgil = 1 /\ mutexGil

\* rpy_waiting_threads counts the threads between the increment and the
\* decrement of the slow path, also after a fork in the middle of it: with
\* less RPyGilYieldThread would not let a waiting thread in.
WaitingCount ==
    waiting # NotInitialized => waiting = Cardinality({t \in Threads : pc[t] \in Counted})

\* The fatal error "a thread is trying to wait for the GIL, but the GIL was
\* not initialized" is not reached by threads started by the interpreter.
NoAbort == \A t \in Threads : pc[t] # "abort"

\* A thread that asks for the GIL gets to run (or disappears in a fork).
EveryoneRuns ==
    \A t \in Threads : pc[t] \in Wanting ~> pc[t] \in {"run", "unborn"}

\* The abstract lock.
holder == IF \E t \in Threads : Owning(t)
          THEN CHOOSE t \in Threads : Owning(t) ELSE NoThread
wants == {t \in Threads : pc[t] \in Wanting}
Lock == INSTANCE GilLock

\* The two halves, the counter and the queue implement the abstract lock.
ImplementsLock == Lock!LockSpec
=============================================================================
