----------------------------- MODULE ThreadLock -----------------------------
(***************************************************************************)
(* Thread locks: pypy/module/thread/os_lock.py, the class Lock of          *)
(* rpython/rlib/rthread.py, and RPyThreadAcquireLockTimed,                 *)
(* RPyThreadReleaseLock and RPyThreadAfterFork of thread_pthread.c in its  *)
(* two builds: with semaphores, and with a mutex and a condition variable. *)
(*                                                                         *)
(* A thread acquires without the GIL, except when the call cannot block,   *)
(* and releases with it.  What the C code does between the lock and the    *)
(* unlock of the mutex is one step: only code under the mutex looks at     *)
(* 'locked'.  pthread_cond_signal comes after the unlock.                  *)
(***************************************************************************)
EXTENDS Naturals, FiniteSets

CONSTANTS Threads, NoThread, None,
          Builds,           \* the builds: TRUE is with semaphores (USE_SEMAPHORES)
          Requests          \* the calls of AllRequests that the program makes

AllRequests == {"wait",         \* acquire(), RPython's acquire(True)
                "try",          \* acquire(0)
                "forever",      \* _py3k_acquire()
                "limited",      \* _py3k_acquire(timeout=...)
                "py3k_try",     \* _py3k_acquire(False)
                "locked",       \* locked()
                "is_acquired"}  \* RPython's is_acquired()

Unblocking == {"try", "py3k_try", "locked", "is_acquired"}  \* microseconds == 0
Limited == {"limited"}                                      \* microseconds > 0
Interruptible == {"forever", "limited", "py3k_try"}         \* intr_flag
KeepsGil == {"try", "locked", "is_acquired"}                \* the _NOAUTO calls

ASSUME ThreadsAssumption == NoThread \notin Threads /\ Threads # {} /\ IsFiniteSet(Threads)
Results == {"acquired", "failure", "intr"}                  \* RPyLockStatus

ASSUME RequestsAssumption ==
    Requests \subseteq AllRequests /\ None \notin AllRequests \cup Results
ASSUME BuildsAssumption == Builds \subseteq BOOLEAN

VARIABLES
    semaphores, \* which build this is; it never changes
    avail,      \* the value of the semaphore; 1 - locked without semaphores
    gil,        \* the thread with the GIL
    pc,         \* where each thread is
    request,    \* the call that each thread is in
    result,     \* what RPyThreadAcquireLockTimed returned
    holding,    \* threads that were told they have the lock, and did not release it
    stray,      \* a thread without the lock has released it (for the properties)
    probed      \* is_acquired() has found the lock free (for the properties)

vars == <<semaphores, avail, gil, pc, request, result, holding, stray, probed>>
kept == <<semaphores, stray, probed>>

PCs == {"app", "acquire", "waiting", "woken", "timed_out", "returned",
        "release", "wake", "gone"}

Init ==
    /\ semaphores \in Builds
    /\ stray = FALSE /\ probed = FALSE
    /\ avail = 1
    /\ gil = NoThread
    /\ pc = [t \in Threads |-> "app"]
    /\ request = [t \in Threads |-> None]
    /\ result = [t \in Threads |-> None]
    /\ holding = {}

Goto(t, l) == pc' = [pc EXCEPT ![t] = l]
App(t) == gil = t /\ pc[t] = "app"

-----------------------------------------------------------------------------
(* The GIL, and calls of the program. *)

TakeGil(t) ==
    /\ gil = NoThread
    /\ pc[t] \in {"app", "returned"}
    /\ gil' = t
    /\ UNCHANGED <<kept, avail, pc, request, result, holding>>

LeaveGil(t) ==
    /\ App(t)
    /\ gil' = NoThread
    /\ UNCHANGED <<kept, avail, pc, request, result, holding>>

\* A program that waits for a lock it holds itself is left out.
Ask(t, r) ==
    /\ App(t)
    /\ r \in {"wait", "forever"} => t \notin holding
    /\ request' = [request EXCEPT ![t] = r]
    /\ gil' = IF r \in KeepsGil THEN gil ELSE NoThread
    /\ Goto(t, "acquire")
    /\ UNCHANGED <<kept, avail, result, holding>>

\* RPyThreadReleaseLock is called with the GIL.
AskRelease(t) ==
    /\ App(t)
    /\ stray' = (stray \/ t \notin holding)
    /\ holding' = holding \ {t}
    /\ Goto(t, "release")
    /\ UNCHANGED <<semaphores, probed, avail, gil, request, result>>

-----------------------------------------------------------------------------
(* RPyThreadAcquireLockTimed. *)

Return(t, how) ==
    /\ result' = [result EXCEPT ![t] = how]
    /\ Goto(t, "returned")

Acquired(t) ==
    /\ avail > 0
    /\ avail' = avail - 1
    /\ Return(t, "acquired")
    /\ UNCHANGED <<kept, gil, request, holding>>

\* The lock is free: sem_wait and its variants succeed at once or later, the
\* other build looks at 'locked' first of all.
GetFree(t) == pc[t] = "acquire" /\ Acquired(t)

RefusedAtOnce(t) ==
    /\ pc[t] = "acquire" /\ avail = 0
    /\ request[t] \in Unblocking
    /\ Return(t, "failure")
    /\ UNCHANGED <<kept, avail, gil, request, holding>>

\* sem_timedwait: ETIMEDOUT.
SemTimeout(t) ==
    /\ semaphores
    /\ pc[t] = "acquire" /\ avail = 0
    /\ request[t] \in Limited
    /\ Return(t, "failure")
    /\ UNCHANGED <<kept, avail, gil, request, holding>>

\* EINTR, which the loop only lets out with intr_flag; sem_trywait has none.
SemInterrupt(t) ==
    /\ semaphores
    /\ pc[t] = "acquire" /\ avail = 0
    /\ request[t] \in Interruptible \ Unblocking
    /\ Return(t, "intr")
    /\ UNCHANGED <<kept, avail, gil, request, holding>>

\* pthread_cond_wait starts: the mutex is released.
CondWait(t) ==
    /\ ~semaphores
    /\ pc[t] = "acquire" /\ avail = 0
    /\ request[t] \notin Unblocking
    /\ Goto(t, "waiting")
    /\ UNCHANGED <<kept, avail, gil, request, result, holding>>

\* It returns, because of a signal handler or for no reason.
Wakeup(t) ==
    /\ pc[t] = "waiting"
    /\ Goto(t, "woken")
    /\ UNCHANGED <<kept, avail, gil, request, result, holding>>

CondTimeout(t) ==
    /\ pc[t] = "waiting"
    /\ request[t] \in Limited
    /\ Goto(t, "timed_out")
    /\ UNCHANGED <<kept, avail, gil, request, result, holding>>

\* Mutant: 'locked' is not looked at again.
GetAwakeUnseen(t) ==
    /\ pc[t] = "woken"
    /\ avail' = 0
    /\ Return(t, "acquired")
    /\ UNCHANGED <<kept, gil, request, holding>>

\* Under the mutex again: with status == 0 and the lock free, it is ours.
GetAwake(t) == pc[t] = "woken" /\ Acquired(t)

\* Mutant: whoever is woken with intr_flag was interrupted.
CondInterruptAny(t) ==
    /\ pc[t] = "woken"
    /\ request[t] \in Interruptible
    /\ Return(t, "intr")
    /\ UNCHANGED <<kept, avail, gil, request, holding>>

\* "We were woken up, but didn't get the lock."
CondInterrupt(t) ==
    /\ pc[t] = "woken" /\ avail = 0
    /\ request[t] \in Interruptible
    /\ Return(t, "intr")
    /\ UNCHANGED <<kept, avail, gil, request, holding>>

WaitAgain(t) ==
    /\ pc[t] = "woken" /\ avail = 0
    /\ request[t] \notin Interruptible
    /\ Goto(t, "waiting")
    /\ UNCHANGED <<kept, avail, gil, request, result, holding>>

GiveUp(t) ==
    /\ pc[t] = "timed_out"
    /\ Return(t, "failure")
    /\ UNCHANGED <<kept, avail, gil, request, holding>>

-----------------------------------------------------------------------------
(* RPyThreadReleaseLock. *)

\* sem_getvalue: "the lock is not acquired so far.  Oops."
SemNotTaken(t) ==
    /\ semaphores
    /\ pc[t] = "release" /\ avail > 0
    /\ Goto(t, "app")
    /\ UNCHANGED <<kept, avail, gil, request, result, holding>>

SemTaken(t) ==
    /\ semaphores
    /\ pc[t] = "release" /\ avail = 0
    /\ Goto(t, "wake")
    /\ UNCHANGED <<kept, avail, gil, request, result, holding>>

SemPost(t) ==
    /\ semaphores
    /\ pc[t] = "wake"
    /\ avail' = avail + 1
    /\ Goto(t, "app")
    /\ UNCHANGED <<kept, gil, request, result, holding>>

\* locked = 0, whatever it was.
CondUnlock(t) ==
    /\ ~semaphores
    /\ pc[t] = "release"
    /\ avail' = 1
    /\ Goto(t, "wake")
    /\ UNCHANGED <<kept, gil, request, result, holding>>

\* pthread_cond_signal: "wake up someone (anyone, if any)".
CondSignal(t) ==
    /\ ~semaphores
    /\ pc[t] = "wake"
    /\ LET waiting == {u \in Threads : pc[u] = "waiting"} IN
       IF waiting = {} THEN Goto(t, "app")
       ELSE \E u \in waiting : pc' = [pc EXCEPT ![t] = "app", ![u] = "woken"]
    /\ UNCHANGED <<kept, avail, gil, request, result, holding>>

-----------------------------------------------------------------------------
(* Back in rthread.py and os_lock.py, with the GIL. *)

Back(t) == gil = t /\ pc[t] = "returned"
Done(t) ==
    /\ request' = [request EXCEPT ![t] = None]
    /\ result' = [result EXCEPT ![t] = None]

\* The call returns True.  RPython's acquire(True) does not look at the result.
TellAcquired(t) ==
    /\ Back(t)
    /\ request[t] \notin {"locked", "is_acquired"}
    /\ result[t] = "acquired" \/ request[t] = "wait"
    /\ holding' = holding \cup {t}
    /\ Goto(t, "app")
    /\ Done(t)
    /\ UNCHANGED <<kept, avail, gil>>

\* locked(): the lock was free, and is released.
LockedFree(t) ==
    /\ Back(t)
    /\ request[t] = "locked" /\ result[t] = "acquired"
    /\ Goto(t, "release")
    /\ Done(t)
    /\ UNCHANGED <<kept, avail, gil, holding>>

\* is_acquired(): the lock was free.
IsAcquiredFree(t) ==
    /\ Back(t)
    /\ request[t] = "is_acquired" /\ result[t] = "acquired"
    /\ Goto(t, "app")
    /\ Done(t)
    /\ probed' = TRUE
    /\ UNCHANGED <<semaphores, stray, avail, gil, holding>>

\* The lock was not free, or the time is over, or after an interruption the time
\* is over or the app-level signal handler raises.
TellFailure(t) ==
    /\ Back(t)
    /\ \/ result[t] = "failure" /\ request[t] # "wait"
       \/ result[t] = "intr"
    /\ Goto(t, "app")
    /\ Done(t)
    /\ UNCHANGED <<kept, avail, gil, holding>>

\* acquire_timed, after an interruption: the rest of the time.
Retry(t) ==
    /\ Back(t)
    /\ result[t] = "intr"
    /\ result' = [result EXCEPT ![t] = None]
    /\ gil' = NoThread
    /\ Goto(t, "acquire")
    /\ UNCHANGED <<kept, avail, request, holding>>

-----------------------------------------------------------------------------
\* The child of a fork has one thread.  RPyThreadAfterFork makes each lock anew,
\* with its 'locked'.
Fork(t) ==
    /\ App(t)
    /\ pc' = [u \in Threads |-> IF u = t THEN "app" ELSE "gone"]
    /\ UNCHANGED <<kept, avail, gil, request, result, holding>>

-----------------------------------------------------------------------------
\* The steps of the C code and of its callers, which come by themselves.
Acquire(t) ==
    \/ GetFree(t) \/ RefusedAtOnce(t) \/ CondWait(t)
    \/ GetAwake(t) \/ CondInterrupt(t) \/ WaitAgain(t) \/ GiveUp(t)

Release(t) == SemNotTaken(t) \/ SemTaken(t) \/ SemPost(t) \/ CondUnlock(t) \/ CondSignal(t)

Tell(t) ==
    TellAcquired(t) \/ LockedFree(t) \/ IsAcquiredFree(t) \/ TellFailure(t) \/ Retry(t)

\* Interruptions and timeouts.
Disturb(t) == SemTimeout(t) \/ SemInterrupt(t) \/ Wakeup(t) \/ CondTimeout(t)

Call(t) == AskRelease(t) \/ \E r \in Requests : Ask(t, r)

Next ==
    \E t \in Threads :
        \/ TakeGil(t) \/ LeaveGil(t) \/ Call(t) \/ Fork(t)
        \/ Acquire(t) \/ Release(t) \/ Tell(t) \/ Disturb(t)

SafeSpec == Init /\ [][Next]_vars

\* The C functions run on; so does their caller, when it has the GIL again.
Spec ==
    /\ SafeSpec
    /\ \A t \in Threads : WF_vars(Acquire(t)) /\ WF_vars(Release(t)) /\ WF_vars(Tell(t))

-----------------------------------------------------------------------------
(* Properties. *)

TypeOK ==
    /\ semaphores \in Builds /\ stray \in BOOLEAN /\ probed \in BOOLEAN
    /\ avail \in 0 .. Cardinality(Threads)
    /\ gil \in Threads \cup {NoThread}
    /\ pc \in [Threads -> PCs]
    /\ request \in [Threads -> Requests \cup {None}]
    /\ result \in [Threads -> Results \cup {None}]
    /\ holding \subseteq Threads

\* Two threads are never both told that they have the lock, although acquire(True)
\* ignores what the C function returns, as long as nobody has released the lock
\* without having it.
MutualExclusion ==
    ~stray => /\ \A t, u \in holding : t = u
              /\ holding # {} => avail = 0

\* The semaphore never exceeds 1: between sem_getvalue and sem_post of
\* RPyThreadReleaseLock there is no other release, thanks to the GIL.
AtMostOne == avail <= 1

\* A lock that is taken has been given to a thread, which has it, is about to hear
\* of it or about to release it: no path takes the lock and forgets it, but is_acquired().
Given(t) ==
    \/ t \in holding
    \/ result[t] = "acquired"
    \/ pc[t] \in {"release", "wake"}
TakenIsGiven == avail = 0 /\ ~probed => \E t \in Threads : Given(t)

\* No wakeup is lost: when the lock is free and threads wait for it, one of them is
\* woken already, or the release that wakes one is under way.  An interruption does
\* not use up the wakeup of a release.
NoLostWakeup ==
    avail > 0 /\ (\E t \in Threads : pc[t] = "waiting") =>
        \E t \in Threads : pc[t] \in {"woken", "wake"}

SomeBlocked ==
    \E t \in Threads : request[t] = "wait" /\ pc[t] \in {"acquire", "waiting", "woken"}

\* Threads that wait for the lock until they get it do not sleep for ever while the
\* lock stays free.
FreeLockIsTaken == (avail > 0 /\ SomeBlocked) ~> (avail = 0 \/ ~SomeBlocked)

\* "check if the lock is acquired" (rthread.py:171): the call does not change the lock.
IsAcquiredOnlyChecks ==
    [][\A t \in Threads :
          request[t] = "is_acquired" /\ pc[t] = "acquire" /\ pc'[t] = "returned"
             => avail' = avail]_vars

\* Both builds keep the contract of a lock.
Contract == INSTANCE LockContract WITH
    taken <- avail = 0, asked <- request, answer <- result
KeepsContract == Contract!Spec
=============================================================================
