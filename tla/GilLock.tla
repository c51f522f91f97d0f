------------------------------ MODULE GilLock ------------------------------
(***************************************************************************)
(* What the global interpreter lock promises to the interpreter, without   *)
(* the two mutexes, the counter and the polling that implement it: one     *)
(* holder at a time, no thread that wants the lock is forgotten, and a     *)
(* fork leaves the forking thread, the only survivor, holding it.          *)
(***************************************************************************)
CONSTANTS Threads,   \* the operating system threads of the process
          NoThread   \* "no thread holds the lock"

VARIABLES holder,    \* the thread that has the lock, or NoThread
          wants      \* the threads that have asked for it and not got it

lockVars == <<holder, wants>>

LockInit ==
    /\ holder = NoThread
    /\ wants = {}

Want(t) ==
    /\ t \notin wants
    /\ holder # t
    /\ wants' = wants \cup {t}
    /\ UNCHANGED holder

Grant(t) ==
    /\ holder = NoThread
    /\ t \in wants
    /\ holder' = t
    /\ wants' = wants \ {t}

\* The holder leaves for an external call.
Free(t) ==
    /\ holder = t
    /\ holder' = NoThread
    /\ UNCHANGED wants

\* The holder lets the others go first and asks again, in one step.
Requeue(t) ==
    /\ holder = t
    /\ holder' = NoThread
    /\ wants' = wants \cup {t}

\* In the child process only the forking thread exists.
ForkChild(t) ==
    /\ holder = t
    /\ wants' = {}
    /\ UNCHANGED holder

LockNext ==
    \E t \in Threads : Want(t) \/ Grant(t) \/ Free(t) \/ Requeue(t) \/ ForkChild(t)

LockSafeSpec == LockInit /\ [][LockNext]_lockVars

\* A thread that finds the lock free again and again gets it.
LockSpec ==
    /\ LockSafeSpec
    /\ \A t \in Threads : SF_lockVars(Grant(t))
=============================================================================
