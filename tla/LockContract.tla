---------------------------- MODULE LockContract ----------------------------
(***************************************************************************)
(* What a thread lock promises, with semaphores and without: an acquire    *)
(* that is granted takes a lock that was free, a request that does not     *)
(* block is refused only when the lock is taken, and an acquire is         *)
(* interrupted only when the lock is taken.  A lock has no owner: anybody  *)
(* may release it.                                                         *)
(***************************************************************************)
CONSTANTS Threads,
          Requests,         \* the calls that acquire
          Unblocking,       \* ... those with a timeout of 0
          Limited,          \* ... those with a timeout
          Interruptible,    \* ... those with intr_flag
          None

VARIABLES taken, asked, answer

vars == <<taken, asked, answer>>

Init ==
    /\ taken = FALSE
    /\ asked = [t \in Threads |-> None]
    /\ answer = [t \in Threads |-> None]

Ask(t) ==
    /\ asked[t] = None
    /\ \E r \in Requests : asked' = [asked EXCEPT ![t] = r]
    /\ UNCHANGED <<taken, answer>>

Open(t) == asked[t] # None /\ answer[t] = None

Grant(t) ==
    /\ Open(t) /\ ~taken
    /\ taken' = TRUE
    /\ answer' = [answer EXCEPT ![t] = "acquired"]
    /\ UNCHANGED asked

Refuse(t) ==
    /\ Open(t)
    /\ \/ asked[t] \in Unblocking /\ taken
       \/ asked[t] \in Limited
    /\ answer' = [answer EXCEPT ![t] = "failure"]
    /\ UNCHANGED <<taken, asked>>

Interrupt(t) ==
    /\ Open(t) /\ taken
    /\ asked[t] \in Interruptible
    /\ answer' = [answer EXCEPT ![t] = "intr"]
    /\ UNCHANGED <<taken, asked>>

Finish(t) ==
    /\ answer[t] # None
    /\ asked' = [asked EXCEPT ![t] = None]
    /\ answer' = [answer EXCEPT ![t] = None]
    /\ UNCHANGED taken

\* The rest of the time is waited for.
AskAgain(t) ==
    /\ answer[t] = "intr"
    /\ answer' = [answer EXCEPT ![t] = None]
    /\ UNCHANGED <<taken, asked>>

Release == taken /\ taken' = FALSE /\ UNCHANGED <<asked, answer>>

Next ==
    \/ \E t \in Threads :
          Ask(t) \/ Grant(t) \/ Refuse(t) \/ Interrupt(t) \/ Finish(t) \/ AskAgain(t)
    \/ Release

Spec == Init /\ [][Next]_vars
=============================================================================
