------------------------------- MODULE UserDel -------------------------------
(***************************************************************************)
(* Calling the app-level finalizers, and suspending them: UserDelAction    *)
(* (pypy/interpreter/executioncontext.py), the functions of the module gc  *)
(* (pypy/module/gc/interp_gc.py), and popen (pypy/module/posix/            *)
(* app_posix.py), which suspends them around a fork.                       *)
(*                                                                         *)
(* A finalizer is app-level code: other threads run meanwhile, and it may  *)
(* itself call these functions.  Between two pieces of app-level code the  *)
(* GIL is not given away.  The objects are those with an app-level         *)
(* finalizer: __del__, or the callback of a weakref.  How the collector    *)
(* finds that they are dead is the subject of module Finalizers.           *)
(***************************************************************************)
EXTENDS Naturals, FiniteSets, Sequences, SequencesExt

CONSTANTS Threads,
          Obj,        \* the objects with a finalizer
          None,
          MaxDepth,   \* bound: how deep the calls of a thread nest
          MaxCount    \* bound: how high the program counts finalizers_lock_count

ASSUME NoneAssumption == None \notin Seq(Obj)
ASSUME BoundAssumption == MaxDepth \in Nat /\ MaxCount \in Nat

VARIABLES
    queue,      \* what next_dead() will return
    fired,      \* the action is fired
    enabled,    \* enabled_at_app_level
    lockCount,  \* finalizers_lock_count
    pending,    \* pending_with_disabled_del
    stack,      \* the calls in progress in each thread
    dead,       \* history: the objects the collector has put in the queue
    called,     \* history: the objects whose finalizer has been called
    refused     \* history: how many gc.enable() and popen() have raised ValueError,
                \* "finalizers are already enabled"

vars == <<queue, fired, enabled, lockCount, pending, stack, dead, called, refused>>

\* A call in progress: `run' and `enable' are in the loop of _run_finalizers and of
\* enable_finalizers, `enabling' and `collect' in gc.collect() before and after the
\* finalizers are run, `lock' in popen, with finalizers suspended.
Kinds == {"run", "enable", "enabling", "collect", "lock"}
Frame == [kind : Kinds,
          rest : Seq(Obj),     \* for enable: what is still to be called
          temp : BOOLEAN]      \* for gc.collect(): temp_reenable

Plain(k) == [kind |-> k, rest |-> <<>>, temp |-> FALSE]

Init ==
    /\ queue = <<>>
    /\ fired = FALSE
    /\ enabled = TRUE
    /\ lockCount = 0
    /\ pending = None
    /\ stack = [t \in Threads |-> <<>>]
    /\ dead = {}
    /\ called = {}
    /\ refused = 0

Top(t) == IF stack[t] = <<>> THEN "code" ELSE Last(stack[t]).kind
Below(t) == Front(stack[t])

\* A thread that is not in app-level code keeps the GIL.
AppLevel == \A t \in Threads : Top(t) \notin {"enabling", "collect"}

\* A piece of app-level code that may call functions of gc.
InCode(t) ==
    /\ AppLevel
    /\ Top(t) # "lock"
    /\ Len(stack[t]) < MaxDepth

-----------------------------------------------------------------------------
(* The parts of the functions between two pieces of app-level code. *)

\* Mutant: gc_disabled() always returns False.
GcNeverDisabled(pdd) == FALSE

\* gc_disabled(), and what it does with the objects.
GcDisabled(pdd) == pdd # None

\* Mutant: what cannot be called now is dropped.
Forgotten(pdd, objs) == pdd

SetAside(pdd, objs) == pdd \o objs

\* _run_finalizers: the next finalizer is called, or while they are disabled all
\* that is in the queue is set aside.
RunFinalizers(t, under) ==
    IF GcDisabled(pending)
    THEN /\ pending' = SetAside(pending, queue)
         /\ queue' = <<>>
         /\ stack' = [stack EXCEPT ![t] = under]
         /\ UNCHANGED called
    ELSE IF queue = <<>>
    THEN /\ stack' = [stack EXCEPT ![t] = under]
         /\ UNCHANGED <<queue, pending, called>>
    ELSE /\ called' = called \cup {Head(queue)}
         /\ queue' = Tail(queue)
         /\ stack' = [stack EXCEPT ![t] = Append(under, Plain("run"))]
         /\ UNCHANGED pending

\* The loop of enable_finalizers over the list it has taken.
CallRest(t, under, rest, aside) ==
    IF GcDisabled(aside)
    THEN /\ pending' = SetAside(aside, rest)
         /\ stack' = [stack EXCEPT ![t] = under]
         /\ UNCHANGED called
    ELSE IF rest = <<>>
    THEN /\ pending' = None
         /\ stack' = [stack EXCEPT ![t] = under]
         /\ UNCHANGED called
    ELSE /\ pending' = None
         /\ called' = called \cup {Head(rest)}
         /\ stack' = [stack EXCEPT ![t] =
                         Append(under, [Plain("enable") EXCEPT !.rest = Tail(rest)])]

\* enable_finalizers, when it does not raise.
EnableFinalizers(t, under) ==
    /\ lockCount' = lockCount - 1
    /\ IF lockCount = 1
       THEN CallRest(t, under, pending, None)
       ELSE /\ stack' = [stack EXCEPT ![t] = under]
            /\ UNCHANGED <<pending, called>>

DisableFinalizers ==
    /\ lockCount' = lockCount + 1
    /\ pending' = IF pending = None THEN <<>> ELSE pending

-----------------------------------------------------------------------------
(* Actions. *)

\* Mutant: the queue does not trigger the action.
DieSilently(o) ==
    /\ AppLevel
    /\ o \notin dead
    /\ dead' = dead \cup {o}
    /\ queue' = Append(queue, o)
    /\ UNCHANGED <<fired, enabled, lockCount, pending, stack, called, refused>>

\* The collector finds an object dead, queues it and triggers the action.
Die(o) ==
    /\ AppLevel
    /\ o \notin dead
    /\ dead' = dead \cup {o}
    /\ queue' = Append(queue, o)
    /\ fired' = TRUE
    /\ UNCHANGED <<enabled, lockCount, pending, stack, called, refused>>

\* UserDelAction.perform, between two bytecodes of any code, popen's too.
Perform(t) ==
    /\ AppLevel
    /\ fired
    /\ Len(stack[t]) < MaxDepth
    /\ fired' = FALSE
    /\ RunFinalizers(t, stack[t])
    /\ UNCHANGED <<enabled, lockCount, dead, refused>>

\* Mutant: every call counts.
DisableAgain(t) ==
    /\ InCode(t)
    /\ lockCount < MaxCount
    /\ enabled' = FALSE
    /\ DisableFinalizers
    /\ UNCHANGED <<queue, fired, stack, dead, called, refused>>

\* gc.disable()
Disable(t) ==
    /\ InCode(t)
    /\ lockCount < MaxCount
    /\ enabled
    /\ enabled' = FALSE
    /\ DisableFinalizers
    /\ UNCHANGED <<queue, fired, stack, dead, called, refused>>

\* enable_finalizers raises: its caller has changed what it changes, the count is as it was.
Refuse ==
    /\ refused' = refused + 1
    /\ UNCHANGED <<lockCount, pending, called>>

\* gc.enable().  It may raise, after it has changed enabled_at_app_level.
Enable(t) ==
    /\ InCode(t)
    /\ ~enabled
    /\ enabled' = TRUE
    /\ IF lockCount = 0
       THEN Refuse /\ UNCHANGED stack
       ELSE EnableFinalizers(t, stack[t]) /\ UNCHANGED refused
    /\ UNCHANGED <<queue, fired, dead>>

\* popen: gc.disable_finalizers() ...
Lock(t) ==
    /\ AppLevel
    /\ Top(t) # "lock"
    /\ Len(stack[t]) < MaxDepth
    /\ lockCount < MaxCount
    /\ DisableFinalizers
    /\ stack' = [stack EXCEPT ![t] = Append(@, Plain("lock"))]
    /\ UNCHANGED <<queue, fired, enabled, dead, called, refused>>

\* ... and, whatever happens, gc.enable_finalizers().
Unlock(t) ==
    /\ AppLevel
    /\ Top(t) = "lock"
    /\ IF lockCount = 0
       THEN Refuse /\ stack' = [stack EXCEPT ![t] = Below(t)]
       ELSE EnableFinalizers(t, Below(t)) /\ UNCHANGED refused
    /\ UNCHANGED <<queue, fired, enabled, dead>>

\* gc.collect().  When it raises nothing has changed.
Collect(t) ==
    /\ InCode(t)
    /\ Len(stack[t]) + 1 < MaxDepth
    /\ IF enabled
       THEN /\ RunFinalizers(t, Append(stack[t], Plain("collect")))
            /\ UNCHANGED lockCount
       ELSE /\ lockCount > 0
            /\ EnableFinalizers(t, Append(stack[t], [Plain("enabling") EXCEPT !.temp = TRUE]))
            /\ UNCHANGED queue
    /\ UNCHANGED <<fired, enabled, dead, refused>>

\* The pending ones have been called: now those in the queue.
CollectRun(t) ==
    /\ Top(t) = "enabling"
    /\ RunFinalizers(t, Append(Below(t), [Plain("collect") EXCEPT !.temp = TRUE]))
    /\ UNCHANGED <<fired, enabled, lockCount, dead, refused>>

\* finally: if temp_reenable: disable_finalizers(space)
CollectEnd(t) ==
    /\ Top(t) = "collect"
    /\ stack' = [stack EXCEPT ![t] = Below(t)]
    /\ IF Last(stack[t]).temp
       THEN DisableFinalizers
       ELSE UNCHANGED <<lockCount, pending>>
    /\ UNCHANGED <<queue, fired, enabled, dead, called, refused>>

\* A finalizer returns, or raises: the error is reported and the loop goes on.
Return(t) ==
    /\ AppLevel
    /\ \/ /\ Top(t) = "run"
          /\ RunFinalizers(t, Below(t))
       \/ /\ Top(t) = "enable"
          /\ CallRest(t, Below(t), Last(stack[t]).rest, pending)
          /\ UNCHANGED queue
    /\ UNCHANGED <<fired, enabled, lockCount, dead, refused>>

-----------------------------------------------------------------------------
Inside(t) == CollectRun(t) \/ CollectEnd(t) \/ Return(t) \/ Unlock(t)

Next ==
    \/ \E o \in Obj : Die(o)
    \/ \E t \in Threads :
          \/ Perform(t) \/ Disable(t) \/ Enable(t) \/ Lock(t) \/ Collect(t)
          \/ Inside(t)

\* Every finalizer returns, and so does popen; what they call in turn does not count.
\* The bytecode loop of some thread performs the action.
Fairness ==
    /\ \A t \in Threads :
          /\ WF_vars(CollectRun(t))
          /\ WF_vars(CollectEnd(t))
          /\ \A d \in 1 .. MaxDepth :
                SF_vars(Len(stack[t]) = d /\ (Return(t) \/ Unlock(t)))
    /\ SF_vars(\E t \in Threads : Perform(t))

Spec == Init /\ [][Next]_vars
FairSpec == Spec /\ Fairness

-----------------------------------------------------------------------------
(* Properties. *)

\* The types, and that only the dead are finalized.
TypeOK ==
    /\ queue \in Seq(Obj)
    /\ fired \in BOOLEAN /\ enabled \in BOOLEAN
    /\ lockCount \in Nat
    /\ pending \in Seq(Obj) \cup {None}
    /\ stack \in [Threads -> Seq(Frame)]
    /\ called \subseteq dead /\ dead \subseteq Obj
    /\ refused \in Nat

\* Where an object waits for its finalizer to be called.
At(s, o) == {i \in DOMAIN s : s[i] = o}
Calls == UNION {{t} \X DOMAIN stack[t] : t \in Threads}
Waiting(o) ==
    Cardinality(At(queue, o))
    + (IF pending = None THEN 0 ELSE Cardinality(At(pending, o)))
    + Cardinality(UNION {{c} \X At(stack[c[1]][c[2]].rest, o) : c \in Calls})

\* A dead object waits in one place until its finalizer has been called, and then in
\* none: no way of suspending, resuming or nesting loses a call or makes two.
EachOnce == \A o \in Obj : Waiting(o) = (IF o \in dead \ called THEN 1 ELSE 0)

\* The calls of popen between its two calls of gc.
InPopen == {c \in Calls : stack[c[1]][c[2]].kind = "lock"}

\* The suspensions in force, by popen and by gc.disable().
Suspensions == Cardinality(InPopen) + (IF enabled THEN 0 ELSE 1)

\* The calls of gc.collect() that have enabled finalizers for the time being.
Lifting == {c \in Calls :
               LET f == stack[c[1]][c[2]] IN f.kind \in {"enabling", "collect"} /\ f.temp}

\* gc.isenabled() tells the truth, as long as no gc.enable() and no popen has raised: with
\* finalizers enabled at app level, and no thread in popen or in a gc.collect() that has
\* enabled them, none are set aside.  "Enable finalizers now ... If they were disabled
\* even several times, enable them anyway" (interp_gc.py:43-46).  A call that raises leaves
\* one suspension behind, never more, whoever calls what and however the calls nest.
EnabledIsEffective ==
    enabled /\ InPopen = {} /\ Lifting = {} =>
       lockCount = refused /\ (pending # None => refused > 0)

\* A finalizer is called only if each suspension in force, by gc.disable() or by a popen,
\* is matched by a gc.collect() in progress that lifts it: if there is none of these, not
\* after gc.disable() and not while any thread is in popen.  (A gc.collect() may lift the
\* suspension of another caller; with one, the fork of a popen is not protected.)
CalledOnlyWhenAllowed ==
    [][called' # called => Suspensions' <= Cardinality(Lifting')]_vars

\* The finalizer of a dead object is called, if the count of suspensions comes back to zero
\* again and again.  It does if finalizers are enabled and no thread is in popen again and
\* again, and no call has raised; after a gc.enable() that raised in a gc.collect() of
\* another caller it may not, and the objects stay set aside.
EventuallyCalled ==
    []<>(lockCount = 0) => \A o \in Obj : (o \in dead ~> o \in called)
=============================================================================
