------------------------------ MODULE Signals ------------------------------
(***************************************************************************)
(* Signals and asynchronous actions: rpython/translator/c/src/signals.c,   *)
(* pypy/module/signal/interp_signal.py and the action flag of              *)
(* pypy/interpreter/executioncontext.py.                                   *)
(*                                                                         *)
(* A C signal handler sets a bit and the ticker to -1.  The thread that    *)
(* executes bytecode decrements the ticker before each one and, below      *)
(* zero, calls action_dispatcher: it polls for signals, lets other threads *)
(* run, and performs the actions that have been fired.  Only a thread with *)
(* signals enabled, as the main thread is, reports a signal; another one   *)
(* that finds it keeps it as pending.                                      *)
(* App-level code, run for a signal or for an action, is bytecode too.     *)
(*                                                                         *)
(* The GIL is held by at most one thread (modules Gil and GilLock); the C  *)
(* handler needs no GIL and comes between any two accesses to the ticker   *)
(* and the bits.  Without the thread module there is one thread, and       *)
(* has_bytecode_counter is false.                                          *)
(***************************************************************************)
EXTENDS Integers, Sequences, FiniteSets

CONSTANTS Threads, Main, NoThread,
          Enablers,             \* threads that use __pypy__.thread.signals_enabled
          Signals,              \* signal numbers
          Actions,              \* nonperiodic actions, such as UserDelAction
          HasCounter,           \* has_bytecode_counter: the thread module is there
          Interval,             \* checkinterval, in bytecodes
          MaxArrivals,          \* bound: signals the process receives
          MaxDepth              \* bound: app-level calls made from the dispatcher
                                \* and active in one thread

NoSignal == -1

ASSUME ThreadsAssumption ==
    Main \in Threads /\ NoThread \notin Threads /\ Enablers \subseteq Threads \ {Main}
ASSUME BuildAssumption == HasCounter \in BOOLEAN /\ (~HasCounter => Threads = {Main})
ASSUME BoundsAssumption ==
    /\ Signals \subseteq Nat /\ Interval \in Nat \ {0}
    /\ MaxArrivals \in Nat /\ MaxDepth \in Nat

VARIABLES
    ticker,         \* pypysig_counter: all values below 0 are alike
    bits,           \* pypysig_flags_bits
    inHandler,      \* signals whose C handler has set the bit, not yet the ticker
    arrivals,       \* signals received so far
    owed,           \* signals received and not reported since (for the properties)
    pending,        \* CheckSignalAction.pending_signal
    fireElsewhere,  \* CheckSignalAction.fire_in_another_thread
    enabled,        \* threads whose _signals_enabled is above 0
    fired,          \* fired_actions, NULL being empty
    flagged,        \* actions with _fired
    holder,         \* the thread with the GIL
    pc,             \* where each thread is
    value,          \* per thread: the ticker as decrement_ticker has read it
    calls           \* per thread: the app-level calls active in the dispatcher,
                    \* the latest first, each with the actions still to perform

handlers == <<bits, inHandler, arrivals, owed>>
check == <<pending, fireElsewhere, enabled>>
actions == <<fired, flagged>>
vars == <<ticker, handlers, check, actions, holder, pc, value, calls>>

PCs == {"trace", "decrement", "execute", "except", "reset", "poll", "yield",
        "yielding", "list", "next", "outside", "return"}

\* A call of a signal handler (report_signal) and of an action's perform().
Report == [for |-> "signal", rest |-> {}]
Perform(rest) == [for |-> "action", rest |-> rest]

Init ==
    /\ ticker = 0
    /\ bits = {}
    /\ inHandler = {}
    /\ arrivals = 0
    /\ owed = {}
    /\ pending = NoSignal
    /\ fireElsewhere = FALSE
    /\ enabled = {Main}
    /\ fired = {}
    /\ flagged = {}
    /\ holder = NoThread
    /\ pc = [t \in Threads |-> "return"]
    /\ value = [t \in Threads |-> 0]
    /\ calls = [t \in Threads |-> <<>>]

At(t, l) == holder = t /\ pc[t] = l
Goto(t, l) == pc' = [pc EXCEPT ![t] = l]

-----------------------------------------------------------------------------
(* The C signal handler: pypysig_pushback. *)

Arrive(s) ==
    /\ arrivals < MaxArrivals
    /\ s \notin inHandler
    /\ arrivals' = arrivals + 1
    /\ bits' = bits \cup {s}
    /\ owed' = owed \cup {s}
    /\ inHandler' = inHandler \cup {s}
    /\ UNCHANGED <<ticker, check, actions, holder, pc, value, calls>>

ForceTicker(s) ==
    /\ s \in inHandler
    /\ inHandler' = inHandler \ {s}
    /\ ticker' = -1
    /\ UNCHANGED <<bits, arrivals, owed, check, actions, holder, pc, value, calls>>

-----------------------------------------------------------------------------
(* Bytecode. *)

\* bytecode_trace: decrement_ticker reads the ticker ...
Trace(t) ==
    /\ At(t, "trace")
    /\ value' = [value EXCEPT ![t] = IF HasCounter THEN ticker ELSE 0]
    /\ Goto(t, IF HasCounter THEN "decrement" ELSE IF ticker < 0 THEN "reset" ELSE "execute")
    /\ UNCHANGED <<ticker, handlers, check, actions, holder, calls>>

\* ... and writes it back.
Decrement(t) ==
    /\ At(t, "decrement")
    /\ ticker' = IF value[t] > 0 THEN value[t] - 1 ELSE -1
    /\ value' = [value EXCEPT ![t] = 0]
    /\ Goto(t, IF ticker' < 0 THEN "reset" ELSE "execute")
    /\ UNCHANGED <<handlers, check, actions, holder, calls>>

\* The bytecode is done; the next one is traced.  App-level code at the bound of
\* the depth only comes to its end.
Execute(t) ==
    /\ At(t, "execute")
    /\ Len(calls[t]) < MaxDepth
    /\ Goto(t, "trace")
    /\ UNCHANGED <<ticker, handlers, check, actions, holder, value, calls>>

\* It makes an external call, without the GIL.
Leave(t) ==
    /\ At(t, "execute")
    /\ holder' = NoThread
    /\ Goto(t, "outside")
    /\ UNCHANGED <<ticker, handlers, check, actions, value, calls>>

ComeBack(t) ==
    /\ pc[t] = "outside"
    /\ Goto(t, "return")
    /\ UNCHANGED <<ticker, handlers, check, actions, holder, value, calls>>

\* It triggers a finalizer, say, and an action is fired: AbstractActionFlag.fire.
Fire(t, a) ==
    /\ At(t, "execute")
    /\ a \notin flagged
    /\ flagged' = flagged \cup {a}
    /\ fired' = fired \cup {a}
    /\ ticker' = -1
    /\ UNCHANGED <<handlers, check, holder, pc, value, calls>>

\* It is in a 'with signals_enabled' block for a while.
EnableSignals(t) ==
    /\ At(t, "execute")
    /\ t \in Enablers \ enabled
    /\ enabled' = enabled \cup {t}
    /\ UNCHANGED <<ticker, handlers, pending, fireElsewhere, actions, holder, pc, value, calls>>

DisableSignals(t) ==
    /\ At(t, "execute")
    /\ t \in Enablers \cap enabled
    /\ enabled' = enabled \ {t}
    /\ UNCHANGED <<ticker, handlers, pending, fireElsewhere, actions, holder, pc, value, calls>>

\* After an exception: bytecode_trace_after_exception only looks at the ticker.
Except(t) ==
    /\ At(t, "except")
    /\ Goto(t, IF ticker < 0 THEN "reset" ELSE "execute")
    /\ UNCHANGED <<ticker, handlers, check, actions, holder, value, calls>>

\* Mutant: the ticker is left to count down.
AfterThreadSwitchQuiet(t) ==
    IF fireElsewhere /\ t \in enabled
    THEN fireElsewhere' = FALSE /\ UNCHANGED ticker
    ELSE UNCHANGED <<fireElsewhere, ticker>>

\* _after_thread_switch: a signal waits for a thread with signals enabled.
AfterThreadSwitch(t) ==
    IF fireElsewhere /\ t \in enabled
    THEN fireElsewhere' = FALSE /\ ticker' = -1
    ELSE UNCHANGED <<fireElsewhere, ticker>>

\* A thread gets the GIL, after an external call or after having yielded.
Switch(t) ==
    /\ holder = NoThread
    /\ pc[t] \in {"return", "yielding"}
    /\ holder' = t
    /\ AfterThreadSwitch(t)
    /\ Goto(t, IF pc[t] = "yielding" THEN "list" ELSE "execute")
    /\ UNCHANGED <<handlers, pending, enabled, actions, value, calls>>

-----------------------------------------------------------------------------
(* action_dispatcher. *)

Reset(t) ==
    /\ At(t, "reset")
    /\ ticker' = Interval
    /\ Goto(t, "poll")
    /\ UNCHANGED <<handlers, check, actions, holder, value, calls>>

Lowest(S) == CHOOSE s \in S : \A r \in S : s <= r

\* CheckSignalAction.perform, when there is no signal: on to GILReleaseAction,
\* if there are threads.
PollNothing(t) ==
    /\ At(t, "poll")
    /\ pending = NoSignal /\ bits = {}
    /\ Goto(t, IF HasCounter THEN "yield" ELSE "list")
    /\ UNCHANGED <<ticker, handlers, check, actions, holder, value, calls>>

\* The signal n that _poll_for_signals looks at: the pending one, else one from C.
Next_n == IF pending # NoSignal THEN pending ELSE Lowest(bits)
Taken == IF pending # NoSignal THEN {} ELSE {Next_n}

\* In a thread with signals enabled it is reported: the app-level handler is called.
PollReport(t) ==
    /\ At(t, "poll")
    /\ pending # NoSignal \/ bits # {}
    /\ t \in enabled
    /\ pending' = NoSignal
    /\ bits' = bits \ Taken
    /\ owed' = (owed \ {Next_n}) \cup (bits' \cap {Next_n})
    /\ calls' = [calls EXCEPT ![t] = <<Report>> \o @]
    /\ Goto(t, "execute")
    /\ UNCHANGED <<ticker, inHandler, arrivals, fireElsewhere, enabled,
                   actions, holder, value>>

\* Mutant: the next signal is polled from C without a look at the pending one.
PollKeepFromC(t) ==
    /\ At(t, "poll")
    /\ bits # {}
    /\ t \notin enabled
    /\ pending' = Lowest(bits)
    /\ bits' = bits \ {Lowest(bits)}
    /\ fireElsewhere' = TRUE
    /\ Goto(t, "yield")
    /\ UNCHANGED <<ticker, inHandler, arrivals, owed, enabled,
                   actions, holder, value, calls>>

\* In another thread it is kept for a thread with signals enabled.
PollKeep(t) ==
    /\ At(t, "poll")
    /\ pending # NoSignal \/ bits # {}
    /\ t \notin enabled
    /\ pending' = Next_n
    /\ bits' = bits \ Taken
    /\ fireElsewhere' = TRUE
    /\ Goto(t, "yield")
    /\ UNCHANGED <<ticker, inHandler, arrivals, owed, enabled,
                   actions, holder, value, calls>>

Top(t) == Head(calls[t])
Return(t) == calls' = [calls EXCEPT ![t] = Tail(@)]
Calling(t, what) == At(t, "execute") /\ calls[t] # <<>> /\ Top(t).for = what

\* The signal handler returns: poll more.
HandlerReturns(t) ==
    /\ Calling(t, "signal")
    /\ Return(t)
    /\ Goto(t, "poll")
    /\ UNCHANGED <<ticker, handlers, check, actions, holder, value>>

\* Mutant: the list of fired actions was taken before the periodic actions ran.
HandlerRaisesWithList(t) ==
    /\ Calling(t, "signal")
    /\ Return(t)
    /\ fired' = {}
    /\ Goto(t, "except")
    /\ UNCHANGED <<ticker, handlers, check, flagged, holder, value>>

\* It raises, as default_int_handler does: the rest of the dispatcher is skipped
\* and the exception shows up in the interrupted code.
HandlerRaises(t) ==
    /\ Calling(t, "signal")
    /\ Return(t)
    /\ Goto(t, "except")
    /\ UNCHANGED <<ticker, handlers, check, actions, holder, value>>

\* GILReleaseAction.perform: other threads run if any is waiting.
Yield(t) ==
    /\ At(t, "yield")
    /\ IF \E u \in Threads : pc[u] \in {"return", "yielding"}
       THEN holder' = NoThread /\ Goto(t, "yielding")
       ELSE UNCHANGED holder /\ Goto(t, "list")
    /\ UNCHANGED <<ticker, handlers, check, actions, value, calls>>

\* The nonperiodic actions: the list is taken as it is now.
TakeList(t) ==
    /\ At(t, "list")
    /\ IF fired = {}
       THEN Goto(t, "execute") /\ UNCHANGED <<fired, calls>>
       ELSE /\ fired' = {}
            /\ calls' = [calls EXCEPT ![t] = <<Perform(fired)>> \o @]
            /\ Goto(t, "next")
    /\ UNCHANGED <<ticker, handlers, check, flagged, holder, value>>

\* _fired is reset, then the action is performed: it may be fired again at once.
NextAction(t) ==
    /\ At(t, "next")
    /\ \E a \in Top(t).rest :
          /\ flagged' = flagged \ {a}
          /\ calls' = [calls EXCEPT ![t][1].rest = @ \ {a}]
    /\ Goto(t, "execute")
    /\ UNCHANGED <<ticker, handlers, check, fired, holder, value>>

\* What an action calls does not raise (UserDelAction reports the exceptions).
ActionReturns(t) ==
    /\ Calling(t, "action")
    /\ Goto(t, "next")
    /\ UNCHANGED <<ticker, handlers, check, actions, holder, value, calls>>

LastAction(t) ==
    /\ At(t, "next")
    /\ Top(t).rest = {}
    /\ Return(t)
    /\ Goto(t, "execute")
    /\ UNCHANGED <<ticker, handlers, check, actions, holder, value>>

-----------------------------------------------------------------------------
\* The steps of a thread that goes on, whatever its program is.
Run(t) ==
    \/ Trace(t) \/ Decrement(t) \/ Execute(t) \/ Except(t)
    \/ Reset(t) \/ PollNothing(t) \/ PollReport(t) \/ PollKeep(t) \/ Yield(t)
    \/ TakeList(t) \/ NextAction(t) \/ LastAction(t)

CallEnds(t) == HandlerReturns(t) \/ HandlerRaises(t) \/ ActionReturns(t)

Next ==
    \/ \E s \in Signals : Arrive(s) \/ ForceTicker(s)
    \/ \E t \in Threads :
          \/ Run(t) \/ CallEnds(t) \/ Switch(t) \/ Leave(t) \/ ComeBack(t)
          \/ EnableSignals(t) \/ DisableSignals(t)
          \/ \E a \in Actions : Fire(t, a)

SafeSpec == Init /\ [][Next]_vars

(***************************************************************************)
(* The C handler ends; a thread with the GIL goes on; a thread that wants  *)
(* the GIL gets it (EveryoneRuns of module Gil); external calls and        *)
(* app-level handlers return, and a thread executes bytecodes of its own   *)
(* between external calls.                                                 *)
(***************************************************************************)
Fairness ==
    /\ \A s \in Signals : WF_vars(ForceTicker(s))
    /\ \A t \in Threads :
          /\ WF_vars(Run(t)) /\ SF_vars(Execute(t)) /\ SF_vars(CallEnds(t))
          /\ SF_vars(Switch(t)) /\ WF_vars(ComeBack(t))

Spec == SafeSpec /\ Fairness

-----------------------------------------------------------------------------
(* Properties. *)

TypeOK ==
    /\ ticker \in -1 .. Interval
    /\ bits \subseteq Signals /\ inHandler \subseteq Signals /\ owed \subseteq Signals
    /\ arrivals \in 0 .. MaxArrivals
    /\ pending \in Signals \cup {NoSignal}
    /\ fireElsewhere \in BOOLEAN /\ enabled \subseteq Threads
    /\ fired \subseteq Actions /\ flagged \subseteq Actions
    /\ holder \in Threads \cup {NoThread}
    /\ pc \in [Threads -> PCs]
    /\ value \in [Threads -> -1 .. Interval]
    /\ \A t \in Threads :
          /\ Len(calls[t]) <= MaxDepth
          /\ \A i \in 1 .. Len(calls[t]) :
                calls[t][i] \in [for : {"signal", "action"}, rest : SUBSET Actions]

\* No signal is lost on its way from the C handler to the app-level one: what is
\* owed is in the bits or is the pending one, and nothing else is.
NoSignalLost == owed = bits \cup ({pending} \ {NoSignal})

\* A signal that another thread has taken from C does not wait for the ticker to
\* count down: the next switch to a thread with signals enabled forces the ticker,
\* or it is forced already, or the dispatcher is about to look.
PendingIsArmed ==
    pending # NoSignal =>
        \/ fireElsewhere
        \/ ticker = -1
        \/ \E t \in Threads : pc[t] \in {"reset", "poll"}
        \/ \E t \in Threads : pc[t] = "decrement" /\ value[t] = -1

\* Where each fired action is kept: in fired_actions, or in the list that some
\* call of a thread is working on.
Places(a) ==
    {p \in Threads \X (1 .. MaxDepth) :
        p[2] <= Len(calls[p[1]]) /\ a \in calls[p[1]][p[2]].rest}

\* "fire() has no effect, which is the effect we want, because perform() will be
\* called anyway" (executioncontext.py:477-479): an action with _fired is in one
\* list and no other action is in any, also when a handler raises.
FiredIsListed ==
    \A a \in Actions :
        /\ a \in flagged <=> (a \in fired \/ Places(a) # {})
        /\ a \in fired => Places(a) = {}
        /\ Cardinality(Places(a)) <= 1

\* A signal that has been received is reported, whichever thread finds it and
\* although the decrement of the ticker may overwrite the handler's -1.
SignalReported == \A s \in Signals : s \in owed ~> s \notin owed

\* A fired action is performed, also when signal handlers raise.
ActionPerformed == \A a \in Actions : a \in flagged ~> a \notin flagged
=============================================================================
