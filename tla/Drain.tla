------------------------------- MODULE Drain --------------------------------
(***************************************************************************)
(* Admission and graceful shutdown of a manager: the atomic shuttingDown   *)
(* flag, the atomic inFlight counter, and the drainMu/drainCond pair, as   *)
(* Execute* calls, Shutdown calls and context watchers use them.  The same *)
(* code serves runtime.Manager and workers.Manager.                        *)
(*                                                                         *)
(* Every load, store or read-modify-write of an atomic, every Lock, Wait   *)
(* and Broadcast is a step of its own; Unlock happens with the step before.*)
(***************************************************************************)
EXTENDS Naturals, FiniteSets

CONSTANTS Execs,          \* goroutines that call Execute*, again and again
          Closers,        \* Shutdown calls
          WithDeadline    \* those whose context can be done (ctx.Done() # nil)

ASSUME DrainAssumption == /\ IsFiniteSet(Execs)
                          /\ WithDeadline \subseteq Closers

VARIABLES shuttingDown,   \* Manager.shuttingDown
          inFlight,       \* Manager.inFlight
          drainMu,        \* the set of goroutines holding drainMu (at most one)
          waiters,        \* the notify list of drainCond
          epc,            \* where each Execute* call is
          cpc,            \* where each Shutdown call is
          ctxDone,        \* the Shutdown calls whose context is done
          watcher         \* the goroutine waitForDrainWithContext starts

vars == <<shuttingDown, inFlight, drainMu, waiters, epc, cpc, ctxDone, watcher>>
execVars == <<inFlight, epc>>
closerVars == <<shuttingDown, cpc, ctxDone, watcher>>

ExecStates == {"idle", "checked", "counted", "running", "leaving", "bouncing",
               "signal"}
CloserStates == {"new", "lock", "loop", "enter", "test", "park", "wait", "woken",
                 "ok", "err"}

Init == /\ shuttingDown = FALSE
        /\ inFlight = 0
        /\ drainMu = {}
        /\ waiters = {}
        /\ epc = [e \in Execs |-> "idle"]
        /\ cpc = [c \in Closers |-> "new"]
        /\ ctxDone = {}
        /\ watcher = [c \in Closers |-> "off"]

Drained == inFlight = 0

(***************************************************************************)
(* An Execute* call.                                                       *)
(***************************************************************************)
\* The first load of the flag; a set flag makes the call return
\* ErrShuttingDown without touching anything.
Check(e) == /\ epc[e] = "idle"
            /\ ~shuttingDown
            /\ epc' = [epc EXCEPT ![e] = "checked"]
            /\ UNCHANGED <<inFlight, drainMu, waiters, closerVars>>

Count(e) == /\ epc[e] = "checked"
            /\ inFlight' = inFlight + 1
            /\ epc' = [epc EXCEPT ![e] = "counted"]
            /\ UNCHANGED <<drainMu, waiters, closerVars>>

\* Mutant of Recheck: no second load.
RecheckSkipped(e) == /\ epc[e] = "counted"
                     /\ epc' = [epc EXCEPT ![e] = "running"]
                     /\ UNCHANGED <<inFlight, drainMu, waiters, closerVars>>

\* The second load of the flag, after the increment.
Recheck(e) == /\ epc[e] = "counted"
              /\ epc' = [epc EXCEPT ![e] = IF shuttingDown THEN "bouncing"
                                                           ELSE "running"]
              /\ UNCHANGED <<inFlight, drainMu, waiters, closerVars>>

\* The callback and the deferred release of guard and lease, which run
\* before the deferred releaseInFlightExecution.
Finish(e) == /\ epc[e] = "running"
             /\ epc' = [epc EXCEPT ![e] = "leaving"]
             /\ UNCHANGED <<inFlight, drainMu, waiters, closerVars>>

\* Mutants of Decrement: released by tryAdmit and by the deferred call too;
\* the last one out is taken for the one before.
DecrementTwice(e) == /\ epc[e] \in {"leaving", "bouncing"}
                     /\ inFlight' = inFlight - (IF epc[e] = "bouncing" THEN 2 ELSE 1)
                     /\ epc' = [epc EXCEPT ![e] = IF inFlight = 1 THEN "signal"
                                                                  ELSE "idle"]
                     /\ UNCHANGED <<drainMu, waiters, closerVars>>
DecrementOffByOne(e) == /\ epc[e] \in {"leaving", "bouncing"}
                        /\ inFlight' = inFlight - 1
                        /\ epc' = [epc EXCEPT ![e] = IF inFlight = 2 THEN "signal"
                                                                     ELSE "idle"]
                        /\ UNCHANGED <<drainMu, waiters, closerVars>>

Decrement(e) == /\ epc[e] \in {"leaving", "bouncing"}
                /\ inFlight' = inFlight - 1
                /\ epc' = [epc EXCEPT ![e] = IF inFlight = 1 THEN "signal"
                                                             ELSE "idle"]
                /\ UNCHANGED <<drainMu, waiters, closerVars>>

\* Mutant of Signal: broadcast without taking drainMu.
SignalUnlocked(e) == /\ epc[e] = "signal"
                     /\ waiters' = {}
                     /\ epc' = [epc EXCEPT ![e] = "idle"]
                     /\ UNCHANGED <<inFlight, drainMu, closerVars>>

Signal(e) == /\ epc[e] = "signal"
             /\ drainMu = {}
             /\ waiters' = {}
             /\ epc' = [epc EXCEPT ![e] = "idle"]
             /\ UNCHANGED <<inFlight, drainMu, closerVars>>

(***************************************************************************)
(* A Shutdown call.                                                        *)
(***************************************************************************)
Begin(c) == /\ cpc[c] = "new"
            /\ shuttingDown' = TRUE
            /\ cpc' = [cpc EXCEPT ![c] = "lock"]
            /\ UNCHANGED <<execVars, drainMu, waiters, ctxDone, watcher>>

Lock(c) == /\ cpc[c] = "lock"
           /\ drainMu = {}
           /\ drainMu' = {c}
           /\ cpc' = [cpc EXCEPT ![c] = "loop"]
           /\ UNCHANGED <<execVars, waiters, shuttingDown, ctxDone, watcher>>

\* Return from Shutdown: the deferred Unlock, and close(stop) if the wait
\* was armed.  A watcher that already saw the context still broadcasts.
Return(c, result) ==
    /\ cpc' = [cpc EXCEPT ![c] = result]
    /\ drainMu' = {}
    /\ watcher' = [watcher EXCEPT ![c] = IF @ = "armed" THEN "off" ELSE @]
    /\ UNCHANGED <<execVars, waiters, shuttingDown, ctxDone>>

\* The condition of the loop, and the context check at its head.
Loop(c) == /\ cpc[c] = "loop"
           /\ \/ Drained /\ Return(c, "ok")
              \/ ~Drained /\ c \in ctxDone /\ Return(c, "err")
              \/ /\ ~Drained
                 /\ c \notin ctxDone
                 /\ cpc' = [cpc EXCEPT ![c] = "enter"]
                 /\ UNCHANGED <<execVars, drainMu, waiters, shuttingDown, ctxDone,
                                watcher>>

\* Mutant of Enter: every context is treated like context.Background().
EnterUnwatched(c) ==
    /\ cpc[c] = "enter"
    /\ cpc' = [cpc EXCEPT ![c] = IF Drained THEN "loop" ELSE "test"]
    /\ UNCHANGED <<execVars, drainMu, waiters, shuttingDown, ctxDone, watcher>>

\* waitForDrainWithContext up to its loop: a watcher only for a context
\* that can be done.
Enter(c) ==
    /\ cpc[c] = "enter"
    /\ cpc' = [cpc EXCEPT ![c] = IF Drained THEN "loop" ELSE "test"]
    /\ watcher' = IF ~Drained /\ c \in WithDeadline
                  THEN [watcher EXCEPT ![c] = "armed"] ELSE watcher
    /\ UNCHANGED <<execVars, drainMu, waiters, shuttingDown, ctxDone>>

\* `for !drained()`; leaving the loop closes stop.
Test(c) ==
    /\ cpc[c] = "test"
    /\ cpc' = [cpc EXCEPT ![c] = IF Drained THEN "loop" ELSE "park"]
    /\ watcher' = [watcher EXCEPT ![c] = IF Drained /\ @ = "armed" THEN "off" ELSE @]
    /\ UNCHANGED <<execVars, drainMu, waiters, shuttingDown, ctxDone>>

\* cond.Wait joins the notify list, then unlocks.
Park(c) == /\ cpc[c] = "park"
           /\ cpc' = [cpc EXCEPT ![c] = "wait"]
           /\ waiters' = waiters \cup {c}
           /\ drainMu' = {}
           /\ UNCHANGED <<execVars, shuttingDown, ctxDone, watcher>>

\* Notified: Wait re-locks before it returns.
Wake(c) == /\ cpc[c] = "wait"
           /\ c \notin waiters
           /\ drainMu = {}
           /\ drainMu' = {c}
           /\ cpc' = [cpc EXCEPT ![c] = "woken"]
           /\ UNCHANGED <<execVars, waiters, shuttingDown, ctxDone, watcher>>

\* The select after Wait: give up only if the context is done and the
\* counter is not zero.
Woken(c) == /\ cpc[c] = "woken"
            /\ \/ c \in ctxDone /\ ~Drained /\ Return(c, "err")
               \/ /\ c \notin ctxDone \/ Drained
                  /\ cpc' = [cpc EXCEPT ![c] = "test"]
                  /\ UNCHANGED <<execVars, drainMu, waiters, shuttingDown,
                                 ctxDone, watcher>>

(***************************************************************************)
(* The environment cancels a context; the watcher turns it into a wake-up. *)
(***************************************************************************)
Expire(c) == /\ c \in WithDeadline \ ctxDone
             /\ ctxDone' = ctxDone \cup {c}
             /\ UNCHANGED <<execVars, drainMu, waiters, shuttingDown, cpc, watcher>>

Fire(c) == /\ watcher[c] = "armed"
           /\ c \in ctxDone
           /\ watcher' = [watcher EXCEPT ![c] = "fired"]
           /\ UNCHANGED <<execVars, drainMu, waiters, shuttingDown, cpc, ctxDone>>

Broadcast(c) == /\ watcher[c] = "fired"
                /\ drainMu = {}
                /\ waiters' = {}
                /\ watcher' = [watcher EXCEPT ![c] = "off"]
                /\ UNCHANGED <<execVars, drainMu, shuttingDown, cpc, ctxDone>>

\* Everything has returned: a final state, not a deadlock.
Terminated == /\ shuttingDown
              /\ \A e \in Execs : epc[e] = "idle"
              /\ \A c \in Closers : cpc[c] \in {"ok", "err"}
              /\ UNCHANGED vars

ExecStep(e) == Check(e) \/ Count(e) \/ Recheck(e) \/ Decrement(e) \/ Signal(e)
CloserStep(c) == \/ Lock(c) \/ Loop(c) \/ Enter(c) \/ Test(c)
                 \/ Park(c) \/ Wake(c) \/ Woken(c)
WatcherStep(c) == Fire(c) \/ Broadcast(c)

Next == \/ \E e \in Execs : ExecStep(e) \/ Finish(e)
        \/ \E c \in Closers : Begin(c) \/ CloserStep(c) \/ Expire(c) \/ WatcherStep(c)
        \/ Terminated

Spec == Init /\ [][Next]_vars

\* The Go scheduler runs every goroutine that can run.  Nobody has to call
\* Shutdown, no context has to expire, and a callback may run for ever.
Scheduled == /\ \A e \in Execs : WF_vars(Count(e) \/ Recheck(e) \/ Decrement(e) \/ Signal(e))
             /\ \A c \in Closers : WF_vars(CloserStep(c)) /\ WF_vars(WatcherStep(c))

\* Callbacks that return, as Shutdown without a deadline relies on.
CallbacksReturn == \A e \in Execs : WF_vars(Finish(e))

FairSpec == Spec /\ Scheduled

-----------------------------------------------------------------------------
TypeOK == /\ shuttingDown \in BOOLEAN
          /\ inFlight \in Nat
          /\ drainMu \in SUBSET Closers
          /\ waiters \in SUBSET Closers
          /\ epc \in [Execs -> ExecStates]
          /\ cpc \in [Closers -> CloserStates]
          /\ ctxDone \in SUBSET WithDeadline
          /\ watcher \in [Closers -> {"off", "armed", "fired"}]

\* The calls that incremented the counter and have not decremented it.
Counted == {e \in Execs : epc[e] \in {"counted", "running", "leaving", "bouncing"}}

\* The calls inside their callback or its deferred cleanup.
Inside == {e \in Execs : epc[e] \in {"running", "leaving"}}

\* The counter that Shutdown polls is the number of calls between the
\* increment in tryAdmitInFlightExecution and the decrement in
\* releaseInFlightExecution: no path counts a call twice or forgets one.
InFlightExact == inFlight = Cardinality(Counted)

\* Once a Shutdown call has returned nil, no callback and no deferred lease
\* release is running, and none will start: the store of the flag and the
\* load of the counter in Shutdown cannot both miss a call whose increment
\* and second load of the flag come in the opposite order.
NoWorkAfterDrain == (\E c \in Closers : cpc[c] = "ok") => shuttingDown /\ Inside = {}

\* A Shutdown call sleeping on drainCond is never forgotten: while it is on
\* the notify list, somebody is still counted or the goroutine that took the
\* counter to zero has yet to broadcast; and a call with a deadline still has
\* its watcher, unless it used it up and only refused calls are left to leave.
NoLostWakeup ==
    \A c \in waiters :
        /\ Counted # {} \/ \E e \in Execs : epc[e] = "signal"
        /\ c \in WithDeadline => watcher[c] \in {"armed", "fired"} \/ Inside = {}

\* The drain protocol implements the promise of Shutdown.
Promise == INSTANCE Quiescence WITH
               closing <- shuttingDown,
               active  <- Inside,
               drained <- \E c \in Closers : cpc[c] = "ok"
ImplementsQuiescence == Promise!Spec

\* With callbacks that return, every Shutdown call returns, and it returns
\* nil when its context cannot expire.
DrainCompletes ==
    CallbacksReturn => \A c \in Closers : cpc[c] = "lock" ~>
        (cpc[c] = "ok" \/ (cpc[c] = "err" /\ c \in ctxDone))

\* A Shutdown call whose context is done returns even if some callback never
\* does: the watcher's broadcast reaches the sleeper.
DeadlineHonoured ==
    \A c \in Closers : (cpc[c] # "new" /\ c \in ctxDone) ~> cpc[c] \in {"ok", "err"}
=============================================================================
