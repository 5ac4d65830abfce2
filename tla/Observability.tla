---------------------------- MODULE Observability ---------------------------
(***************************************************************************)
(* The observability pipeline of one client: executions publish lifecycle  *)
(* events through the bridge, which applies each event to the inspection   *)
(* store and then hands one copy to the asynchronous dispatcher, whose     *)
(* workers deliver it to the sinks; Client.Shutdown drains the managers    *)
(* and closes the dispatcher.                                              *)
(*                                                                         *)
(* Executions are reduced to what they publish and the lease, guard and    *)
(* admission that order it; RuntimeManager, WorkerManager and Drain have   *)
(* the rest.  The dispatcher does not look at events: its channel is their *)
(* number.                                                                 *)
(***************************************************************************)
EXTENDS Integers, Sequences, FiniteSets

CONSTANTS Runs, Claims,   \* executions of the runtime and of the worker manager
          Peeking,        \* runs of composites with a FailIfHeld member
          Closers,        \* Client.Shutdown calls
          Resource,       \* Resource[e]: definition and resource key
          Owner,          \* Owner[e]: the OwnerID
          Workers,        \* the goroutines of the dispatcher
          BufferSize, HistoryCap,
          MaxDrops        \* bound on DroppedCount

Execs == Runs \cup Claims
Procs == Execs \cup Closers
Managers == {"runtime", "worker"}
Manager(e) == IF e \in Runs THEN "runtime" ELSE "worker"
Resources == {Resource[e] : e \in Execs}
Nobody == "nobody"

ASSUME ObservabilityAssumption ==
    /\ Peeking \subseteq Runs
    /\ Runs \cap Claims = {} /\ Execs \cap Closers = {} /\ IsFiniteSet(Procs)
    /\ BufferSize \in Nat \ {0} /\ HistoryCap \in Nat \ {0} /\ MaxDrops \in Nat
    /\ \A e \in Execs : Owner[e] # Nobody

VARIABLES pc,             \* where each execution and each Shutdown call is
          pub,            \* how far a process is with publishing its event
          closing,        \* the managers whose shuttingDown flag is set
          active,         \* the guards of both managers
          leases,         \* the driver: resource -> OwnerID
          runtimeLocks, workerClaims,        \* inspect.Store
          history, historyHead, historyLen,  \* its ring of events
          consumed,       \* history variable: the number of the last event applied
          policy, queue, closed,             \* the dispatcher
          dropped,        \* DroppedCount
          busy,           \* the workers that are delivering an event
          stopped,        \* the workers that returned
          lost,           \* history: how many events were evicted or refused
          crashed         \* a goroutine panicked

ring == <<history, historyHead, historyLen, consumed>>
store == <<runtimeLocks, workerClaims, ring>>
lock == <<closing, active, leases>>
channel == <<queue, closed, dropped, busy, stopped, lost>>
vars == <<pc, pub, lock, store, policy, channel, crashed>>

\* lockKey and the guard keys of the two managers.
Lock(e) == <<Resource[e], Owner[e]>>
Guard(e) == <<Manager(e), Resource[e], IF e \in Runs THEN Owner[e] ELSE Nobody>>

Init == /\ pc = [p \in Procs |-> "new"]
        /\ pub = [p \in Procs |-> "idle"]
        /\ closing = {} /\ active = {}
        /\ leases = [r \in Resources |-> Nobody]
        /\ runtimeLocks = {} /\ workerClaims = {}
        /\ history = [i \in 0..(HistoryCap - 1) |-> 0]
        /\ historyHead = 0 /\ historyLen = 0 /\ consumed = 0
        /\ policy \in {"DropOldest", "DropNewest"}
        /\ queue = 0 /\ closed = FALSE /\ dropped = 0
        /\ busy = {} /\ stopped = {}
        /\ lost = 0
        /\ crashed = FALSE

(***************************************************************************)
(* The inspection store.  An entry of the ring is the number of the event, *)
(* modulo 2 * HistoryCap: enough to tell apart those the ring can hold.    *)
(***************************************************************************)
ApplyEvent(kind, key) ==
    /\ runtimeLocks' = CASE kind = "AcquireSucceeded" -> runtimeLocks \cup {key}
                         [] kind \in {"Released", "LeaseLost"} -> runtimeLocks \ {key}
                         [] OTHER -> runtimeLocks
    /\ workerClaims' = CASE kind = "AcquireStarted" -> workerClaims \cup {key}
                         [] kind \in {"AcquireSucceeded", "AcquireFailed"} -> workerClaims \ {key}
                         [] OTHER -> workerClaims

Following(n) == (n + 1) % (2 * HistoryCap)

\* Mutant of AppendToRing: the write position is reset one entry late.
AppendToRingLate ==
    /\ consumed' = Following(consumed)
    /\ history' = [history EXCEPT ![historyHead % HistoryCap] = Following(consumed)]
    /\ historyHead' = (historyHead + 1) % (HistoryCap + 1)
    /\ historyLen' = IF historyLen < HistoryCap THEN historyLen + 1 ELSE historyLen

AppendToRing ==
    /\ consumed' = Following(consumed)
    /\ history' = [history EXCEPT ![historyHead] = Following(consumed)]
    /\ historyHead' = (historyHead + 1) % HistoryCap
    /\ historyLen' = IF historyLen < HistoryCap THEN historyLen + 1 ELSE historyLen

Start == IF historyLen = HistoryCap THEN historyHead ELSE 0
RecentEvents(limit) ==
    LET n == IF limit <= 0 \/ limit > historyLen THEN historyLen ELSE limit
    IN  [i \in 1..n |-> history[(Start + i - 1) % HistoryCap]]

(***************************************************************************)
(* The bridge: apply the event, then publish one copy of it.               *)
(***************************************************************************)
Publish(p, kind, key, next) ==
    /\ pub[p] = "idle"
    /\ pc' = [pc EXCEPT ![p] = next]
    /\ ApplyEvent(kind, key)
    /\ AppendToRing
    /\ pub' = [pub EXCEPT ![p] = "send"]
    /\ UNCHANGED <<policy, channel, crashed>>

(***************************************************************************)
(* dispatcher.Publish and handleDrop.                                      *)
(***************************************************************************)
NotPublishing == UNCHANGED <<pc, lock, store, policy>>
Published(p) == pub' = [pub EXCEPT ![p] = "idle"]

\* A send on a closed channel panics, in a select too.
Panic(p) == /\ pub[p] \in {"send", "resend"}
            /\ closed
            /\ crashed' = TRUE
            /\ NotPublishing /\ UNCHANGED <<pub, channel>>

Send(p) == /\ pub[p] = "send"
           /\ ~closed
           /\ queue < BufferSize
           /\ queue' = queue + 1
           /\ Published(p)
           /\ NotPublishing /\ UNCHANGED <<closed, dropped, busy, stopped, lost, crashed>>

\* Mutant of HandleDrop: an event refused under DropNewest is not counted.
HandleDropUncounted(p) ==
    /\ pub[p] = "send" /\ ~closed /\ queue = BufferSize /\ dropped < MaxDrops
    /\ dropped' = IF policy = "DropOldest" THEN dropped + 1 ELSE dropped
    /\ pub' = [pub EXCEPT ![p] = IF policy = "DropOldest" THEN "evict" ELSE "idle"]
    /\ lost' = IF policy = "DropNewest" THEN lost + 1 ELSE lost
    /\ NotPublishing /\ UNCHANGED <<queue, closed, busy, stopped, crashed>>

HandleDrop(p) ==
    /\ pub[p] = "send"
    /\ ~closed
    /\ queue = BufferSize
    /\ dropped < MaxDrops
    /\ dropped' = dropped + 1
    /\ \/ /\ policy = "DropOldest"
          /\ pub' = [pub EXCEPT ![p] = "evict"]
          /\ UNCHANGED lost
       \/ /\ policy = "DropNewest"
          /\ Published(p)
          /\ lost' = lost + 1
    /\ NotPublishing /\ UNCHANGED <<queue, closed, busy, stopped, crashed>>

\* Neither the receive nor the second send waits.
Evict(p) == /\ pub[p] = "evict"
            /\ pub' = [pub EXCEPT ![p] = "resend"]
            /\ \/ /\ queue = 0
                  /\ UNCHANGED <<queue, lost>>
               \/ /\ queue > 0
                  /\ queue' = queue - 1
                  /\ lost' = lost + 1
            /\ NotPublishing /\ UNCHANGED <<closed, dropped, busy, stopped, crashed>>

Resend(p) == /\ pub[p] = "resend"
             /\ ~closed
             /\ \/ /\ queue < BufferSize
                   /\ queue' = queue + 1
                   /\ UNCHANGED lost
                \/ /\ queue = BufferSize
                   /\ lost' = lost + 1
                   /\ UNCHANGED queue
             /\ Published(p)
             /\ NotPublishing /\ UNCHANGED <<closed, dropped, busy, stopped, crashed>>

(***************************************************************************)
(* The workers.  Once the context is cancelled a worker may still take one *)
(* of the events left in the closed channel: select picks either case.     *)
(***************************************************************************)
NotWorking == UNCHANGED <<pc, pub, lock, store, policy, crashed>>

Take(w) == /\ w \notin stopped \cup busy
           /\ queue > 0
           /\ busy' = busy \cup {w}
           /\ queue' = queue - 1
           /\ NotWorking /\ UNCHANGED <<closed, dropped, stopped, lost>>

\* Every sink and exporter has returned, with an error or without.
Deliver(w) == /\ w \in busy
              /\ busy' = busy \ {w}
              /\ NotWorking /\ UNCHANGED <<queue, closed, dropped, stopped, lost>>

Stop(w) == /\ w \notin stopped \cup busy
           /\ closed
           /\ stopped' = stopped \cup {w}
           /\ NotWorking /\ UNCHANGED <<queue, closed, dropped, busy, lost>>

(***************************************************************************)
(* Executions.                                                             *)
(***************************************************************************)
Report(e, kind, next) == Publish(e, kind, Lock(e), next)
Ready(e, at) == pc[e] = at /\ pub[e] = "idle"
Goto(e, next) == pc' = [pc EXCEPT ![e] = next]
Quiet == UNCHANGED <<pub, store, policy, channel, crashed>>

\* The look at shuttingDown with which every execution begins; it matters only
\* where CheckPresence publishes between it and tryAdmitInFlightExecution.
Enter(e) == /\ e \in Peeking /\ Ready(e, "new")
            /\ Goto(e, IF Manager(e) \in closing THEN "done" ELSE "peek")
            /\ Quiet /\ UNCHANGED lock

Peek(e) == /\ pc[e] = "peek"
           /\ Report(e, "PresenceChecked", "admit")
           /\ UNCHANGED lock

\* tryAdmitInFlightExecution, then the guard, then the first event.
Admit(e) == /\ pc[e] = IF e \in Peeking THEN "admit" ELSE "new"
            /\ \/ /\ Manager(e) \notin closing /\ Guard(e) \notin active
                  /\ active' = active \cup {Guard(e)}
                  /\ Report(e, "AcquireStarted", "acquire")
               \/ /\ pub[e] = "idle"
                  /\ Manager(e) \in closing \/ Guard(e) \in active
                  /\ Goto(e, "done")
                  /\ Quiet /\ UNCHANGED active
            /\ UNCHANGED <<closing, leases>>

Acquire(e) == /\ Ready(e, "acquire")
              /\ leases[Resource[e]] = Nobody
              /\ leases' = [leases EXCEPT ![Resource[e]] = Owner[e]]
              /\ Goto(e, "granted")
              /\ Quiet /\ UNCHANGED <<closing, active>>

\* The runtime manager reports contention on top of the failure.
AcquireFailed(e) ==
    /\ \/ /\ pc[e] = "acquire" /\ leases[Resource[e]] # Nobody
          /\ Report(e, "AcquireFailed", IF e \in Runs THEN "contended" ELSE "leave")
       \/ pc[e] = "contended" /\ Report(e, "Contention", "leave")
    /\ UNCHANGED lock

AcquireSucceeded(e) == /\ pc[e] = "granted"
                       /\ Report(e, "AcquireSucceeded", "held")
                       /\ UNCHANGED lock

\* The end of the callback; a claim has joined its renewals by then.
Finish(e) == /\ \/ e \in Runs /\ pc[e] = "held" /\ Report(e, "Released", "release")
                \/ e \in Claims /\ pc[e] = "held" /\ Report(e, "LeaseLost", "release")
                \/ e \in Claims /\ Ready(e, "held") /\ Goto(e, "release") /\ Quiet
             /\ UNCHANGED lock

\* Mutant of Release: the guards of a claim go with its lease.
ReleaseBoth(e) ==
    /\ Ready(e, "release")
    /\ leases' = [leases EXCEPT ![Resource[e]] = IF @ = Owner[e] THEN Nobody ELSE @]
    /\ active' = active \ {Guard(e)}
    /\ Goto(e, IF e \in Runs THEN "leave" ELSE "released")
    /\ Quiet /\ UNCHANGED closing

\* A claim releases first and reports then, a run the other way round.
Release(e) ==
    /\ Ready(e, "release")
    /\ leases' = [leases EXCEPT ![Resource[e]] = IF @ = Owner[e] THEN Nobody ELSE @]
    /\ Goto(e, IF e \in Runs THEN "leave" ELSE "released")
    /\ Quiet /\ UNCHANGED <<closing, active>>

Released(e) == /\ pc[e] = "released"
               /\ Report(e, "Released", "leave")
               /\ UNCHANGED lock

Leave(e) == /\ Ready(e, "leave")
            /\ active' = active \ {Guard(e)}
            /\ Goto(e, "done")
            /\ Quiet /\ UNCHANGED <<closing, leases>>

\* External: a lease may end under its holder.
Expire(r) == /\ leases[r] # Nobody
             /\ leases' = [leases EXCEPT ![r] = Nobody]
             /\ Quiet /\ UNCHANGED <<pc, closing, active>>

Execute(e) == \/ Enter(e) \/ Peek(e) \/ Admit(e)
              \/ Acquire(e) \/ AcquireFailed(e) \/ AcquireSucceeded(e)
              \/ Finish(e) \/ Release(e) \/ Released(e) \/ Leave(e)

(***************************************************************************)
(* Client.Shutdown: both managers in turn, then the dispatcher.            *)
(***************************************************************************)
InFlight(m) == {e \in Execs : Manager(e) = m /\ pc[e] \notin {"new", "peek", "admit", "done"}}
Say(c, kind, next) == Publish(c, kind, Nobody, next)
Drains == [runtime |-> "drainRuntime", worker |-> "drainWorker"]
Then == [runtime |-> "worker", worker |-> "final"]

Begin(c) == /\ pc[c] = "new"
            /\ Say(c, "ShutdownStarted", "runtime")
            /\ UNCHANGED lock

\* shutdownStart.Do: its function runs once, and a second caller goes on only
\* after the first one has published.
CloseManager(c, m) ==
    /\ pc[c] = m
    /\ m \notin closing
    /\ closing' = closing \cup {m}
    /\ Say(c, "ShutdownStarted", Drains[m])
    /\ UNCHANGED <<active, leases>>

Draining(c, m) == \/ pc[c] = Drains[m]
                  \/ /\ pc[c] = m /\ m \in closing
                     /\ \A d \in Closers : pc[d] = Drains[m] => pub[d] = "idle"

\* The context may be done first; then nothing is published.
DrainManager(c, m) ==
    /\ Draining(c, m)
    /\ \/ /\ InFlight(m) = {}
          /\ Say(c, "ShutdownCompleted", Then[m])
       \/ /\ InFlight(m) # {} /\ pub[c] = "idle"
          /\ Goto(c, Then[m]) /\ Quiet
    /\ UNCHANGED lock

Conclude(c) == /\ pc[c] = "final"
               /\ Say(c, "ShutdownCompleted", "dispatcher")
               /\ UNCHANGED lock

CloseDispatcher(c) ==
    /\ Ready(c, "dispatcher")
    /\ Goto(c, IF closed THEN "returned" ELSE "wait")
    /\ closed' = TRUE
    /\ UNCHANGED <<pub, lock, store, policy, queue, dropped, busy, stopped, lost, crashed>>

\* Mutant of AwaitWorkers: an empty queue is taken for the end of the work.
AwaitQueue(c) == /\ Ready(c, "wait")
                 /\ \/ queue = 0 /\ Goto(c, "stopped")
                    \/ Goto(c, "expired")
                 /\ Quiet /\ UNCHANGED lock

\* The context may be done before the workers have returned.
AwaitWorkers(c) == /\ Ready(c, "wait")
                   /\ \/ stopped = Workers /\ Goto(c, "stopped")
                      \/ Goto(c, "expired")
                   /\ Quiet /\ UNCHANGED lock

Shutdown(c) == \/ Begin(c)
               \/ \E m \in Managers : CloseManager(c, m) \/ DrainManager(c, m)
               \/ Conclude(c) \/ CloseDispatcher(c) \/ AwaitWorkers(c)

Ended == {"returned", "stopped", "expired"}

\* Nothing is left to do.
Rest == /\ \A e \in Execs : Ready(e, "done")
        /\ \A c \in Closers : pc[c] \in Ended
        /\ stopped = Workers
        /\ UNCHANGED vars

Next == \/ /\ ~crashed
           /\ \/ \E e \in Execs : Execute(e)
              \/ \E c \in Closers : Shutdown(c)
              \/ \E p \in Procs : Send(p) \/ HandleDrop(p) \/ Evict(p) \/ Resend(p) \/ Panic(p)
              \/ \E w \in Workers : Take(w) \/ Deliver(w) \/ Stop(w)
              \/ \E r \in Resources : Expire(r)
        \/ Rest
        \/ crashed /\ UNCHANGED vars

Spec == Init /\ [][Next]_vars

(***************************************************************************)
(* Properties.                                                             *)
(***************************************************************************)
\* RecentEvents(0), the whole ring, is what the ring promises whatever it has
\* overwritten: the last events applied to the store, oldest first, none
\* missing.  (With a limit below their number the code returns the oldest ones.)
HistoryExact ==
    LET events == RecentEvents(0) IN
    /\ historyLen < HistoryCap => Len(events) = consumed
    /\ events # <<>> => events[Len(events)] = consumed
    /\ \A i \in DOMAIN events : i > 1 => events[i] = Following(events[i - 1])

\* An acquisition in progress, and an execution whose release has still to be
\* reported.
Trying == {"acquire", "granted"}
Listed(e) == pc[e] = "held" \/ (e \in Claims /\ pc[e] \in {"release", "released"})

\* An execution of the other manager has the lockKey of e, and is past its
\* acquisition or its callback.
Answered == {"contended", "held", "release", "released", "leave", "done"}
Over == {"release", "released", "leave", "done"}
Hidden(e, places) ==
    \E f \in Execs : Lock(f) = Lock(e) /\ Manager(f) # Manager(e) /\ pc[f] \in places

\* The inspection store follows the executions of the process.  It lists no
\* ghosts: an entry belongs to an execution in its callback, or not yet
\* reported as released, or to an acquisition in progress.  And it misses no
\* execution, although a claim reports its release while the next one on the
\* same resource may already be acquiring, but for one case: a run and a claim
\* of one client have the same OwnerID and lockKey does not tell the managers
\* apart, so the end of the one takes out the entry of the other; nothing is
\* said of an execution once one of the other manager has ended.  (For the
\* design of phase 3c "current-state materialization must still remain correct".)
ActiveExact ==
    /\ \A k \in runtimeLocks : \E e \in Execs : Lock(e) = k /\ Listed(e)
    /\ \A k \in workerClaims : \E e \in Execs : Lock(e) = k /\ pc[e] \in Trying
    /\ \A e \in Execs :
          /\ pc[e] = "held" => Lock(e) \in runtimeLocks \/ Hidden(e, Over)
          /\ pc[e] \in Trying => Lock(e) \in workerClaims \/ Hidden(e, Answered)

\* DroppedCount tells of every loss while the dispatcher runs, however
\* publishers and workers interleave in handleDrop: under DropNewest no more
\* events are refused than it says, under DropOldest no more than twice as many
\* are evicted or refused, since a publisher counts once and may then evict one
\* event and still find the buffer full for its own.  (Events still queued when the
\* dispatcher is closed are counted nowhere.)
LossAccounted == lost <= (IF policy = "DropOldest" THEN 2 ELSE 1) * dropped

\* The dispatcher.Shutdown that closed the dispatcher and returned nil has
\* waited for every delivery in progress: no sink is called afterwards.  (A
\* Shutdown that finds it closed returns nil at once and promises nothing.)
QuietAfterShutdown ==
    \A c \in Closers : pc[c] = "stopped" => busy = {}

\* Observability never fails the lock lifecycle or its shutdown: no publisher
\* sends on the channel that dispatcher.Shutdown has closed.
NeverPanics == ~crashed
====
