---------------------------- MODULE WorkerManager ---------------------------
(***************************************************************************)
(* workers.Manager: ExecuteClaimed and ExecuteCompositeClaimed in several  *)
(* processes that share one driver and one idempotency store.  A claim     *)
(* installs its guards, takes the processing slot of its message in the    *)
(* store, acquires its leases, runs the callback while one goroutine per   *)
(* lease renews it, stops those goroutines, records the outcome, releases  *)
(* the leases, removes the guards and leaves.  Admission and shutdown are  *)
(* in Drain.                                                               *)
(*                                                                         *)
(* The driver is external: a table of leases that may end at any time,     *)
(* compares owners, and whose calls may fail or lose their answer.  The    *)
(* store is that of idempotency/memory; its records may expire at any time *)
(* and its calls may fail or lose their answer too.                        *)
(***************************************************************************)
EXTENDS Policies

CONSTANTS Claims,       \* goroutines that call the manager, again and again
          Procs,        \* processes: a manager and an OwnerID each
          Members,      \* records [def, rank, resource, key]
          StrictDefs,   \* definitions in strict mode
          Deliveries,   \* records [msg, members]: an idempotency key, what to lock
          NoKey         \* the msg of a delivery without an idempotency key

Messages == {d.msg : d \in Deliveries} \ {NoKey}

ASSUME WorkerAssumption ==
    /\ \A m \in Members : m.rank \in Nat /\ m.resource \in Nat /\ m.key \in Nat
    /\ \A d \in Deliveries : d.members \in Seq(Members) \ {<<>>}
    /\ "nobody" \notin Claims \cup Procs

VARIABLES guards,       \* Manager.active of each process: pairs <<process, member>>
          call,         \* what each claim is doing
          leases,       \* the driver: member -> the owner, and who will release it
          records,      \* the idempotency store: message -> status
          overrun,      \* history: messages whose record expired under a claim
          processed     \* history: messages whose callback returned nil or ErrDuplicateIgnored

history == <<overrun, processed>>
vars == <<guards, call, leases, records, history>>

Free == [by |-> "nobody", owner |-> "nobody"]
Idle == [pc |-> "idle", proc |-> "nobody", msg |-> NoKey, plan |-> <<>>, i |-> 1,
         seen |-> "missing", ren |-> <<>>, err |-> {}, res |-> "error"]

Init == /\ guards = {}
        /\ call = [c \in Claims |-> Idle]
        /\ leases = [m \in Members |-> Free]
        /\ records = [k \in Messages |-> "missing"]
        /\ overrun = {} /\ processed = {}

Current(c) == call[c].plan[call[c].i]

\* A claim moves to a stage and a position of its plan: the next or the
\* previous member, or another stage when there is none.
At(c, pc, i) == [call[c] EXCEPT !.pc = pc, !.i = i]
Forward(c, stage) == IF call[c].i < Len(call[c].plan)
                     THEN At(c, call[c].pc, call[c].i + 1) ELSE At(c, stage, 1)
Backward(c, stage) == IF call[c].i > 1
                      THEN At(c, call[c].pc, call[c].i - 1) ELSE At(c, stage, 1)
Becomes(c, r) == call' = [call EXCEPT ![c] = r]

\* Mutant of Fails: the leases acquired so far are not released.
FailsAtOnce(c, n) == Becomes(c, [At(c, "unguard", 1) EXCEPT !.seen = "missing"])

\* An error return after the guards are in place and with n leases acquired:
\* the deferred functions release them in reverse, then remove the guards.
Fails(c, n) ==
    LET r == IF n = 0 THEN At(c, "unguard", 1) ELSE At(c, "release", n)
    IN  Becomes(c, [r EXCEPT !.seen = "missing"])

(***************************************************************************)
(* Guards.                                                                 *)
(***************************************************************************)
\* A valid request that tryAdmitInFlightExecution admits; one that it refuses
\* returns with nothing done.
Start(c, d, plan) ==
    /\ call[c].pc = "idle"
    /\ \E p \in Procs :
          Becomes(c, [Idle EXCEPT !.pc = "guard", !.proc = p, !.msg = d.msg, !.plan = plan])
    /\ UNCHANGED <<guards, leases, records, history>>

\* Mutant of InstallGuard: Store instead of LoadOrStore.
InstallGuardStore(c) ==
    /\ call[c].pc = "guard"
    /\ guards' = guards \cup {<<call[c].proc, Current(c)>>}
    /\ Becomes(c, Forward(c, IF call[c].msg = NoKey THEN "acquire" ELSE "get"))
    /\ UNCHANGED <<leases, records, history>>

\* LoadOrStore of the next guard.  A guard that is taken makes the claim
\* return ErrReentrantAcquire and keep the guards it has installed.
InstallGuard(c) ==
    LET g == <<call[c].proc, Current(c)>> IN
    /\ call[c].pc = "guard"
    /\ \/ g \in guards /\ Becomes(c, At(c, "leave", 1)) /\ UNCHANGED guards
       \/ /\ g \notin guards
          /\ guards' = guards \cup {g}
          /\ Becomes(c, Forward(c, IF call[c].msg = NoKey THEN "acquire" ELSE "get"))
    /\ UNCHANGED <<leases, records, history>>

(***************************************************************************)
(* The processing slot in the idempotency store.                           *)
(***************************************************************************)
\* preAcquireIdempotency: Get, then what handleIdempotencyRecord does with
\* the status it read.
Get(c) ==
    /\ call[c].pc = "get"
    /\ \/ /\ records[call[c].msg] = "missing"
          /\ Becomes(c, At(c, "begin", 1))
       \/ /\ records[call[c].msg] \in {"completed", "failed"}
          /\ Becomes(c, [At(c, "refresh", 1) EXCEPT !.seen = records[call[c].msg]])
       \/ /\ records[call[c].msg] = "in_progress"
          /\ Fails(c, 0)
       \/ Fails(c, 0)
    /\ UNCHANGED <<guards, leases, records, history>>

\* Mutant of Begin: the record is written without looking for another one.
BeginBlind(c) ==
    /\ call[c].pc = "begin"
    /\ records' = [records EXCEPT ![call[c].msg] = "in_progress"]
    /\ Becomes(c, At(c, "acquire", 1))
    /\ UNCHANGED <<guards, leases, history>>

\* Begin is atomic in the store; a record found there is handled like one
\* found by Get.  An error may hide a record that was written.
Begin(c) ==
    LET k == call[c].msg IN
    /\ call[c].pc = "begin"
    /\ \/ /\ records[k] = "missing"
          /\ records' = [records EXCEPT ![k] = "in_progress"]
          /\ Becomes(c, At(c, "acquire", 1)) \/ Fails(c, 0)
       \/ /\ records[k] = "in_progress"
          /\ Fails(c, 0)
          /\ UNCHANGED records
       \/ /\ records[k] \in {"completed", "failed"}
          /\ Becomes(c, [At(c, "refresh", 1) EXCEPT !.seen = records[k]])
          /\ UNCHANGED records
       \/ /\ Fails(c, 0)
          /\ UNCHANGED records
    /\ UNCHANGED <<guards, leases, history>>

\* Complete and Fail of the store write whatever the record is now.  The
\* call may fail before the write, and its answer may be lost after it.
SetTerminalStatus(c, status, succeeded, failed) ==
    \/ /\ records' = [records EXCEPT ![call[c].msg] = status]
       /\ succeeded \/ failed
    \/ failed /\ UNCHANGED records

\* A duplicate renews the terminal record it saw and returns
\* ErrDuplicateIgnored.
Refresh(c) ==
    /\ call[c].pc = "refresh"
    /\ SetTerminalStatus(c, call[c].seen, Fails(c, 0), Fails(c, 0))
    /\ UNCHANGED <<guards, leases, history>>

(***************************************************************************)
(* Leases, the callback and the renewal goroutines.                        *)
(***************************************************************************)
\* acquireClaimLease for the next member.  The renewal goroutines start with
\* the last one.  ExecuteClaimed looks at the overrides of the request only
\* now, with the slot already taken.
AcquireClaimLease(c) ==
    LET m == Current(c) IN
    /\ call[c].pc = "acquire"
    /\ \/ /\ leases[m] = Free
          /\ \/ /\ leases' = [leases EXCEPT ![m] = [by |-> c, owner |-> call[c].proc]]
                /\ Becomes(c, IF call[c].i < Len(call[c].plan) THEN Forward(c, "run")
                              ELSE [At(c, "run", call[c].i) EXCEPT
                                      !.ren = [n \in 1..Len(call[c].plan) |-> "alive"]])
             \/ /\ leases' = [leases EXCEPT ![m] = [by |-> "nobody", owner |-> call[c].proc]]
                /\ Fails(c, call[c].i - 1)
       \/ /\ leases[m] # Free
          /\ Fails(c, call[c].i - 1)
          /\ UNCHANGED leases
       \/ /\ Fails(c, call[c].i - 1)
          /\ UNCHANGED leases
       \/ /\ Len(call[c].plan) = 1
          /\ Fails(c, 0)
          /\ UNCHANGED leases
    /\ UNCHANGED <<guards, records, history>>

\* The callback returns nil or an error for each class of OutcomeFromError,
\* ErrDuplicateIgnored among them, which is acknowledged; its context is
\* cancelled by the first renewal that fails.  A panic takes the way of an
\* error that is retried: the deferred functions stop the renewal, record
\* nothing and release.
Callback(c) ==
    /\ call[c].pc = "run"
    /\ \E err \in {{}, {"duplicate"}, {"invariant"}, {"dlq"}, {"other"}} :
          /\ Becomes(c, [At(c, "stop", call[c].i) EXCEPT !.err = err])
          /\ processed' = IF err \in {{}, {"duplicate"}}
                          THEN processed \cup ({call[c].msg} \ {NoKey}) ELSE processed
    /\ UNCHANGED <<guards, leases, records, overrun>>

\* renewCtx of the i-th session is done: stopAndWait goes through the
\* sessions in reverse.
Cancelled(c, i) == call[c].pc = "stop" /\ call[c].i <= i

\* The driver takes the lease of m for the claim's: it compares the fencing
\* token in strict mode, otherwise the owner.
Recognised(c, m) == IF m.def \in StrictDefs THEN leases[m].by = c
                                            ELSE leases[m].owner = call[c].proc

\* One turn of the goroutine of the i-th session.  At a tick it renews the
\* lease; an error ends the session as failed, unless it comes from the
\* cancellation of renewCtx, which also ends the session in its select.
RenewLease(c, i) ==
    /\ call[c].ren[i] = "alive"
    /\ \/ Recognised(c, call[c].plan[i]) /\ UNCHANGED call
       \/ Becomes(c, [call[c] EXCEPT !.ren = [@ EXCEPT ![i] = "failed"]])
       \/ Cancelled(c, i) /\ Becomes(c, [call[c] EXCEPT !.ren = [@ EXCEPT ![i] = "stopped"]])
    /\ UNCHANGED <<guards, leases, records, history>>

\* What the claim returns once its sessions have stopped.
Lost(c) == IF \E n \in DOMAIN call[c].ren : call[c].ren[n] = "failed"
           THEN {"lease_lost"} ELSE call[c].err

\* Mutant of StopRenewal: the sessions are cancelled and not waited for.
StopRenewalNoWait(c) ==
    /\ call[c].pc = "stop"
    /\ Becomes(c, [Backward(c, "persist") EXCEPT !.err = IF call[c].i > 1 THEN @ ELSE Lost(c)])
    /\ UNCHANGED <<guards, leases, records, history>>

\* stopAndWait, last session first.  With all of them stopped, a failure of
\* any replaces what the callback returned.
StopRenewal(c) ==
    /\ call[c].pc = "stop"
    /\ call[c].ren[call[c].i] \in {"stopped", "failed"}
    /\ Becomes(c, [Backward(c, "persist") EXCEPT !.err = IF call[c].i > 1 THEN @ ELSE Lost(c)])
    /\ UNCHANGED <<guards, leases, records, history>>

(***************************************************************************)
(* The way out.                                                            *)
(***************************************************************************)
Returns(c, err) ==
    Becomes(c, [At(c, "release", Len(call[c].plan)) EXCEPT
                   !.ren = <<>>, !.err = {}, !.res = IF err = {} THEN "nil" ELSE "error"])

\* persistTerminalIdempotency: nothing for a retry; an error of the store is
\* joined to what the claim returns.
Persist(c) ==
    LET err == call[c].err
        outcome == OutcomeFromError(err)
        Write(status) == SetTerminalStatus(c, status, Returns(c, err), Returns(c, err \cup {"store"})) IN
    /\ call[c].pc = "persist"
    /\ \/ /\ call[c].msg = NoKey \/ outcome = "retry"
          /\ Returns(c, err)
          /\ UNCHANGED records
       \/ call[c].msg # NoKey /\ outcome = "ack" /\ Write("completed")
       \/ call[c].msg # NoKey /\ outcome \in {"drop", "dlq"} /\ Write("failed")
    /\ UNCHANGED <<guards, leases, history>>

\* releaseClaimLease, in reverse; its error is ignored, and the lease stays
\* until its TTL is over.
ReleaseClaimLease(c) ==
    LET m == Current(c) IN
    /\ call[c].pc = "release"
    /\ Becomes(c, Backward(c, "unguard"))
    /\ \/ /\ Recognised(c, m)
          /\ leases' = [leases EXCEPT ![m] = Free]
       \/ leases' = [leases EXCEPT ![m].by = IF @ = c THEN "nobody" ELSE @]
    /\ UNCHANGED <<guards, records, history>>

\* The deferred removal of the guards.
RemoveGuard(c) ==
    /\ call[c].pc = "unguard"
    /\ guards' = guards \ {<<call[c].proc, Current(c)>>}
    /\ Becomes(c, Forward(c, "leave"))
    /\ UNCHANGED <<leases, records, history>>

\* The claims that read the record of k, or may write it.
Users(k) == {c \in Claims : call[c].msg = k /\ call[c].pc \notin {"idle", "guard", "get"}}

\* releaseInFlightExecution, the last deferred function.
Leave(c) ==
    /\ call[c].pc = "leave"
    /\ Becomes(c, Idle)
    /\ overrun' = {k \in overrun : Users(k) \ {c} # {}}
    /\ UNCHANGED <<guards, leases, records, processed>>

Body(c) == \/ InstallGuard(c) \/ Get(c) \/ Begin(c) \/ Refresh(c)
           \/ AcquireClaimLease(c) \/ StopRenewal(c) \/ Persist(c)
           \/ ReleaseClaimLease(c) \/ RemoveGuard(c) \/ Leave(c)
Renewal(c) == \E i \in DOMAIN call[c].ren : RenewLease(c, i)

Execution(c) == Body(c) \/ Callback(c) \/ Renewal(c)

ExecuteClaimed(c) ==
    \/ Len(call[c].plan) = 1 /\ Execution(c)
    \/ \E d \in Deliveries : Len(d.members) = 1 /\ Start(c, d, d.members)

\* With one member it takes the same steps as ExecuteClaimed.
ExecuteCompositeClaimed(c) ==
    \/ Len(call[c].plan) > 1 /\ Execution(c)
    \/ \E d \in Deliveries :
          /\ Len(d.members) > 1
          /\ \A i \in DOMAIN d.members : d.members[i].def \notin StrictDefs
          /\ Start(c, d, CanonicalizeMembers(d.members))

(***************************************************************************)
(* Crashes and time.                                                       *)
(***************************************************************************)
\* A process stops, at any point of its claims, and another one starts under
\* the same OwnerID.  The store and the driver keep what they have.
Restart(p) ==
    LET dead == {c \in Claims : call[c].proc = p} IN
    /\ dead # {} \/ \E g \in guards : g[1] = p
    /\ call' = [c \in Claims |-> IF c \in dead THEN Idle ELSE call[c]]
    /\ guards' = {g \in guards : g[1] # p}
    /\ leases' = [m \in Members |-> [leases[m] EXCEPT !.by = IF @ \in dead THEN "nobody" ELSE @]]
    /\ overrun' = {k \in overrun : Users(k) \ dead # {}}
    /\ UNCHANGED <<records, processed>>

\* The TTL of a lease is over.
Lapse(m) == /\ leases[m] # Free
            /\ leases' = [leases EXCEPT ![m] = Free]
            /\ UNCHANGED <<guards, call, records, history>>

\* The TTL of a record is over; nothing renews it during a claim.
Forget(k) == /\ records[k] # "missing"
             /\ records' = [records EXCEPT ![k] = "missing"]
             /\ overrun' = IF Users(k) # {} THEN overrun \cup {k} ELSE overrun
             /\ UNCHANGED <<guards, call, leases, processed>>

Next == \/ \E c \in Claims : ExecuteClaimed(c) \/ ExecuteCompositeClaimed(c)
        \/ \E p \in Procs : Restart(p)
        \/ \E m \in Members : Lapse(m)
        \/ \E k \in Messages : Forget(k)

Spec == Init /\ [][Next]_vars

-----------------------------------------------------------------------------
\* The claims that took the slot of their message and have not given it up.
Processing(k) == {c \in Claims : /\ call[c].msg = k
                                 /\ call[c].pc \in {"acquire", "run", "stop", "persist"}}

\* One claim at a time processes a message, in whatever process the copies of
\* the delivery arrive, and its record says so; the only way around it is a
\* claim that outlives its in-progress record, which nothing renews.
SlotExclusive ==
    \A k \in Messages \ overrun :
        /\ Cardinality(Processing(k)) <= 1
        /\ Processing(k) # {} => records[k] = "in_progress"

\* A message is recorded as completed, and its redeliveries dropped, only if
\* some callback returned nil for it, or ErrDuplicateIgnored, which
\* OutcomeFromError acknowledges as well: neither a lost lease nor the stale
\* write of a redelivery completes a message whose callbacks all failed.
CompletedMeansProcessed == \A k \in Messages : records[k] = "completed" => k \in processed

\* ExecuteClaimed returns nil, and the delivery may be acknowledged, only if no
\* renewal found its lease lost, not even one that failed while the callback
\* was returning, and only after the terminal status is in the store.
AckMeansDone ==
    \A c \in Claims :
        /\ call[c].pc = "persist" /\ (\E i \in DOMAIN call[c].ren : call[c].ren[i] = "failed") =>
               call[c].err = {"lease_lost"} /\ OutcomeFromError(call[c].err) = "retry"
        /\ call[c].res = "nil" /\ call[c].msg \notin {NoKey} \cup overrun =>
               records[call[c].msg] = "completed"

\* A renewal never extends a lease of another claim, although the driver only
\* compares owners: the guard keeps other claims of the process away until the
\* renewal goroutines have stopped.
RenewsOnlyItsOwn ==
    \A c \in Claims : \A i \in DOMAIN call[c].ren :
        call[c].ren[i] = "alive" /\ Recognised(c, call[c].plan[i]) =>
            leases[call[c].plan[i]].by = c

\* A claim that is done holds no lease: whatever failed on the way, the leases
\* it acquired are released before the claim leaves, except one whose release
\* failed, whose acquire was answered with an error, or whose process died.
NothingLeftBehind ==
    \A m \in Members : LET c == leases[m].by IN
        c \in Claims => \E i \in DOMAIN call[c].plan :
            /\ call[c].plan[i] = m
            /\ \/ call[c].pc = "acquire" /\ i < call[c].i
               \/ call[c].pc \in {"run", "stop", "persist"}
               \/ call[c].pc = "release" /\ i <= call[c].i
=============================================================================
