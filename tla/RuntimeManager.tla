--------------------------- MODULE RuntimeManager ---------------------------
(***************************************************************************)
(* runtime.Manager: ExecuteExclusive, ExecuteMultipleExclusive and         *)
(* ExecuteCompositeExclusive, running concurrently in one process against  *)
(* a driver that other processes use too.  A call installs reentrancy      *)
(* guards, acquires its leases one after the other, runs the callback,     *)
(* releases the leases in reverse order, removes the guards and leaves.    *)
(*                                                                         *)
(* A member is a definition and a resource key; its field joined is the    *)
(* string that the two give when one follows the other.  The driver is     *)
(* external:                                                               *)
(* a table of leases that may end at any time, whose calls may fail, and   *)
(* whose answer to an acquire may be lost after the lease was stored.      *)
(* Admission and shutdown are those of Quiescence, which Drain implements. *)
(***************************************************************************)
EXTENDS Policies

CONSTANTS Calls,        \* goroutines that call the manager, again and again
          Owners,       \* the OwnerIDs of their requests
          Members,      \* records [def, rank, resource, key, joined]
          FailIfHeld,   \* definitions whose members are only checked
          StrictDefs,   \* definitions in strict mode
          Requests      \* sequences of members that callers ask for

Defs == {m.def : m \in Members}

ASSUME RuntimeAssumption ==
    /\ \A m \in Members : m.rank \in Nat /\ m.resource \in Nat /\ m.key \in Nat
    /\ FailIfHeld \subseteq Defs /\ StrictDefs \subseteq Defs
    /\ Requests \subseteq Seq(Members) \ {<<>>}
    /\ {"nobody", "other"} \cap Calls = {} /\ {"none", "other"} \cap Owners = {}

VARIABLES guards,       \* Manager.active: <<member, owner>> -> "none", "pending", "held"
          activeByDef,  \* Manager.activeByDef
          call,         \* what each call is doing
          leases,       \* the driver: member -> the owner, and who will release it
          closing, inside, drained, \* Quiescence
          lost          \* history: the calls that lost a lease while they held it

manager == <<guards, activeByDef, leases, lost>>
admission == <<closing, inside, drained>>
vars == <<manager, call, admission>>

Admission == INSTANCE Quiescence WITH Execs <- Calls, active <- inside


-----------------------------------------------------------------------------
Free == [by |-> "nobody", owner |-> "none"]
Idle == [pc |-> "idle", op |-> "none", owner |-> "none", checks |-> <<>>, plan |-> <<>>,
         i |-> 1, res |-> "none", by |-> "nobody"]

Init == /\ guards = [g \in Members \X Owners |-> "none"]
        /\ activeByDef = [d \in Defs |-> 0]
        /\ call = [c \in Calls |-> Idle]
        /\ leases = [m \in Members |-> Free]
        /\ Admission!Init
        /\ lost = {}

Guard(c, m) == <<m, call[c].owner>>
Current(c) == call[c].plan[call[c].i]

\* A call moves to a stage and a position of its plan: the next member, or
\* another stage when there is none.
At(c, pc, i) == [call[c] EXCEPT !.pc = pc, !.i = i]
Advance(c, stage) == IF call[c].i < Len(call[c].plan)
                     THEN At(c, call[c].pc, call[c].i + 1) ELSE At(c, stage, 1)
Becomes(c, r) == call' = [call EXCEPT ![c] = r]

\* An error return after the guards are in place, or the return of the
\* callback: the deferred functions release the n leases acquired so far, then
\* remove the guards.
Unwind(c, n, result) ==
    LET r == IF n = 0 THEN At(c, "unguard", 1) ELSE At(c, "release", n)
    IN  [r EXCEPT !.res = result]

Start(c, op, checks, plan) ==
    /\ call[c].pc = "idle"
    /\ ~closing
    /\ \E o \in Owners :
          Becomes(c, [Idle EXCEPT !.op = op, !.owner = o, !.pc = "check", !.checks = checks,
                                  !.plan = plan])
    /\ UNCHANGED <<manager, admission>>

\* A return before admission leaves nothing to clean up.
Return(c) == Becomes(c, Idle)

\* CheckPresence of each FailIfHeld member, before admission.  The call goes
\* on only past a member that is free; it returns ErrPreconditionFailed for
\* one that is held, and whatever error the check itself meets.
Precheck(c) ==
    /\ call[c].pc = "check"
    /\ IF call[c].checks = <<>>
       THEN Becomes(c, At(c, "admit", 1))
       ELSE \/ /\ leases[Head(call[c].checks)] = Free
               /\ Becomes(c, [call[c] EXCEPT !.checks = Tail(@)])
            \/ Return(c)
    /\ UNCHANGED <<manager, admission>>

\* tryAdmitInFlightExecution.
Admit(c) ==
    /\ call[c].pc = "admit"
    /\ \/ /\ Admission!Admit(c)
          /\ Becomes(c, At(c, IF call[c].plan = <<>> THEN "run" ELSE "guard", 1))
       \/ /\ closing
          /\ Return(c)
          /\ UNCHANGED admission
    /\ UNCHANGED manager

\* Mutant of InstallGuard: the deferred cleanup is registered before the
\* loop, so a refused call removes every guard of its plan.
InstallGuardCleaning(c) ==
    LET g == Guard(c, Current(c)) IN
    /\ call[c].pc = "guard"
    /\ IF guards[g] # "none"
       THEN /\ Becomes(c, Unwind(c, 0, "reentrant"))
            /\ UNCHANGED guards
       ELSE /\ guards' = [guards EXCEPT ![g] = "pending"]
            /\ Becomes(c, Advance(c, "acquire"))
    /\ UNCHANGED <<activeByDef, leases, lost, admission>>

\* LoadOrStore of the next guard.  A guard that is taken makes the call
\* return before the deferred cleanup is registered: the guards already
\* installed stay.
InstallGuard(c) ==
    LET g == Guard(c, Current(c)) IN
    /\ call[c].pc = "guard"
    /\ IF guards[g] # "none"
       THEN /\ Becomes(c, [At(c, "leave", 1) EXCEPT !.res = "reentrant"])
            /\ UNCHANGED guards
       ELSE /\ guards' = [guards EXCEPT ![g] = "pending"]
            /\ Becomes(c, Advance(c, "acquire"))
    /\ UNCHANGED <<activeByDef, leases, lost, admission>>

\* Does call d still have the lease of m that it acquired?
Holding(d, m) ==
    /\ leases[m].by = d
    /\ \E i \in DOMAIN call[d].plan :
          /\ call[d].plan[i] = m
          /\ \/ call[d].pc = "acquire" /\ i < call[d].i
             \/ call[d].pc = "run"
             \/ call[d].pc = "release" /\ i <= call[d].i

\* Mutant of Refused: the call runs with the leases it has.
RefusedRunning(c, result) == Becomes(c, At(c, "run", 1))

\* The history field `by' is the call whose lease was in the way.
Refused(c, result) ==
    LET m == Current(c)
        holder == leases[m].by
        by == IF result = "busy" /\ holder \in Calls
              THEN IF Holding(holder, m) THEN holder ELSE "nobody"
              ELSE "nobody" IN
    Becomes(c, [Unwind(c, call[c].i - 1, result) EXCEPT !.by = by])

\* guardIndex of a composite is keyed by the joined string: of two members
\* with the same one the later is found.  The other operations use the guard
\* of the member itself.
guardIndex(c) ==
    LET same == Increasing({j \in DOMAIN call[c].plan :
                               call[c].plan[j].joined = Current(c).joined})
    IN  IF call[c].op = "composite" THEN same[Len(same)] ELSE call[c].i

\* acquireLease for the next member: granted, refused because somebody has
\* the lease, or failed (a timeout, a cancelled context, a backend error),
\* in which case the driver may have stored the lease all the same.
AcquireLease(c) ==
    LET m == Current(c) IN
    /\ call[c].pc = "acquire"
    /\ \/ /\ leases[m] = Free
          /\ leases' = [leases EXCEPT ![m] = [by |-> c, owner |-> call[c].owner]]
          /\ guards' = [guards EXCEPT ![Guard(c, call[c].plan[guardIndex(c)])] = "held"]
          /\ activeByDef' = [activeByDef EXCEPT ![m.def] = @ + 1]
          /\ Becomes(c, Advance(c, "run"))
       \/ /\ leases[m] # Free
          /\ Refused(c, "busy")
          /\ UNCHANGED <<leases, guards, activeByDef>>
       \/ /\ Refused(c, "error")
          /\ \/ UNCHANGED leases
             \/ /\ leases[m] = Free
                /\ leases' = [leases EXCEPT ![m] = [by |-> "nobody", owner |-> call[c].owner]]
          /\ UNCHANGED <<guards, activeByDef>>
    /\ UNCHANGED <<lost, admission>>

\* Mutant of Callback: the in-flight count is given back first, as if its
\* deferred function had been registered last.
CallbackLeaving(c) ==
    /\ call[c].pc = "run"
    /\ Admission!Leave(c)
    /\ Becomes(c, Unwind(c, Len(call[c].plan), "nil"))
    /\ UNCHANGED manager

\* The callback returns, with an error or without.
Callback(c) ==
    /\ call[c].pc = "run"
    /\ \E result \in {"nil", "error"} :
          Becomes(c, IF call[c].plan = <<>>
                     THEN [At(c, "leave", 1) EXCEPT !.res = result]
                     ELSE Unwind(c, Len(call[c].plan), result))
    /\ UNCHANGED <<manager, admission>>

\* Joining a release error to what the call returns.
Join(res) == IF res = "nil" THEN "error" ELSE res

\* Mutant of ReleaseLease: the error of the driver is dropped.
ReleaseLeaseSilent(c) ==
    LET m == Current(c)
        mine == IF m.def \in StrictDefs THEN leases[m].by = c
                                        ELSE leases[m].owner = call[c].owner
        next == IF call[c].i = 1 THEN At(c, "unguard", 1)
                                 ELSE At(c, "release", call[c].i - 1) IN
    /\ call[c].pc = "release"
    /\ Becomes(c, next)
    /\ leases' = IF mine THEN [leases EXCEPT ![m] = Free] ELSE leases
    /\ UNCHANGED <<guards, activeByDef, lost, admission>>

\* releaseLease, in reverse order.  The driver compares the owner (the token
\* in strict mode), answers an error if the lease is not the caller's any
\* more, and may fail without removing it.
ReleaseLease(c) ==
    LET m == Current(c)
        mine == IF m.def \in StrictDefs THEN leases[m].by = c
                                        ELSE leases[m].owner = call[c].owner
        next == IF call[c].i = 1 THEN At(c, "unguard", 1)
                                 ELSE At(c, "release", call[c].i - 1) IN
    /\ call[c].pc = "release"
    /\ \/ /\ mine
          /\ leases' = [leases EXCEPT ![m] = Free]
          /\ Becomes(c, next)
       \/ /\ Becomes(c, [next EXCEPT !.res = Join(@)])
          /\ leases' = [leases EXCEPT ![m].by = IF @ = c THEN "nobody" ELSE @]
    /\ UNCHANGED <<guards, activeByDef, lost, admission>>

\* Mutant of RemoveGuard: the state of the entry is not looked at.
RemoveGuardCounting(c) ==
    LET m == Current(c) IN
    /\ call[c].pc = "unguard"
    /\ activeByDef' = [activeByDef EXCEPT ![m.def] = @ - 1]
    /\ guards' = [guards EXCEPT ![Guard(c, m)] = "none"]
    /\ Becomes(c, Advance(c, "leave"))
    /\ UNCHANGED <<leases, lost, admission>>

\* The deferred removal of the guards, in order.
RemoveGuard(c) ==
    LET m == Current(c) IN
    /\ call[c].pc = "unguard"
    /\ activeByDef' = IF guards[Guard(c, m)] = "held"
                      THEN [activeByDef EXCEPT ![m.def] = @ - 1] ELSE activeByDef
    /\ guards' = [guards EXCEPT ![Guard(c, m)] = "none"]
    /\ Becomes(c, Advance(c, "leave"))
    /\ UNCHANGED <<leases, lost, admission>>

\* releaseInFlightExecution, the last deferred function.
Leave(c) ==
    /\ call[c].pc = "leave"
    /\ Admission!Leave(c)
    /\ call' = [d \in Calls |->
                   IF d = c THEN Idle
                   ELSE IF call[d].by = c THEN [call[d] EXCEPT !.by = "nobody"]
                   ELSE call[d]]
    /\ lost' = lost \ {c}
    /\ UNCHANGED <<guards, activeByDef, leases>>

Body(c) == \/ Precheck(c) \/ Admit(c) \/ InstallGuard(c) \/ AcquireLease(c)
           \/ Callback(c) \/ ReleaseLease(c) \/ RemoveGuard(c) \/ Leave(c)

(***************************************************************************)
(* The three operations: each is Body on its own kind of plan.             *)
(***************************************************************************)
ExecuteExclusive(c) ==
    \/ call[c].op = "exclusive" /\ Body(c)
    \/ \E r \in Requests : Len(r) = 1 /\ Start(c, "exclusive", <<>>, r)

hasDuplicateKeys(r) == \E i, j \in DOMAIN r : i # j /\ r[i] = r[j]

ExecuteMultipleExclusive(c) ==
    \/ call[c].op = "multiple" /\ Body(c)
    \/ \E r \in Requests :
          /\ \A i \in DOMAIN r : r[i].def = r[1].def
          /\ r[1].def \notin StrictDefs
          /\ ~hasDuplicateKeys(r)
          /\ Start(c, "multiple", <<>>, CanonicalizeMembers(r))

\* memberKeyInputs has one entry per definition: for every FailIfHeld member
\* of a definition, the presence of the last one of the request is checked.
LastOf(r, d) == LET ms == MembersOf(r, {d}) IN ms[Len(ms)]

ExecuteCompositeExclusive(c) ==
    \/ call[c].op = "composite" /\ Body(c)
    \/ \E r \in Requests :
          LET plan == CanonicalizeMembers(r)
              checked == MembersOf(plan, FailIfHeld)
          IN  Start(c, "composite", [i \in DOMAIN checked |-> LastOf(r, checked[i].def)],
                    MembersOf(plan, Defs \ FailIfHeld))

Execute(c) == ExecuteExclusive(c) \/ ExecuteMultipleExclusive(c) \/ ExecuteCompositeExclusive(c)

Shutdown == /\ Admission!Close \/ Admission!Announce
            /\ UNCHANGED <<manager, call>>

(***************************************************************************)
(* The driver's other clients, and time.                                   *)
(***************************************************************************)
\* A lease ends: its TTL is over, or the client it belongs to released it.
Lapse(m) == /\ leases[m] # Free
            /\ leases' = [leases EXCEPT ![m] = Free]
            /\ lost' = lost \cup {c \in Calls : Holding(c, m)}
            /\ UNCHANGED <<guards, activeByDef, call, admission>>

\* A client with another OwnerID acquires.
OtherAcquires(m) == /\ leases[m] = Free
                    /\ leases' = [leases EXCEPT ![m] = [by |-> "other", owner |-> "other"]]
                    /\ UNCHANGED <<guards, activeByDef, lost, call, admission>>

Next == \/ \E c \in Calls : Execute(c)
        \/ \E m \in Members : Lapse(m) \/ OtherAcquires(m)
        \/ Shutdown

Spec == Init /\ [][Next]_vars

-----------------------------------------------------------------------------
\* The active-lock count of a definition, which the manager reports, is the
\* number of its guards that are held: no path of a call, not even one that
\* is refused or fails on the way, counts a lock twice or uncounts one that
\* was never acquired.  Two members of a composite must not have the same
\* joined string.
HeldOf(d) == {g \in Members \X Owners : g[1].def = d /\ guards[g] = "held"}
ActiveCountExact == \A d \in Defs : activeByDef[d] = Cardinality(HeldOf(d))

\* All or nothing: a callback runs only when every member of its plan was
\* acquired, and each lease is still the call's unless it ran out; a call that
\* has returned leaves no lease behind, except one whose release failed or
\* whose acquire was answered with an error.
AllOrNothing ==
    /\ \A c \in Calls : call[c].pc = "run" /\ c \notin lost =>
          \A i \in DOMAIN call[c].plan : leases[call[c].plan[i]].by = c
    /\ \A m \in Members : leases[m].by \in Calls => Holding(leases[m].by, m)

\* A call that returns nil kept every lease until it released it: no lease ran
\* out while the callback was running, even though nothing renews it.  The
\* driver would not notice a lease that ran out and was taken again under the
\* same OwnerID; the reentrancy guard keeps that from happening inside one
\* process.
NilMeansHeld == \A c \in Calls : call[c].res = "nil" /\ call[c].pc = "leave" => c \notin lost

\* Two calls never refuse each other: when each needs a lease the other has,
\* one of them gets through, because members are acquired in canonical order.
NoMutualRefusal == \A c, d \in Calls : ~(call[c].by = d /\ call[d].by = c)

\* What a call between its guards and their removal has in the guard map.
Owns(c, m) == \E i \in DOMAIN call[c].plan :
                 /\ call[c].plan[i] = m
                 /\ \/ call[c].pc = "guard" /\ i < call[c].i
                    \/ call[c].pc \in {"acquire", "run", "release"}
                    \/ call[c].pc = "unguard" /\ i >= call[c].i

\* A guard protects its call until the call removes it: no other call of the
\* owner removes it or installs it a second time.
GuardsProtect ==
    \A c \in Calls, m \in Members : Owns(c, m) =>
        /\ guards[Guard(c, m)] # "none"
        /\ \A d \in Calls : d # c /\ Owns(d, m) => call[d].owner # call[c].owner

\* Once Shutdown has returned nil, every lease that a call acquired has been
\* released, except those whose release failed or whose acquire was answered
\* with an error; they end with their TTL.
DrainedMeansReleased ==
    drained => \A m \in Members : leases[m].by \notin Calls

\* ErrReentrantAcquire is returned only while another call of the same owner
\* is using one of the members.
ReentrantMeansInUse ==
    [][\A c \in Calls :
          call[c].pc = "guard" /\ call'[c].res = "reentrant" =>
              \E d \in Calls \ {c} : call[d].owner = call[c].owner /\ d \in inside
                                     /\ Owns(d, Current(c))]_vars
=============================================================================
