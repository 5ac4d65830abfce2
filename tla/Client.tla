------------------------------- MODULE Client -------------------------------
(***************************************************************************)
(* The public client over the engine registry: registration of use cases,  *)
(* New, which plans one lock definition for all the use cases that name    *)
(* it, and the way of a request through the client to a manager and back   *)
(* while Shutdown runs.                                                    *)
(*                                                                         *)
(* A use case is a record [name, kind, ref, members, idempotent, ttl]; kind*)
(* is "run", "claim" or "hold".  ref is what DefineLock returned: [name,   *)
(* strict], and two of them may have one name.  A composite has no ref but *)
(* members [def, strict, failIfHeld].  ttl stands for TTL and WaitTimeout, *)
(* which are planned alike; 0 is unset.  No public option sets a lineage   *)
(* parent.                                                                 *)
(***************************************************************************)
EXTENDS Registry

CONSTANTS UseCases,         \* the use cases the program may register
          MaxUseCases       \* bound on how many it registers

NoDef == [name |-> "none", strict |-> FALSE]
Members(u) == {u.members[i] : i \in DOMAIN u.members}
IsComposite(u) == u.members # <<>>

\* stableUseCaseID hashes the name; a hash is the name of no definition.
\* DefineLock asks for a name, and claims and holds are defined on a lock.
ASSUME ClientAssumption ==
    /\ MaxUseCases \in Nat
    /\ \A u, v \in UseCases : u.name # v.ref.name
    /\ \A u \in UseCases : \A m \in UNION {Members(v) : v \in UseCases} : u.name # m.def
    /\ \A u \in UseCases : IsComposite(u) => u.ref = NoDef /\ u.kind = "run"
    /\ \A u \in UseCases : u.kind = "hold" => ~u.ref.strict
    /\ \A u \in UseCases : u.ref.name = "none" => u.ref = NoDef /\ u.kind = "run"

VARIABLES api,          \* whether the program uses the engine itself or this client
          registered,   \* the use cases in the registry
          client,       \* how far New is, the managers it made and the use cases of its plan
          stopping,     \* shuttingDown of the client and of its managers
          req           \* the request that is under way

clientVars == <<api, registered, client, stopping, req>>
allVars == <<registryVars, clientVars>>

ManagerOf == [run |-> "runtime", claim |-> "worker", hold |-> "holds"]
NoUseCase == [name |-> "none", kind |-> "none", ref |-> NoDef, members |-> <<>>,
              idempotent |-> FALSE, ttl |-> 0]
Idle == [pc |-> "idle", op |-> "none", uc |-> NoUseCase, keys |-> 0, bound |-> FALSE,
         err |-> "nil", stopped |-> FALSE]

ClientInit == /\ RegistryInit
              /\ api \in {"engine", "sdk"}
              /\ registered = {}
              /\ client = [state |-> "none", has |-> {}, planned |-> {}]
              /\ stopping = {}
              /\ req = Idle

\* Registry.Register of several use cases: all of them or none.  Two refs of
\* one name are refused within a call, and accepted in two.
RegisterUseCases(batch) ==
    /\ api = "sdk"
    /\ Cardinality(registered \cup batch) <= MaxUseCases
    /\ \A u \in batch : \A v \in registered : u.name # v.name
    /\ \A u, v \in batch : u.name = v.name => u = v
    /\ \A u, v \in batch : u.ref.name = v.ref.name => u.ref = v.ref
    /\ registered' = registered \cup batch
    /\ UNCHANGED <<registryVars, api, client, stopping, req>>

(***************************************************************************)
(* buildClientPlan.                                                        *)
(***************************************************************************)
On(uses, d) == {u \in uses : u.ref.name = d}
Containing(uses, d) == {u \in uses : d \in {m.def : m \in Members(u)}}
DefinitionsOf(uses) == {u.ref.name : u \in uses \ On(uses, "none")}
                       \cup {m.def : m \in UNION {Members(u) : u \in uses}}
TTLsOf(uses, d) == {u.ttl : u \in On(uses, d) \cup Containing(uses, d)} \ {0}

Kinds(uses, d) == {u.kind : u \in On(uses, d) \cup Containing(uses, d)}
UseCaseIsStrict(u) == u.ref.strict
IsStrict(uses, d) == \E u \in On(uses, d) : UseCaseIsStrict(u)
IsIdempotent(uses, d) == \E u \in On(uses, d) : u.kind = "claim" /\ u.idempotent

\* Mutant of ExecutionKindFor: the sync kinds are looked at first.
ExecutionKindSyncFirst(kinds) ==
    IF "run" \in kinds \/ "hold" \in kinds THEN "sync" ELSE "both"

ExecutionKindFor(kinds) == IF "claim" \in kinds THEN "both" ELSE "sync"

ResourceKeyBuilder == [template |-> <<"key">>, fields |-> {"key"}, view |-> TRUE]

LockDefinition(id, exec, strict, idempotent, failIfHeld) ==
    [id |-> id, kind |-> "parent", ref |-> NoRef, overlap |-> "none",
     builder |-> ResourceKeyBuilder, exec |-> exec,
     mode |-> IF strict THEN "strict" ELSE "standard",
     fenced |-> exec = "sync" \/ idempotent,
     idempotent |-> idempotent, failIfHeld |-> failIfHeld]

\* Mutant of PlannedDefinition: strict only when every use case is.
PlannedStrictIfAll(uses, d) ==
    LockDefinition(d, ExecutionKindFor(Kinds(uses, d)),
                   On(uses, d) # {} /\ \A u \in On(uses, d) : u.ref.strict,
                   IsIdempotent(uses, d),
                   \E u \in uses : \E m \in Members(u) : m.def = d /\ m.failIfHeld)

PlannedDefinition(uses, d) ==
    LockDefinition(d, ExecutionKindFor(Kinds(uses, d)), IsStrict(uses, d), IsIdempotent(uses, d),
                   \E u \in uses : \E m \in Members(u) : m.def = d /\ m.failIfHeld)

\* A composite without members is planned like a lock of its own.
TranslateUseCase(u) == LockDefinition(u.name, "sync", FALSE, FALSE, FALSE)

TranslateComposite(u) ==
    [id |-> u.name, members |-> [i \in DOMAIN u.members |-> u.members[i].def],
     supported |-> TRUE, max |-> Len(u.members)]

EngineDefinitions(uses) ==
    {PlannedDefinition(uses, d) : d \in DefinitionsOf(uses)}
    \cup {TranslateUseCase(u) : u \in {v \in On(uses, "none") : ~IsComposite(v)}}

ValidateCapabilities(uses, backend) ==
    \A u \in uses : /\ u.kind = "claim" /\ u.idempotent => "store" \in backend
                    /\ UseCaseIsStrict(u) => "strict" \in backend

\* A member of a composite that some use case, which is no composite, has as
\* a strict lock.
IsDefinitionStrict(uses, d) == Containing(uses, d) # {} /\ IsStrict(uses, d)

\* resolveDefinitionOption finds at most one value.
Unconflicted(values) == Cardinality(values) <= 1

\* The conditions under which buildClientPlan returns no error.
Plannable(uses, backend) ==
    /\ \A u \in uses : \A m \in Members(u) : ~m.strict
    /\ ValidateCapabilities(uses, backend)
    /\ \A d \in DefinitionsOf(uses) : Unconflicted(TTLsOf(uses, d))
    /\ \A d \in DefinitionsOf(uses) : ~IsDefinitionStrict(uses, d)

\* The managers for which there are use cases.
ManagersFor(uses) == {ManagerOf[u.kind] : u \in uses}

\* RequiresStrictRuntimeDriver and RequiresStrictWorkerDriver; no planned
\* definition is async, and the hold manager does not ask.
RequiresStrictDriver(m, defs) ==
    \E d \in defs : d.mode = "strict" /\ m \in (IF d.exec = "both" THEN {"runtime", "worker"}
                                                                   ELSE {"runtime"})

\* runtime.NewManager, workers.NewManager and holds.NewManager, in this order
\* and as far as there are use cases for them.
ManagerAccepts(m, defs, comps, backend) ==
    /\ ValidRegistry(defs, comps)
    /\ RequiresStrictDriver(m, defs) => "strict" \in backend
    /\ m = "worker" => \A d \in defs : d.idempotent => "store" \in backend

\* New.  The engine registry is its own, so that validation and snapshot see
\* the same definitions.
New(backend) ==
    LET defs == EngineDefinitions(registered)
        comps == {TranslateComposite(u) : u \in {v \in registered : IsComposite(v)}}
        has == ManagersFor(registered)
    IN
    /\ api = "sdk" /\ client.state = "none"
    /\ IF /\ Plannable(registered, backend)
          /\ \A m \in has : ManagerAccepts(m, defs, comps, backend)
       THEN /\ definitions' = defs /\ composites' = comps /\ made' = "ready" /\ cached' = defs
            /\ validated' = [defs |-> defs, composites |-> comps]
            /\ client' = [state |-> "ready", has |-> has, planned |-> registered]
       ELSE /\ client' = [client EXCEPT !.state = "refused"]
            /\ UNCHANGED registryVars
    /\ UNCHANGED <<api, registered, stopping, req>>

(***************************************************************************)
(* Requests.  bound says that the use case was registered when With made   *)
(* the request, or is when one of several keys is checked.  One request is *)
(* enough: the client keeps nothing of it.                                 *)
(***************************************************************************)
\* The checks that the operations share.
Early(u, bound) ==
    IF "client" \in stopping THEN "ErrShuttingDown"
    ELSE IF ~bound \/ ManagerOf[u.kind] \notin client.has THEN "ErrUseCaseNotFound"
    ELSE "nil"

\* RunMultiple and HoldMultiple find the definition in the plan.
EarlyMultiple(u, bound) ==
    IF Early(u, bound) = "nil" /\ u \notin client.planned THEN "ErrUseCaseNotFound"
    ELSE Early(u, bound)

BeginRequest(u, op, keys, bound, early) ==
    /\ api = "sdk" /\ client.state = "ready"
    /\ req.pc = "idle"
    /\ bound => u \in registered
    /\ req' = [Idle EXCEPT !.op = op, !.uc = u, !.keys = keys, !.bound = bound, !.err = early,
                           !.pc = IF early = "nil" THEN "manager" ELSE "done"]
    /\ UNCHANGED <<registryVars, api, registered, client, stopping>>

\* With makes no request of a composite without members.
Bindable(u) == u.ref # NoDef \/ IsComposite(u)

Run(u, bound) ==
    u.kind = "run" /\ Bindable(u) /\ BeginRequest(u, "Run", 1, bound, Early(u, bound))
RunMultiple(u, keys, bound) ==
    /\ u.kind = "run" /\ Bindable(u)
    /\ IsComposite(u) => keys = 1
    /\ BeginRequest(u, "RunMultiple", keys, bound, EarlyMultiple(u, bound))
Claim(u, bound) == u.kind = "claim" /\ BeginRequest(u, "Claim", 1, bound, Early(u, bound))
Hold(u, bound) == u.kind = "hold" /\ BeginRequest(u, "Hold", 1, bound, Early(u, bound))
HoldMultiple(u, keys, bound) ==
    u.kind = "hold" /\ BeginRequest(u, "HoldMultiple", keys, bound, EarlyMultiple(u, bound))
Forfeit(u, bound) == u.kind = "hold" /\ BeginRequest(u, "Forfeit", 1, bound, Early(u, bound))

(***************************************************************************)
(* The managers: shuttingDown, what they ask of the definition, and then   *)
(* any way in which a call that gets to the driver may end.                *)
(***************************************************************************)
\* The definition of a request, as normalizeUseCase finds it.
DefinitionID(u) == IF u.ref = NoDef THEN u.name ELSE u.ref.name
Definition(u) == Get(cached, DefinitionID(u))

Reply(errs, stopped) ==
    /\ req.pc = "manager"
    /\ \E err \in errs : req' = [req EXCEPT !.pc = "answer", !.err = err, !.stopped = stopped]
    /\ UNCHANGED <<registryVars, api, registered, client, stopping>>

Executes == {"nil", "ErrLockBusy", "ErrReentrantAcquire", "ErrLeaseLost", "ErrPreconditionFailed"}

CallRuntime ==
    LET u == req.uc
        accepted == CASE IsComposite(u) -> req.op = "Run" /\ Known(composites, DefinitionID(u))
                      [] ~IsComposite(u) -> /\ Known(cached, DefinitionID(u))
                                           /\ req.op = "RunMultiple" => Definition(u).mode # "strict"
    IN
    /\ req.op \in {"Run", "RunMultiple"}
    /\ IF "runtime" \in stopping THEN Reply({"ErrPolicyViolation"}, TRUE)
       ELSE Reply(IF accepted THEN Executes ELSE {"ErrPolicyViolation"}, FALSE)

CallWorker ==
    LET u == req.uc
        accepted == /\ Known(cached, DefinitionID(u))
                    /\ Definition(u).exec = "both"
                    /\ Definition(u).idempotent => u.idempotent
    IN
    /\ req.op = "Claim"
    /\ IF "worker" \in stopping THEN Reply({"ErrWorkerShuttingDown"}, TRUE)
       ELSE Reply(IF accepted THEN {"nil", "ErrLockBusy", "ErrDuplicateIgnored", "ErrLeaseLost"}
                  ELSE {"ErrPolicyViolation"}, FALSE)

\* The drivers take one key.
HoldsAcquire ==
    /\ req.op \in {"Hold", "HoldMultiple"}
    /\ IF "holds" \in stopping THEN Reply({"ErrPolicyViolation"}, TRUE)
       ELSE Reply(IF ~Known(cached, DefinitionID(req.uc)) THEN {"ErrPolicyViolation"}
                  ELSE IF req.keys # 1 THEN {"ErrInvalidRequest"}
                  ELSE {"nil", "ErrLeaseAlreadyHeld"}, FALSE)

HoldsRelease ==
    /\ req.op = "Forfeit"
    /\ Reply({"nil", "ErrLeaseOwnerMismatch", "ErrLeaseNotFound", "ErrLeaseExpired"}, FALSE)

(***************************************************************************)
(* The answer.                                                             *)
(***************************************************************************)
MapEngineError(err, shuttingDown) ==
    CASE err = "ErrDuplicateIgnored" -> "ErrDuplicate"
      [] err \in {"ErrLockBusy", "ErrReentrantAcquire"} -> "ErrBusy"
      [] err = "ErrWorkerShuttingDown" -> "ErrShuttingDown"
      [] shuttingDown /\ err = "ErrPolicyViolation" -> "ErrShuttingDown"
      [] OTHER -> err

MapHoldReleaseError(err) ==
    CASE err \in {"ErrLeaseNotFound", "ErrLeaseExpired"} -> "ErrHoldExpired"
      [] err \in {"ErrLeaseAlreadyHeld", "ErrLeaseOwnerMismatch"} -> "ErrBusy"
      [] OTHER -> err

MapHoldAcquireError(err, shuttingDown) ==
    IF shuttingDown /\ err = "ErrPolicyViolation" THEN "ErrShuttingDown" ELSE MapHoldReleaseError(err)

Public(err, shuttingDown) ==
    CASE req.uc.kind # "hold" -> MapEngineError(err, shuttingDown)
      [] req.op \in {"Hold", "HoldMultiple"} -> MapHoldAcquireError(err, shuttingDown)
      [] req.op = "Forfeit" -> MapHoldReleaseError(err)

Answered(shuttingDown) ==
    /\ req.pc = "answer"
    /\ req' = [req EXCEPT !.pc = "done", !.err = Public(@, shuttingDown)]
    /\ UNCHANGED <<registryVars, api, registered, client, stopping>>

\* Mutant of Answer: shuttingDown as it was when the request came in.
AnswerEarly == Answered(FALSE)

Answer == Answered("client" \in stopping)

\* Shutdown: the client first, then its managers one after the other.
Before(m) == {"client"} \cup ([runtime |-> {}, worker |-> {"runtime"},
                               holds |-> {"runtime", "worker"}][m] \cap client.has)

ShutdownClient ==
    /\ client.state = "ready"
    /\ \/ stopping' = stopping \cup {"client"}
       \/ \E m \in client.has : Before(m) \subseteq stopping /\ stopping' = stopping \cup {m}
    /\ UNCHANGED <<registryVars, api, registered, client, req>>

ClientNext == \/ api = "engine" /\ RegistryNext /\ UNCHANGED clientVars
              \/ \E u, v \in UseCases : RegisterUseCases({u, v})
              \/ \E backend \in SUBSET {"strict", "store"} : New(backend)
              \/ \E u \in UseCases, bound \in BOOLEAN :
                    \/ Run(u, bound) \/ Claim(u, bound) \/ Hold(u, bound) \/ Forfeit(u, bound)
                    \/ \E keys \in 1..2 : RunMultiple(u, keys, bound) \/ HoldMultiple(u, keys, bound)
              \/ CallRuntime \/ CallWorker \/ HoldsAcquire \/ HoldsRelease
              \/ Answer
              \/ ShutdownClient

ClientSpec == ClientInit /\ [][ClientNext]_allVars

(***************************************************************************)
(* Properties.                                                             *)
(***************************************************************************)
\* The requests that no plan can serve: several keys of a strict definition
\* or of a hold, RunMultiple of a composite, and a claim without idempotency
\* on a definition that another use case made idempotent.
Unserved(r) ==
    \/ r.op = "RunMultiple" /\ (IsComposite(r.uc) \/ IsStrict(client.planned, r.uc.ref.name))
    \/ r.op = "HoldMultiple" /\ r.keys > 1
    \/ r.op = "Claim" /\ ~r.uc.idempotent /\ IsIdempotent(client.planned, r.uc.ref.name)

\* A use case that was there when New returned a client runs: apart from the
\* requests above it is never refused for its definition, whatever other use
\* cases the plan merges with it and however late others are registered.
PlannedIsServed ==
    /\ req.pc = "done" /\ req.bound /\ req.uc \in client.planned
    /\ stopping = {} /\ ~Unserved(req)
    => req.err \notin {"ErrUseCaseNotFound", "ErrPolicyViolation", "ErrInvalidRequest"}

\* Use cases that name one definition exclude each other: the engine has one
\* definition of that name, and so one lease key, which is strict exactly when
\* one of them is.  Runs and claims are then all fenced.  A hold is not: two
\* locks of one name, registered in two calls, may be a strict run and a hold,
\* and holds.Manager.Acquire takes a plain lease whatever the mode.
OneBoundary ==
    client.state = "ready" =>
        \A u \in client.planned : u.ref # NoDef =>
            /\ Cardinality({d \in cached : d.id = DefinitionID(u)}) = 1
            /\ Get(cached, DefinitionID(u)).mode = "strict"
               <=> \E v \in client.planned : DefinitionID(v) = DefinitionID(u) /\ v.ref.strict

\* A request that a manager refused because of the shutdown is answered with
\* ErrShuttingDown, never with the error of the manager: the client reads its
\* own flag after the call, and had set it before that of the manager.
ShutdownIsNamed ==
    req.pc = "done" /\ req.stopped => req.err = "ErrShuttingDown"
=============================================================================
