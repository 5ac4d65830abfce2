---------------------------- MODULE ClientProofs ----------------------------
(***************************************************************************)
(* Proofs about the public client, for any use cases the program may       *)
(* register and however many it registers; and about the writes its strict *)
(* callbacks make (GuardedWrite), for any sets of boundaries and sessions. *)
(* The two models share no state.                                          *)
(***************************************************************************)
EXTENDS Client, GuardedWrite, FiniteSetTheorems, TLAPS

-----------------------------------------------------------------------------
(***************************************************************************)
(* The way of a request.                                                   *)
(***************************************************************************)
IsRequest(r) == r = [pc |-> r.pc, op |-> r.op, uc |-> r.uc, keys |-> r.keys,
                     bound |-> r.bound, err |-> r.err, stopped |-> r.stopped]

\* The operations of a use case.
Fits(r) == /\ r.op \in {"Run", "RunMultiple"} => r.uc.kind = "run"
           /\ r.op = "Claim" => r.uc.kind = "claim"
           /\ r.op \in {"Hold", "HoldMultiple", "Forfeit"} => r.uc.kind = "hold"

\* The record of a request: as it comes in, as a manager answers, as the client does.
LEMMA BeginFacts ==
    ASSUME NEW u, NEW op, NEW keys, NEW bound, NEW early, BeginRequest(u, op, keys, bound, early)
    PROVE  /\ IsRequest(req') /\ req'.op = op /\ req'.uc = u /\ req'.keys = keys
           /\ req'.bound = bound /\ req'.err = early /\ req'.stopped = FALSE
           /\ early = "nil" => req'.pc = "manager"
           /\ early # "nil" => req'.pc = "done"
BY Zenon DEF BeginRequest, Idle, IsRequest

LEMMA ReplyFacts ==
    ASSUME IsRequest(req), NEW errs, NEW stopped \in BOOLEAN, Reply(errs, stopped)
    PROVE  /\ IsRequest(req') /\ req'.pc = "answer" /\ req'.err \in errs
           /\ req'.stopped = stopped
           /\ req'.op = req.op /\ req'.uc = req.uc /\ req'.keys = req.keys
           /\ req'.bound = req.bound
BY Zenon DEF Reply, IsRequest

LEMMA AnsweredFacts ==
    ASSUME IsRequest(req), NEW down \in BOOLEAN, Answered(down)
    PROVE  /\ IsRequest(req') /\ req'.pc = "done" /\ req'.err = Public(req.err, down)
           /\ req'.stopped = req.stopped
           /\ req'.op = req.op /\ req'.uc = req.uc /\ req'.keys = req.keys
           /\ req'.bound = req.bound
BY Zenon DEF Answered, IsRequest

\* A request comes in.
Requests(u, bound) == \/ Run(u, bound) \/ Claim(u, bound) \/ Hold(u, bound) \/ Forfeit(u, bound)
                      \/ \E keys \in 1..2 : RunMultiple(u, keys, bound) \/ HoldMultiple(u, keys, bound)
Calls == CallRuntime \/ CallWorker \/ HoldsAcquire \/ HoldsRelease

\* The numbers of keys of an operation.
Sized(r) == /\ r.op \in {"Run", "RunMultiple", "Claim", "Hold", "HoldMultiple", "Forfeit"}
            /\ r.op = "Hold" => r.keys = 1
            /\ r.op = "HoldMultiple" => r.keys \in 1..2

\* A request that comes in goes to a manager or is refused by the client.
LEMMA RequestShape ==
    ASSUME NEW u, NEW bound, Requests(u, bound)
    PROVE  /\ IsRequest(req') /\ Fits(req') /\ Sized(req') /\ req'.uc = u /\ req'.bound = bound
           /\ req'.stopped = FALSE
           /\ \/ req'.pc = "manager"
              \/ req'.pc = "done" /\ ~(Early(u, bound) = "nil" /\ EarlyMultiple(u, bound) = "nil")
           /\ client.state = "ready"
           /\ UNCHANGED <<registryVars, api, registered, client, stopping>>
<1> DEFINE Begins(op, keys, early) ==
        /\ BeginRequest(u, op, keys, bound, early)
        /\ early = Early(u, bound) \/ early = EarlyMultiple(u, bound)
        /\ op \in {"Run", "RunMultiple", "Claim", "Hold", "HoldMultiple", "Forfeit"}
        /\ op \in {"Run", "RunMultiple"} => u.kind = "run"
        /\ op = "Claim" => u.kind = "claim"
        /\ op \in {"Hold", "HoldMultiple", "Forfeit"} => u.kind = "hold"
        /\ op = "Hold" => keys = 1
        /\ op = "HoldMultiple" => keys \in 1..2
<1>1. \E op, keys, early : Begins(op, keys, early)
  <2>1. CASE Run(u, bound)
    <3>1. Begins("Run", 1, Early(u, bound))  BY <2>1 DEF Run
    <3> QED  BY <3>1, Zenon
  <2>2. CASE Claim(u, bound)
    <3>1. Begins("Claim", 1, Early(u, bound))  BY <2>2 DEF Claim
    <3> QED  BY <3>1, Zenon
  <2>3. CASE Hold(u, bound)
    <3>1. Begins("Hold", 1, Early(u, bound))  BY <2>3 DEF Hold
    <3> QED  BY <3>1, Zenon
  <2>4. CASE Forfeit(u, bound)
    <3>1. Begins("Forfeit", 1, Early(u, bound))  BY <2>4 DEF Forfeit
    <3> QED  BY <3>1, Zenon
  <2>5. ASSUME NEW keys \in 1..2, RunMultiple(u, keys, bound)
        PROVE  \E op, n, early : Begins(op, n, early)
    <3>1. Begins("RunMultiple", keys, EarlyMultiple(u, bound))  BY <2>5 DEF RunMultiple
    <3> QED  BY <3>1, Zenon
  <2>6. ASSUME NEW keys \in 1..2, HoldMultiple(u, keys, bound)
        PROVE  \E op, n, early : Begins(op, n, early)
    <3>1. Begins("HoldMultiple", keys, EarlyMultiple(u, bound))  BY <2>6 DEF HoldMultiple
    <3> QED  BY <3>1, Zenon
  <2> QED  BY <2>1, <2>2, <2>3, <2>4, <2>5, <2>6, Zenon DEF Requests
<1>2. PICK op, keys, early : Begins(op, keys, early)  BY <1>1, Zenon
<1>3. /\ IsRequest(req') /\ req'.op = op /\ req'.uc = u /\ req'.bound = bound
      /\ req'.keys = keys /\ req'.stopped = FALSE
      /\ early = "nil" => req'.pc = "manager"
      /\ early # "nil" => req'.pc = "done"
  BY <1>2, BeginFacts, Zenon
<1>4. Fits(req') /\ Sized(req')  BY <1>2, <1>3, Zenon DEF Fits, Sized
<1>5. \/ req'.pc = "manager"
      \/ req'.pc = "done" /\ ~(Early(u, bound) = "nil" /\ EarlyMultiple(u, bound) = "nil")
  BY <1>2, <1>3, Zenon
<1> QED  BY <1>2, <1>3, <1>4, <1>5, Zenon DEF BeginRequest

\* A manager answers, and nothing but the request changes.
LEMMA CallsShape ==
    ASSUME IsRequest(req), Calls
    PROVE  /\ IsRequest(req') /\ req.pc = "manager" /\ req'.pc = "answer"
           /\ req'.op = req.op /\ req'.uc = req.uc /\ req'.keys = req.keys /\ req'.bound = req.bound
           /\ UNCHANGED <<registryVars, api, registered, client, stopping>>
<1>1. \E errs : \E stopped \in BOOLEAN : Reply(errs, stopped)
  BY Zenon DEF Calls, CallRuntime, CallWorker, HoldsAcquire, HoldsRelease
<1>2. PICK errs : \E stopped \in BOOLEAN : Reply(errs, stopped)  BY <1>1, Zenon
<1>3. PICK stopped \in BOOLEAN : Reply(errs, stopped)  BY <1>2, Zenon
<1> QED  BY <1>3, ReplyFacts, Zenon DEF Reply

\* The client maps the error with the flag as it is now.
LEMMA AnswerShape ==
    ASSUME IsRequest(req), Answer
    PROVE  /\ IsRequest(req') /\ req.pc = "answer" /\ req'.pc = "done"
           /\ req'.err = Public(req.err, "client" \in stopping)
           /\ req'.stopped = req.stopped
           /\ req'.op = req.op /\ req'.uc = req.uc /\ req'.keys = req.keys /\ req'.bound = req.bound
           /\ UNCHANGED <<registryVars, api, registered, client, stopping>>
<1>1. ("client" \in stopping) \in BOOLEAN  OBVIOUS
<1>2. Answered("client" \in stopping)  BY Zenon DEF Answer
<1> QED  BY <1>1, <1>2, AnsweredFacts, Zenon DEF Answered

-----------------------------------------------------------------------------
(***************************************************************************)
(* The shutdown.  The flag of the client is the first to be set, and a     *)
(* manager refuses with one of two errors.                                 *)
(***************************************************************************)
Refusal(r) == \/ r.op = "Claim" /\ r.err = "ErrWorkerShuttingDown"
              \/ r.op \in {"Run", "RunMultiple", "Hold", "HoldMultiple"} /\ r.err = "ErrPolicyViolation"

StopInv == /\ IsRequest(req) /\ Fits(req)
           /\ stopping # {} => "client" \in stopping
           /\ req.pc = "answer" /\ req.stopped => "client" \in stopping /\ Refusal(req)
           /\ req.pc = "done" /\ req.stopped => req.err = "ErrShuttingDown"

LEMMA StopInit == ClientInit => StopInv
BY DEF ClientInit, Idle, NoUseCase, StopInv, IsRequest, Fits

\* What a manager says while it shuts down is mapped to ErrShuttingDown.
LEMMA RefusalIsNamed ==
    ASSUME Fits(req), Refusal(req)
    PROVE  Public(req.err, TRUE) = "ErrShuttingDown"
<1>1. CASE req.op = "Claim" /\ req.err = "ErrWorkerShuttingDown"
  BY <1>1 DEF Fits, Public, MapEngineError
<1>2. CASE req.op \in {"Run", "RunMultiple"} /\ req.err = "ErrPolicyViolation"
  BY Zenon, <1>2 DEF Fits, Public, MapEngineError
<1>3. CASE req.op \in {"Hold", "HoldMultiple"} /\ req.err = "ErrPolicyViolation"
  BY <1>3 DEF Fits, Public, MapHoldAcquireError
<1> QED  BY Zenon, <1>1, <1>2, <1>3 DEF Refusal

\* Every step, as the requests see it.
LEMMA ClientShape ==
    ASSUME [ClientNext]_allVars
    PROVE  \/ api = "engine" /\ RegistryNext /\ UNCHANGED clientVars
           \/ \E batch \in SUBSET UseCases : RegisterUseCases(batch)
           \/ \E backend \in SUBSET {"strict", "store"} : New(backend)
           \/ \E u \in UseCases, bound \in BOOLEAN : Requests(u, bound)
           \/ Calls
           \/ Answer
           \/ ShutdownClient
           \/ UNCHANGED allVars
<1>1. \A u, v \in UseCases : {u, v} \in SUBSET UseCases  BY Zenon
<1> QED  BY <1>1, Zenon DEF ClientNext, Requests, Calls

LEMMA StopNext == StopInv /\ [ClientNext]_allVars => StopInv'
<1> SUFFICES ASSUME StopInv, [ClientNext]_allVars PROVE StopInv'  OBVIOUS
<1>0. IsRequest(req)  BY Zenon DEF StopInv
<1>1. ASSUME UNCHANGED <<stopping, req>> PROVE StopInv'
  BY <1>1, Zenon DEF StopInv, IsRequest, Fits, Refusal
<1>2. ASSUME NEW u \in UseCases, NEW bound \in BOOLEAN, Requests(u, bound) PROVE StopInv'
  <2>1. IsRequest(req') /\ Fits(req') /\ req'.stopped = FALSE /\ stopping' = stopping
    BY <1>2, RequestShape, Zenon
  <2> QED  BY <2>1 DEF StopInv, IsRequest, Fits
<1>3. CASE Calls
  <2>1. /\ IsRequest(req') /\ req'.pc = "answer" /\ req'.op = req.op /\ req'.uc = req.uc
        /\ stopping' = stopping
    BY <1>0, <1>3, CallsShape, Zenon
  <2>2. Fits(req')  BY <2>1, Zenon DEF StopInv, Fits
  <2>3. ASSUME req'.stopped PROVE "client" \in stopping /\ Refusal(req')
    <3>1. CASE CallRuntime
      <4>1. /\ req.op \in {"Run", "RunMultiple"} /\ "runtime" \in stopping
            /\ Reply({"ErrPolicyViolation"}, TRUE)
        BY <1>0, <2>3, <3>1, ReplyFacts, Zenon DEF CallRuntime
      <4>2. req'.err \in {"ErrPolicyViolation"}  BY <1>0, <4>1, ReplyFacts, Zenon
      <4> QED  BY <2>1, <4>1, <4>2 DEF Refusal, StopInv
    <3>2. CASE CallWorker
      <4>1. req.op = "Claim" /\ "worker" \in stopping /\ Reply({"ErrWorkerShuttingDown"}, TRUE)
        BY <1>0, <2>3, <3>2, ReplyFacts, Zenon DEF CallWorker
      <4>2. req'.err \in {"ErrWorkerShuttingDown"}  BY <1>0, <4>1, ReplyFacts, Zenon
      <4> QED  BY <2>1, <4>1, <4>2 DEF Refusal, StopInv
    <3>3. CASE HoldsAcquire
      <4>1. /\ req.op \in {"Hold", "HoldMultiple"} /\ "holds" \in stopping
            /\ Reply({"ErrPolicyViolation"}, TRUE)
        BY <1>0, <2>3, <3>3, ReplyFacts, Zenon DEF HoldsAcquire
      <4>2. req'.err \in {"ErrPolicyViolation"}  BY <1>0, <4>1, ReplyFacts, Zenon
      <4> QED  BY <2>1, <4>1, <4>2 DEF Refusal, StopInv
    <3>4. CASE HoldsRelease
      <4>1. PICK errs : Reply(errs, FALSE)  BY <3>4, Zenon DEF HoldsRelease
      <4>2. req'.stopped = FALSE  BY <1>0, <4>1, ReplyFacts, Zenon
      <4> QED  BY <2>3, <4>2
    <3> QED  BY <1>3, <3>1, <3>2, <3>3, <3>4, Zenon DEF Calls
  <2>4. req'.pc # "done"  BY <2>1
  <2> QED  BY <2>1, <2>2, <2>3, <2>4, Zenon DEF StopInv, IsRequest, Fits, Refusal
<1>4. CASE Answer
  <2>1. /\ IsRequest(req') /\ req.pc = "answer" /\ req'.pc = "done"
        /\ req'.err = Public(req.err, "client" \in stopping)
        /\ req'.stopped = req.stopped /\ req'.op = req.op /\ req'.uc = req.uc
        /\ stopping' = stopping
    BY <1>0, <1>4, AnswerShape, Zenon
  <2>2. Fits(req')  BY <2>1, Zenon DEF StopInv, Fits
  <2>3. ASSUME req'.stopped PROVE req'.err = "ErrShuttingDown"
    <3>1. Fits(req) /\ Refusal(req) /\ "client" \in stopping  BY <2>1, <2>3 DEF StopInv
    <3>2. Public(req.err, TRUE) = "ErrShuttingDown"  BY <3>1, RefusalIsNamed, Zenon
    <3>3. ("client" \in stopping) = TRUE  BY <3>1
    <3> QED  BY <2>1, <3>2, <3>3, Zenon
  <2>4. req'.pc # "answer"  BY <2>1
  <2> QED  BY <2>1, <2>2, <2>3, <2>4, Zenon DEF StopInv, IsRequest, Fits, Refusal
<1>5. CASE ShutdownClient
  <2>1. req' = req  BY <1>5, Zenon DEF ShutdownClient
  <2>2. stopping \subseteq stopping' /\ "client" \in stopping'
    BY <1>5, Zenon DEF ShutdownClient, Before
  <2> QED  BY <2>1, <2>2, Zenon DEF StopInv, IsRequest, Fits, Refusal
<1>6. (\E backend \in SUBSET {"strict", "store"} : New(backend)) => UNCHANGED <<stopping, req>>
  BY Zenon DEF New
<1>7. UNCHANGED allVars \/ UNCHANGED clientVars => UNCHANGED <<stopping, req>>
  BY Zenon DEF allVars, clientVars
<1>8. (\E batch \in SUBSET UseCases : RegisterUseCases(batch)) => UNCHANGED <<stopping, req>>
  BY Zenon DEF RegisterUseCases
<1> QED  BY <1>1, <1>2, <1>3, <1>4, <1>5, <1>6, <1>7, <1>8, ClientShape, Zenon

\* A request that a manager refused because of the shutdown is answered with
\* ErrShuttingDown, whenever Shutdown runs between the checks of the client
\* and the answer: the client sets its own flag first and reads it last.
THEOREM ShutdownIsAlwaysNamed == ClientSpec => []ShutdownIsNamed
<1>1. StopInv => ShutdownIsNamed  BY DEF StopInv, ShutdownIsNamed
<1> QED  BY <1>1, StopInit, StopNext, PTL DEF ClientSpec

-----------------------------------------------------------------------------
(***************************************************************************)
(* The plan.  New gives the managers exactly the definitions of the use    *)
(* cases it planned, and nothing changes them afterwards.                  *)
(***************************************************************************)
CompositesOf(uses) == {TranslateComposite(u) : u \in {v \in uses : IsComposite(v)}}

\* What the plan merges, field by field.
LEMMA PlannedFacts ==
    ASSUME NEW uses, NEW d
    PROVE  /\ PlannedDefinition(uses, d).id = d
           /\ PlannedDefinition(uses, d).exec = ExecutionKindFor(Kinds(uses, d))
           /\ PlannedDefinition(uses, d).idempotent <=> IsIdempotent(uses, d)
           /\ PlannedDefinition(uses, d).mode = "strict" <=> IsStrict(uses, d)
BY Zenon DEF PlannedDefinition, LockDefinition

\* A use case without a lock gets a definition of its own, which is never strict.
LEMMA TranslatedFacts ==
    ASSUME NEW u
    PROVE  TranslateUseCase(u).id = u.name /\ TranslateUseCase(u).mode # "strict"
BY Zenon DEF TranslateUseCase, LockDefinition

\* The engine knows the use cases on one lock by one definition.
LEMMA OneDefinition ==
    ASSUME NEW uses \in SUBSET UseCases, NEW u \in uses, u.ref # NoDef
    PROVE  /\ u.ref.name \in DefinitionsOf(uses)
           /\ {d \in EngineDefinitions(uses) : d.id = u.ref.name}
                 = {PlannedDefinition(uses, u.ref.name)}
           /\ Get(EngineDefinitions(uses), u.ref.name) = PlannedDefinition(uses, u.ref.name)
           /\ Known(EngineDefinitions(uses), u.ref.name)
<1> DEFINE x == u.ref.name
           D == EngineDefinitions(uses)
<1>1. x # "none"  BY ClientAssumption, Zenon
<1>2. x \in DefinitionsOf(uses)  BY <1>1, Zenon DEF DefinitionsOf, On
<1>3. PlannedDefinition(uses, x) \in D  BY <1>2, Zenon DEF EngineDefinitions
<1>4. ASSUME NEW d \in D, d.id = x PROVE d = PlannedDefinition(uses, x)
  <2>1. CASE \E y \in DefinitionsOf(uses) : d = PlannedDefinition(uses, y)
    <3>1. PICK y \in DefinitionsOf(uses) : d = PlannedDefinition(uses, y)  BY <2>1
    <3>2. y = x  BY <1>4, <3>1, PlannedFacts, Zenon
    <3> QED  BY <3>1, <3>2
  <2>2. CASE \E v \in uses : d = TranslateUseCase(v)
    <3>1. PICK v \in uses : d = TranslateUseCase(v)  BY <2>2
    <3>2. v.name = x  BY <1>4, <3>1, TranslatedFacts, Zenon
    <3> QED  BY <3>2, ClientAssumption, Zenon
  <2> QED  BY <2>1, <2>2, Zenon DEF EngineDefinitions, On
<1>5. PlannedDefinition(uses, x).id = x  BY PlannedFacts, Zenon
<1> HIDE DEF D, x
<1>6. {d \in D : d.id = x} = {PlannedDefinition(uses, x)}  BY <1>3, <1>4, <1>5, Zenon
<1>7. Get(D, x) = PlannedDefinition(uses, x)  BY <1>3, <1>4, <1>5, Zenon DEF Get
<1>8. Known(D, x)  BY <1>3, <1>5, Zenon DEF Known
<1> QED  BY <1>2, <1>6, <1>7, <1>8, Zenon DEF D, x

\* A use case without a lock is planned under its own name.
LEMMA OwnDefinition ==
    ASSUME NEW uses \in SUBSET UseCases, NEW u \in uses, u.ref = NoDef, ~IsComposite(u)
    PROVE  /\ Known(EngineDefinitions(uses), u.name)
           /\ Get(EngineDefinitions(uses), u.name).mode # "strict"
<1> DEFINE D == EngineDefinitions(uses)
<1>1. u \in On(uses, "none")  BY DEF On, NoDef
<1>2. TranslateUseCase(u) \in D  BY <1>1, Zenon DEF EngineDefinitions
<1>3. ASSUME NEW d \in D, d.id = u.name PROVE d.mode # "strict"
  <2>1. CASE \E y \in DefinitionsOf(uses) : d = PlannedDefinition(uses, y)
    <3>1. PICK y \in DefinitionsOf(uses) : d = PlannedDefinition(uses, y)  BY <2>1
    <3>2. y = u.name  BY <1>3, <3>1, PlannedFacts, Zenon
    <3>3. CASE \E v \in uses : y = v.ref.name  BY <3>2, <3>3, ClientAssumption, Zenon
    <3>4. CASE \E v \in uses : \E m \in Members(v) : y = m.def
      BY <3>2, <3>4, ClientAssumption, Zenon
    <3> QED  BY <3>3, <3>4, Zenon DEF DefinitionsOf
  <2>2. CASE \E v \in uses : d = TranslateUseCase(v)  BY <2>2, TranslatedFacts, Zenon
  <2> QED  BY <2>1, <2>2, Zenon DEF EngineDefinitions, On
<1>4. TranslateUseCase(u).id = u.name  BY TranslatedFacts, Zenon
<1> HIDE DEF D
<1>5. Get(D, u.name) \in D /\ Get(D, u.name).id = u.name  BY <1>2, <1>4, Zenon DEF Get
<1>6. Known(D, u.name)  BY <1>2, <1>4, Zenon DEF Known
<1> QED  BY <1>3, <1>5, <1>6, Zenon DEF D

PlanInv ==
    /\ registered \in SUBSET UseCases
    /\ client = [state |-> client.state, has |-> client.has, planned |-> client.planned]
    /\ client.state = "ready" =>
          /\ api = "sdk"
          /\ client.planned \in SUBSET UseCases
          /\ client.has = ManagersFor(client.planned)
          /\ cached = EngineDefinitions(client.planned)
          /\ composites = CompositesOf(client.planned)

LEMMA PlanInit == ClientInit => PlanInv
BY DEF ClientInit, PlanInv

LEMMA PlanNext == PlanInv /\ [ClientNext]_allVars => PlanInv'
<1> SUFFICES ASSUME PlanInv, [ClientNext]_allVars PROVE PlanInv'  OBVIOUS
<1>1. ASSUME UNCHANGED <<registryVars, api, client>>, registered' \in SUBSET UseCases PROVE PlanInv'
  BY <1>1, Zenon DEF PlanInv, registryVars
<1>2. registered \in SUBSET UseCases  BY Zenon DEF PlanInv
<1>3. ASSUME api = "engine", UNCHANGED clientVars PROVE PlanInv'
  <2>1. client' = client /\ registered' = registered  BY <1>3, Zenon DEF clientVars
  <2>2. client'.state # "ready"  BY <1>3, <2>1 DEF PlanInv
  <2> QED  BY <2>1, <2>2, Zenon DEF PlanInv
<1>4. ASSUME NEW batch \in SUBSET UseCases, RegisterUseCases(batch) PROVE PlanInv'
  <2>1. UNCHANGED <<registryVars, api, client>> /\ registered' = registered \cup batch
    BY <1>4, Zenon DEF RegisterUseCases
  <2> QED  BY <1>1, <1>2, <2>1, Zenon
<1>5. ASSUME NEW backend, New(backend) PROVE PlanInv'
  <2>1. registered' = registered /\ api = "sdk" /\ api' = "sdk"  BY <1>5, Zenon DEF New
  <2>2. CASE client' = [client EXCEPT !.state = "refused"]
    BY <1>2, <2>1, <2>2 DEF PlanInv
  <2>3. CASE /\ client' = [state |-> "ready", has |-> ManagersFor(registered),
                           planned |-> registered]
             /\ cached' = EngineDefinitions(registered) /\ composites' = CompositesOf(registered)
    <3>1. client'.has = ManagersFor(registered) /\ client'.planned = registered
      BY <2>3, Zenon
    <3>2. client' = [state |-> client'.state, has |-> client'.has, planned |-> client'.planned]
      BY <2>3, Zenon
    <3> QED  BY <1>2, <2>1, <2>3, <3>1, <3>2, Zenon
          DEF PlanInv, ManagersFor, EngineDefinitions, CompositesOf
  <2> QED  BY <1>5, <2>2, <2>3, Zenon DEF New, CompositesOf
<1>6. ASSUME UNCHANGED <<registryVars, api, registered, client>> PROVE PlanInv'
  BY <1>1, <1>2, <1>6, Zenon
<1>7. ASSUME NEW u, NEW bound, Requests(u, bound)
      PROVE  UNCHANGED <<registryVars, api, registered, client>>
  BY <1>7, RequestShape, Zenon
<1>8. Calls \/ Answer \/ ShutdownClient => UNCHANGED <<registryVars, api, registered, client>>
  BY Zenon DEF Calls, CallRuntime, CallWorker, HoldsAcquire, HoldsRelease, Reply, Answer, Answered,
               ShutdownClient
<1>9. UNCHANGED allVars => UNCHANGED <<registryVars, api, registered, client>>
  BY Zenon DEF allVars, clientVars
<1> QED  BY <1>3, <1>4, <1>5, <1>6, <1>7, <1>8, <1>9, ClientShape, Zenon

LEMMA PlanIsOneBoundary == PlanInv => OneBoundary
<1> SUFFICES ASSUME PlanInv, client.state = "ready", NEW u \in client.planned, u.ref # NoDef
             PROVE  /\ Cardinality({d \in cached : d.id = DefinitionID(u)}) = 1
                    /\ Get(cached, DefinitionID(u)).mode = "strict"
                       <=> \E v \in client.planned : DefinitionID(v) = DefinitionID(u) /\ v.ref.strict
  BY Zenon DEF OneBoundary
<1> DEFINE P == client.planned
           x == u.ref.name
<1>1. P \in SUBSET UseCases /\ cached = EngineDefinitions(P)  BY Zenon DEF PlanInv
<1>2. DefinitionID(u) = x  BY Zenon DEF DefinitionID
<1>3. {d \in cached : d.id = x} = {PlannedDefinition(P, x)}  BY <1>1, OneDefinition, Zenon
<1>4. Get(cached, x) = PlannedDefinition(P, x)  BY <1>1, OneDefinition, Zenon
<1>5. Cardinality({PlannedDefinition(P, x)}) = 1  BY FS_Singleton, Zenon
<1>6. PlannedDefinition(P, x).mode = "strict" <=> IsStrict(P, x)  BY PlannedFacts, Zenon
<1>7. ASSUME NEW v \in P
      PROVE  DefinitionID(v) = x /\ v.ref.strict <=> v.ref.name = x /\ v.ref.strict
  <2>1. CASE v.ref = NoDef
    <3>1. ~v.ref.strict  BY <2>1 DEF NoDef
    <3> QED  BY <3>1, Zenon
  <2>2. CASE v.ref # NoDef  BY <2>2, Zenon DEF DefinitionID
  <2> QED  BY <2>1, <2>2, Zenon
<1>8. IsStrict(P, x) <=> \E v \in P : v.ref.name = x /\ v.ref.strict
  BY Zenon DEF IsStrict, On, UseCaseIsStrict
<1> HIDE DEF P, x
<1>9. IsStrict(P, x) <=> \E v \in P : DefinitionID(v) = x /\ v.ref.strict  BY <1>7, <1>8, Zenon
<1>10. Cardinality({d \in cached : d.id = DefinitionID(u)}) = 1  BY <1>2, <1>3, <1>5, Zenon
<1>11. Get(cached, DefinitionID(u)).mode = "strict"
       <=> \E v \in P : DefinitionID(v) = DefinitionID(u) /\ v.ref.strict
  BY <1>2, <1>4, <1>6, <1>9, Zenon
<1> QED  BY <1>10, <1>11, Zenon DEF P

\* However many use cases name a lock, New gives the engine one definition of
\* it, which is strict exactly when one of them is.  What a hold does with a
\* strict definition is not said here: its manager takes a plain lease.
THEOREM PlanHasOneBoundary == ClientSpec => []OneBoundary
BY PlanInit, PlanNext, PlanIsOneBoundary, PTL DEF ClientSpec

-----------------------------------------------------------------------------
(***************************************************************************)
(* The requests of planned use cases.                                      *)
(***************************************************************************)
Servable == req.bound /\ req.uc \in client.planned /\ stopping = {} /\ ~Unserved(req)

Refusals == {"ErrUseCaseNotFound", "ErrPolicyViolation", "ErrInvalidRequest"}
Outcomes == {"nil", "ErrLockBusy", "ErrReentrantAcquire", "ErrLeaseLost", "ErrPreconditionFailed",
             "ErrDuplicateIgnored", "ErrLeaseAlreadyHeld", "ErrLeaseOwnerMismatch",
             "ErrLeaseNotFound", "ErrLeaseExpired"}

ServeInv == /\ IsRequest(req) /\ Fits(req)
            /\ req.pc # "idle" => client.state = "ready" /\ Sized(req)
            /\ Servable /\ req.pc = "answer" => req.err \in Outcomes
            /\ Servable /\ req.pc = "done" => req.err \notin Refusals

LEMMA ServeInit == ClientInit => ServeInv
BY DEF ClientInit, Idle, NoUseCase, ServeInv, IsRequest, Fits

\* An error about leases is mapped to no refusal.
LEMMA OutcomesAnswered ==
    ASSUME Fits(req), Sized(req), req.err \in Outcomes
    PROVE  Public(req.err, FALSE) \notin Refusals
<1>1. CASE req.uc.kind # "hold"
  <2>1. Public(req.err, FALSE) = MapEngineError(req.err, FALSE)
    BY <1>1, Zenon DEF Public, Fits
  <2>2. MapEngineError(req.err, FALSE) \notin Refusals  BY DEF MapEngineError, Outcomes, Refusals
  <2> QED  BY <2>1, <2>2, Zenon
<1>2. CASE req.uc.kind = "hold"
  <2>1. req.op \in {"Hold", "HoldMultiple"} \/ req.op = "Forfeit"
    BY <1>2 DEF Fits, Sized
  <2>2. MapHoldReleaseError(req.err) \notin Refusals
    BY DEF MapHoldReleaseError, Outcomes, Refusals
  <2>3. Public(req.err, FALSE) = MapHoldReleaseError(req.err)
    BY <1>2, <2>1 DEF Public, MapHoldAcquireError
  <2> QED  BY <2>2, <2>3, Zenon
<1> QED  BY <1>1, <1>2, Zenon

\* The checks of the client let the request of a planned use case through.
LEMMA EarlyPasses ==
    ASSUME NEW u \in client.planned, stopping = {}, client.has = ManagersFor(client.planned)
    PROVE  Early(u, TRUE) = "nil" /\ EarlyMultiple(u, TRUE) = "nil"
<1>1. ManagerOf[u.kind] \in client.has  BY Zenon DEF ManagersFor
<1>2. "client" \notin stopping  OBVIOUS
<1>3. Early(u, TRUE) = "nil"  BY <1>1, <1>2, Zenon DEF Early
<1> QED  BY <1>3, Zenon DEF EarlyMultiple

\* The manager finds the definition of a planned use case.
LEMMA DefinitionFound ==
    ASSUME NEW P \in SUBSET UseCases, NEW u \in P, cached = EngineDefinitions(P), ~IsComposite(u)
    PROVE  /\ Known(cached, DefinitionID(u))
           /\ Definition(u).mode = "strict" => IsStrict(P, u.ref.name)
           /\ u.ref # NoDef => /\ Definition(u).exec = ExecutionKindFor(Kinds(P, u.ref.name))
                               /\ Definition(u).idempotent <=> IsIdempotent(P, u.ref.name)
<1>1. CASE u.ref = NoDef
  <2>1. DefinitionID(u) = u.name  BY <1>1, Zenon DEF DefinitionID
  <2> QED  BY <1>1, <2>1, OwnDefinition, Zenon DEF Definition
<1>2. CASE u.ref # NoDef
  <2>1. DefinitionID(u) = u.ref.name  BY <1>2, Zenon DEF DefinitionID
  <2>2. /\ Known(cached, u.ref.name)
        /\ Get(cached, u.ref.name) = PlannedDefinition(P, u.ref.name)
    BY <1>2, OneDefinition, Zenon
  <2>3. Definition(u) = PlannedDefinition(P, u.ref.name)  BY <2>1, <2>2, Zenon DEF Definition
  <2> DEFINE d == PlannedDefinition(P, u.ref.name)
  <2>4. /\ d.exec = ExecutionKindFor(Kinds(P, u.ref.name))
        /\ d.idempotent <=> IsIdempotent(P, u.ref.name)
        /\ d.mode = "strict" <=> IsStrict(P, u.ref.name)
    BY PlannedFacts, Zenon
  <2> HIDE DEF d
  <2>5. Definition(u) = d  BY <2>3 DEF d
  <2> QED  BY <2>1, <2>2, <2>4, <2>5, Zenon
<1> QED  BY <1>1, <1>2, Zenon

\* A call for a planned use case gets to the driver.
LEMMA CallsServe ==
    ASSUME PlanInv, ServeInv, Servable, Calls
    PROVE  req'.err \in Outcomes
<1> DEFINE u == req.uc
           P == client.planned
<1>1. IsRequest(req) /\ Fits(req) /\ req.pc = "manager"
  BY CallsShape, Zenon DEF ServeInv
<1>2. client.state = "ready" /\ Sized(req)  BY <1>1 DEF ServeInv
<1>3. /\ P \in SUBSET UseCases /\ cached = EngineDefinitions(P) /\ composites = CompositesOf(P)
      /\ u \in P /\ u \in UseCases
  BY <1>2, Zenon DEF PlanInv, Servable
<1>4. "runtime" \notin stopping /\ "worker" \notin stopping /\ "holds" \notin stopping
  BY DEF Servable
<1>5. ASSUME NEW errs, errs \subseteq Outcomes, Reply(errs, FALSE) PROVE req'.err \in Outcomes
  BY <1>1, <1>5, ReplyFacts, Zenon
<1>6. CASE CallRuntime
  <2>1. req.op \in {"Run", "RunMultiple"}  BY <1>6, Zenon DEF CallRuntime
  <2>2. Executes \subseteq Outcomes  BY DEF Executes, Outcomes
  <2>3. CASE IsComposite(u)
    <3>1. req.op = "Run"  BY <2>1, <2>3 DEF Servable, Unserved
    <3>2. u.ref = NoDef  BY <1>3, <2>3, ClientAssumption, Zenon
    <3>3. DefinitionID(u) = u.name  BY <3>2, Zenon DEF DefinitionID
    <3>4. TranslateComposite(u) \in composites  BY <1>3, <2>3, Zenon DEF CompositesOf
    <3>5. TranslateComposite(u).id = u.name  BY Zenon DEF TranslateComposite
    <3>6. Known(composites, DefinitionID(u))  BY <3>3, <3>4, <3>5, Zenon DEF Known
    <3>7. Reply(Executes, FALSE)  BY <1>4, <1>6, <2>3, <3>1, <3>6, Zenon DEF CallRuntime
    <3> QED  BY <1>5, <2>2, <3>7, Zenon
  <2>4. CASE ~IsComposite(u)
    <3>1. Known(cached, DefinitionID(u))  BY <1>3, <2>4, DefinitionFound, Zenon
    <3>2. req.op = "RunMultiple" => Definition(u).mode # "strict"
      BY <1>3, <2>4, DefinitionFound, Zenon DEF Servable, Unserved
    <3>3. Reply(Executes, FALSE)  BY <1>4, <1>6, <2>4, <3>1, <3>2, Zenon DEF CallRuntime
    <3> QED  BY <1>5, <2>2, <3>3, Zenon
  <2> QED  BY <2>3, <2>4
<1>7. CASE CallWorker
  <2> DEFINE Ends == {"nil", "ErrLockBusy", "ErrDuplicateIgnored", "ErrLeaseLost"}
  <2>1. req.op = "Claim" /\ u.kind = "claim"  BY <1>1, <1>7, Zenon DEF CallWorker, Fits
  <2>2. ~IsComposite(u) /\ u.ref # NoDef
    <3>1. u.kind # "run"  BY <2>1
    <3>2. u.ref.name # "none"  BY <1>3, <3>1, ClientAssumption, Zenon
    <3> QED  BY <1>3, <3>1, <3>2, ClientAssumption DEF NoDef
  <2>3. /\ Known(cached, DefinitionID(u))
        /\ Definition(u).exec = ExecutionKindFor(Kinds(P, u.ref.name))
        /\ Definition(u).idempotent <=> IsIdempotent(P, u.ref.name)
    BY <1>3, <2>2, DefinitionFound, Zenon
  <2>4. "claim" \in Kinds(P, u.ref.name)  BY <1>3, <2>1, Zenon DEF Kinds, On
  <2>5. Definition(u).exec = "both"  BY <2>3, <2>4, Zenon DEF ExecutionKindFor
  <2>6. Definition(u).idempotent => u.idempotent  BY <2>1, <2>3, Zenon DEF Servable, Unserved
  <2>7. Reply(Ends, FALSE)  BY <1>4, <1>7, <2>3, <2>5, <2>6, Zenon DEF CallWorker
  <2>8. Ends \subseteq Outcomes  BY DEF Outcomes
  <2> HIDE DEF Ends
  <2> QED  BY <1>5, <2>7, <2>8, Zenon
<1>8. CASE HoldsAcquire
  <2> DEFINE Ends == {"nil", "ErrLeaseAlreadyHeld"}
  <2>1. req.op \in {"Hold", "HoldMultiple"} /\ u.kind = "hold"
    BY <1>1, <1>8 DEF HoldsAcquire, Fits
  <2>2. ~IsComposite(u)  BY <1>3, <2>1, ClientAssumption
  <2>3. Known(cached, DefinitionID(u))  BY <1>3, <2>2, DefinitionFound, Zenon
  <2>4. req.keys = 1  BY <1>2, <2>1 DEF Sized, Servable, Unserved
  <2>5. Reply(Ends, FALSE)  BY <1>4, <1>8, <2>3, <2>4, Zenon DEF HoldsAcquire
  <2>6. Ends \subseteq Outcomes  BY DEF Outcomes
  <2> HIDE DEF Ends
  <2> QED  BY <1>5, <2>5, <2>6, Zenon
<1>9. CASE HoldsRelease
  <2> DEFINE Ends == {"nil", "ErrLeaseOwnerMismatch", "ErrLeaseNotFound", "ErrLeaseExpired"}
  <2>1. Reply(Ends, FALSE)  BY <1>9, Zenon DEF HoldsRelease
  <2>2. Ends \subseteq Outcomes  BY DEF Outcomes
  <2> HIDE DEF Ends
  <2> QED  BY <1>5, <2>1, <2>2, Zenon
<1> QED  BY <1>6, <1>7, <1>8, <1>9, Zenon DEF Calls

LEMMA ServeNext == PlanInv /\ ServeInv /\ [ClientNext]_allVars => ServeInv'
<1> SUFFICES ASSUME PlanInv, ServeInv, [ClientNext]_allVars PROVE ServeInv'  OBVIOUS
<1>0. IsRequest(req) /\ Fits(req)  BY Zenon DEF ServeInv
<1> DEFINE Same == UNCHANGED <<client, stopping>>
\* Whether a request can be served depends on the use case and on its plan.
<1>1. ASSUME Same, req'.op = req.op, req'.uc = req.uc, req'.keys = req.keys, req'.bound = req.bound
      PROVE  /\ Servable' => Servable
             /\ Fits(req') /\ (Sized(req) => Sized(req'))
  BY <1>0, <1>1, Zenon DEF Servable, Unserved, Fits, Sized, IsComposite, IsStrict, On, UseCaseIsStrict,
                           IsIdempotent
<1>2. ASSUME Same, req' = req PROVE ServeInv'
  <2>1. Servable' => Servable  BY <1>1, <1>2, Zenon
  <2> QED  BY <1>2, <2>1, Zenon DEF ServeInv, IsRequest, Fits, Sized
<1>3. ASSUME req.pc = "idle", req' = req PROVE ServeInv'
  <2>1. req'.pc # "answer" /\ req'.pc # "done"  BY <1>3
  <2> QED  BY <1>0, <1>3, <2>1, Zenon DEF ServeInv, IsRequest, Fits, Sized
<1>4. ASSUME NEW u \in UseCases, NEW bound \in BOOLEAN, Requests(u, bound) PROVE ServeInv'
  <2>1. /\ IsRequest(req') /\ Fits(req') /\ Sized(req') /\ req'.uc = u /\ req'.bound = bound
        /\ client.state = "ready" /\ Same
        /\ \/ req'.pc = "manager"
           \/ req'.pc = "done" /\ ~(Early(u, bound) = "nil" /\ EarlyMultiple(u, bound) = "nil")
    BY <1>4, RequestShape, Zenon
  <2>2. ASSUME Servable' PROVE req'.pc = "manager"
    <3>1. bound /\ u \in client.planned /\ stopping = {}  BY <2>1, <2>2, Zenon DEF Servable
    <3>2. bound = TRUE  BY <3>1
    <3>3. client.has = ManagersFor(client.planned)  BY <2>1, Zenon DEF PlanInv
    <3> QED  BY <2>1, <3>1, <3>2, <3>3, EarlyPasses, Zenon
  <2>3. Servable' => req'.pc # "answer" /\ req'.pc # "done"  BY <2>2
  <2>4. client'.state = "ready"  BY <2>1
  <2> QED  BY <2>1, <2>3, <2>4, Zenon DEF ServeInv, IsRequest, Fits, Sized
<1>5. CASE Calls
  <2>1. /\ IsRequest(req') /\ req.pc = "manager" /\ req'.pc = "answer"
        /\ req'.op = req.op /\ req'.uc = req.uc /\ req'.keys = req.keys /\ req'.bound = req.bound
        /\ Same
    BY <1>0, <1>5, CallsShape, Zenon
  <2>2. req.pc # "idle" /\ req'.pc # "done"  BY <2>1
  <2>3. client'.state = "ready" /\ Sized(req') /\ Fits(req')
    BY <1>1, <2>1, <2>2, Zenon DEF ServeInv
  <2>4. Servable' => req'.err \in Outcomes  BY <1>1, <1>5, <2>1, CallsServe, Zenon
  <2> QED  BY <2>1, <2>2, <2>3, <2>4, Zenon DEF ServeInv, IsRequest, Fits, Sized
<1>6. CASE Answer
  <2>1. /\ IsRequest(req') /\ req.pc = "answer" /\ req'.pc = "done"
        /\ req'.err = Public(req.err, "client" \in stopping)
        /\ req'.op = req.op /\ req'.uc = req.uc /\ req'.keys = req.keys /\ req'.bound = req.bound
        /\ Same
    BY <1>0, <1>6, AnswerShape, Zenon
  <2>2. req.pc # "idle" /\ req'.pc # "answer"  BY <2>1
  <2>3. client'.state = "ready" /\ Sized(req) /\ Sized(req') /\ Fits(req')
    BY <1>1, <2>1, <2>2, Zenon DEF ServeInv
  <2>4. ASSUME Servable' PROVE req'.err \notin Refusals
    <3>1. Servable  BY <1>1, <2>1, <2>4, Zenon
    <3>2. req.err \in Outcomes  BY <2>1, <3>1, Zenon DEF ServeInv
    <3>3. ("client" \in stopping) = FALSE  BY <3>1 DEF Servable
    <3> QED  BY <1>0, <2>1, <2>3, <3>2, <3>3, OutcomesAnswered, Zenon
  <2> QED  BY <2>1, <2>2, <2>3, <2>4, Zenon DEF ServeInv, IsRequest, Fits, Sized
<1>7. CASE ShutdownClient
  <2>1. req' = req /\ client' = client  BY <1>7, Zenon DEF ShutdownClient
  <2>2. stopping' # {}  BY <1>7, Zenon DEF ShutdownClient
  <2>3. ~Servable'  BY <2>2, Zenon DEF Servable
  <2> QED  BY <2>1, <2>3, Zenon DEF ServeInv, IsRequest, Fits, Sized
<1>8. ASSUME NEW backend, New(backend) PROVE ServeInv'
  <2>1. req' = req /\ client.state = "none"  BY <1>8, Zenon DEF New
  <2>2. req.pc = "idle"  BY <2>1 DEF ServeInv
  <2> QED  BY <1>3, <2>1, <2>2, Zenon
<1>9. (UNCHANGED allVars \/ UNCHANGED clientVars) => Same /\ req' = req
  BY Zenon DEF allVars, clientVars
<1>10. (\E batch \in SUBSET UseCases : RegisterUseCases(batch)) => Same /\ req' = req
  BY Zenon DEF RegisterUseCases
<1> QED  BY <1>2, <1>4, <1>5, <1>6, <1>7, <1>8, <1>9, <1>10, ClientShape, Zenon

\* A use case that was registered before New is never refused for its
\* definition while the client runs, whatever other use cases share its lock
\* and whatever is registered later: every request gets to the driver, apart
\* from those that no plan can serve.
THEOREM PlannedIsAlwaysServed == ClientSpec => []PlannedIsServed
<1>1. ServeInv => PlannedIsServed  BY Zenon DEF ServeInv, PlannedIsServed, Servable, Refusals
<1> QED  BY <1>1, PlanInit, PlanNext, ServeInit, ServeNext, PTL DEF ClientSpec

-----------------------------------------------------------------------------
(***************************************************************************)
(* GuardedWrite.                                                           *)
(***************************************************************************)

\* Why tokens order the writes: the row carries the greatest token written,
\* every writer's ticket is of the row's boundary, and what a statement saw
\* was written by somebody.
Written(k, n) == n = 0 \/ \E t \in writers[k] : ticket[t].token = n

GuardInv ==
    /\ \A s \in Sessions : ticket[s] # NoTicket => ticket[s].key \in Keys /\ ticket[s].token > 0
    /\ \A k \in Keys : \A t \in writers[k] : ticket[t].key = k /\ ticket[t].token <= row[k]
    /\ \A k \in Keys : Written(k, row[k])
    /\ \A s \in Sessions : stmt[s].open =>
           /\ ticket[s] # NoTicket
           /\ stmt[s].row # Absent => Written(stmt[s].row, stmt[s].seen)
    /\ \A s \in Sessions : outcome[s] # "none" => ticket[s] # NoTicket

IInv == TypeOK /\ GuardInv /\ RejectedOnlyIfSuperseded

LEMMA GuardInvInit == GuardInit => IInv
BY GuardAssumption DEF GuardInit, Init, IInv, TypeOK, GuardInv, Written, Tickets, NoTicket,
   NoStmt, RejectedOnlyIfSuperseded

LEMMA GuardInvNext == IInv /\ [GuardNext]_guardVars => IInv'
<1> SUFFICES ASSUME IInv, [GuardNext]_guardVars PROVE IInv'  OBVIOUS
<1> USE GuardAssumption DEF IInv
<1>1. ASSUME NEW k \in Keys, End(k) PROVE IInv'
  <2>1. TypeOK'  BY <1>1, Zenon DEF TypeOK, End, Lapse, Revive
  <2>2. GuardInv'  BY <1>1, Zenon DEF GuardInv, Written, End
  <2>3. RejectedOnlyIfSuperseded'  BY <1>1, Zenon DEF RejectedOnlyIfSuperseded, End
  <2> QED  BY <2>1, <2>2, <2>3
<1>2. ASSUME NEW k \in Keys, NEW s \in Sessions, Obtain(s, k) PROVE IInv'
  <2>1. TypeOK'  BY <1>2 DEF TypeOK, Tickets, Obtain, Grant
  <2>2. \A j \in Keys : s \notin writers[j]
    BY <1>2 DEF GuardInv, Obtain, NoTicket, TypeOK
  <2>3. \A t \in Sessions \ {s} : ticket'[t] = ticket[t]  BY <1>2, Zenon DEF Obtain, TypeOK
  <2>4. ticket'[s].key = k /\ ticket'[s].token > 0
    BY <1>2 DEF Obtain, TypeOK
  <2>5. \A j \in Keys, n \in Nat : Written(j, n) => Written(j, n)'
    BY <1>2, <2>2, <2>3 DEF Written, Obtain, TypeOK
  <2>6. GuardInv'
    <3>1. UNCHANGED <<row, stmt, writers>>  BY <1>2 DEF Obtain
    <3>2. ticket'[s] # NoTicket  BY <2>4, <1>2 DEF NoTicket
    <3>3. \A t \in Sessions : ticket'[t] # NoTicket => ticket'[t].key \in Keys /\ ticket'[t].token > 0
      BY <2>3, <2>4, Zenon DEF GuardInv
    <3>4. \A j \in Keys : \A t \in writers'[j] : ticket'[t].key = j /\ ticket'[t].token <= row'[j]
      BY <2>2, <2>3, <3>1 DEF GuardInv, TypeOK
    <3>5. \A j \in Keys : Written(j, row[j])'
      BY <2>5, <3>1, Zenon DEF GuardInv, TypeOK
    <3>6. \A t \in Sessions : stmt'[t].open =>
             /\ ticket'[t] # NoTicket
             /\ stmt'[t].row # Absent => Written(stmt[t].row, stmt[t].seen)'
      BY <2>3, <2>5, <3>1, <3>2, Zenon DEF GuardInv, TypeOK
    <3>7. \A t \in Sessions : outcome'[t] # "none" => ticket'[t] # NoTicket
      BY <1>2, <2>3, <3>2 DEF GuardInv, Obtain
    <3> QED  BY <3>3, <3>4, <3>5, <3>6, <3>7, Zenon DEF GuardInv
  <2>7. RejectedOnlyIfSuperseded'
    <3> SUFFICES ASSUME NEW t \in Sessions, outcome'[t] = "stale_rejected"
                 PROVE  \E u \in writers'[ticket'[t].key] : /\ ticket'[u].key = ticket'[t].key
                                                           /\ ticket'[u].token >= ticket'[t].token
      BY Zenon DEF RejectedOnlyIfSuperseded
    <3>1. UNCHANGED <<writers, outcome>>  BY <1>2 DEF Obtain
    <3>2. PICK u \in writers[ticket[t].key] : /\ ticket[u].key = ticket[t].key
                                              /\ ticket[u].token >= ticket[t].token
      BY <3>1, Zenon DEF RejectedOnlyIfSuperseded
    <3>3. ticket[t] # NoTicket  BY <3>1, Zenon DEF GuardInv
    <3>4. t # s /\ ticket[t].key \in Keys  BY <3>3, <1>2, Zenon DEF GuardInv, Obtain
    <3>5. ticket'[t] = ticket[t]  BY <3>4, <2>3
    <3>6. u \in Sessions \ {s}  BY <3>2, <3>4, <2>2 DEF TypeOK
    <3> QED  BY <3>1, <3>2, <3>5, <3>6, <2>3, Zenon
  <2> QED  BY <2>1, <2>6, <2>7
<1>3. ASSUME NEW s \in Sessions, NEW r \in Keys \cup {Absent}, Start(s, r) PROVE IInv'
  <2>1. TypeOK'  BY <1>3, Zenon DEF TypeOK, Start
  <2>2. GuardInv'
    <3>1. UNCHANGED <<ticket, row, writers, outcome>>  BY <1>3 DEF Start
    <3>2. \A t \in Sessions : stmt'[t].open =>
             /\ ticket[t] # NoTicket
             /\ stmt'[t].row # Absent => Written(stmt'[t].row, stmt'[t].seen)
      BY <1>3, Zenon DEF GuardInv, Start, TypeOK
    <3> QED  BY <3>1, <3>2, Zenon DEF GuardInv, Written
  <2>3. RejectedOnlyIfSuperseded'  BY <1>3, Zenon DEF RejectedOnlyIfSuperseded, Start
  <2> QED  BY <2>1, <2>2, <2>3
<1>4. ASSUME NEW s \in Sessions, Commit(s) PROVE IInv'
  <2> DEFINE k == ticket[s].key
             n == ticket[s].token
             applied == stmt[s].row = k /\ row[stmt[s].row] < n
  <2>1. ticket[s] # NoTicket /\ k \in Keys /\ n \in Nat /\ n > 0 /\ UNCHANGED ticket
    BY <1>4, Zenon DEF Commit, GuardInv, TypeOK, Tickets
  <2>2. /\ applied => /\ row' = [row EXCEPT ![k] = n]
                      /\ writers' = [writers EXCEPT ![k] = @ \cup {s}]
        /\ ~applied => UNCHANGED <<row, writers>>
    BY <1>4, Zenon DEF Commit
  <2>3. TypeOK'
    <3>1. Classify(s, applied) \in {"row_not_found", "applied", "boundary_mismatch",
                                    "stale_rejected", "inconsistent"}
      BY DEF Classify
    <3>2. outcome' = [outcome EXCEPT ![s] = Classify(s, applied)]  BY <1>4, Zenon DEF Commit
    <3>3. stmt' = [stmt EXCEPT ![s] = NoStmt]  BY <1>4, Zenon DEF Commit
    <3>4. row' \in [Keys -> Nat] /\ writers' \in [Keys -> SUBSET Sessions]
      BY <2>1, <2>2 DEF TypeOK
    <3> QED  BY <1>4, <3>1, <3>2, <3>3, <3>4 DEF Commit, TypeOK, NoStmt
  <2>4. \A j \in Keys : writers[j] \subseteq writers'[j]  BY <2>1, <2>2 DEF TypeOK
  <2>5. \A j \in Keys, m \in Nat : Written(j, m) => Written(j, m)'
    BY <2>1, <2>4 DEF Written
  <2>6. GuardInv'
    <3>1. \A j \in Keys : \A t \in writers'[j] : ticket[t].key = j /\ ticket[t].token <= row'[j]
      <4>1. CASE applied
        <5> SUFFICES ASSUME NEW j \in Keys, NEW t \in writers'[j]
                     PROVE  ticket[t].key = j /\ ticket[t].token <= row'[j]
          OBVIOUS
        <5>1. CASE j # k
          BY <4>1, <5>1, <2>1, <2>2, Zenon DEF GuardInv, TypeOK
        <5>2. CASE j = k
          <6>1. row'[k] = n /\ (t = s \/ t \in writers[k])
            BY <4>1, <5>2, <2>1, <2>2 DEF TypeOK
          <6>2. ASSUME t \in writers[k] PROVE ticket[t].key = k /\ ticket[t].token <= n
            <7>1. ticket[t].key = k /\ ticket[t].token <= row[k]
              BY <6>2, <2>1, Zenon DEF GuardInv
            <7>2. row[k] < n  BY <4>1
            <7>3. ticket[t].token \in Nat /\ row[k] \in Nat
              BY <6>2, <2>1, Zenon DEF TypeOK, Tickets
            <7> QED  BY <7>1, <7>2, <7>3, <2>1
          <6> QED  BY <5>2, <6>1, <6>2, <2>1
        <5> QED  BY <5>1, <5>2
      <4>2. CASE ~applied  BY <4>2, <2>2, Zenon DEF GuardInv
      <4> QED  BY <4>1, <4>2, Zenon
    <3>2. \A j \in Keys : Written(j, row[j])'
      <4> SUFFICES ASSUME NEW j \in Keys PROVE Written(j, row[j])'  OBVIOUS
      <4>1. CASE row'[j] = row[j]
        <5>1. Written(j, row[j]) /\ row[j] \in Nat  BY Zenon DEF GuardInv, TypeOK
        <5>2. \A m \in Nat : Written(j, m) => m = 0 \/ \E t \in writers'[j] : ticket'[t].token = m
          BY <2>5 DEF Written
        <5> QED  BY <4>1, <5>1, <5>2 DEF Written
      <4>2. CASE row'[j] # row[j]
        <5>1. applied /\ j = k /\ row'[j] = n /\ s \in writers'[j]
          BY <4>2, <2>1, <2>2 DEF TypeOK
        <5> QED  BY <5>1, <2>1, Zenon DEF Written
      <4> QED  BY <4>1, <4>2
    <3>3. \A t \in Sessions : stmt'[t].open =>
             /\ ticket'[t] # NoTicket
             /\ stmt'[t].row # Absent => Written(stmt[t].row, stmt[t].seen)'
      <4> SUFFICES ASSUME NEW t \in Sessions, stmt'[t].open
                   PROVE  /\ ticket'[t] # NoTicket
                          /\ stmt'[t].row # Absent => Written(stmt[t].row, stmt[t].seen)'
        BY Zenon
      <4>1. t # s /\ stmt'[t] = stmt[t]  BY <1>4, Zenon DEF Commit, TypeOK, NoStmt
      <4>2. ticket[t] # NoTicket /\ (stmt[t].row # Absent => Written(stmt[t].row, stmt[t].seen))
        BY <4>1, Zenon DEF GuardInv
      <4>3. stmt[t].row # Absent => \/ stmt[t].seen = 0
                                   \/ \E u \in writers'[stmt[t].row] : ticket'[u].token = stmt[t].seen
        BY <4>2, <2>1, <2>4, Zenon DEF Written, TypeOK
      <4> QED  BY <4>1, <4>2, <4>3, <2>1, Zenon DEF Written
    <3>4. \A t \in Sessions : outcome'[t] # "none" => ticket'[t] # NoTicket
      BY <1>4, <2>1, Zenon DEF Commit, GuardInv, TypeOK
    <3> QED  BY <2>1, <3>1, <3>2, <3>3, <3>4, Zenon DEF GuardInv
  <2>7. RejectedOnlyIfSuperseded'
    <3> SUFFICES ASSUME NEW t \in Sessions, outcome'[t] = "stale_rejected"
                 PROVE  \E u \in writers'[ticket[t].key] : /\ ticket[u].key = ticket[t].key
                                                          /\ ticket[u].token >= ticket[t].token
      BY <2>1, Zenon DEF RejectedOnlyIfSuperseded
    <3>1. CASE t # s
      <4>1. outcome[t] = "stale_rejected"  BY <3>1, <1>4, Zenon DEF Commit, TypeOK
      <4>2. ticket[t].key \in Keys  BY <4>1, Zenon DEF GuardInv
      <4> QED  BY <4>1, <4>2, <2>4, Zenon DEF RejectedOnlyIfSuperseded
    <3>2. CASE t = s
      <4>1. Classify(s, applied) = "stale_rejected"  BY <3>2, <1>4, Zenon DEF Commit, TypeOK
      <4>2. stmt[s].row = k /\ stmt[s].seen >= n  BY <4>1, Zenon DEF Classify
      <4>3. Written(k, stmt[s].seen) /\ stmt[s].seen \in Nat
        BY <4>2, <2>1, <1>4 DEF GuardInv, Commit, TypeOK
      <4>4. PICK u \in writers[k] : ticket[u].token = stmt[s].seen
        BY <4>2, <4>3, <2>1 DEF Written
      <4>5. ticket[u].key = k  BY <4>4, <2>1, Zenon DEF GuardInv
      <4> QED  BY <3>2, <4>2, <4>4, <4>5, <2>1, <2>4, Zenon
    <3> QED  BY <3>1, <3>2, Zenon
  <2> QED  BY <2>3, <2>6, <2>7
<1>5. ASSUME UNCHANGED guardVars PROVE IInv'
  BY <1>5 DEF guardVars, TypeOK, GuardInv, Written, RejectedOnlyIfSuperseded
<1> QED  BY <1>1, <1>2, <1>3, <1>4, <1>5 DEF GuardNext

-----------------------------------------------------------------------------
\* The guard never turns away a holder that nobody superseded.
THEOREM NoFalseRejection == GuardSpec => []RejectedOnlyIfSuperseded
<1>1. IInv => RejectedOnlyIfSuperseded  BY DEF IInv
<1> QED  BY GuardInvInit, GuardInvNext, <1>1, PTL DEF GuardSpec

\* Guarded writes are applied in the order of their leases.
THEOREM LeaseOrder == GuardSpec => WritesInLeaseOrder
<1> DEFINE InOrder == \A k \in Keys : \A s \in writers'[k] \ writers[k], t \in writers[k] :
                          ticket[t].token < ticket[s].token
<1>1. IInv /\ [GuardNext]_guardVars => [InOrder]_guardVars
  <2> SUFFICES ASSUME IInv, GuardNext,
                      NEW k \in Keys, NEW s \in writers'[k] \ writers[k], NEW t \in writers[k]
               PROVE  ticket[t].token < ticket[s].token
    OBVIOUS
  <2>1. PICK u \in Sessions : Commit(u) /\ writers' # writers
    BY Zenon DEF GuardNext, End, Obtain, Start
  <2>2. /\ s = u /\ k = ticket[u].key
        /\ row[k] < ticket[s].token
    BY <2>1, Zenon DEF Commit, IInv, TypeOK
  <2>3. ticket[t].token <= row[k]  BY Zenon DEF IInv, GuardInv
  <2>4. t \in Sessions /\ s \in Sessions  BY <2>2, Zenon DEF IInv, TypeOK
  <2>5. ticket[t].token \in Nat /\ ticket[s].token \in Nat /\ row[k] \in Nat
    BY <2>4, Zenon DEF IInv, TypeOK, Tickets
  <2> QED  BY <2>2, <2>3, <2>5
<1> QED  BY <1>1, GuardInvInit, GuardInvNext, PTL DEF GuardSpec, WritesInLeaseOrder
=============================================================================
