# Verification of lockman

TLA+ modules that model the lease-based lock SDK in this repository, the TLC
runs that check them on small instances, and TLAPS proofs of the properties
that matter most for every value of the constants. `PROJECT.json` is the index:
which definition models which lines, what each run checks, the hazards of the
code and the properties that cover them, the disagreements found.

    tlc -config Drain.cfg MCDrain          # any run: cfg and module from PROJECT.json
    tlapm SupportProofs.tla                # any module whose name ends in Proofs

## 1. The system

A program declares *lock definitions* (kind, mode, key template, TTL, parent)
in a registry. Managers execute requests against them with leases from a
backend driver. Nothing but time ends a lease whose holder is gone, so every
part below has to be right although a lease may end at any moment.

| Part | State | Operations | What is hard |
|---|---|---|---|
| Admission and drain (`lockkit/runtime/manager.go`, `lockkit/workers/shutdown.go`) | `shuttingDown`, `inFlight` (atomics), `drainMu`, `drainCond` | tryAdmit, release, Shutdown, wait with context | check-then-act on two atomics; lost wake-ups; deadlines while a callback hangs |
| Runtime manager (`lockkit/runtime`) | `active` guards, per-definition counters, leases | ExecuteExclusive, ExecuteMultipleExclusive, ExecuteCompositeExclusive, CheckPresence, Shutdown | several keys taken one after the other; failures in the middle; cleanup order of deferred functions; lease that runs out in the callback |
| Worker manager (`lockkit/workers`) | guards, renewal goroutines, idempotency records, leases | ExecuteClaimed, ExecuteCompositeClaimed, Shutdown | redelivery, crash between two steps, renewal racing the callback, terminal write failing |
| Policies (`lockkit/internal/policy`) | none | canonical order, overlap of keys, outcome of an error | two notions of parent/child overlap |
| Memory driver (`backend/memory`) | lease, strict, counter, lineage and membership maps under one mutex | Acquire, Renew, Release in plain, strict and lineage form; CheckPresence | clock read before the lock; maps pruned by different conditions; holder that comes back late |
| Redis driver (`backend/redis`) | keys with TTL, fence counters, sorted sets | the same, as SETNX and Lua scripts; ForceReleaseDefinition | server and client clocks, lost answers, sets that must go away by themselves |
| Idempotency store (`idempotency/memory`, `idempotency/redis`) | one record per message, with TTL | Get, Begin, Complete, Fail | two processes with one delivery; TTL shorter than the work; TTLs that a server rounds; records that expire but are still in the map |
| Registry and lineage (`lockkit/registry`, `lockkit/internal/lineage`, `lockkit/definitions`) | definitions and composites | Register, RegisterComposite, Validate, plan of ancestors and lease ID | registration racing NewManager; what validation accepts must be plannable |
| Observability (`observe`, `inspect`, `internal/observebridge`) | bounded channel, counters, history ring, active locks and claims | Publish, worker loop, Shutdown, Consume | full buffer, shutdown racing publishers, events out of order |
| Guarded writes (`guard`, `guard/postgres`) | token column of the row | guarded UPDATE, classification | a stale holder writing late; snapshot and update of one statement see different rows |
| Holds, client SDK, root registry, SDK plumbing | token of a hold | Run, RunMultiple, Claim, Hold, Forfeit, Shutdown | translation of use cases to definitions; errors mapped twice |
| Metrics, sinks, HTTP and CLI inspection, examples | none of their own | | I/O only |

Interactions: the client translates a use case and calls a manager; a manager
is admitted (drain), resolves the definition (registry, lineage), checks
presence, installs guards, acquires leases (driver), runs the callback,
releases, and reports every step (observability). The worker manager adds the
idempotency store and a renewal goroutine per lease. In strict mode the driver
returns a fencing token which the callback carries into guarded writes.

What makes the whole correct: at most one live lease per key, and no lineage
grant over a held ancestor or a registered descendant; several keys are taken all or not at all; nil
means the lease was held to the end; a message counts as completed only if it
was processed; Shutdown returns nil only when nothing runs and nothing will;
tokens order the writes; events neither lie nor block.

## 2. Modules

| Module | Models | Built on |
|---|---|---|
| `Quiescence` | abstract: what Shutdown promises | |
| `Drain` | the flag, the counter, the condition variable, step by atomic step | implements `Quiescence` |
| `FencedLock` | abstract: a lock with growing tokens | |
| `MemoryDriver`, `MemoryDriverProofs` | the memory driver and callers that hold, renew, lose and release | strict mode implements `FencedLock` |
| `RedisDriver`, `RedisDriverProofs` | the Redis driver: server, scripts, client clocks | strict mode implements `FencedLock` |
| `GuardedWrite` | guarded UPDATEs of strict holders | extends `FencedLock` |
| `Policies`, `PoliciesProofs` | canonical order and outcome of errors | |
| `RuntimeManager`, `RuntimeManagerProofs` | the runtime manager over a driver that may fail | `Policies`, `Quiescence` (instance) |
| `WorkerManager`, `WorkerManagerProofs` | claims in several processes that may crash, with the idempotency store | `Policies` |
| `IdempotencySlot` | abstract: the processing slot of a message | |
| `MemoryStore`, `RedisStore` | the two idempotency stores | each implements `IdempotencySlot` |
| `Stores` | both stores under the same calls, on one clock | `MemoryStore`, `RedisStore` (instances) |
| `Observability`, `ObservabilityProofs` | bridge, dispatcher, inspect store, `Client.Shutdown` | |
| `Registry` | registration, validation, snapshot, acquire plans, overlap | |
| `Client` | use cases, the plan of `New`, requests through the client to the three managers, mapping of errors, Shutdown | extends `Registry` |
| `SupportProofs` | proofs about two parts the managers are built on | `Drain`, `Stores` |
| `ClientProofs` | proofs about the client and the writes of its callbacks | `Client`, `GuardedWrite` |
| `MC*` | the instances that TLC checks | |

Correspondence of state and actions:

* **Drain.** `epc` and `cpc` are the program counters of Execute* and Shutdown
  calls; each load, store, increment, Lock, Wait and Broadcast is one action
  (`Check`, `Count`, `Recheck`, `Decrement`, `Signal`, ...). The watcher
  goroutine of waitForDrainWithContext is `watcher`. The rest of the system uses
  `Quiescence`, the three-variable promise that `Drain` implements.
* **MemoryDriver.** The five maps of the driver are variables. A method is one
  action, because the mutex makes it one, except that its clock reading `now` may
  be up to `Lag` ticks old: the code reads the clock before it locks. Which
  methods a caller uses for a key is a constant (`Method`): acquireLease chooses
  by the mode and the lineage of the definition, but RunMultiple
  (`multiple.go:129`) and Hold (`holds/manager.go:51`) take a key of any
  definition by the plain methods, so both kinds of callers meet on one key.
  `handle`
  is what each caller got from the driver: key, token, the ExpiresAt it was
  told. `MutualExclusion` speaks of callers who still *rely* on their lease by
  their own reading of ExpiresAt.
* **RedisDriver.** `leases`, `tokens`, the fence counters and the lineage sets are
  the server; a script is one operator on them and one step, TTLs are by the
  server's clock and the scores of the sets by the clock of the client that ran
  the script (`Offset`). An answer may be lost after the script ran. `Method` is
  as above, and `Asks` limits the keys of a caller to keep the instance small.
  `ForceReleaseDefinition` is an action on the keys in `ForceKeys`.
* **GuardedWrite.** A statement has two steps, as READ COMMITTED gives it:
  `Start` takes the snapshot that the status columns are read from, `Commit`
  tests the row as concurrent writers left it, and the result is classified as
  ClassifyExistingRowUpdate does.
* **RuntimeManager.** One program counter per call over the sequence of its
  canonical members. Guards, counters and leases are separate variables, changed
  in the order of the code, deferred functions included. The driver is abstract:
  it grants, refuses, fails, or executes and loses the answer; a lease may lapse
  at any time.
* **WorkerManager.** As above, per process, with the renewal of each lease as a
  process of its own, the store's Get and Begin as separate steps, crash and
  restart, expiry of records and leases at any time. Errors are sets of the
  sentinels they wrap, and the outcome is OutcomeFromError on them. A callback
  returns nil or one error of each class, ErrDuplicateIgnored included, which is
  acknowledged and so completes the record.
* **Stores.** A call of a store is one step: the memory store holds the mutex of
  the shard, the Redis store runs one script. A record of the memory store stays
  in the map after its expiry until a call looks at it; the Redis server drops it
  at a time that was rounded up to milliseconds (`Millisecond` ticks), or some
  time later, and a TTL that is zero is refused by both. `IdempotencySlot` says what the
  worker manager relies on: Begin acquires a slot only when there is none, a
  record lasts at least as long as the TTL asked for, and a terminal status keeps
  the owner of the record it replaces. Each store has its refinement mapping
  (`Slots`), in which what has expired is missing whether or not it was removed.
* **Observability.** Publishers, dispatcher goroutines, the channel as
  the number of events in it, both drop policies (`handleDrop`'s selects are separate steps), the
  store's history ring with its write index, and Client.Shutdown as a sequence
  of steps with managers that drain in between. `dropped` is DroppedCount and
  `lost` counts the events that handleDrop evicts or refuses. Runs and claims may
  have one OwnerID, as those of one client do.
* **Registry.** Definitions as records over key templates that are sequences of
  parts; `Definitions` lists the ways of declaring them, registration happens in
  any order around the two reads of NewManager. Keys are sequences of parts
  because the overlap check of composites compares them by prefix and separator;
  values go into them unchecked, one with a separator in it too.
* **Client.** A program registers use cases, `New` turns them into definitions
  and composites of the engine registry (`EngineDefinitions`, one definition for
  all use cases that name it) and puts them through the validation of `Registry`
  and the checks of each NewManager. A request is one record that goes through
  the early checks, a manager (as far as it asks anything of the definition; how
  a call ends after that is a free choice, since the manager modules cover it)
  and the mapping of its error, while `Shutdown` sets the flags one by one.
  `api` chooses between this and direct use of the engine, so that one run
  explores both.

## 3. Runs

Bounds are the constants of the cfg files; no state constraint is used, so TLC
explores every reachable state of each instance.

| Run | Instance | Shows |
|---|---|---|
| `drain` | 3 goroutines calling Execute* again and again, 2 Shutdown calls, one with a deadline | the counter is exact; no work after Shutdown returned nil; no lost wake-up; `Quiescence` is implemented; Shutdown returns if callbacks do, and at its deadline even if one hangs |
| `memory` | a chain of three keys, a plain and a strict key, 3 callers, some of whom take the root, the leaf and the strict key plainly, TTL 2, readings 1 tick old, clock to 5 | exclusion; AcquireWithLineage keeps its promises; lineage maps consistent; nobody but the holder ends a lease; `FencedLock` implemented |
| `redis` | the chain and the strict key, the middle, the leaf and the strict key also taken plainly, one client clock ahead, answers lost, one key released by force | a lease relied on is in the server; AcquireWithLineage keeps its promises up to the skew; each entry in a lineage set is there while its lease is relied on and over once the lease is gone; `FencedLock` implemented |
| `redis_force_release` | a strict key released by force | **violated**: tokens start again at 1 |
| `runtime` | 2 calls, 1 or 2 owners, singles and composites in both orders, a FailIfHeld member | all or nothing; nil means held; no mutual refusal; guards make the owner comparison safe inside a process; the active-lock counters are exact; nothing left after shutdown |
| `runtime_guard_leak` | two-key requests of one owner | **violated**: a refused request leaves its first guard behind |
| `stores` | both stores, 2 callers, one key, TTLs of 0, half, one and one and a half milliseconds, clock to 8 | each implements the processing slot |
| `worker` | 2 claims in 2 processes, a redelivered message over two resources and one without idempotency | one claim at a time per message; completed means that a callback returned nil or ErrDuplicateIgnored; nil means recorded; a lost lease is reported; renewals touch only their own lease; nothing left behind |
| `guard_order` | 3 strict leases, 2 rows | writes in lease order; rejected only if superseded |
| `observability` | a run, two claims of one resource, a presence check, Client.Shutdown; one OwnerID, buffer 1, history 2, both policies, at most 2 drops | RecentEvents(0) is the end of the history; no ghosts among the active locks, and none missing but where run and claim share a lockKey; losses within twice DroppedCount; quiet after the Shutdown that closed the dispatcher |
| `observe_closed` | as above with two Client.Shutdown calls | **violated**: a claim in flight publishes after a timed-out Shutdown closed the dispatcher, and panics |
| `registry` | all declarations of three definitions of a chain and a composite, registered in any order around NewManager; or up to 3 of 12 use cases behind a client, one request, a shutdown | what validation accepts can be planned; the overlap check misses no overlap of a root and its child, and invents none if no value has a separator; what `New` accepts is served; use cases of one definition exclude each other; a refusal by shutdown is reported as one |

Why the bounds are enough for the cases that matter: three Execute* calls give
one that is refused late while another leaves and a third still works; a clock
to 5 with TTL 2 lets a lease be granted, run out, be granted again and the late
holder return, with a stale reading on either side; three callers let a newcomer
compete with a holder and an expired holder; a chain of three has a root, a
middle and a leaf; two calls with shared members in both orders give every
pairwise interleaving (a third only repeats them); a buffer of one and a history
of two make full, empty and wrap-around happen, and two drops (`MaxDrops`) let two
publishers be in handleDrop at once; a publisher that would count a third waits;
the twelve use cases are every
kind (run, claim with and without idempotency, hold, composite with and without
a fail-if-held member) on a strict and a standard ref of one name, and three of
them are enough for two to be planned together while the third comes late. One
request is enough because the client keeps nothing of it, and one key for the
stores because no call touches two. Symmetry is used for callers or
calls that nothing tells apart, and never in a run with liveness properties.

Deadlock is checked in every run but `registry`, which ends when everything is
registered and the request is answered; in the others requests, ticks or
stuttering operations remain possible or finished states are explicit steps.

**Fairness.** Only `drain` has liveness properties. `FairSpec` is weak fairness
of the steps a running goroutine takes without waiting for anyone (the Go
scheduler), of a Shutdown call and of its watcher. Callbacks get no fairness:
that they return is a hypothesis of `DrainCompletes` (`CallbacksReturn`), and
`DeadlineHonoured` holds without it. The arrival of new calls and the expiry of
contexts are never assumed.

**Each property has a mutant**: a plausible bug in the definition it depends on
(a dropped guard, a swapped order, a missing reset), written just before that
definition as an operator commented "Mutant of", under which TLC finds the
property violated.

## 4. What the violated runs show

* `runtime_guard_leak`: the deferred cleanup is registered after the loop that
  installs the guards; the early return of a second guard leaks the first.
* `redis_force_release`: the fence counter is deleted with the lease.
* `observe_closed`: Publish does not look at `closed`, and Client.Shutdown closes
  the dispatcher even if the drain of a manager timed out. In the trace a claim is
  still about to send the event of its acquire then, and the send panics. A second
  Client.Shutdown and a late presence check get to the same send.

Seen while modelling, without a run of their own:

* collectPlannedDefinitions keeps the fail-if-held flag per definition
  (`client_validation.go:328`), so a composite that declared the lock without the
  flag only checks it, and runs without acquiring it, when another composite
  declared it with the flag.
* RunMultiple and Hold take a key of a lineage definition by the plain Acquire,
  which looks at no ancestor and registers nowhere: a parent is granted over a
  child taken this way, and the child under a held parent, by both drivers.
  `docs/multiple-lock.md:50` says "if any key overlaps with existing locks, the
  entire operation is rejected". `GrantRespectsLineage` is therefore about grants
  of AcquireWithLineage, and below the key about leases it granted.
* The memory driver takes a key in the middle of a lineage chain for a child and
  looks at the keys above it only: it grants the key while one below it is held
  (`rejectLineageConflict`, `Blocks`), where `backend/contracts.go:18-20` speaks of
  "an active ancestor or descendant lease". The Redis script looks both ways. A root
  is granted over a child whose lease is in its last instant, since membership
  entries and leases are compared differently (`handle[t].expires = clock`).
* Guards and counters of the runtime manager are indexed by a joined string of
  definition, resource and owner, and one counter is never taken back where two
  members share it. The run leaves that case out, and the proof that the counters are
  exact needs that no two members have the same string (`DistinctIds`).
* A run and a claim of one client have one OwnerID, and `lockKey`
  (`inspect/store.go:252`) has no manager in it: when both are on one resource,
  one after the other, the late Released of the claim takes out the entry of the
  run. `ActiveExact` says so (`Hidden`); the design of phase 3c (`:492`) wants the
  current state to "remain correct".
* RecentEvents with a limit below the number of events returns the oldest ones
  (`inspect/store.go:168-182`). `HistoryExact` is about RecentEvents(0).
* DropOldest counts once and may lose two events, the evicted one and its own
  (`dispatcher.go:66-77`). Events that are queued when the dispatcher is closed
  are not counted.
* A second dispatcher.Shutdown returns nil at once, while sinks may still be
  running (`dispatcher.go:132-134`).
* The overlap check of composites never refuses a parent that is a child itself
  (`overlap.go:14`), and takes order `1` and an item of order `1:x` for an overlap,
  since no key builder looks for separators in values.
* Two locks of one name are refused within one call of Register and accepted in
  two. One may be strict, and a hold on the other then takes a plain lease of the
  strict definition. `2026-04-02-shared-lock-definition-design.md:341` and `:347`
  say that duplicate names are rejected and that holds cannot reference strict
  definitions.
* A duplicate that a callback reports itself, with ErrDuplicateIgnored, completes
  the record although nobody may have processed the message (`outcome.go:39`).
* Subscribers of the inspect store are called after its mutex is released, so
  the event stream may show events in another order than the history does; and
  the stream reader of the CLI may end on a closed error channel while events
  are still buffered.
* Status columns and UPDATE of a guarded write see different versions of the
  row. A newer lease that writes in between makes an older write be rejected,
  rightly, but as an inconsistent state instead of a stale one. Order is not
  affected (`guard_order`).
* HoldMultiple with more than one key always fails: it hands all keys to one
  `Driver.Acquire`, and both drivers take exactly one.
* A claim without idempotency is refused on every call when another claim makes
  the definition they share idempotent (`Unserved` names both cases).
* Of two fail-if-held members of one definition a composite checks the key of
  the last one only (`LastOf`).
* The planned Resource, first in the canonical order of members, is the name of a
  use case when only one names the definition: clients with different use cases
  may order the same locks differently.
* RunMultiple and HoldMultiple resolve the identity without the OwnerID option
  of the call.
* Client.Shutdown does not wait for a Hold that is under way.

## 5. Proofs

For any finite number of Execute* calls and any number of Shutdown calls
(`SupportProofs`, from `DrainAssumption`):

* `TypeCorrect`, `CounterExact` and `DrainSafe` rest on the inductive invariant
  `CountInv` (types, `inFlight = Cardinality(Counted)`, the flag is stored before
  anything else Shutdown does) and on what each place of a Shutdown call implies.
  `NoWorkAfterDrain` alone is not inductive: the step in which Shutdown reads
  zero preserves it only because the counter counts exactly the calls inside,
  and a later increment preserves it only because the flag is already set and
  the second load will see it.
* `NoSleeperForgotten` adds what is on the notify list and who holds `drainMu`.
* `DrainRefines`: every step maps to a step of `Quiescence` or a stutter.

For any keys, lineage, callers, TTL, clock bound and age of readings
(`MemoryDriverProofs`, from `MemoryAssumption`), and whichever methods each caller
uses for each key, provided Renew and Release can recognise their caller
(`Recognised`: a caller that uses the plain or the lineage methods shares its
OwnerID with no other; for the strict methods the token tells callers apart):

* `MemoryExclusive`: `MutualExclusion`. The invariant (`StoreInv`, `Backed`) says
  that a lease that somebody still relies on is the one in the map, with the
  expiry that caller was told; pruning with a stale reading never removes such a
  lease because the reading is never in the future.
* `OnlyHolderChanges`, `LineageConsistent`, `LineageRespected`: `OnlyHolder`,
  `MembershipConsistent`, `GrantRespectsLineage`. `LineageInv` adds that the
  lineage map and the membership sets name exactly the leases that
  AcquireWithLineage granted and that are in the lease map, with their expiries,
  and `ToldInv` what the callers were told of them. A plain lease on the same key
  has to leave all three alone.
* `StrictRefines`: the strict methods implement `FencedLock`, if a clock reading
  is used within the length of a lease (`Lag <= Ttl`). Without that bound a
  renewal delayed at the mutex could write an expiry that lies in the past.

For any keys, lineage, callers, clock offsets, delays, TTL and clock bound
(`RedisDriverProofs`, from `RedisAssumption`), and whichever methods each caller
uses for each key, provided callers are recognised as above and no strict key is released by force (`Recognised`):

* `RedisBacked`: `LeaseBacked`. It is not inductive: that the server keeps a lease
  as long as its caller relies on it follows from what `Backed` says of the two
  clocks, the TTL at the server plus the offset of the caller, and the delay of
  the answer where Renew reads its clock late, is not before the caller's expiry.
* `RedisStrictHolder`, `RedisTokensIncrease`, `RedisStrictRefines`: tokens are
  unique per key, never above the fence counter, and the token key of a live
  lease is the counter (`StoreInv`). `RedisTokensIncrease` is the property that
  `redis_force_release` refutes: the forced release of a strict key is the only
  way to break it.
* `RedisBlockedBriefly` and `RedisLineageRespected`, if the offsets of the clocks
  are bounded (`Bounded`). `LineageInv` relates the TTL of a set, which the server
  counts, to the scores in it, which the clients wrote: no score is more than the
  skew ahead of the deadline. So the server drops no set that names a lease still
  ahead of every clock, and no script prunes its score. `EntryInv` follows each
  entry: while a lease below the key is in Redis under the name of the entry's
  session, the score is within the server's TTL of it on that caller's clock, and
  once there is none the score is in the past of that clock. `BlockedBriefly` alone
  is not inductive, since the step that drops the lease says nothing of the score.

For any number of calls, owners, definitions and requests, and plans of any
length (`RuntimeManagerProofs`, from `RuntimeAssumption`):

* `RunsWithEverything`, `NilIsHeld`, `GuardsAreExclusive`, `DrainedIsReleased`
  rest on `CallInv`: which guards and leases each stage of a call stands for
  (`Guarded`, `Leased`), that a guard belongs to one position of one call, that a
  lease the driver would take for a call's own is its own, and that a call which
  lost a lease finds out when it releases.
* `ActiveCountIsExact`, provided that no two members have the same joined string
  (`DistinctIds`).
* `NeverMutual`, provided that the canonical order puts any two members in one
  order for all callers: when a call was refused because of another, the member
  in the way comes after all it has and before all the other still asks for
  (`RefusalInv`).

For any number of claims, processes, deliveries and members
(`WorkerManagerProofs`, from `WorkerAssumption`): `OneProcessor`,
`CompletedIsProcessed`, `AckIsDone`, `RenewalIsOwn`, `LeasesGivenBack` rest on
`ClaimInv`: the guards and leases of each stage as above, and what the store has
for a message while a claim uses it (`RecordInv`), as long as no record ran out
under its claim.

For every request (`PoliciesProofs`): CanonicalizeMembers returns a permutation
of it, in an order that no later member precedes.

For any keys, callers, TTLs and length of a millisecond (`SupportProofs`, from
`StoresAssumption`): `MemoryRefines` and `RedisRefines`, each store implements
`IdempotencySlot`.

For any use cases, and however many of them are registered (`ClientProofs`, from
`ClientAssumption`: ids of use cases are hashes and name no lock, composites are
run without a lock of their own, strict locks are not held, and a use case
without a lock is a run):

* `ShutdownIsAlwaysNamed`. `StopInv` adds, for a request that a manager refused
  because it is shutting down, that the flag of the client was set by then and
  which error that manager uses. The flag is set first and read last, so the
  answer is `ErrShuttingDown` wherever Shutdown is in between.
* `PlanHasOneBoundary`. `PlanInv` says that the engine's definitions are the plan
  of the use cases New saw, and stay so whatever is registered later;
  `OneDefinition` says that a plan has one definition for a lock, and that it is
  strict when one of its use cases is.
* `PlannedIsAlwaysServed`. `ServeInv` says that a request fits its operation and has
  as many keys as that takes, and that a manager answers one that a plan can serve
  (`Servable`) only with the outcome of leases and records (`Outcomes`). With
  `PlanInv` each check of a manager passes because of what the plan merged for that
  definition.

For any runs, claims, Shutdown calls and workers, and any capacity
(`ObservabilityProofs`, from `ObservabilityAssumption`):

* `LossIsAccounted`. A publisher between a full queue and its second send has
  counted a drop already and may still lose two events, or one after its eviction.
  `DispatchInv` adds what all publishers there may still lose (`Owed`, by the
  cardinality of the sets of publishers at the two places) to what is lost: the
  sum stays within twice the count.
* `ShutdownIsQuiet`. `WorkersInv`: the Shutdown call that closed the dispatcher is
  past it only when all workers have returned, and a worker that returned is not
  delivering.
* `HistoryIsExact`. `RingInv` gives every slot of the ring by its distance from the
  head. Events are numbered modulo twice the capacity, so the ring may turn any
  number of times; reading it from the head when it is full, and from zero when
  it is not, gives consecutive numbers that end with the last one.
* `StoreIsExact`. `ActiveInv` says that the guard of an execution keeps out every
  other one of its manager with its `lockKey` from its first event to its last one
  (`GuardInv`), so an event of that manager removes no entry but its own
  (`LocksInv`, `ClaimsInv`). An event of the other manager may, and then it is one of
  an execution that is past its acquisition, or its callback, and stays so
  (`Hidden`).

For any sets of rows and callers (`ClientProofs`, from `GuardAssumption`):

* `NoFalseRejection` and `LeaseOrder`: the row carries the greatest token
  written, every writer's token belongs to the row's boundary, and what a
  statement saw was written by somebody (`GuardInv`).

Every inductive invariant of `ObservabilityProofs` and of the client was first
checked by TLC, on the instances of the runs `observability` and `registry`.

Only model-checked: liveness (`DrainCompletes`, `DeadlineHonoured`), which is
outside the prover's reach; and `Resolvable` and `OverlapAgrees` of `Registry`.
These two are about chains of parents of any length and about keys of any
number of parts, both recursive functions, and need an induction over them.

## 6. Not modelled

* Key encoding, parsing of answers and field validation in the Redis driver:
  each value has one encoding, and no property is about it.
* Overflow of the fencing counter and of the in-flight counter (64 bits).
* Real durations: TTLs are ticks in the drivers, and expiry at any time in the
  managers. So nothing is said about how often the renewal runs.
* Sharding of the memory idempotency store: a key has one shard. Encoding of the
  keys and records of the Redis one: each value has one encoding.
* Identity resolution, key bindings and hold tokens of the client: conversions
  without state. Leases of holds: a hold is one Acquire and one Release of the
  driver modules.
* HTTP and terminal inspection: the handlers read the inspect store, and the
  viewer shows a copy of what it was sent. Neither changes a lock, and a wrong
  view is corrected by the next one.
* Metric and trace sinks, examples, benchmarks: no lock state.

## 7. Plan

Done: the modules and proofs above. Next, in this order: two clients with plans
of their own over one driver, for the order of composite members; hold tokens
over a driver; the renewals and subscribers of the inspect store.
