---------------------------- MODULE MemoryDriver ----------------------------
(***************************************************************************)
(* backend/memory: the in-memory implementation of backend.Driver,         *)
(* backend.StrictDriver and backend.LineageDriver, and the leases its      *)
(* callers believe they hold.  A session is one acquired lease: the        *)
(* LeaseRecord (with token or lineage metadata) that a caller keeps and    *)
(* passes back to Renew and Release.  Which methods a session uses is its  *)
(* caller's business: Run and Claim choose by the definition, RunMultiple  *)
(* and Hold use the plain methods on a key of any definition.              *)
(*                                                                         *)
(* Every method runs under one mutex, so it is one step.  All of them but  *)
(* Release read the clock before they lock; the value may be up to Lag old *)
(* when it is used.                                                        *)
(***************************************************************************)
EXTENDS Naturals, FiniteSets

CONSTANTS Keys,           \* resource keys, each built by one definition
          Ancestors,      \* Ancestors[k]: the keys above k in its lineage chain
          StrictKeys,     \* the keys of strict definitions
          Sessions,
          Owners,
          Owner,          \* Owner[s][k]: the OwnerID session s presents for key k
          Method,         \* Method[s][k]: the methods session s uses for key k
          Ttl,            \* LeaseTTL
          Lag,            \* bound on the age of a clock reading
          MaxClock        \* bound on the clock

NoLease == [by |-> "nobody", expires |-> 0]
NoHandle == [state |-> "new", key |-> "none", expires |-> 0, token |-> 0]

ASSUME MemoryAssumption ==
    /\ Ancestors \in [Keys -> SUBSET Keys]
    /\ \A k \in Keys : \A a \in Ancestors[k] :
           k # a /\ Ancestors[a] \subseteq Ancestors[k] \ {k}
    /\ StrictKeys \subseteq Keys
    /\ \A k \in StrictKeys : Ancestors[k] = {} /\ \A j \in Keys : k \notin Ancestors[j]
    /\ Owner \in [Sessions -> [Keys -> Owners]]
    /\ Method \in [Sessions -> [Keys -> {"plain", "strict", "lineage"}]]
    /\ \A s \in Sessions, k \in Keys :
           /\ Method[s][k] = "strict" => k \in StrictKeys
           /\ Method[s][k] = "lineage" =>
                  Ancestors[k] # {} \/ \E j \in Keys : k \in Ancestors[j]
    /\ "nobody" \notin Sessions /\ "none" \notin Keys
    /\ Ttl \in Nat \ {0} /\ MaxClock \in Nat \ {0} /\ Lag \in Nat

VARIABLES clock,
          leases,         \* key -> the LeaseRecord: its owner is Owner[by][key], and
                          \* `by' itself is history, which no action reads
          strictLeases,   \* key -> the fencing token of the lease, 0: no entry
          strictCounters, \* key -> the last fencing token issued
          lineageLeases,  \* lease id (a session) -> its key and expireAt
          descendantsByAncestor, \* key -> lease id -> expiry, 0: no entry
          handle          \* what each session's caller holds

driver == <<leases, strictLeases, strictCounters, lineageLeases, descendantsByAncestor>>
vars == <<clock, driver, handle>>

\* The methods of the session's lease.
Uses(s) == Method[s][handle[s].key]

Kind(k) == IF Ancestors[k] = {} THEN "parent" ELSE "child"

\* IsExpired and After: a lease is still good at its last instant.
Expired(t, now) == now > t

Init == /\ clock = 1
        /\ leases = [k \in Keys |-> NoLease]
        /\ strictLeases = [k \in Keys |-> 0]
        /\ strictCounters = [k \in Keys |-> 0]
        /\ lineageLeases = [s \in Sessions |-> 0]
        /\ descendantsByAncestor = [k \in Keys |-> [s \in Sessions |-> 0]]
        /\ handle = [s \in Sessions |-> NoHandle]

Nows == {t \in 1..clock : t + Lag >= clock}

(***************************************************************************)
(* pruneExpired(now): the first thing every method does.                   *)
(***************************************************************************)
\* Mutant of PrunedLeases: a lease is dropped at its last instant.
PrunedEarly(now) ==
    [k \in Keys |-> IF now >= leases[k].expires THEN NoLease ELSE leases[k]]

PrunedLeases(now) ==
    [k \in Keys |-> IF Expired(leases[k].expires, now) THEN NoLease ELSE leases[k]]
PrunedStrict(now) ==
    [k \in Keys |-> IF leases[k] # NoLease /\ Expired(leases[k].expires, now)
                    THEN 0 ELSE strictLeases[k]]
PrunedLineage(now) ==
    [s \in Sessions |-> IF Expired(lineageLeases[s], now) THEN 0 ELSE lineageLeases[s]]
PrunedDescendants(now) ==
    [k \in Keys |-> [s \in Sessions |->
        IF lineageLeases[s] # 0 /\ Expired(lineageLeases[s], now) THEN 0
        ELSE descendantsByAncestor[k][s]]]

Prune(now) == /\ leases' = PrunedLeases(now)
              /\ strictLeases' = PrunedStrict(now)
              /\ lineageLeases' = PrunedLineage(now)
              /\ descendantsByAncestor' = PrunedDescendants(now)
              /\ UNCHANGED strictCounters

\* A method that returns an error, or CheckPresence: only the pruning remains.
Refuse(now) == Prune(now) /\ UNCHANGED <<clock, handle>>

(***************************************************************************)
(* Acquire, AcquireStrict, AcquireWithLineage.                             *)
(***************************************************************************)
Grant(s, k, now, token) ==
    /\ leases' = [PrunedLeases(now) EXCEPT ![k] = [by |-> s, expires |-> now + Ttl]]
    /\ handle' = [handle EXCEPT ![s] = [state |-> "held", key |-> k,
                                        expires |-> now + Ttl, token |-> token]]
    /\ UNCHANGED clock

Acquire(s, k, now) ==
    /\ Method[s][k] = "plain"
    /\ IF PrunedLeases(now)[k] # NoLease
       THEN Refuse(now)
       ELSE /\ Grant(s, k, now, 0)
            /\ strictLeases' = PrunedStrict(now)
            /\ lineageLeases' = PrunedLineage(now)
            /\ descendantsByAncestor' = PrunedDescendants(now)
            /\ UNCHANGED strictCounters

\* Mutant of AcquireStrict: the token is taken from the lease that ended.
AcquireStrictStale(s, k, now) ==
    LET nextToken == strictLeases[k] + 1 IN
    /\ Method[s][k] = "strict"
    /\ IF PrunedLeases(now)[k] # NoLease
       THEN Refuse(now)
       ELSE /\ Grant(s, k, now, nextToken)
            /\ strictCounters' = [strictCounters EXCEPT ![k] = nextToken]
            /\ strictLeases' = [PrunedStrict(now) EXCEPT ![k] = nextToken]
            /\ lineageLeases' = PrunedLineage(now)
            /\ descendantsByAncestor' = PrunedDescendants(now)

AcquireStrict(s, k, now) ==
    LET nextToken == strictCounters[k] + 1 IN
    /\ Method[s][k] = "strict"
    /\ IF PrunedLeases(now)[k] # NoLease
       THEN Refuse(now)
       ELSE /\ Grant(s, k, now, nextToken)
            /\ strictCounters' = [strictCounters EXCEPT ![k] = nextToken]
            /\ strictLeases' = [PrunedStrict(now) EXCEPT ![k] = nextToken]
            /\ lineageLeases' = PrunedLineage(now)
            /\ descendantsByAncestor' = PrunedDescendants(now)

\* Mutant of rejectLineageConflict: a child does not look at its ancestors.
rejectWithoutAncestors(k, now) ==
    \/ PrunedLeases(now)[k] # NoLease
    \/ /\ Kind(k) = "parent"
       /\ \E t \in Sessions : PrunedDescendants(now)[k][t] > now

\* A parent looks at the descendants registered under it, a child at the
\* leases of its ancestors.
rejectLineageConflict(k, now) ==
    \/ PrunedLeases(now)[k] # NoLease
    \/ /\ Kind(k) = "parent"
       /\ \E t \in Sessions : PrunedDescendants(now)[k][t] > now
    \/ /\ Kind(k) = "child"
       /\ \E a \in Ancestors[k] : PrunedLeases(now)[a] # NoLease

AcquireWithLineage(s, k, now) ==
    /\ Method[s][k] = "lineage"
    /\ IF rejectLineageConflict(k, now)
       THEN Refuse(now)
       ELSE /\ Grant(s, k, now, 0)
            /\ lineageLeases' = [PrunedLineage(now) EXCEPT ![s] = now + Ttl]
            /\ descendantsByAncestor' =
                  [a \in Keys |-> IF a \in Ancestors[k]
                                  THEN [PrunedDescendants(now)[a] EXCEPT ![s] = now + Ttl]
                                  ELSE PrunedDescendants(now)[a]]
            /\ strictLeases' = PrunedStrict(now)
            /\ UNCHANGED strictCounters

AcquireAny(s, k, now) ==
    /\ handle[s].state = "new"
    /\ Acquire(s, k, now) \/ AcquireStrict(s, k, now) \/ AcquireWithLineage(s, k, now)

(***************************************************************************)
(* Renew, RenewStrict, RenewWithLineage, for the lease of session s.       *)
(***************************************************************************)
Owned(s, now) == LET l == PrunedLeases(now)[handle[s].key] IN
                 l # NoLease /\ Owner[l.by][handle[s].key] = Owner[s][handle[s].key]

Extend(s, now) ==
    /\ leases' = [PrunedLeases(now) EXCEPT ![handle[s].key].expires = now + Ttl]
    /\ handle' = [handle EXCEPT ![s].expires = now + Ttl]
    /\ strictLeases' = PrunedStrict(now)
    /\ UNCHANGED <<clock, strictCounters>>

Renew(s, now) ==
    /\ Uses(s) = "plain"
    /\ IF Owned(s, now)
       THEN /\ Extend(s, now)
            /\ lineageLeases' = PrunedLineage(now)
            /\ descendantsByAncestor' = PrunedDescendants(now)
       ELSE Refuse(now)

RenewStrict(s, now) ==
    /\ Uses(s) = "strict"
    /\ IF Owned(s, now) /\ PrunedStrict(now)[handle[s].key] = handle[s].token
       THEN /\ Extend(s, now)
            /\ lineageLeases' = PrunedLineage(now)
            /\ descendantsByAncestor' = PrunedDescendants(now)
       ELSE Refuse(now)

RenewWithLineage(s, now) ==
    LET k == handle[s].key IN
    /\ Uses(s) = "lineage"
    /\ IF /\ Owned(s, now)
          /\ PrunedLineage(now)[s] # 0
          /\ \A a \in Ancestors[k] : PrunedDescendants(now)[a][s] # 0
       THEN /\ Extend(s, now)
            /\ lineageLeases' = [PrunedLineage(now) EXCEPT ![s] = now + Ttl]
            /\ descendantsByAncestor' =
                  [a \in Keys |-> IF a \in Ancestors[k]
                                  THEN [PrunedDescendants(now)[a] EXCEPT ![s] = now + Ttl]
                                  ELSE PrunedDescendants(now)[a]]
       ELSE Refuse(now)

RenewAny(s, now) ==
    /\ handle[s].state = "held"
    /\ Renew(s, now) \/ RenewStrict(s, now) \/ RenewWithLineage(s, now)

(***************************************************************************)
(* Release, ReleaseStrict, ReleaseWithLineage.  The caller drops its       *)
(* handle whatever the answer.                                             *)
(***************************************************************************)
Drop(s) == /\ handle' = [handle EXCEPT ![s].state = "done"]
           /\ UNCHANGED <<clock, strictCounters>>

Release(s, now) ==
    /\ Uses(s) = "plain"
    /\ Drop(s)
    /\ leases' = IF Owned(s, now)
                 THEN [PrunedLeases(now) EXCEPT ![handle[s].key] = NoLease]
                 ELSE PrunedLeases(now)
    /\ strictLeases' = PrunedStrict(now)
    /\ lineageLeases' = PrunedLineage(now)
    /\ descendantsByAncestor' = PrunedDescendants(now)

\* Mutant of ReleaseStrict: the token is not compared.
ReleaseStrictAnyToken(s, now) ==
    LET k == handle[s].key IN
    /\ Uses(s) = "strict"
    /\ Drop(s)
    /\ leases' = IF Owned(s, now) THEN [PrunedLeases(now) EXCEPT ![k] = NoLease]
                                  ELSE PrunedLeases(now)
    /\ strictLeases' = IF Owned(s, now) THEN [PrunedStrict(now) EXCEPT ![k] = 0]
                                        ELSE PrunedStrict(now)
    /\ lineageLeases' = PrunedLineage(now)
    /\ descendantsByAncestor' = PrunedDescendants(now)

ReleaseStrict(s, now) ==
    LET k == handle[s].key
        mine == Owned(s, now) /\ PrunedStrict(now)[k] = handle[s].token IN
    /\ Uses(s) = "strict"
    /\ Drop(s)
    /\ leases' = IF mine THEN [PrunedLeases(now) EXCEPT ![k] = NoLease]
                         ELSE PrunedLeases(now)
    /\ strictLeases' = IF mine THEN [PrunedStrict(now) EXCEPT ![k] = 0]
                               ELSE PrunedStrict(now)
    /\ lineageLeases' = PrunedLineage(now)
    /\ descendantsByAncestor' = PrunedDescendants(now)

\* Mutant of ReleaseWithLineage: the entries under the ancestors stay.
ReleaseLeavingMembers(s, now) ==
    LET k == handle[s].key IN
    /\ Uses(s) = "lineage"
    /\ Drop(s)
    /\ leases' = IF Owned(s, now) THEN [PrunedLeases(now) EXCEPT ![k] = NoLease]
                                  ELSE PrunedLeases(now)
    /\ strictLeases' = PrunedStrict(now)
    /\ lineageLeases' = IF Owned(s, now) THEN [PrunedLineage(now) EXCEPT ![s] = 0]
                                         ELSE PrunedLineage(now)
    /\ descendantsByAncestor' = PrunedDescendants(now)

ReleaseWithLineage(s, now) ==
    LET k == handle[s].key IN
    /\ Uses(s) = "lineage"
    /\ Drop(s)
    /\ leases' = IF Owned(s, now) THEN [PrunedLeases(now) EXCEPT ![k] = NoLease]
                                  ELSE PrunedLeases(now)
    /\ strictLeases' = PrunedStrict(now)
    /\ lineageLeases' = IF Owned(s, now) THEN [PrunedLineage(now) EXCEPT ![s] = 0]
                                         ELSE PrunedLineage(now)
    /\ descendantsByAncestor' =
          [a \in Keys |-> IF Owned(s, now) /\ a \in Ancestors[k]
                          THEN [PrunedDescendants(now)[a] EXCEPT ![s] = 0]
                          ELSE PrunedDescendants(now)[a]]

\* Release and ReleaseStrict read the clock under the mutex.
ReleaseAny(s, now) ==
    /\ handle[s].state = "held"
    /\ \/ now = clock /\ (Release(s, now) \/ ReleaseStrict(s, now))
       \/ ReleaseWithLineage(s, now)

\* CheckPresence returns what it finds after pruning.
CheckPresence(now) == Refuse(now)

Tick == /\ clock < MaxClock
        /\ clock' = clock + 1
        /\ UNCHANGED <<driver, handle>>

Next == \/ Tick
        \/ \E now \in Nows :
              \/ CheckPresence(now)
              \/ \E s \in Sessions : \/ RenewAny(s, now)
                                     \/ ReleaseAny(s, now)
                                     \/ \E k \in Keys : AcquireAny(s, k, now)

Spec == Init /\ [][Next]_vars

-----------------------------------------------------------------------------
Times == 0..(MaxClock + Ttl)

TypeOK == /\ clock \in 1..MaxClock
          /\ leases \in [Keys -> [by : Sessions \cup {"nobody"}, expires : Times]]
          /\ strictLeases \in [Keys -> Nat]
          /\ strictCounters \in [Keys -> Nat]
          /\ lineageLeases \in [Sessions -> Times]
          /\ descendantsByAncestor \in [Keys -> [Sessions -> Times]]
          /\ handle \in [Sessions -> [state : {"new", "held", "done"},
                                     key : Keys \cup {"none"},
                                     expires : Times, token : Nat]]

\* A caller relies on its lease until the ExpiresAt it was given.
Holds(s) == handle[s].state = "held" /\ ~Expired(handle[s].expires, clock)

Live(k) == leases[k] # NoLease /\ ~Expired(leases[k].expires, clock)

\* A grant of k to session s by AcquireWithLineage should look at t's lease.
Blocks(t, s, k) ==
    /\ Method[s][k] = "lineage"
    /\ \/ handle[t].key \in Ancestors[k]
       \/ Ancestors[k] = {} /\ Uses(t) = "lineage" /\ k \in Ancestors[handle[t].key]

\* Two callers never rely on a lease of the same resource at the same time,
\* however late the clock reading of a method is used.
MutualExclusion ==
    \A s, t \in Sessions :
        s # t /\ Holds(s) /\ Holds(t) => handle[s].key # handle[t].key

\* AcquireWithLineage grants a key only when no caller relies on a lease of one
\* of its ancestors, however that one was taken, nor, if the key is a root, on
\* a lease below it that was taken by AcquireWithLineage, except a lease in its
\* very last instant.  That is all the driver promises: a plain lease is
\* granted next to anything but a lease of the same key and is registered
\* nowhere, and a key in the middle of a chain is a child for
\* rejectLineageConflict, which does not look at the keys below it.
GrantRespectsLineage ==
    [][\A s, t \in Sessions :
          (/\ handle[s].state = "new" /\ handle'[s].state = "held"
           /\ Holds(t) /\ Blocks(t, s, handle'[s].key))
          => handle[t].expires = clock]_vars

\* The three lineage maps tell one story: a live lease taken by
\* AcquireWithLineage is known by its lease id, is registered under every
\* ancestor with the expiry of the lease, and nothing else is registered,
\* plain leases of the same keys included.  A release or a prune that forgot
\* one map would block a parent until the entry expires.
MembershipConsistent ==
    /\ \A k \in Keys : Live(k) /\ Method[leases[k].by][k] = "lineage" =>
           /\ lineageLeases[leases[k].by] = leases[k].expires
           /\ \A a \in Ancestors[k] :
                 descendantsByAncestor[a][leases[k].by] = leases[k].expires
    /\ \A a \in Keys, s \in Sessions : descendantsByAncestor[a][s] # 0 =>
           /\ lineageLeases[s] = descendantsByAncestor[a][s]
           /\ Uses(s) = "lineage" /\ a \in Ancestors[handle[s].key]

\* A live lease is changed (extended, removed, replaced) only by a step of
\* the session it was granted to.
ChangedByHolder(k) ==
    Live(k) /\ leases'[k] # leases[k] => handle'[leases[k].by] # handle[leases[k].by]

\* A live lease is changed only by its holder: Renew and Release compare
\* OwnerIDs, and the fencing token tells the leases apart in RenewStrict and
\* ReleaseStrict even among callers that share one.
OnlyHolder == [][\A k \in Keys : ChangedByHolder(k)]_vars

\* The refinement mapping: a live lease with a token, and the session that was
\* given the last token of a key.
LastHolders(k) == {s \in Sessions : /\ handle[s].key = k /\ handle[s].token # 0
                                    /\ handle[s].token = strictCounters[k]}
LiveStrict == [k \in StrictKeys |-> Live(k) /\ strictLeases[k] # 0]
LastGrant == [k \in StrictKeys |->
                 [by |-> IF LastHolders(k) # {} THEN CHOOSE s \in LastHolders(k) : TRUE ELSE "nobody",
                  token |-> strictCounters[k]]]

\* The strict methods implement FencedLock.
Fenced == INSTANCE FencedLock WITH Keys <- StrictKeys, live <- LiveStrict, last <- LastGrant
ImplementsFencedLock == Fenced!Spec
=============================================================================
