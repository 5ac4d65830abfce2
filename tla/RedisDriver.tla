----------------------------- MODULE RedisDriver ----------------------------
(***************************************************************************)
(* backend/redis: the Redis implementation of the plain, strict and        *)
(* lineage drivers, and the leases its callers believe they hold.  Every   *)
(* method is one command or one Lua script, so it is one step of the       *)
(* server; its answer may be lost.  The server expires keys by its own     *)
(* clock.  The lineage sets are scored by the clocks of the clients, which *)
(* differ, and a client reads its clock up to Lag before the script runs.  *)
(*                                                                         *)
(* A call that the server refuses changes nothing, except that             *)
(* AcquireWithLineage prunes the lineage set of its own key first.         *)
(***************************************************************************)
EXTENDS Naturals, FiniteSets, FiniteSetsExt

CONSTANTS Keys,           \* resource keys, each built by one definition
          Ancestors,      \* Ancestors[k]: the keys above k in its lineage chain
          StrictKeys,     \* the keys of strict definitions
          ForceKeys,      \* the keys an operator may release by force
          Sessions,
          Asks,           \* Asks[s]: the keys session s may acquire
          Owners,
          Owner,          \* Owner[s][k]: the OwnerID session s presents for key k
          Method,         \* Method[s][k]: the methods session s uses for key k
          Offset,         \* Offset[s]: how far the clock of s is ahead of the server's
          Ttl,            \* LeaseTTL
          Lag,            \* bound on the delay between client and server
          MaxClock        \* bound on the clock

NoLease == [by |-> "nobody", expires |-> 0]
NoToken == [token |-> 0, expires |-> 0]
NoHandle == [state |-> "new", key |-> "none", expires |-> 0, token |-> 0]

ASSUME RedisAssumption ==
    /\ Ancestors \in [Keys -> SUBSET Keys]
    /\ \A k \in Keys : \A a \in Ancestors[k] :
           k # a /\ Ancestors[a] \subseteq Ancestors[k] \ {k}
    /\ StrictKeys \subseteq Keys /\ ForceKeys \subseteq Keys
    /\ \A k \in StrictKeys : Ancestors[k] = {} /\ \A j \in Keys : k \notin Ancestors[j]
    /\ Owner \in [Sessions -> [Keys -> Owners]]
    /\ Method \in [Sessions -> [Keys -> {"plain", "strict", "lineage"}]]
    /\ \A s \in Sessions, k \in Keys :
           /\ Method[s][k] = "strict" => k \in StrictKeys
           /\ Method[s][k] = "lineage" =>
                  Ancestors[k] # {} \/ \E j \in Keys : k \in Ancestors[j]
    /\ Offset \in [Sessions -> Nat] /\ Asks \in [Sessions -> SUBSET Keys]
    /\ "nobody" \notin Sessions /\ "none" \notin Keys
    /\ Ttl \in Nat \ {0} /\ MaxClock \in Nat \ {0} /\ Lag \in Nat

VARIABLES clock,      \* the server's
          leases,     \* lease key: its value is Owner[by][key]; `by' is history
          counters,   \* fence counter key; it has no TTL
          tokens,     \* strict token key
          members,    \* lineage sorted set: session -> score, 0: not a member
          deadline,   \* when the server drops a lineage set, 0: there is none
          handle,     \* what each session's caller holds
          forced      \* history: sessions whose lease was released by force

server == <<leases, counters, tokens, members, deadline>>
vars == <<clock, server, handle, forced>>

\* The methods of the session's lease.
Uses(s) == Method[s][handle[s].key]

Init == /\ clock = Lag + 1
        /\ leases = [k \in Keys |-> NoLease]
        /\ counters = [k \in Keys |-> 0]
        /\ tokens = [k \in Keys |-> NoToken]
        /\ members = [k \in Keys |-> [s \in Sessions |-> 0]]
        /\ deadline = [k \in Keys |-> 0]
        /\ handle = [s \in Sessions |-> NoHandle]
        /\ forced = {}

\* d.now(): read before the script runs, but after it in Renew, and never
\* behind an earlier reading of the same caller.
Now(s) == clock + Offset[s]
Before(s) == {t \in (Now(s) - Lag)..Now(s) : t + Ttl >= handle[s].expires}
After(s) == Now(s)..(Now(s) + Lag)

(***************************************************************************)
(* The caller's side.  An answer that is lost leaves an acquired lease     *)
(* without a caller; a lease whose renewal was not answered keeps the      *)
(* expiry it had, counts as lost and is released.                          *)
(***************************************************************************)
\* History: the key and the token of a strict lease are remembered.
Gone(k, token) == [NoHandle EXCEPT !.state = "done", !.token = token,
                                   !.key = IF k \in StrictKeys THEN k ELSE "none"]

Obtain(s, k, expires, token) ==
    /\ \E h \in {[state |-> "held", key |-> k, expires |-> expires, token |-> token],
                 Gone(k, token)} :
          handle' = [handle EXCEPT ![s] = h]
    /\ UNCHANGED <<clock, forced>>
Keep(s, expires) ==
    /\ \/ handle' = [handle EXCEPT ![s].expires = expires]
       \/ handle' = [handle EXCEPT ![s].state = "lost"]
    /\ UNCHANGED <<clock, forced>>
Drop(s) == /\ handle' = [handle EXCEPT ![s] = Gone(@.key, @.token)]
           /\ forced' = forced \ {s}
           /\ UNCHANGED clock

\* Mutant of Owned: the value of the lease key is not compared.
OwnedByAnyone(s) == leases[handle[s].key] # NoLease

\* GET of the lease key returns the caller's OwnerID.
Owned(s) == LET k == handle[s].key IN
            leases[k] # NoLease /\ Owner[leases[k].by][k] = Owner[s][k]

Set(s, k) == leases' = [leases EXCEPT ![k] = [by |-> s, expires |-> clock + Ttl]]

Pexpire(k) == leases' = [leases EXCEPT ![k].expires = clock + Ttl]
Del(k) == leases' = [leases EXCEPT ![k] = NoLease]

(***************************************************************************)
(* Standard mode.                                                          *)
(***************************************************************************)
Acquire(s, k) ==
    /\ Method[s][k] = "plain"
    /\ leases[k] = NoLease
    /\ Set(s, k)
    /\ \E now \in Before(s) : Obtain(s, k, now + Ttl, 0)
    /\ UNCHANGED <<counters, tokens, members, deadline>>

Renew(s) ==
    /\ Uses(s) = "plain"
    /\ Owned(s)
    /\ Pexpire(handle[s].key)
    /\ \E now \in After(s) : Keep(s, now + Ttl)
    /\ UNCHANGED <<counters, tokens, members, deadline>>

Release(s) ==
    /\ Uses(s) = "plain"
    /\ Drop(s)
    /\ IF Owned(s) THEN Del(handle[s].key) ELSE UNCHANGED leases
    /\ UNCHANGED <<counters, tokens, members, deadline>>

(***************************************************************************)
(* Strict mode.                                                            *)
(***************************************************************************)
strictAcquireScript(s, k) ==
    /\ Set(s, k)
    /\ counters' = [counters EXCEPT ![k] = @ + 1]
    /\ tokens' = [tokens EXCEPT ![k] = [token |-> counters'[k], expires |-> clock + Ttl]]

\* Mutant of AcquireStrict: the fence counter is incremented before the script
\* looks at the lease key.
AcquireStrictCountsFirst(s, k) ==
    /\ Method[s][k] = "strict"
    /\ IF leases[k] = NoLease
       THEN /\ strictAcquireScript(s, k)
            /\ \E now \in Before(s) : Obtain(s, k, now + Ttl, counters'[k])
       ELSE /\ counters' = [counters EXCEPT ![k] = @ + 1]
            /\ UNCHANGED <<leases, tokens, clock, handle, forced>>
    /\ UNCHANGED <<members, deadline>>

AcquireStrict(s, k) ==
    /\ Method[s][k] = "strict"
    /\ leases[k] = NoLease
    /\ strictAcquireScript(s, k)
    /\ \E now \in Before(s) : Obtain(s, k, now + Ttl, counters'[k])
    /\ UNCHANGED <<members, deadline>>

Fenced(s) == Owned(s) /\ tokens[handle[s].key].token = handle[s].token

strictRenewScript(s, k) ==
    /\ Fenced(s)
    /\ Pexpire(k)
    /\ tokens' = [tokens EXCEPT ![k].expires = clock + Ttl]

RenewStrict(s) ==
    /\ Uses(s) = "strict"
    /\ strictRenewScript(s, handle[s].key)
    /\ \E now \in Before(s) : Keep(s, now + Ttl)
    /\ UNCHANGED <<counters, members, deadline>>

\* Mutant of strictReleaseScript: the token is not compared.
strictReleaseAnyToken(s, k) ==
    IF Owned(s) THEN Del(k) /\ tokens' = [tokens EXCEPT ![k] = NoToken]
                ELSE UNCHANGED <<leases, tokens>>

strictReleaseScript(s, k) ==
    IF Fenced(s) THEN Del(k) /\ tokens' = [tokens EXCEPT ![k] = NoToken]
                 ELSE UNCHANGED <<leases, tokens>>

ReleaseStrict(s) ==
    /\ Uses(s) = "strict"
    /\ Drop(s)
    /\ strictReleaseScript(s, handle[s].key)
    /\ UNCHANGED <<counters, members, deadline>>

(***************************************************************************)
(* Lineage: the sorted set of a key names the leases below it, and its     *)
(* scores are expiry times on the clocks of their holders.                 *)
(***************************************************************************)
Empty == [s \in Sessions |-> 0]
Latest(z) == Max({z[s] : s \in Sessions})

\* ZREMRANGEBYSCORE -inf now.
Prune(z, now) == [s \in Sessions |-> IF z[s] <= now THEN 0 ELSE z[s]]

\* Mutant of Extended: the server keeps the TTL that the set has.
ExtendedNever(a, z, now) == IF deadline[a] = 0 THEN clock + Latest(z) - now ELSE deadline[a]

\* PEXPIRE to what remains of the latest member, if PTTL is less.
Extended(a, z, now) == Max({deadline[a], clock + Latest(z) - now})

\* ZADD under every ancestor, then the pruning and the TTL of each set.
Register(s, k, now, zs, ds) ==
    LET z(a) == Prune([zs[a] EXCEPT ![s] = now + Ttl], now) IN
    /\ members' = [a \in Keys |-> IF a \in Ancestors[k] THEN z(a) ELSE zs[a]]
    /\ deadline' = [a \in Keys |-> IF a \in Ancestors[k] THEN Extended(a, z(a), now) ELSE ds[a]]

\* Mutant of Free: the lineage set of a child's own key is not looked at.
FreeRootOnly(k, own) == /\ Ancestors[k] = {} => own = Empty
                        /\ leases[k] = NoLease
                        /\ \A a \in Ancestors[k] : leases[a] = NoLease

\* No descendant is registered, and neither the key nor an ancestor is held.
Free(k, own) == /\ own = Empty
                /\ leases[k] = NoLease
                /\ \A a \in Ancestors[k] : leases[a] = NoLease

\* The script answers whether the lease was granted.
lineageAcquireScript(s, k, now, granted) ==
    LET own == Prune(members[k], now)
        zs == [members EXCEPT ![k] = own]
        ds == [deadline EXCEPT ![k] = IF own = Empty THEN 0 ELSE @] IN
    /\ granted = Free(k, own)
    /\ IF granted
       THEN Set(s, k) /\ Register(s, k, now, zs, ds)
       ELSE members' = zs /\ deadline' = ds /\ UNCHANGED leases

AcquireWithLineage(s, k) ==
    /\ Method[s][k] = "lineage"
    /\ \E now \in Before(s) :
          \/ lineageAcquireScript(s, k, now, TRUE) /\ Obtain(s, k, now + Ttl, 0)
          \/ lineageAcquireScript(s, k, now, FALSE) /\ UNCHANGED <<clock, handle, forced>>
    /\ UNCHANGED <<counters, tokens>>

lineageRenewScript(s, k, now) ==
    /\ Owned(s)
    /\ \A a \in Ancestors[k] : members[a][s] # 0
    /\ Pexpire(k)
    /\ Register(s, k, now, members, deadline)

RenewWithLineage(s) ==
    /\ Uses(s) = "lineage"
    /\ \E now \in Before(s) : /\ lineageRenewScript(s, handle[s].key, now)
                              /\ Keep(s, now + Ttl)
    /\ UNCHANGED <<counters, tokens>>

\* ZREM under every ancestor; a set that is not empty gets the TTL of its
\* latest member.
lineageReleaseScript(s, k, now) ==
    LET z(a) == Prune([members[a] EXCEPT ![s] = 0], now) IN
    IF Owned(s)
    THEN /\ Del(k)
         /\ members' = [a \in Keys |-> IF a \in Ancestors[k] THEN z(a) ELSE members[a]]
         /\ deadline' = [a \in Keys |-> IF a \notin Ancestors[k] THEN deadline[a]
                                        ELSE IF z(a) = Empty THEN 0
                                        ELSE clock + Latest(z(a)) - now]
    ELSE UNCHANGED <<leases, members, deadline>>

ReleaseWithLineage(s) ==
    /\ Uses(s) = "lineage"
    /\ Drop(s)
    /\ \E now \in Before(s) : lineageReleaseScript(s, handle[s].key, now)
    /\ UNCHANGED <<counters, tokens>>

(***************************************************************************)
(* Operators and time.                                                     *)
(***************************************************************************)
\* DEL of the lease key, the fence counter and the strict token.
ForceReleaseDefinition(k) ==
    /\ leases[k] # NoLease \/ counters[k] # 0
    /\ Del(k)
    /\ counters' = [counters EXCEPT ![k] = 0]
    /\ tokens' = [tokens EXCEPT ![k] = NoToken]
    /\ forced' = forced \cup {s \in Sessions : leases[k].by = s /\ handle[s].state # "done"}
    /\ UNCHANGED <<clock, members, deadline, handle>>

\* CheckPresence only reads.
CheckPresence == UNCHANGED vars

\* Time passes; the server drops the keys whose TTL is over.
Tick ==
    /\ clock < MaxClock
    /\ clock' = clock + 1
    /\ leases' = [k \in Keys |-> IF clock' > leases[k].expires THEN NoLease ELSE leases[k]]
    /\ tokens' = [k \in Keys |-> IF clock' > tokens[k].expires THEN NoToken ELSE tokens[k]]
    /\ members' = [k \in Keys |-> IF clock' > deadline[k] THEN Empty ELSE members[k]]
    /\ deadline' = [k \in Keys |-> IF clock' > deadline[k] THEN 0 ELSE deadline[k]]
    /\ UNCHANGED <<counters, handle, forced>>

AcquireAny(s, k) == /\ handle[s].state = "new"
                    /\ Acquire(s, k) \/ AcquireStrict(s, k) \/ AcquireWithLineage(s, k)
RenewAny(s) == /\ handle[s].state = "held"
               /\ Renew(s) \/ RenewStrict(s) \/ RenewWithLineage(s)
ReleaseAny(s) == /\ handle[s].state \in {"held", "lost"}
                 /\ Release(s) \/ ReleaseStrict(s) \/ ReleaseWithLineage(s)

Next == \/ Tick \/ CheckPresence
        \/ \E s \in Sessions : \/ RenewAny(s) \/ ReleaseAny(s)
                               \/ \E k \in Asks[s] : AcquireAny(s, k)
        \/ \E k \in ForceKeys : ForceReleaseDefinition(k)

Spec == Init /\ [][Next]_vars

-----------------------------------------------------------------------------
Skew == Max({Offset[s] : s \in Sessions})

\* A caller relies on its lease until the ExpiresAt it was given, on its own
\* clock.  Renew reads that clock after the script, so the expiry it returns
\* is late by the delay of the answer.
Holds(s) == /\ handle[s].state \in {"held", "lost"} /\ s \notin forced
            /\ Now(s) + (IF Uses(s) = "plain" THEN Lag ELSE 0) <= handle[s].expires

\* The lease a caller relies on is in Redis and is its own, whatever the
\* offsets of the clocks: no two callers rely on one resource.
LeaseBacked == \A s \in Sessions : Holds(s) => leases[handle[s].key].by = s

\* AcquireWithLineage grants a key only when no caller relies on a lease above
\* it, however that one was taken, nor on a lease below it, at any level, that
\* was taken by AcquireWithLineage, as far as the clocks agree: a lease below
\* may be overlooked once the fastest clock is past its expiry.  Plain leases
\* are registered nowhere and are granted next to anything but a lease of the
\* same key.
GrantRespectsLineage ==
    [][\A s, t \in Sessions :
          (/\ handle[s].state = "new" /\ handle'[s].state = "held" /\ Holds(t)
           /\ Method[s][handle'[s].key] = "lineage")
          => /\ handle[t].key \notin Ancestors[handle'[s].key]
             /\ Uses(t) = "lineage" /\ handle'[s].key \in Ancestors[handle[t].key] =>
                   handle[t].expires <= clock + Skew]_vars

\* Nothing below the key a is released by force.
Unforced(a) == \A k \in ForceKeys : a \notin Ancestors[k]

\* A lease taken by AcquireWithLineage blocks its ancestors as long as it is
\* relied on and hardly longer.  Its entries are in the sets while its holder
\* relies on it.  Once it is not in Redis any more, whether its holder died,
\* its release failed or the answer to its acquire was lost, its entries are
\* over on the clock of its caller, although a set lives as long as its latest
\* member; only a forced release leaves entries that last as long as the lease
\* would have.  And a set that nobody refreshes goes away by itself.
BlockedBriefly ==
    /\ \A s \in Sessions :
           Holds(s) /\ Uses(s) = "lineage" /\ handle[s].expires > clock + Skew =>
               \A a \in Ancestors[handle[s].key] : members[a][s] >= handle[s].expires
    /\ \A a \in Keys, s \in Sessions : members[a][s] # 0 =>
           /\ members[a][s] <= Now(s) + Ttl
           /\ Unforced(a) /\ (\A k \in Keys : leases[k].by # s) => members[a][s] < Now(s)
    /\ \A a \in Keys : members[a] # Empty =>
           deadline[a] >= clock /\ deadline[a] <= clock + Ttl + Skew + Lag

\* No step of another caller changes a live strict lease, even among callers
\* that share an OwnerID: RenewStrict and ReleaseStrict compare tokens.
StrictOnlyHolder ==
    [][\A k \in StrictKeys :
          leases[k] # NoLease /\ leases'[k] # leases[k] =>
              \A t \in Sessions \ {leases[k].by} : handle'[t] = handle[t]]_vars

\* Fencing tokens increase across successive acquires of a boundary.
TokensIncrease ==
    [][\A s, t \in Sessions :
          (/\ handle[s].state = "new" /\ handle'[s].state # "new"
           /\ handle'[s].key \in StrictKeys /\ Method[s][handle'[s].key] = "strict"
           /\ handle[t].key = handle'[s].key)
          => handle[t].token < handle'[s].token]_vars

\* The refinement mapping: a lease in Redis with a token, and the session that
\* was given the last token of a key.
LastHolders(k) == {s \in Sessions : /\ handle[s].key = k /\ handle[s].token # 0
                                    /\ handle[s].token = counters[k]}
Live(k) == leases[k] # NoLease
LiveStrict == [k \in StrictKeys |-> Live(k) /\ tokens[k] # NoToken]
LastGrant == [k \in StrictKeys |->
                 [by |-> IF LastHolders(k) # {} THEN CHOOSE s \in LastHolders(k) : TRUE ELSE "nobody",
                  token |-> counters[k]]]

\* Without forced releases the strict methods implement FencedLock.
Lock == INSTANCE FencedLock WITH Keys <- StrictKeys, live <- LiveStrict, last <- LastGrant
ImplementsFencedLock == Lock!Spec
=============================================================================
