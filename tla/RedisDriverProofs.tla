-------------------------- MODULE RedisDriverProofs -------------------------
(***************************************************************************)
(* Proofs about RedisDriver for any keys, lineage, sessions, clock         *)
(* offsets, delays, TTL and clock bound.                                   *)
(***************************************************************************)
EXTENDS RedisDriver, WellFoundedInduction, TLAPS

\* Renew and Release recognise their caller: a session that uses the plain or
\* the lineage methods shares its OwnerID with no other, and one that uses the
\* strict methods has its fencing token, whose counter no operator deletes.
Recognised == /\ \A k \in Keys, s, t \in Sessions :
                     Owner[s][k] = Owner[t][k] /\ Method[s][k] # "strict" => s = t
              /\ ForceKeys \cap StrictKeys = {}

HandleType == [state : {"new", "held", "lost", "done"}, key : Keys \cup {"none"},
               expires : Nat, token : Nat]

TypeInv ==
    /\ clock \in Nat /\ clock >= Lag + 1
    /\ leases \in [Keys -> [by : Sessions \cup {"nobody"}, expires : Nat]]
    /\ counters \in [Keys -> Nat]
    /\ tokens \in [Keys -> [token : Nat, expires : Nat]]
    /\ handle \in [Sessions -> HandleType]
    /\ forced \subseteq Sessions

\* The lease of k was taken by AcquireStrict.
StrictLease(k) == leases[k] # NoLease /\ Method[leases[k].by][k] = "strict"

\* What ties the keys of the server to the leases of the callers.  A token is
\* there as long as its lease, and a plain lease of the same key has none.
StoreInv ==
    /\ \A k \in Keys : leases[k] # NoLease =>
           leases[k].by \in Sessions /\ leases[k].expires <= clock + Ttl
    /\ \A s \in Sessions : handle[s].state \in {"held", "lost"} => handle[s].key \in Keys
    /\ \A s \in Sessions : handle[s].state = "new" => handle[s] = NoHandle
    /\ \A k \in Keys : StrictLease(k) =>
           /\ tokens[k] = [token |-> counters[k], expires |-> leases[k].expires]
           /\ handle[leases[k].by].key = k
           /\ handle[leases[k].by].token = counters[k]
    /\ \A k \in Keys : ~StrictLease(k) => tokens[k] = NoToken
    /\ \A s \in Sessions : handle[s].key \in StrictKeys =>
           handle[s].token <= counters[handle[s].key]
    /\ \A s \in Sessions : handle[s].key \in Keys =>
           (handle[s].token # 0 <=> Uses(s) = "strict")
    /\ \A s, t \in Sessions :
           (/\ handle[s].key \in StrictKeys /\ handle[s].key = handle[t].key
            /\ handle[s].token = handle[t].token /\ handle[s].token # 0) => s = t

\* A lease its caller still relies on is in Redis, and the server, whose clock
\* is behind by the offset, keeps it until the caller stops relying on it.
Slack(s, k) == IF Method[s][k] = "plain" THEN Lag ELSE 0
Backed(s) == Holds(s) =>
                 /\ leases[handle[s].key].by = s
                 /\ leases[handle[s].key].expires + Offset[s] + Slack(s, handle[s].key)
                        >= handle[s].expires

IInv == TypeInv /\ StoreInv /\ \A s \in Sessions : Backed(s)

-----------------------------------------------------------------------------
(***************************************************************************)
(* What the actions do to the leases and to the callers; the lineage sets  *)
(* are left to the second half of this module.                             *)
(***************************************************************************)
OnlyKey(k) == \A j \in Keys \ {k} : /\ leases'[j] = leases[j]
                                    /\ tokens'[j] = tokens[j]
                                    /\ counters'[j] = counters[j]
OnlyCaller(s) == \A t \in Sessions \ {s} : handle'[t] = handle[t]

\* The lease of k is granted to s.
Granted(s, k) ==
    /\ k \in Keys /\ handle[s].state = "new" /\ leases[k] = NoLease
    /\ leases'[k] = [by |-> s, expires |-> clock + Ttl]
    /\ OnlyKey(k) /\ OnlyCaller(s) /\ UNCHANGED <<clock, forced>>
    /\ handle'[s] \in HandleType
    /\ handle'[s].state = "held" =>
           handle'[s].key = k /\ handle'[s].expires <= Now(s) + Ttl
    /\ handle'[s].state \in {"held", "done"}
    /\ handle'[s].key \in Keys => handle'[s].key = k
    /\ k \in StrictKeys => handle'[s].key = k
    /\ Method[s][k] # "strict" => handle'[s].token = 0 /\ UNCHANGED <<counters, tokens>>
    /\ Method[s][k] = "strict" =>
           /\ k \in StrictKeys
           /\ counters'[k] = counters[k] + 1
           /\ handle'[s].token = counters[k] + 1
           /\ tokens'[k] = [token |-> counters[k] + 1, expires |-> clock + Ttl]

\* s extends its lease, and the answer may be lost.
Extends(s) ==
    LET k == handle[s].key IN
    /\ handle[s].state = "held" /\ k \in Keys
    /\ Owned(s) /\ (Uses(s) = "strict" => Fenced(s))
    /\ leases'[k] = [by |-> leases[k].by, expires |-> clock + Ttl]
    /\ OnlyKey(k) /\ OnlyCaller(s) /\ UNCHANGED <<clock, counters, forced>>
    /\ Uses(s) # "strict" => UNCHANGED tokens
    /\ Uses(s) = "strict" => tokens'[k] = [token |-> tokens[k].token, expires |-> clock + Ttl]
    /\ handle'[s] \in HandleType
    /\ handle'[s].key = k /\ handle'[s].token = handle[s].token
    /\ \/ /\ handle'[s].state = "held"
          /\ handle'[s].expires <= Now(s) + Ttl + Slack(s, k)
       \/ handle'[s].state = "lost" /\ handle'[s].expires = handle[s].expires

\* s lets its lease go; it is deleted if the server still has it.
Leaves(s) ==
    LET k == handle[s].key IN
    /\ handle[s].state \in {"held", "lost"} /\ k \in Keys
    /\ OnlyKey(k) /\ OnlyCaller(s) /\ UNCHANGED <<clock, counters>>
    /\ handle'[s] = Gone(k, handle[s].token) /\ forced' = forced \ {s}
    /\ \/ UNCHANGED <<leases, tokens>>
       \/ /\ Owned(s) /\ (Uses(s) = "strict" => Fenced(s))
          /\ leases'[k] = NoLease
          /\ Uses(s) # "strict" => UNCHANGED tokens
          /\ Uses(s) = "strict" => tokens'[k] = NoToken

Idle == UNCHANGED <<clock, leases, counters, tokens, handle, forced>>

LEMMA NowFacts ==
    ASSUME TypeInv, NEW s \in Sessions
    PROVE  /\ Now(s) \in Nat
           /\ \A now \in Before(s) : /\ now \in Nat /\ now >= 1 /\ now <= Now(s)
                                     /\ now + Lag >= Now(s) /\ now + Ttl >= handle[s].expires
           /\ \A now \in After(s) : now \in Nat /\ now <= Now(s) + Lag
<1>1. /\ Offset[s] \in Nat /\ Lag \in Nat /\ Ttl \in Nat /\ clock \in Nat /\ clock >= Lag + 1
      /\ handle[s].expires \in Nat
  BY RedisAssumption, Zenon DEF TypeInv, HandleType
<1> QED  BY <1>1 DEF Now, Before, After

LEMMA Methods ==
    ASSUME NEW s \in Sessions, NEW k \in Keys
    PROVE  /\ Method[s][k] \in {"plain", "strict", "lineage"}
           /\ Method[s][k] = "strict" => k \in StrictKeys
BY RedisAssumption

LEMMA GoneShape ==
    ASSUME NEW k \in Keys, NEW token \in Nat
    PROVE  /\ Gone(k, token) \in HandleType
           /\ Gone(k, token).state = "done" /\ Gone(k, token).token = token
           /\ k \in StrictKeys => Gone(k, token).key = k
           /\ k \notin StrictKeys => Gone(k, token).key = "none"
BY RedisAssumption, Zenon DEF Gone, NoHandle, HandleType

LEMMA ObtainEffect ==
    ASSUME TypeInv, NEW s \in Sessions, NEW k \in Keys, NEW e \in Nat, NEW token \in Nat,
           Obtain(s, k, e, token)
    PROVE  /\ OnlyCaller(s) /\ UNCHANGED <<clock, forced>>
           /\ handle'[s] \in HandleType /\ handle'[s].state \in {"held", "done"}
           /\ handle'[s].state = "held" => handle'[s].key = k /\ handle'[s].expires = e
           /\ handle'[s].key \in Keys => handle'[s].key = k
           /\ k \in StrictKeys => handle'[s].key = k
           /\ handle'[s].token = token
           /\ handle' \in [Sessions -> HandleType]
<1>1. PICK h \in {[state |-> "held", key |-> k, expires |-> e, token |-> token],
                  Gone(k, token)} : handle' = [handle EXCEPT ![s] = h]
  BY Zenon DEF Obtain
<1>2. handle'[s] = h /\ OnlyCaller(s) /\ UNCHANGED <<clock, forced>>
  BY <1>1, Zenon DEF TypeInv, OnlyCaller, Obtain
<1>3. CASE h = Gone(k, token)
  <2>1. /\ h \in HandleType /\ h.state = "done" /\ h.token = token
        /\ k \in StrictKeys => h.key = k
        /\ k \notin StrictKeys => h.key = "none"
    BY <1>3, GoneShape
  <2>2. "none" \notin Keys  BY RedisAssumption
  <2> QED  BY <1>1, <1>2, <2>1, <2>2 DEF TypeInv
<1>4. CASE h = [state |-> "held", key |-> k, expires |-> e, token |-> token]
  <2>1. h \in HandleType  BY <1>4 DEF HandleType
  <2> QED  BY <1>1, <1>2, <1>4, <2>1, Zenon DEF TypeInv
<1> QED  BY <1>3, <1>4, Zenon

LEMMA KeepEffect ==
    ASSUME TypeInv, NEW s \in Sessions, NEW e \in Nat, Keep(s, e)
    PROVE  /\ OnlyCaller(s) /\ UNCHANGED <<clock, forced>>
           /\ handle'[s] \in HandleType
           /\ handle'[s].key = handle[s].key /\ handle'[s].token = handle[s].token
           /\ \/ handle'[s].state = handle[s].state /\ handle'[s].expires = e
              \/ handle'[s].state = "lost" /\ handle'[s].expires = handle[s].expires
           /\ handle' \in [Sessions -> HandleType]
<1>1. handle \in [Sessions -> HandleType]  BY DEF TypeInv
<1>2. CASE handle' = [handle EXCEPT ![s].expires = e]
  BY <1>1, <1>2 DEF OnlyCaller, HandleType, Keep
<1>3. CASE handle' = [handle EXCEPT ![s].state = "lost"]
  BY <1>1, <1>3 DEF OnlyCaller, HandleType, Keep
<1> QED  BY <1>2, <1>3, Zenon DEF Keep

LEMMA DropEffect ==
    ASSUME TypeInv, NEW s \in Sessions, handle[s].key \in Keys, Drop(s)
    PROVE  /\ OnlyCaller(s) /\ UNCHANGED clock
           /\ handle'[s] = Gone(handle[s].key, handle[s].token) /\ forced' = forced \ {s}
           /\ handle' \in [Sessions -> HandleType]
<1>1. handle \in [Sessions -> HandleType] /\ handle[s].token \in Nat  BY Zenon DEF TypeInv, HandleType
<1>2. Gone(handle[s].key, handle[s].token) \in HandleType  BY <1>1, GoneShape
<1> QED  BY <1>1, <1>2 DEF Drop, OnlyCaller

LEMMA SetEffect ==
    ASSUME TypeInv, NEW s \in Sessions, NEW k \in Keys, Set(s, k)
    PROVE  /\ leases' \in [Keys -> [by : Sessions \cup {"nobody"}, expires : Nat]]
           /\ leases'[k] = [by |-> s, expires |-> clock + Ttl]
           /\ \A j \in Keys \ {k} : leases'[j] = leases[j]
BY RedisAssumption DEF TypeInv, Set

LEMMA PexpireEffect ==
    ASSUME TypeInv, NEW k \in Keys, Pexpire(k)
    PROVE  /\ leases' \in [Keys -> [by : Sessions \cup {"nobody"}, expires : Nat]]
           /\ leases'[k] = [by |-> leases[k].by, expires |-> clock + Ttl]
           /\ \A j \in Keys \ {k} : leases'[j] = leases[j]
BY RedisAssumption DEF TypeInv, Pexpire

LEMMA DelEffect ==
    ASSUME TypeInv, NEW k \in Keys, Del(k)
    PROVE  /\ leases' \in [Keys -> [by : Sessions \cup {"nobody"}, expires : Nat]]
           /\ leases'[k] = NoLease
           /\ \A j \in Keys \ {k} : leases'[j] = leases[j]
BY RedisAssumption DEF TypeInv, Del, NoLease

LEMMA AcquireEffect ==
    ASSUME TypeInv, NEW s \in Sessions, NEW k \in Keys, AcquireAny(s, k)
    PROVE  (Granted(s, k) \/ Idle) /\ TypeInv'
<1>1. handle[s].state = "new"  BY DEF AcquireAny
<1>2. \A now \in Before(s) : now + Ttl \in Nat /\ now + Ttl <= Now(s) + Ttl
  <2>1. Ttl \in Nat  BY RedisAssumption
  <2> QED  BY <2>1, NowFacts
<1>3. CASE Acquire(s, k)
  <2>1. PICK now \in Before(s) : Obtain(s, k, now + Ttl, 0)  BY <1>3 DEF Acquire
  <2>2. /\ Method[s][k] # "strict" /\ leases[k] = NoLease /\ Set(s, k)
        /\ UNCHANGED <<counters, tokens>>
    BY <1>3 DEF Acquire
  <2> QED  BY <1>1, <1>2, <2>1, <2>2, ObtainEffect, SetEffect DEF Granted, OnlyKey, TypeInv
<1>4. CASE AcquireStrict(s, k)
  <2>1. Method[s][k] = "strict" /\ k \in StrictKeys /\ leases[k] = NoLease /\ Set(s, k)
    BY <1>4, Methods DEF AcquireStrict, strictAcquireScript
  <2>2. /\ counters' = [counters EXCEPT ![k] = @ + 1]
        /\ tokens' = [tokens EXCEPT ![k] = [token |-> counters'[k], expires |-> clock + Ttl]]
    BY <1>4 DEF AcquireStrict, strictAcquireScript
  <2>3. /\ counters'[k] = counters[k] + 1 /\ counters'[k] \in Nat
        /\ \A j \in Keys \ {k} : counters'[j] = counters[j] /\ tokens'[j] = tokens[j]
        /\ tokens'[k] = [token |-> counters[k] + 1, expires |-> clock + Ttl]
        /\ counters' \in [Keys -> Nat] /\ tokens' \in [Keys -> [token : Nat, expires : Nat]]
    BY <2>2, RedisAssumption DEF TypeInv
  <2>4. PICK now \in Before(s) : Obtain(s, k, now + Ttl, counters'[k])
    BY <1>4 DEF AcquireStrict
  <2> QED
    BY <1>1, <1>2, <2>1, <2>3, <2>4, ObtainEffect, SetEffect DEF Granted, OnlyKey, TypeInv
<1>5. CASE AcquireWithLineage(s, k)
  <2>1. Method[s][k] # "strict" /\ UNCHANGED <<counters, tokens>>
    BY <1>5 DEF AcquireWithLineage
  <2>2. PICK now \in Before(s) :
          \/ lineageAcquireScript(s, k, now, TRUE) /\ Obtain(s, k, now + Ttl, 0)
          \/ lineageAcquireScript(s, k, now, FALSE) /\ UNCHANGED <<clock, handle, forced>>
    BY <1>5, Zenon DEF AcquireWithLineage
  <2>3. CASE lineageAcquireScript(s, k, now, TRUE) /\ Obtain(s, k, now + Ttl, 0)
    <3>1. leases[k] = NoLease /\ Set(s, k)  BY <2>3 DEF lineageAcquireScript, Free
    <3>2. Obtain(s, k, now + Ttl, 0)  BY <2>3
    <3> QED  BY <1>1, <1>2, <2>1, <3>1, <3>2, ObtainEffect, SetEffect DEF Granted, OnlyKey, TypeInv
  <2>4. CASE lineageAcquireScript(s, k, now, FALSE) /\ UNCHANGED <<clock, handle, forced>>
    <3>1. UNCHANGED leases  BY <2>4 DEF lineageAcquireScript
    <3> QED  BY <2>1, <2>4, <3>1, Zenon DEF Idle, TypeInv
  <2> QED  BY <2>2, <2>3, <2>4, Zenon
<1> QED  BY <1>3, <1>4, <1>5 DEF AcquireAny

LEMMA RenewEffect ==
    ASSUME TypeInv, StoreInv, NEW s \in Sessions, RenewAny(s)
    PROVE  Extends(s) /\ TypeInv'
<1> DEFINE k == handle[s].key
<1>1. handle[s].state = "held" /\ Ttl \in Nat /\ Lag \in Nat /\ k \in Keys
  BY RedisAssumption DEF RenewAny, StoreInv
<1>2. CASE Renew(s)
  <2>1. /\ Uses(s) # "strict" /\ Owned(s) /\ Pexpire(k)
        /\ UNCHANGED <<counters, tokens>> /\ Slack(s, k) = Lag
    BY <1>2 DEF Renew, Slack, Uses
  <2>2. PICK now \in After(s) : Keep(s, now + Ttl)  BY <1>2 DEF Renew
  <2>3. now + Ttl \in Nat /\ now + Ttl <= Now(s) + Ttl + Lag  BY <1>1, NowFacts
  <2> QED  BY <1>1, <2>1, <2>2, <2>3, KeepEffect, PexpireEffect, Zenon DEF Extends, OnlyKey, TypeInv
<1>3. CASE RenewStrict(s)
  <2>1. /\ Uses(s) = "strict" /\ Owned(s) /\ Fenced(s) /\ Pexpire(k)
        /\ tokens' = [tokens EXCEPT ![k].expires = clock + Ttl]
        /\ UNCHANGED counters /\ Slack(s, k) = 0
    BY <1>3 DEF RenewStrict, strictRenewScript, Fenced, Slack, Uses
  <2>2. PICK now \in Before(s) : Keep(s, now + Ttl)  BY <1>3 DEF RenewStrict
  <2>3. now + Ttl \in Nat /\ now + Ttl <= Now(s) + Ttl + 0  BY <1>1, NowFacts
  <2>4. /\ tokens'[k] = [token |-> tokens[k].token, expires |-> clock + Ttl]
        /\ \A j \in Keys \ {k} : tokens'[j] = tokens[j]
        /\ tokens' \in [Keys -> [token : Nat, expires : Nat]]
    BY <1>1, <2>1 DEF TypeInv
  <2> QED
    BY <1>1, <2>1, <2>2, <2>3, <2>4, KeepEffect, PexpireEffect DEF Extends, OnlyKey, TypeInv
<1>4. CASE RenewWithLineage(s)
  <2>1. Uses(s) # "strict" /\ UNCHANGED <<counters, tokens>> /\ Slack(s, k) = 0
    BY <1>4 DEF RenewWithLineage, Slack, Uses
  <2>2. PICK now \in Before(s) : lineageRenewScript(s, k, now) /\ Keep(s, now + Ttl)
    BY <1>4 DEF RenewWithLineage
  <2>3. now + Ttl \in Nat /\ now + Ttl <= Now(s) + Ttl + 0  BY <1>1, NowFacts
  <2>4. Owned(s) /\ Pexpire(k)  BY <2>2 DEF lineageRenewScript
  <2> QED
    BY <1>1, <2>1, <2>2, <2>3, <2>4, KeepEffect, PexpireEffect, Zenon DEF Extends, OnlyKey, TypeInv
<1> QED  BY <1>2, <1>3, <1>4 DEF RenewAny

LEMMA ReleaseEffect ==
    ASSUME TypeInv, StoreInv, NEW s \in Sessions, ReleaseAny(s)
    PROVE  Leaves(s) /\ TypeInv'
<1> DEFINE k == handle[s].key
<1>1. handle[s].state \in {"held", "lost"} /\ k \in Keys  BY DEF ReleaseAny, StoreInv
<1>2. forced \ {s} \subseteq Sessions  BY DEF TypeInv
<1>3. CASE Release(s)
  <2>1. /\ Uses(s) # "strict" /\ Drop(s) /\ UNCHANGED <<counters, tokens>>
        /\ (Owned(s) /\ Del(k)) \/ UNCHANGED leases
    BY <1>3 DEF Release
  <2> QED  BY <1>1, <1>2, <2>1, DropEffect, DelEffect, Zenon DEF Leaves, OnlyKey, TypeInv
<1>4. CASE ReleaseStrict(s)
  <2>1. Uses(s) = "strict" /\ Drop(s) /\ UNCHANGED counters
    BY <1>4 DEF ReleaseStrict
  <2>2. CASE Fenced(s)
    <3>1. Del(k) /\ Owned(s) /\ tokens' = [tokens EXCEPT ![k] = NoToken]
      BY <1>4, <2>2, Zenon DEF ReleaseStrict, strictReleaseScript, Fenced
    <3>2. /\ \A j \in Keys \ {k} : tokens'[j] = tokens[j]
          /\ tokens'[k] = NoToken
          /\ tokens' \in [Keys -> [token : Nat, expires : Nat]]
      BY <1>1, <3>1, Zenon DEF TypeInv, NoToken
    <3> QED
      BY <1>1, <1>2, <2>1, <2>2, <3>1, <3>2, DropEffect, DelEffect, ZenonT(30) DEF Leaves, OnlyKey, TypeInv
  <2>3. CASE ~Fenced(s)
    <3>1. UNCHANGED <<leases, tokens>>  BY <1>4, <2>3 DEF ReleaseStrict, strictReleaseScript
    <3> QED  BY <1>1, <1>2, <2>1, <3>1, DropEffect, Zenon DEF Leaves, OnlyKey, TypeInv
  <2> QED  BY <2>2, <2>3
<1>5. CASE ReleaseWithLineage(s)
  <2>1. /\ Uses(s) # "strict" /\ Drop(s) /\ UNCHANGED <<counters, tokens>>
        /\ (Owned(s) /\ Del(k)) \/ UNCHANGED leases
    BY <1>5 DEF ReleaseWithLineage, lineageReleaseScript
  <2> QED  BY <1>1, <1>2, <2>1, DropEffect, DelEffect, Zenon DEF Leaves, OnlyKey, TypeInv
<1> QED  BY <1>3, <1>4, <1>5 DEF ReleaseAny

\* The lease of k is deleted by force; its holder is in `forced'.
Seized(k) ==
    /\ k \in Keys /\ k \notin StrictKeys
    /\ leases'[k] = NoLease /\ tokens'[k] = NoToken /\ OnlyKey(k) /\ UNCHANGED <<clock, handle>>
    /\ forced' = forced \cup {s \in Sessions : leases[k].by = s /\ handle[s].state # "done"}

\* Time passes, and what has expired goes away.
Ages ==
    /\ clock' = clock + 1
    /\ UNCHANGED <<counters, handle, forced>>
    /\ \A k \in Keys :
          /\ leases'[k] = IF clock' > leases[k].expires THEN NoLease ELSE leases[k]
          /\ tokens'[k] = IF clock' > tokens[k].expires THEN NoToken ELSE tokens[k]

LEMMA ForceEffect ==
    ASSUME Recognised, TypeInv, NEW k \in ForceKeys, ForceReleaseDefinition(k)
    PROVE  Seized(k) /\ TypeInv'
<1>1. k \in Keys /\ k \notin StrictKeys /\ Del(k)
  BY RedisAssumption, Zenon DEF Recognised, ForceReleaseDefinition
<1>2. /\ \A j \in Keys \ {k} : tokens'[j] = tokens[j] /\ counters'[j] = counters[j]
      /\ tokens'[k] = NoToken
      /\ counters' \in [Keys -> Nat] /\ tokens' \in [Keys -> [token : Nat, expires : Nat]]
  BY <1>1, Zenon DEF ForceReleaseDefinition, TypeInv, NoToken
<1>3. /\ UNCHANGED <<clock, handle>> /\ forced' \subseteq Sessions
      /\ forced' = forced \cup {s \in Sessions : leases[k].by = s /\ handle[s].state # "done"}
  BY Zenon DEF ForceReleaseDefinition, TypeInv
<1> QED  BY <1>1, <1>2, <1>3, DelEffect, Zenon DEF Seized, OnlyKey, TypeInv

LEMMA TickEffect ==
    ASSUME TypeInv, Tick
    PROVE  Ages /\ TypeInv'
<1>1. Ages  BY DEF Tick, Ages
<1>2. leases' \in [Keys -> [by : Sessions \cup {"nobody"}, expires : Nat]]
  BY Zenon DEF Tick, TypeInv, NoLease
<1>3. tokens' \in [Keys -> [token : Nat, expires : Nat]]
  BY Zenon DEF Tick, TypeInv, NoToken
<1>4. clock' \in Nat /\ clock' >= Lag + 1  BY RedisAssumption DEF Tick, TypeInv
<1> QED  BY <1>1, <1>2, <1>3, <1>4, Zenon DEF Tick, TypeInv

\* Every step is one of these.
LEMMA Steps ==
    ASSUME Recognised, TypeInv, StoreInv, [Next]_vars
    PROVE  /\ TypeInv'
           /\ \/ Idle \/ Ages
              \/ \E k \in Keys : Seized(k)
              \/ \E s \in Sessions : \/ Extends(s) \/ Leaves(s)
                                     \/ \E k \in Keys : Granted(s, k)
<1>1. CASE Tick  BY <1>1, TickEffect
<1>2. CASE CheckPresence \/ UNCHANGED vars
  <2>1. UNCHANGED vars  BY <1>2 DEF CheckPresence
  <2> QED  BY <2>1, Zenon DEF vars, server, Idle, TypeInv
<1>3. ASSUME NEW s \in Sessions, RenewAny(s)
      PROVE  Extends(s) /\ TypeInv'
  BY <1>3, RenewEffect
<1>4. ASSUME NEW s \in Sessions, ReleaseAny(s)
      PROVE  Leaves(s) /\ TypeInv'
  BY <1>4, ReleaseEffect
<1>5. ASSUME NEW s \in Sessions, NEW k \in Asks[s], AcquireAny(s, k)
      PROVE  k \in Keys /\ (Granted(s, k) \/ Idle) /\ TypeInv'
  <2>1. k \in Keys  BY RedisAssumption
  <2> QED  BY <1>5, <2>1, AcquireEffect
<1>6. ASSUME NEW k \in ForceKeys, ForceReleaseDefinition(k)
      PROVE  k \in Keys /\ Seized(k) /\ TypeInv'
  BY <1>6, ForceEffect, RedisAssumption
<1> QED  BY <1>1, <1>2, <1>3, <1>4, <1>5, <1>6 DEF Next

-----------------------------------------------------------------------------
(***************************************************************************)
(* The leases: IInv is inductive.                                          *)
(***************************************************************************)
LEMMA HandleFields ==
    ASSUME TypeInv, NEW s \in Sessions
    PROVE  /\ handle[s].state \in {"new", "held", "lost", "done"}
           /\ handle[s].key \in Keys \cup {"none"}
           /\ handle[s].expires \in Nat /\ handle[s].token \in Nat
BY Zenon DEF TypeInv, HandleType

LEMMA LeaseFields ==
    ASSUME TypeInv, NEW k \in Keys
    PROVE  leases[k].by \in Sessions \cup {"nobody"} /\ leases[k].expires \in Nat
BY DEF TypeInv

\* The invariant, one fact at a time.
LEMMA LeaseStored ==
    ASSUME IInv, NEW j \in Keys, leases[j] # NoLease
    PROVE  leases[j].by \in Sessions /\ leases[j].expires <= clock + Ttl
BY Zenon DEF IInv, StoreInv

LEMMA StrictStored ==
    ASSUME IInv, NEW j \in Keys, StrictLease(j)
    PROVE  /\ j \in StrictKeys /\ leases[j] # NoLease
           /\ leases[j].by \in Sessions /\ handle[leases[j].by].key = j
           /\ handle[leases[j].by].token = counters[j]
           /\ counters[j] # 0
           /\ tokens[j] = [token |-> counters[j], expires |-> leases[j].expires]
           /\ tokens[j].token = counters[j]
<1>1. leases[j] # NoLease /\ Method[leases[j].by][j] = "strict"  BY DEF StrictLease
<1>2. leases[j].by \in Sessions  BY <1>1, LeaseStored, Zenon
<1>3. tokens[j] = [token |-> counters[j], expires |-> leases[j].expires]
  BY Zenon DEF IInv, StoreInv
<1>4. tokens[j].token = counters[j]  BY <1>3
<1>5. j \in StrictKeys  BY <1>1, <1>2, Methods
<1>6. handle[leases[j].by].key = j /\ handle[leases[j].by].token = counters[j]
  BY Zenon DEF IInv, StoreInv
<1>7. handle[leases[j].by].token # 0  BY <1>1, <1>2, <1>6 DEF IInv, StoreInv, Uses
<1> QED  BY <1>1, <1>2, <1>3, <1>4, <1>5, <1>6, <1>7, Zenon

LEMMA NoTokenStored ==
    ASSUME IInv, NEW j \in Keys, ~StrictLease(j)
    PROVE  tokens[j] = NoToken
BY Zenon DEF IInv, StoreInv

LEMMA CallerStored ==
    ASSUME IInv, NEW t \in Sessions
    PROVE  /\ handle[t].state \in {"held", "lost"} => handle[t].key \in Keys
           /\ handle[t].state = "new" => handle[t] = NoHandle
           /\ handle[t].key \in StrictKeys => handle[t].token <= counters[handle[t].key]
BY Zenon DEF IInv, StoreInv

LEMMA TokenStored ==
    ASSUME IInv, NEW t \in Sessions, handle[t].key \in Keys
    PROVE  handle[t].token # 0 <=> Method[t][handle[t].key] = "strict"
BY DEF IInv, StoreInv, Uses

LEMMA TokenUnique ==
    ASSUME IInv, NEW t \in Sessions, NEW u \in Sessions, handle[t].key \in StrictKeys,
           handle[t].key = handle[u].key, handle[t].token = handle[u].token,
           handle[t].token # 0
    PROVE  t = u
BY Zenon DEF IInv, StoreInv

\* A step that grants nothing: leases go or stay with their caller, callers
\* keep their tokens and their strict keys.
SameCaller(t) ==
    /\ handle'[t].token = handle[t].token
    /\ handle'[t].key \in Keys => handle'[t].key = handle[t].key
    /\ handle[t].key \in StrictKeys => handle'[t].key = handle[t].key
    /\ handle'[t].state \in {"held", "lost"} => handle'[t].key \in Keys
    /\ handle'[t].state = "new" => handle'[t] = NoHandle

LEMMA StoreKept ==
    ASSUME IInv, \A t \in Sessions : SameCaller(t),
           \A j \in Keys : leases'[j] # NoLease =>
              /\ leases[j] # NoLease /\ leases'[j].by = leases[j].by
              /\ leases'[j].expires <= clock' + Ttl,
           \A j \in StrictKeys : counters'[j] = counters[j],
           \A j \in Keys : StrictLease(j)' =>
              tokens'[j] = [token |-> counters[j], expires |-> leases'[j].expires],
           \A j \in Keys : ~StrictLease(j)' => tokens'[j] = NoToken
    PROVE  StoreInv'
<1>0. StrictKeys \subseteq Keys  BY RedisAssumption, Zenon
<1>1. \A j \in Keys : leases'[j] # NoLease =>
         leases'[j].by \in Sessions /\ leases'[j].expires <= clock' + Ttl
  BY LeaseStored, Zenon
<1>2. \A t \in Sessions : /\ handle'[t].state \in {"held", "lost"} => handle'[t].key \in Keys
                          /\ handle'[t].state = "new" => handle'[t] = NoHandle
  BY Zenon DEF SameCaller
<1>3. ASSUME NEW j \in Keys, StrictLease(j)'
      PROVE  /\ tokens'[j] = [token |-> counters'[j], expires |-> leases'[j].expires]
             /\ handle'[leases'[j].by].key = j
             /\ handle'[leases'[j].by].token = counters'[j]
  <2>1. leases[j] # NoLease /\ leases'[j].by = leases[j].by  BY <1>3, Zenon DEF StrictLease
  <2>2. StrictLease(j)  BY <1>3, <2>1, Zenon DEF StrictLease
  <2>3. /\ leases[j].by \in Sessions /\ handle[leases[j].by].key = j
        /\ handle[leases[j].by].token = counters[j] /\ j \in StrictKeys
    BY <2>2, StrictStored, Zenon
  <2>4. handle'[leases[j].by].key = j /\ handle'[leases[j].by].token = counters[j]
    BY <2>3, Zenon DEF SameCaller
  <2>5. counters'[j] = counters[j]  BY <2>3, Zenon
  <2>6. tokens'[j] = [token |-> counters[j], expires |-> leases'[j].expires]  BY <1>3, Zenon
  <2> QED  BY <2>1, <2>4, <2>5, <2>6, Zenon
<1>4. ASSUME NEW t \in Sessions, handle'[t].key \in Keys
      PROVE  handle'[t].key = handle[t].key /\ handle'[t].token = handle[t].token
  BY <1>4, Zenon DEF SameCaller
<1>5. ASSUME NEW t \in Sessions, handle'[t].key \in StrictKeys
      PROVE  handle'[t].token <= counters'[handle'[t].key]
  <2>1. handle'[t].key = handle[t].key /\ handle'[t].token = handle[t].token
    BY <1>0, <1>4, <1>5, Zenon
  <2>2. handle[t].token <= counters[handle[t].key]  BY <1>5, <2>1, CallerStored, Zenon
  <2>3. counters'[handle[t].key] = counters[handle[t].key]  BY <1>5, <2>1, Zenon
  <2> QED  BY <2>1, <2>2, <2>3, Zenon
<1>6. ASSUME NEW t \in Sessions, handle'[t].key \in Keys
      PROVE  handle'[t].token # 0 <=> Method[t][handle'[t].key] = "strict"
  BY <1>4, <1>6, TokenStored
<1>7. ASSUME NEW t \in Sessions, NEW u \in Sessions, handle'[t].key \in StrictKeys,
             handle'[t].key = handle'[u].key, handle'[t].token = handle'[u].token,
             handle'[t].token # 0
      PROVE  t = u
  <2>1. /\ handle'[t].key = handle[t].key /\ handle'[t].token = handle[t].token
        /\ handle'[u].key = handle[u].key /\ handle'[u].token = handle[u].token
    BY <1>0, <1>4, <1>7, Zenon
  <2>2. /\ handle[t].key \in StrictKeys /\ handle[t].token # 0
        /\ handle[t].key = handle[u].key /\ handle[t].token = handle[u].token
    BY <1>7, <2>1, Zenon
  <2> QED  BY <2>2, TokenUnique, Zenon
<1> QED  BY <1>1, <1>2, <1>3, <1>5, <1>6, <1>7, Zenon DEF StoreInv, Uses

\* The server recognises the caller it granted the lease to, and no other.
LEMMA OwnedIsOwn ==
    ASSUME Recognised, IInv, NEW s \in Sessions, handle[s].key \in Keys, Owned(s),
           Uses(s) = "strict" => Fenced(s)
    PROVE  leases[handle[s].key] # NoLease /\ leases[handle[s].key].by = s
<1> DEFINE k == handle[s].key
<1>1. leases[k] # NoLease /\ Owner[leases[k].by][k] = Owner[s][k]  BY Zenon DEF Owned
<1>2. leases[k].by \in Sessions  BY <1>1, LeaseStored, Zenon
<1>3. CASE Method[s][k] # "strict"  BY <1>1, <1>2, <1>3 DEF Recognised
<1>4. CASE Method[s][k] = "strict"
  <2>1. tokens[k].token = handle[s].token  BY <1>4 DEF Fenced, Uses
  <2>2. handle[s].token # 0  BY <1>4, TokenStored
  <2>3. StrictLease(k)  BY <2>1, <2>2, NoTokenStored DEF NoToken
  <2>4. /\ handle[leases[k].by].key = k /\ handle[leases[k].by].token = counters[k]
        /\ tokens[k].token = counters[k] /\ k \in StrictKeys
    BY <2>3, StrictStored, Zenon
  <2>5. handle[leases[k].by].token = handle[s].token  BY <2>1, <2>4, Zenon
  <2> QED  BY <1>1, <1>2, <2>2, <2>4, <2>5, TokenUnique, Zenon
<1> QED  BY <1>3, <1>4, Zenon

LEMMA LeaseBackedFromInv == IInv => LeaseBacked
BY Zenon DEF IInv, Backed, LeaseBacked

LEMMA IInvInit == Init => IInv
<1> SUFFICES ASSUME Init PROVE IInv  OBVIOUS
<1>1. TypeInv  BY RedisAssumption DEF Init, TypeInv, NoLease, NoToken, NoHandle, HandleType
<1>2. StoreInv  BY RedisAssumption, Zenon DEF Init, StoreInv, StrictLease, NoHandle
<1>3. \A s \in Sessions : Backed(s)  BY Zenon DEF Init, Backed, Holds, NoHandle
<1> QED  BY <1>1, <1>2, <1>3 DEF IInv

\* A caller that does not move stays backed if its lease is not touched.
LEMMA BackedFrame ==
    ASSUME IInv, NEW t \in Sessions, handle'[t] = handle[t], clock' = clock,
           t \in forced' <=> t \in forced,
           Holds(t) => leases'[handle[t].key] = leases[handle[t].key]
    PROVE  Backed(t)'
<1>1. Holds(t)' <=> Holds(t)  BY Zenon DEF Holds, Uses, Now
<1> QED  BY <1>1, Zenon DEF Backed, IInv

LEMMA HolderKey ==
    ASSUME IInv, NEW t \in Sessions, Holds(t)
    PROVE  handle[t].key \in Keys /\ leases[handle[t].key] # NoLease
                                  /\ leases[handle[t].key].by = t
<1>1. handle[t].key \in Keys /\ leases[handle[t].key].by = t
  BY Zenon DEF IInv, StoreInv, Backed, Holds
<1> QED  BY <1>1, RedisAssumption DEF NoLease

LEMMA GrantedStore ==
    ASSUME IInv, TypeInv', NEW s \in Sessions, NEW k \in Keys, Granted(s, k)
    PROVE  StoreInv'
<1>1. Ttl \in Nat /\ clock \in Nat /\ counters \in [Keys -> Nat]
  BY RedisAssumption, Zenon DEF IInv, TypeInv
<1>2. handle[s].key = "none"
  <2>1. handle[s] = NoHandle  BY CallerStored, Zenon DEF Granted
  <2> QED  BY <2>1 DEF NoHandle
<1>3. "none" \notin StrictKeys /\ "none" \notin Keys /\ StrictKeys \subseteq Keys
  BY RedisAssumption, Zenon
<1>a. /\ leases'[k].by = s /\ leases'[k].expires = clock + Ttl /\ clock' = clock
      /\ handle'[s].state \in {"held", "done"}
      /\ handle'[s].state = "held" => handle'[s].key = k
      /\ handle'[s].key \in Keys => handle'[s].key = k
  <2>1. leases'[k] = [by |-> s, expires |-> clock + Ttl]  BY Zenon DEF Granted
  <2>2. leases'[k].by = s /\ leases'[k].expires = clock + Ttl  BY <2>1
  <2> QED  BY <2>2, Zenon DEF Granted
<1>b. Method[s][k] = "strict" =>
         /\ handle'[s].key = k /\ handle'[s].token = counters[k] + 1
         /\ counters'[k] = counters[k] + 1
         /\ tokens'[k] = [token |-> counters[k] + 1, expires |-> clock + Ttl]
  BY Zenon DEF Granted
<1>n. Method[s][k] # "strict" =>
         /\ handle'[s].token = 0 /\ counters'[k] = counters[k] /\ tokens'[k] = tokens[k]
  BY Zenon DEF Granted
<1>o. tokens[k] = NoToken
  <2>1. leases[k] = NoLease  BY Zenon DEF Granted
  <2> QED  BY <2>1, NoTokenStored, Zenon DEF StrictLease
<1>c. \A j \in Keys : j # k => /\ leases'[j] = leases[j] /\ tokens'[j] = tokens[j]
                               /\ counters'[j] = counters[j]
  BY Zenon DEF Granted, OnlyKey
<1>d. \A t \in Sessions : t # s => handle'[t] = handle[t]
  BY Zenon DEF Granted, OnlyCaller
<1>e. counters'[k] >= counters[k] /\ counters'[k] \in Nat /\ counters[k] \in Nat
  <2>1. counters[k] \in Nat  BY <1>1, Zenon
  <2>2. counters'[k] = counters[k] \/ counters'[k] = counters[k] + 1
    BY <1>b, <1>n, Zenon
  <2> QED  BY <2>1, <2>2
<1>4. ASSUME NEW j \in Keys, leases'[j] # NoLease
      PROVE  leases'[j].by \in Sessions /\ leases'[j].expires <= clock' + Ttl
  <2>1. CASE j = k
    <3>1. clock + Ttl <= clock + Ttl  BY <1>1
    <3> QED  BY <1>a, <2>1, <3>1, Zenon
  <2>2. CASE j # k
    <3>1. leases'[j] = leases[j]  BY <1>c, <2>2, Zenon
    <3>2. leases[j].by \in Sessions /\ leases[j].expires <= clock + Ttl
      BY <1>4, <3>1, LeaseStored, Zenon
    <3> QED  BY <1>a, <3>1, <3>2, Zenon
  <2> QED  BY <2>1, <2>2, Zenon
<1>5. ASSUME NEW t \in Sessions
      PROVE  /\ handle'[t].state \in {"held", "lost"} => handle'[t].key \in Keys
             /\ handle'[t].state = "new" => handle'[t] = NoHandle
  <2>1. CASE t = s  BY <1>a, <2>1, Zenon
  <2>2. CASE t # s  BY <1>d, <2>2, CallerStored, Zenon
  <2> QED  BY <2>1, <2>2, Zenon
<1>6. ASSUME NEW j \in Keys, j # k
      PROVE  /\ StrictLease(j)' <=> StrictLease(j)
             /\ leases'[j] = leases[j] /\ tokens'[j] = tokens[j] /\ counters'[j] = counters[j]
  BY <1>6, <1>c, Zenon DEF StrictLease
<1>7. ASSUME NEW j \in Keys, StrictLease(j)'
      PROVE  /\ tokens'[j] = [token |-> counters'[j], expires |-> leases'[j].expires]
             /\ handle'[leases'[j].by].key = j
             /\ handle'[leases'[j].by].token = counters'[j]
  <2>1. CASE j = k
    <3>1. Method[s][k] = "strict"  BY <1>7, <1>a, <2>1, Zenon DEF StrictLease
    <3> QED  BY <1>a, <1>b, <2>1, <3>1, Zenon
  <2>2. CASE j # k
    <3>1. leases'[j] = leases[j] /\ tokens'[j] = tokens[j] /\ counters'[j] = counters[j]
      BY <1>6, <2>2, Zenon
    <3>2. /\ leases[j].by \in Sessions /\ handle[leases[j].by].key = j
          /\ handle[leases[j].by].token = counters[j]
          /\ tokens[j] = [token |-> counters[j], expires |-> leases[j].expires]
      BY <1>6, <1>7, <2>2, StrictStored, Zenon
    <3>3. handle'[leases[j].by] = handle[leases[j].by]  BY <1>2, <1>3, <1>d, <3>2, Zenon
    <3> QED  BY <3>1, <3>2, <3>3, Zenon
  <2> QED  BY <2>1, <2>2, Zenon
<1>p. ASSUME NEW j \in Keys, ~StrictLease(j)' PROVE tokens'[j] = NoToken
  <2>1. CASE j = k
    <3>1. leases'[k] # NoLease  BY <1>a, RedisAssumption DEF NoLease
    <3>2. Method[s][k] # "strict"  BY <1>p, <1>a, <2>1, <3>1, Zenon DEF StrictLease
    <3> QED  BY <1>n, <1>o, <2>1, <3>2, Zenon
  <2>2. CASE j # k  BY <1>6, <1>p, <2>2, NoTokenStored, Zenon
  <2> QED  BY <2>1, <2>2, Zenon
<1>8. ASSUME NEW t \in Sessions, t # s, handle[t].key \in StrictKeys
      PROVE  /\ handle[t].token <= counters'[handle[t].key]
             /\ handle[t].key = k => handle[t].token # counters[k] + 1
  <2>1. handle[t].token <= counters[handle[t].key]  BY <1>8, CallerStored, Zenon
  <2>2. handle[t].token \in Nat  BY HandleFields, Zenon DEF IInv
  <2>3. CASE handle[t].key = k  BY <1>e, <2>1, <2>2, <2>3
  <2>4. CASE handle[t].key # k
    <3>1. counters'[handle[t].key] = counters[handle[t].key]  BY <1>3, <1>8, <1>c, <2>4, Zenon
    <3> QED  BY <2>1, <2>4, <3>1, Zenon
  <2> QED  BY <2>3, <2>4, Zenon
<1>9. ASSUME NEW t \in Sessions, handle'[t].key \in StrictKeys
      PROVE  handle'[t].token <= counters'[handle'[t].key]
  <2>1. CASE t = s
    <3>1. handle'[s].key = k  BY <1>3, <1>9, <1>a, <2>1, Zenon
    <3>2. handle'[s].token = counters'[k] \/ handle'[s].token = 0  BY <1>b, <1>n, Zenon
    <3>3. handle'[s].token <= counters'[k]  BY <1>e, <3>2
    <3> QED  BY <2>1, <3>1, <3>3, Zenon
  <2>2. CASE t # s  BY <1>8, <1>9, <1>d, <2>2, Zenon
  <2> QED  BY <2>1, <2>2, Zenon
<1>q. ASSUME NEW t \in Sessions, handle'[t].key \in Keys
      PROVE  handle'[t].token # 0 <=> Method[t][handle'[t].key] = "strict"
  <2>1. CASE t = s
    <3>1. handle'[s].key = k  BY <1>q, <1>a, <2>1, Zenon
    <3>2. handle'[s].token # 0 <=> Method[s][k] = "strict"  BY <1>b, <1>e, <1>n
    <3> QED  BY <2>1, <3>1, <3>2
  <2>2. CASE t # s
    <3>1. handle'[t] = handle[t]  BY <1>d, <2>2, Zenon
    <3> QED  BY <1>q, <3>1, TokenStored
  <2> QED  BY <2>1, <2>2, Zenon
<1>10. ASSUME NEW t \in Sessions, NEW u \in Sessions, handle'[t].key \in StrictKeys,
              handle'[t].key = handle'[u].key, handle'[t].token = handle'[u].token,
              handle'[t].token # 0
       PROVE  t = u
  <2>1. CASE t # s /\ u # s
    <3>1. handle'[t] = handle[t] /\ handle'[u] = handle[u]  BY <1>d, <2>1, Zenon
    <3> QED  BY <1>10, <3>1, TokenUnique, Zenon
  <2>2. ASSUME NEW v \in Sessions, v # s, handle'[v].key = handle'[s].key,
               handle'[s].key \in StrictKeys, handle'[v].token = handle'[s].token,
               handle'[s].token # 0
        PROVE  FALSE
    <3>1. handle'[s].key = k /\ handle'[s].token = counters[k] + 1
      BY <1>3, <1>a, <1>b, <1>n, <2>2, Zenon
    <3>2. handle'[v] = handle[v]  BY <1>d, <2>2, Zenon
    <3>3. handle[v].key = k /\ handle[v].token = counters[k] + 1  BY <2>2, <3>1, <3>2, Zenon
    <3> QED  BY <1>8, <2>2, <3>1, <3>3, Zenon
  <2>3. CASE t = s /\ u # s  BY <1>10, <2>2, <2>3, Zenon
  <2>4. CASE u = s /\ t # s  BY <1>10, <2>2, <2>4, Zenon
  <2> QED  BY <2>1, <2>3, <2>4, Zenon
<1> QED  BY <1>4, <1>5, <1>7, <1>9, <1>10, <1>p, <1>q, Zenon DEF StoreInv, Uses

LEMMA GrantedBacked ==
    ASSUME IInv, NEW s \in Sessions, NEW k \in Keys, Granted(s, k)
    PROVE  \A t \in Sessions : Backed(t)'
<1> USE DEF Granted, OnlyKey, OnlyCaller
<1>1. ASSUME NEW t \in Sessions, t # s PROVE Backed(t)'
  <2>1. Holds(t) => leases'[handle[t].key] = leases[handle[t].key]  BY HolderKey, Zenon
  <2> QED  BY <1>1, <2>1, BackedFrame, Zenon
<1>2. Backed(s)'
  <2> SUFFICES ASSUME Holds(s)'
               PROVE  /\ leases'[handle'[s].key].by = s
                      /\ leases'[handle'[s].key].expires + Offset[s] + Slack(s, handle'[s].key)
                             >= handle'[s].expires
    BY Zenon DEF Backed, Slack
  <2>1. handle'[s].state = "held" /\ handle'[s].key = k /\ handle'[s].expires <= Now(s) + Ttl
    BY Zenon DEF Holds
  <2>2. Offset[s] \in Nat /\ Ttl \in Nat /\ clock \in Nat /\ Slack(s, k) \in Nat
        /\ handle'[s].expires \in Nat
    BY RedisAssumption DEF Slack, IInv, TypeInv, HandleType
  <2> QED  BY <2>1, <2>2 DEF Now
<1> QED  BY <1>1, <1>2, Zenon

LEMMA ExtendsInv ==
    ASSUME Recognised, IInv, TypeInv', NEW s \in Sessions, Extends(s)
    PROVE  StoreInv' /\ \A t \in Sessions : Backed(t)'
<1> DEFINE k == handle[s].key
<1>1. k \in Keys /\ leases[k] # NoLease /\ leases[k].by = s
  BY OwnedIsOwn, Zenon DEF Extends
<1>2. /\ Ttl \in Nat /\ Lag \in Nat /\ clock \in Nat /\ Offset[s] \in Nat
      /\ StrictKeys \subseteq Keys
  BY RedisAssumption, ZenonT(30) DEF IInv, TypeInv
<1>3. Slack(s, k) \in Nat  BY <1>2 DEF Slack
<1>4. /\ leases'[k].by = s /\ leases'[k].expires = clock + Ttl /\ clock' = clock
      /\ Method[s][k] = "strict" => tokens'[k] = [token |-> tokens[k].token, expires |-> clock + Ttl]
      /\ Method[s][k] # "strict" => tokens'[k] = tokens[k]
      /\ counters' = counters /\ forced' = forced /\ handle[s].state = "held"
      /\ handle'[s].key = k /\ handle'[s].token = handle[s].token
      /\ handle'[s].state \in {"held", "lost"}
  <2>1. leases'[k] = [by |-> leases[k].by, expires |-> clock + Ttl]  BY Zenon DEF Extends
  <2>2. leases'[k].by = s /\ leases'[k].expires = clock + Ttl  BY <1>1, <2>1
  <2> QED  BY <2>2, Zenon DEF Extends, Uses
<1>5. \A j \in Keys : j # k => leases'[j] = leases[j] /\ tokens'[j] = tokens[j]
  BY Zenon DEF Extends, OnlyKey
<1>6. \A t \in Sessions : t # s => handle'[t] = handle[t]  BY Zenon DEF Extends, OnlyCaller
<1>7. \/ handle'[s].expires <= Now(s) + Ttl + Slack(s, k)
      \/ handle'[s].state = "lost" /\ handle'[s].expires = handle[s].expires
  BY Zenon DEF Extends
<1> HIDE DEF k
<1>8. StoreInv'
  <2>1. ASSUME NEW j \in Keys, leases'[j] # NoLease
        PROVE  /\ leases[j] # NoLease /\ leases'[j].by = leases[j].by
               /\ leases'[j].expires <= clock' + Ttl
    <3>1. CASE j = k
      <4>1. clock + Ttl <= clock + Ttl  BY <1>2
      <4> QED  BY <1>1, <1>4, <3>1, <4>1, Zenon
    <3>2. CASE j # k
      <4>1. leases'[j] = leases[j]  BY <1>5, <3>2, Zenon
      <4> QED  BY <1>4, <2>1, <4>1, LeaseStored, Zenon
    <3> QED  BY <3>1, <3>2, Zenon
  <2>2. ASSUME NEW t \in Sessions PROVE SameCaller(t)
    <3>1. CASE t = s  BY <1>1, <1>4, <3>1, Zenon DEF SameCaller, k
    <3>2. CASE t # s  BY <1>6, <3>2, CallerStored, Zenon DEF SameCaller
    <3> QED  BY <3>1, <3>2, Zenon
  <2>3. ASSUME NEW j \in Keys PROVE StrictLease(j)' <=> StrictLease(j)
    <3>1. leases'[k] # NoLease  BY <1>4, RedisAssumption DEF NoLease
    <3>2. CASE j = k  BY <1>1, <1>4, <3>1, <3>2, Zenon DEF StrictLease
    <3>3. CASE j # k  BY <1>5, <3>3, Zenon DEF StrictLease
    <3> QED  BY <3>2, <3>3, Zenon
  <2>4. ASSUME NEW j \in Keys, StrictLease(j)'
        PROVE  tokens'[j] = [token |-> counters[j], expires |-> leases'[j].expires]
    <3>1. /\ tokens[j] = [token |-> counters[j], expires |-> leases[j].expires]
          /\ tokens[j].token = counters[j]
      BY <2>3, <2>4, StrictStored, Zenon
    <3>2. CASE j = k
      <4>1. Method[s][k] = "strict"  BY <1>4, <2>4, <3>2, Zenon DEF StrictLease
      <4> QED  BY <1>4, <3>1, <3>2, <4>1, Zenon
    <3>3. CASE j # k  BY <1>5, <3>1, <3>3, Zenon
    <3> QED  BY <3>2, <3>3, Zenon
  <2>5. ASSUME NEW j \in Keys, ~StrictLease(j)' PROVE tokens'[j] = NoToken
    <3>1. tokens[j] = NoToken  BY <2>3, <2>5, NoTokenStored, Zenon
    <3>2. CASE j = k
      <4>1. Method[s][k] # "strict"  BY <1>1, <2>3, <2>5, <3>2, Zenon DEF StrictLease
      <4> QED  BY <1>4, <3>1, <3>2, <4>1, Zenon
    <3>3. CASE j # k  BY <1>5, <3>1, <3>3, Zenon
    <3> QED  BY <3>2, <3>3, Zenon
  <2> QED  BY <1>4, <2>1, <2>2, <2>4, <2>5, StoreKept, Zenon
<1>9. ASSUME NEW t \in Sessions, t # s PROVE Backed(t)'
  <2>1. Holds(t) => leases'[handle[t].key] = leases[handle[t].key]
    BY <1>1, <1>5, <1>9, HolderKey, Zenon
  <2> QED  BY <1>4, <1>6, <1>9, <2>1, BackedFrame, Zenon
<1>10. Backed(s)'
  <2> SUFFICES ASSUME Holds(s)'
               PROVE  /\ leases'[k].by = s
                      /\ leases'[k].expires + Offset[s] + Slack(s, k) >= handle'[s].expires
    BY <1>4, Zenon DEF Backed, Slack
  <2>1. handle'[s].expires \in Nat /\ leases[k].expires \in Nat
    BY <1>1, LeaseFields, Zenon DEF IInv, TypeInv, HandleType
  <2>2. leases[k].expires <= clock + Ttl  BY <1>1, LeaseStored, Zenon
  <2>3. CASE handle'[s].expires <= Now(s) + Ttl + Slack(s, k)
    BY <1>2, <1>3, <1>4, <2>1, <2>3 DEF Now
  <2>4. CASE handle'[s].expires = handle[s].expires
    <3>1. Holds(s)  BY <1>4, <2>4, Zenon DEF Holds, Uses, Now, k
    <3>2. leases[k].expires + Offset[s] + Slack(s, k) >= handle[s].expires
      BY <3>1, Zenon DEF IInv, Backed, k
    <3> QED  BY <1>2, <1>3, <1>4, <2>1, <2>2, <2>4, <3>2
  <2> QED  BY <1>7, <2>3, <2>4, Zenon
<1> QED  BY <1>8, <1>9, <1>10, Zenon

LEMMA LeavesInv ==
    ASSUME Recognised, IInv, TypeInv', NEW s \in Sessions, Leaves(s)
    PROVE  StoreInv' /\ \A t \in Sessions : Backed(t)'
<1> DEFINE k == handle[s].key
<1>1. \/ UNCHANGED <<leases, tokens>>
      \/ /\ leases[k] # NoLease /\ leases[k].by = s /\ leases'[k] = NoLease
         /\ Method[s][k] # "strict" => tokens'[k] = tokens[k]
         /\ Method[s][k] = "strict" => tokens'[k] = NoToken
  BY OwnedIsOwn, Zenon DEF Leaves, Uses
<1>2. /\ k \in Keys /\ StrictKeys \subseteq Keys /\ "none" \notin Keys /\ handle[s].token \in Nat
  BY RedisAssumption, HandleFields, Zenon DEF IInv, Leaves
<1>3. /\ handle'[s].state = "done" /\ handle'[s].token = handle[s].token
      /\ k \in StrictKeys => handle'[s].key = k
      /\ k \notin StrictKeys => handle'[s].key = "none"
  <2>1. handle'[s] = Gone(k, handle[s].token)  BY Zenon DEF Leaves
  <2> DEFINE g == Gone(k, handle[s].token)
  <2>2. /\ g.state = "done" /\ g.token = handle[s].token
        /\ k \in StrictKeys => g.key = k
        /\ k \notin StrictKeys => g.key = "none"
    BY <1>2, GoneShape
  <2> QED  BY <2>1, <2>2, Zenon
<1>4. clock' = clock /\ counters' = counters /\ forced' = forced \ {s}  BY Zenon DEF Leaves
<1>5. \A j \in Keys : j # k => leases'[j] = leases[j] /\ tokens'[j] = tokens[j]
  BY Zenon DEF Leaves, OnlyKey
<1>6. \A t \in Sessions : t # s => handle'[t] = handle[t]  BY Zenon DEF Leaves, OnlyCaller
<1>7. StoreInv'
  <2>1. ASSUME NEW j \in Keys, leases'[j] # NoLease
        PROVE  leases'[j] = leases[j] /\ tokens'[j] = tokens[j]
    BY <1>1, <1>5, <2>1, Zenon
  <2>2. ASSUME NEW j \in Keys, leases'[j] # NoLease
        PROVE  /\ leases[j] # NoLease /\ leases'[j].by = leases[j].by
               /\ leases'[j].expires <= clock' + Ttl
    BY <1>4, <2>1, <2>2, LeaseStored, Zenon
  <2>3. ASSUME NEW t \in Sessions PROVE SameCaller(t)
    <3>1. CASE t = s  BY <1>2, <1>3, <3>1, Zenon DEF SameCaller
    <3>2. CASE t # s  BY <1>6, <3>2, CallerStored, Zenon DEF SameCaller
    <3> QED  BY <3>1, <3>2, Zenon
  <2>4. ASSUME NEW j \in Keys, StrictLease(j)'
        PROVE  tokens'[j] = [token |-> counters[j], expires |-> leases'[j].expires]
    <3>1. leases'[j] = leases[j] /\ tokens'[j] = tokens[j]
      BY <2>1, <2>4, Zenon DEF StrictLease
    <3>2. StrictLease(j)  BY <2>4, <3>1, Zenon DEF StrictLease
    <3>3. tokens[j] = [token |-> counters[j], expires |-> leases[j].expires]
      BY <3>2, StrictStored, Zenon
    <3> QED  BY <3>1, <3>3, Zenon
  <2>5. ASSUME NEW j \in Keys, ~StrictLease(j)' PROVE tokens'[j] = NoToken
    <3>1. CASE leases'[j] = leases[j]
      <4>1. ~StrictLease(j)  BY <2>5, <3>1, Zenon DEF StrictLease
      <4>2. tokens[j] = NoToken  BY <4>1, NoTokenStored, Zenon
      <4> QED  BY <1>1, <1>5, <4>2, Zenon
    <3>2. CASE leases'[j] # leases[j]
      <4>1. j = k /\ leases[k].by = s  BY <1>1, <1>5, <3>2, Zenon
      <4>2. CASE Method[s][k] = "strict"  BY <1>1, <3>2, <4>1, <4>2, Zenon
      <4>3. CASE Method[s][k] # "strict"
        <5>1. tokens[k] = NoToken  BY <4>1, <4>3, <1>2, NoTokenStored, Zenon DEF StrictLease
        <5> QED  BY <1>1, <3>2, <4>1, <4>3, <5>1, Zenon
      <4> QED  BY <4>2, <4>3, Zenon
    <3> QED  BY <3>1, <3>2, Zenon
  <2> QED  BY <1>4, <2>2, <2>3, <2>4, <2>5, StoreKept, Zenon
<1>8. ASSUME NEW t \in Sessions, t # s PROVE Backed(t)'
  <2>1. Holds(t) => leases'[handle[t].key] = leases[handle[t].key]
    BY <1>1, <1>5, <1>8, HolderKey, Zenon
  <2>2. t \in forced' <=> t \in forced  BY <1>4, <1>8, Zenon
  <2> QED  BY <1>4, <1>6, <1>8, <2>1, <2>2, BackedFrame, Zenon
<1>9. Backed(s)'  BY <1>3, Zenon DEF Backed, Holds
<1> QED  BY <1>7, <1>8, <1>9, Zenon

LEMMA SeizedInv ==
    ASSUME IInv, TypeInv', NEW k \in Keys, Seized(k)
    PROVE  StoreInv' /\ \A t \in Sessions : Backed(t)'
<1>0. /\ k \notin StrictKeys /\ leases'[k] = NoLease /\ tokens'[k] = NoToken /\ clock' = clock /\ handle' = handle
      /\ forced' = forced \cup {s \in Sessions : leases[k].by = s /\ handle[s].state # "done"}
      /\ \A j \in Keys : j # k => /\ leases'[j] = leases[j] /\ tokens'[j] = tokens[j]
                                  /\ counters'[j] = counters[j]
  BY Zenon DEF Seized, OnlyKey
<1>1. StoreInv'
  <2>0. StrictKeys \subseteq Keys  BY RedisAssumption, Zenon
  <2>1. ASSUME NEW j \in Keys, leases'[j] # NoLease
        PROVE  /\ leases[j] # NoLease /\ leases'[j].by = leases[j].by
               /\ leases'[j].expires <= clock' + Ttl
    <3>1. leases'[j] = leases[j]  BY <1>0, <2>1, Zenon
    <3> QED  BY <1>0, <2>1, <3>1, LeaseStored, Zenon
  <2>2. ASSUME NEW t \in Sessions PROVE SameCaller(t)
    BY <1>0, CallerStored, Zenon DEF SameCaller
  <2>3. \A j \in StrictKeys : /\ leases'[j] = leases[j] /\ tokens'[j] = tokens[j]
                              /\ counters'[j] = counters[j]
    BY <1>0, <2>0, Zenon
  <2>4. ASSUME NEW j \in Keys, StrictLease(j)'
        PROVE  tokens'[j] = [token |-> counters[j], expires |-> leases'[j].expires]
    <3>1. j # k  BY <1>0, <2>4, Zenon DEF StrictLease
    <3>2. leases'[j] = leases[j] /\ tokens'[j] = tokens[j]  BY <1>0, <3>1, Zenon
    <3>3. StrictLease(j)  BY <2>4, <3>2, Zenon DEF StrictLease
    <3>4. tokens[j] = [token |-> counters[j], expires |-> leases[j].expires]
      BY <3>3, StrictStored, Zenon
    <3> QED  BY <3>2, <3>4, Zenon
  <2>5. ASSUME NEW j \in Keys, ~StrictLease(j)' PROVE tokens'[j] = NoToken
    <3>1. CASE j = k  BY <1>0, <3>1, Zenon
    <3>2. CASE j # k
      <4>1. leases'[j] = leases[j] /\ tokens'[j] = tokens[j]  BY <1>0, <3>2, Zenon
      <4>2. ~StrictLease(j)  BY <2>5, <4>1, Zenon DEF StrictLease
      <4> QED  BY <4>1, <4>2, NoTokenStored, Zenon
    <3> QED  BY <3>1, <3>2, Zenon
  <2> QED  BY <2>1, <2>2, <2>3, <2>4, <2>5, StoreKept, Zenon
<1>2. ASSUME NEW t \in Sessions PROVE Backed(t)'
  <2>1. CASE Holds(t) /\ handle[t].key = k
    <3>1. leases[k].by = t /\ handle[t].state # "done"  BY <2>1, HolderKey, Zenon DEF Holds
    <3>2. t \in forced'  BY <1>0, <3>1, Zenon
    <3> QED  BY <3>2, Zenon DEF Backed, Holds
  <2>2. CASE Holds(t) /\ handle[t].key # k
    <3>1. leases'[handle[t].key] = leases[handle[t].key]  BY <1>0, <2>2, HolderKey, Zenon
    <3> QED  BY <1>0, <2>2, <3>1, Zenon DEF Backed, IInv, Slack
  <2>3. CASE ~Holds(t)
    <3>1. ~Holds(t)'  BY <1>0, <2>3, Zenon DEF Holds, Uses, Now
    <3> QED  BY <3>1, Zenon DEF Backed
  <2> QED  BY <2>1, <2>2, <2>3, Zenon
<1> QED  BY <1>1, <1>2, Zenon

LEMMA AgesInv ==
    ASSUME IInv, TypeInv', Ages
    PROVE  StoreInv' /\ \A t \in Sessions : Backed(t)'
<1>1. /\ clock \in Nat /\ Ttl \in Nat /\ StrictKeys \subseteq Keys
      /\ clock' = clock + 1 /\ counters' = counters /\ handle' = handle /\ forced' = forced
  BY RedisAssumption, Zenon DEF IInv, TypeInv, Ages
<1>2. ASSUME NEW j \in Keys, leases'[j] # NoLease
      PROVE  leases'[j] = leases[j] /\ ~(clock' > leases[j].expires)
  BY <1>2, Zenon DEF Ages
<1>3. StoreInv'
  <2>1. ASSUME NEW j \in Keys, leases'[j] # NoLease
        PROVE  /\ leases[j] # NoLease /\ leases'[j].by = leases[j].by
               /\ leases'[j].expires <= clock' + Ttl
    <3>1. leases'[j] = leases[j] /\ leases[j].expires \in Nat
      BY <1>2, <2>1, LeaseFields, Zenon DEF IInv
    <3>2. leases[j].expires <= clock + Ttl  BY <2>1, <3>1, LeaseStored, Zenon
    <3>3. leases[j].expires <= clock' + Ttl  BY <1>1, <3>1, <3>2
    <3> QED  BY <2>1, <3>1, <3>3, Zenon
  <2>2. ASSUME NEW t \in Sessions PROVE SameCaller(t)
    BY <1>1, CallerStored, Zenon DEF SameCaller
  <2>3. ASSUME NEW j \in Keys, StrictLease(j)'
        PROVE  tokens'[j] = [token |-> counters[j], expires |-> leases'[j].expires]
    <3>1. leases'[j] = leases[j] /\ ~(clock' > leases[j].expires)
      BY <1>2, <2>3, Zenon DEF StrictLease
    <3>2. StrictLease(j)  BY <2>3, <3>1, Zenon DEF StrictLease
    <3>3. tokens[j] = [token |-> counters[j], expires |-> leases[j].expires]
      BY <3>2, StrictStored, Zenon
    <3>4. tokens[j].expires = leases[j].expires  BY <3>3
    <3>5. tokens'[j] = tokens[j]  BY <3>1, <3>4, Zenon DEF Ages
    <3> QED  BY <3>1, <3>3, <3>5, Zenon
  <2>4. ASSUME NEW j \in Keys, ~StrictLease(j)' PROVE tokens'[j] = NoToken
    <3>1. CASE StrictLease(j)
      <4>0. tokens[j] = [token |-> counters[j], expires |-> leases[j].expires]
        BY <3>1, StrictStored, Zenon
      <4>1. tokens[j].expires = leases[j].expires  BY <4>0
      <4>2. leases'[j] # leases[j]  BY <2>4, <3>1, Zenon DEF StrictLease
      <4>3. clock' > leases[j].expires  BY <4>2, Zenon DEF Ages
      <4> QED  BY <4>1, <4>3, Zenon DEF Ages
    <3>2. CASE ~StrictLease(j)
      <4>1. tokens[j] = NoToken  BY <3>2, NoTokenStored, Zenon
      <4> QED  BY <4>1, Zenon DEF Ages
    <3> QED  BY <3>1, <3>2, Zenon
  <2> QED  BY <1>1, <2>1, <2>2, <2>3, <2>4, StoreKept, Zenon
<1>4. ASSUME NEW t \in Sessions, Holds(t)'
      PROVE  /\ leases'[handle[t].key].by = t
             /\ leases'[handle[t].key].expires + Offset[t] + Slack(t, handle[t].key)
                    >= handle[t].expires
  <2> DEFINE k == handle[t].key
  <2>1. /\ Slack(t, k) \in Nat /\ Offset[t] \in Nat /\ handle[t].expires \in Nat
    BY RedisAssumption, HandleFields, Zenon DEF Slack, IInv
  <2>2. /\ handle[t].state \in {"held", "lost"} /\ t \notin forced
        /\ clock + 1 + Offset[t] + Slack(t, k) <= handle[t].expires
    BY <1>1, <1>4, Zenon DEF Holds, Uses, Now, Slack
  <2>3. clock + Offset[t] + Slack(t, k) <= handle[t].expires  BY <1>1, <2>1, <2>2
  <2>4. Holds(t)  BY <2>2, <2>3, Zenon DEF Holds, Uses, Now, Slack
  <2>5. k \in Keys /\ leases[k].by = t /\ leases[k].expires \in Nat
    BY <2>4, HolderKey, LeaseFields, Zenon DEF IInv
  <2>6. leases[k].expires + Offset[t] + Slack(t, k) >= handle[t].expires
    BY <2>4, Zenon DEF IInv, Backed
  <2>7. ~(clock' > leases[k].expires)  BY <1>1, <2>1, <2>2, <2>5, <2>6
  <2>8. leases'[k] = leases[k]  BY <2>5, <2>7, Zenon DEF Ages
  <2> QED  BY <2>5, <2>6, <2>8, Zenon
<1>5. \A t \in Sessions : Backed(t)'  BY <1>1, <1>4, Zenon DEF Backed, Slack
<1> QED  BY <1>3, <1>5, Zenon

LEMMA IInvNext == ASSUME Recognised PROVE IInv /\ [Next]_vars => IInv'
<1> SUFFICES ASSUME IInv, [Next]_vars PROVE IInv'
  OBVIOUS
<1>1. TypeInv /\ TypeInv'  BY Steps DEF IInv
<1>2. CASE Idle
  <2>1. StoreInv'  BY <1>2, Zenon DEF Idle, IInv, StoreInv, StrictLease, Uses
  <2>2. \A t \in Sessions : Backed(t)'  BY <1>2, BackedFrame DEF Idle
  <2> QED  BY <1>1, <2>1, <2>2 DEF IInv
<1>3. CASE Ages  BY <1>1, <1>3, AgesInv DEF IInv
<1>4. ASSUME NEW k \in Keys, Seized(k) PROVE IInv'  BY <1>1, <1>4, SeizedInv DEF IInv
<1>5. ASSUME NEW s \in Sessions, Extends(s) PROVE IInv'  BY <1>1, <1>5, ExtendsInv DEF IInv
<1>6. ASSUME NEW s \in Sessions, Leaves(s) PROVE IInv'  BY <1>1, <1>6, LeavesInv DEF IInv
<1>7. ASSUME NEW s \in Sessions, NEW k \in Keys, Granted(s, k) PROVE IInv'
  BY <1>1, <1>7, GrantedStore, GrantedBacked DEF IInv
<1>8. \/ Idle \/ Ages \/ \E k \in Keys : Seized(k)
      \/ \E s \in Sessions : Extends(s) \/ Leaves(s) \/ \E k \in Keys : Granted(s, k)
  BY Steps, Zenon DEF IInv
<1> QED  BY <1>2, <1>3, <1>4, <1>5, <1>6, <1>7, <1>8, Zenon

\* The lease a caller relies on is in Redis and is its own, whatever the
\* offsets of the clocks, the delays and the answers that are lost: acquire,
\* renew and release never let two callers rely on one resource.
THEOREM RedisBacked == ASSUME Recognised PROVE Spec => []LeaseBacked
<1>1. Init => IInv  BY IInvInit
<1>2. IInv /\ [Next]_vars => IInv'  BY IInvNext
<1>3. IInv => LeaseBacked  BY LeaseBackedFromInv
<1> QED  BY <1>1, <1>2, <1>3, PTL DEF Spec

\* The token in the scripts of RenewStrict and ReleaseStrict is enough: no
\* step of another caller changes a live strict lease.
THEOREM RedisStrictHolder == ASSUME Recognised PROVE Spec => StrictOnlyHolder
<1> DEFINE A == \A k \in StrictKeys :
                    leases[k] # NoLease /\ leases'[k] # leases[k] =>
                        \A t \in Sessions \ {leases[k].by} : handle'[t] = handle[t]
<1>1. Init => IInv  BY IInvInit
<1>2. IInv /\ [Next]_vars => IInv'  BY IInvNext
<1>3. IInv /\ [Next]_vars => A
  <2> SUFFICES ASSUME IInv, [Next]_vars, NEW k \in StrictKeys,
                      leases[k] # NoLease, leases'[k] # leases[k],
                      NEW t \in Sessions \ {leases[k].by}
               PROVE  handle'[t] = handle[t]
    OBVIOUS
  <2>1. k \in Keys  BY RedisAssumption
  <2>2. CASE Idle \/ Ages \/ \E j \in Keys : Seized(j)  BY <2>2, Zenon DEF Idle, Ages, Seized
  <2>3. ASSUME NEW s \in Sessions, NEW j \in Keys, Granted(s, j) PROVE FALSE
    BY <2>1, <2>3, Zenon DEF Granted, OnlyKey
  <2>4. ASSUME NEW s \in Sessions, Extends(s) PROVE handle'[t] = handle[t]
    BY <2>1, <2>4, OwnedIsOwn, Zenon DEF Extends, OnlyKey, OnlyCaller
  <2>5. ASSUME NEW s \in Sessions, Leaves(s) PROVE handle'[t] = handle[t]
    BY <2>1, <2>5, OwnedIsOwn DEF Leaves, OnlyKey, OnlyCaller
  <2> QED  BY <2>2, <2>3, <2>4, <2>5, Steps DEF IInv
<1>4. IInv /\ [Next]_vars => [A]_vars  BY <1>3
<1> HIDE DEF A
<1>5. Spec => [][A]_vars  BY <1>1, <1>2, <1>4, PTL DEF Spec
<1> QED  BY <1>5 DEF StrictOnlyHolder, A

-----------------------------------------------------------------------------
(***************************************************************************)
(* The strict methods implement FencedLock.                                *)
(***************************************************************************)
LEMMA SameFunctions ==
    /\ LiveStrict = [k \in StrictKeys |-> LiveStrict[k]]
    /\ LiveStrict' = [k \in StrictKeys |-> LiveStrict'[k]]
    /\ LastGrant = [k \in StrictKeys |-> LastGrant[k]]
    /\ LastGrant' = [k \in StrictKeys |-> LastGrant'[k]]
BY DEF LiveStrict, LastGrant

\* A lease with a token is one that AcquireStrict granted.
LEMMA LiveIsStrict ==
    ASSUME IInv, NEW k \in StrictKeys
    PROVE  /\ StrictLease(k) => LiveStrict[k] = TRUE
           /\ ~StrictLease(k) => LiveStrict[k] = FALSE
<1>0. k \in Keys  BY RedisAssumption
<1>1. ASSUME StrictLease(k) PROVE Live(k) /\ tokens[k] # NoToken
  <2>1. leases[k] # NoLease /\ tokens[k].token = counters[k] /\ counters[k] # 0
    BY <1>0, <1>1, StrictStored, Zenon
  <2> QED  BY <2>1 DEF Live, NoToken
<1>2. ~StrictLease(k) => tokens[k] = NoToken  BY <1>0, NoTokenStored
<1> QED  BY <1>1, <1>2, Zenon DEF LiveStrict

LEMMA LiveIsStrictNext ==
    ASSUME IInv', NEW k \in StrictKeys
    PROVE  /\ StrictLease(k)' => LiveStrict'[k] = TRUE
           /\ ~StrictLease(k)' => LiveStrict'[k] = FALSE
<1>0. k \in Keys  BY RedisAssumption
<1>1. ASSUME StrictLease(k)' PROVE Live(k)' /\ tokens'[k] # NoToken
  <2>1. /\ tokens'[k] = [token |-> counters'[k], expires |-> leases'[k].expires]
        /\ handle'[leases'[k].by].key = k /\ handle'[leases'[k].by].token = counters'[k]
    BY <1>0, <1>1, Zenon DEF IInv, StoreInv
  <2>2. /\ leases'[k] # NoLease /\ leases'[k].by \in Sessions
        /\ Method[leases'[k].by][k] = "strict"
    BY <1>0, <1>1, Zenon DEF IInv, StoreInv, StrictLease
  <2>3. counters'[k] # 0  BY <1>0, <2>1, <2>2 DEF IInv, StoreInv, Uses
  <2> QED  BY <2>1, <2>2, <2>3 DEF Live, NoToken
<1>2. ~StrictLease(k)' => tokens'[k] = NoToken  BY <1>0, Zenon DEF IInv, StoreInv
<1> QED  BY <1>1, <1>2, Zenon DEF LiveStrict

\* Only a grant changes who was given the last token of a key.
LEMMA SameGrant ==
    ASSUME NEW k \in StrictKeys, counters'[k] = counters[k],
           \A s \in Sessions :
               (handle'[s].key = k /\ handle'[s].token # 0 /\ handle'[s].token = counters[k])
               <=> (handle[s].key = k /\ handle[s].token # 0 /\ handle[s].token = counters[k])
    PROVE  LastGrant'[k] = LastGrant[k]
<1>1. LastHolders(k)' = LastHolders(k)  BY DEF LastHolders
<1> QED  BY <1>1, Zenon DEF LastGrant

\* Every step but a grant leaves the tokens alone, and revives no lease.
LEMMA EndsOnly ==
    ASSUME Recognised, IInv, IInv',
           \/ Idle \/ Ages \/ \E k \in Keys : Seized(k)
           \/ \E s \in Sessions : Extends(s) \/ Leaves(s)
    PROVE  Lock!LapseSome
<1>1. StrictKeys \subseteq Keys /\ "none" \notin Keys  BY RedisAssumption
<1>2. ASSUME NEW k \in StrictKeys
      PROVE  (StrictLease(k)' => StrictLease(k)) /\ LastGrant'[k] = LastGrant[k]
  <2>1. CASE Idle \/ Ages \/ \E j \in Keys : Seized(j)
    <3>1. handle' = handle /\ counters'[k] = counters[k]
      BY <1>1, <2>1, Zenon DEF Idle, Ages, Seized, OnlyKey
    <3>2. StrictLease(k)' => StrictLease(k)
      BY <1>1, <2>1, Zenon DEF Idle, Ages, Seized, OnlyKey, StrictLease
    <3> QED  BY <3>1, <3>2, SameGrant
  <2>2. ASSUME NEW s \in Sessions, Extends(s)
        PROVE  (StrictLease(k)' => StrictLease(k)) /\ LastGrant'[k] = LastGrant[k]
    <3>1. /\ leases[handle[s].key] # NoLease
          /\ leases'[handle[s].key].by = leases[handle[s].key].by
      <4>1. leases'[handle[s].key] = [by |-> leases[handle[s].key].by, expires |-> clock + Ttl]
        BY <2>2, Zenon DEF Extends
      <4>2. leases[handle[s].key] # NoLease  BY <2>2, Zenon DEF Extends, Owned
      <4> QED  BY <4>1, <4>2
    <3>2. k # handle[s].key => leases'[k] = leases[k]  BY <1>1, <2>2, Zenon DEF Extends, OnlyKey
    <3>3. StrictLease(k)' => StrictLease(k)  BY <3>1, <3>2, Zenon DEF StrictLease
    <3>4. /\ handle'[s].key = handle[s].key /\ handle'[s].token = handle[s].token
          /\ counters' = counters /\ \A t \in Sessions : t # s => handle'[t] = handle[t]
      BY <2>2, Zenon DEF Extends, OnlyCaller
    <3>5. ASSUME NEW t \in Sessions
          PROVE  handle'[t].key = handle[t].key /\ handle'[t].token = handle[t].token
      BY <3>4, Zenon
    <3> QED  BY <3>3, <3>4, <3>5, SameGrant, Zenon
  <2>3. ASSUME NEW s \in Sessions, Leaves(s)
        PROVE  (StrictLease(k)' => StrictLease(k)) /\ LastGrant'[k] = LastGrant[k]
    <3>1. StrictLease(k)' => StrictLease(k)
      BY <1>1, <2>3, Zenon DEF Leaves, OnlyKey, StrictLease
    <3>2. /\ handle[s].key \in Keys /\ handle[s].token \in Nat
          /\ handle'[s] = Gone(handle[s].key, handle[s].token)
          /\ counters' = counters /\ \A t \in Sessions : t # s => handle'[t] = handle[t]
      BY <2>3, HandleFields, Zenon DEF Leaves, OnlyCaller, IInv
    <3>3. /\ handle'[s].token = handle[s].token
          /\ handle'[s].key = k <=> handle[s].key = k
      BY <1>1, <3>2, GoneShape
    <3>4. ASSUME NEW t \in Sessions
          PROVE  handle'[t].token = handle[t].token /\ (handle'[t].key = k <=> handle[t].key = k)
      BY <3>2, <3>3, Zenon
    <3> QED  BY <3>1, <3>2, <3>4, SameGrant, Zenon
  <2> QED  BY <2>1, <2>2, <2>3
<1>3. LiveStrict' \in [StrictKeys -> BOOLEAN]  BY DEF LiveStrict, Live
<1>4. LastGrant' = LastGrant  BY <1>2, SameFunctions
<1>5. \A k \in StrictKeys : LiveStrict'[k] => LiveStrict[k]
  BY <1>2, LiveIsStrict, LiveIsStrictNext, Zenon
<1> QED  BY <1>3, <1>4, <1>5, Zenon DEF Lock!LapseSome

\* A grant by AcquireStrict is a Grant of FencedLock, any other a stutter.
LEMMA GrantStep ==
    ASSUME IInv, IInv', NEW s \in Sessions, NEW k \in Keys, Granted(s, k)
    PROVE  \/ LiveStrict' = LiveStrict /\ LastGrant' = LastGrant
           \/ k \in StrictKeys /\ Lock!Grant(s, k)
<1>1. StrictKeys \subseteq Keys /\ "none" \notin Keys  BY RedisAssumption, Zenon
<1>2. handle[s].key = "none"
  <2>1. handle[s] = NoHandle  BY CallerStored, Zenon DEF Granted
  <2> QED  BY <2>1 DEF NoHandle
<1>a. /\ leases[k] = NoLease /\ leases'[k] # NoLease /\ leases'[k].by = s
      /\ handle'[s].key \in Keys => handle'[s].key = k
  <2>1. leases'[k] = [by |-> s, expires |-> clock + Ttl]  BY Zenon DEF Granted
  <2>2. leases'[k] # NoLease /\ leases'[k].by = s  BY <2>1, RedisAssumption DEF NoLease
  <2> QED  BY <2>2, Zenon DEF Granted
<1>c. \A j \in Keys : j # k => leases'[j] = leases[j] /\ counters'[j] = counters[j]
  BY Zenon DEF Granted, OnlyKey
<1>d. \A t \in Sessions : t # s => handle'[t] = handle[t]
  BY Zenon DEF Granted, OnlyCaller
<1>e. ~StrictLease(k) /\ (StrictLease(k)' <=> Method[s][k] = "strict")
  BY <1>a, Zenon DEF StrictLease
<1>3. ASSUME NEW j \in StrictKeys, j # k
      PROVE  LiveStrict'[j] = LiveStrict[j] /\ LastGrant'[j] = LastGrant[j]
  <2>1. StrictLease(j)' <=> StrictLease(j)  BY <1>1, <1>3, <1>c, Zenon DEF StrictLease
  <2>2. LastGrant'[j] = LastGrant[j]
    <3>1. handle'[s].key # j /\ handle[s].key # j  BY <1>1, <1>2, <1>3, <1>a, Zenon
    <3>2. ASSUME NEW t \in Sessions
          PROVE  /\ handle'[t].key = j <=> handle[t].key = j
                 /\ handle[t].key = j => handle'[t].token = handle[t].token
      BY <1>d, <3>1, Zenon
    <3>3. counters'[j] = counters[j]  BY <1>1, <1>3, <1>c, Zenon
    <3> QED  BY <3>2, <3>3, SameGrant, Zenon
  <2> QED  BY <2>1, <2>2, LiveIsStrict, LiveIsStrictNext, Zenon
<1>4. CASE k \notin StrictKeys  BY <1>3, <1>4, SameFunctions, Zenon
<1>5. CASE k \in StrictKeys /\ Method[s][k] # "strict"
  <2>1. handle'[s].token = 0 /\ counters'[k] = counters[k]  BY <1>5, Zenon DEF Granted
  <2>2. ASSUME NEW t \in Sessions
        PROVE  (handle'[t].key = k /\ handle'[t].token # 0 /\ handle'[t].token = counters[k])
               <=> (handle[t].key = k /\ handle[t].token # 0 /\ handle[t].token = counters[k])
    <3>1. CASE t = s  BY <1>1, <1>2, <2>1, <3>1, Zenon
    <3>2. CASE t # s  BY <1>d, <3>2, Zenon
    <3> QED  BY <3>1, <3>2, Zenon
  <2>3. LastGrant'[k] = LastGrant[k]  BY <1>5, <2>1, <2>2, SameGrant, Zenon
  <2>4. LiveStrict'[k] = LiveStrict[k]
    BY <1>5, <1>e, LiveIsStrict, LiveIsStrictNext, Zenon
  <2>5. LiveStrict' = LiveStrict  BY <1>3, <2>4, SameFunctions, Zenon
  <2>6. LastGrant' = LastGrant  BY <1>3, <2>3, SameFunctions, Zenon
  <2> QED  BY <2>5, <2>6, Zenon
<1>6. CASE k \in StrictKeys /\ Method[s][k] = "strict"
  <2>0. handle'[s].key = k /\ handle'[s].token = counters[k] + 1 /\ counters'[k] = counters[k] + 1
    BY <1>6, Zenon DEF Granted
  <2>1. LiveStrict[k] = FALSE /\ LiveStrict'[k] = TRUE
    BY <1>6, <1>e, LiveIsStrict, LiveIsStrictNext, Zenon
  <2>2. LastGrant'[k] = [by |-> s, token |-> LastGrant[k].token + 1]
    <3>1. counters[k] \in Nat  BY Zenon DEF IInv, TypeInv
    <3>2. ASSUME NEW t \in Sessions, t # s, handle'[t].key = k
          PROVE  handle'[t].token # counters'[k]
      <4>0. handle'[t] = handle[t]  BY <1>d, <3>2, Zenon
      <4>1. handle[t].token <= counters[k]  BY <1>6, <3>2, <4>0, CallerStored, Zenon
      <4>2. handle[t].token \in Nat  BY HandleFields, Zenon DEF IInv
      <4>3. handle[t].token # counters[k] + 1  BY <3>1, <4>1, <4>2
      <4> QED  BY <2>0, <4>0, <4>3, Zenon
    <3>3. handle'[s].token # 0  BY <2>0, <3>1
    <3>4. LastHolders(k)' = {s}  BY <2>0, <3>2, <3>3, Zenon DEF LastHolders
    <3>5. LastHolders(k)' # {} /\ (CHOOSE t \in LastHolders(k)' : TRUE) = s  BY <3>4, Zenon
    <3> QED  BY <1>6, <2>0, <3>1, <3>5, Zenon DEF LastGrant
  <2>3. LiveStrict' = [LiveStrict EXCEPT ![k] = TRUE]  BY <1>3, <2>1, SameFunctions, Zenon
  <2>4. LastGrant' = [LastGrant EXCEPT ![k] = [by |-> s, token |-> @.token + 1]]
    BY <1>3, <2>2, SameFunctions, Zenon
  <2> QED  BY <1>6, <2>1, <2>3, <2>4, Zenon DEF Lock!Grant
<1> QED  BY <1>4, <1>5, <1>6, Zenon

LEMMA LockInit == Init => Lock!Init
<1> SUFFICES ASSUME Init PROVE Lock!Init  OBVIOUS
<1>0. StrictKeys \subseteq Keys  BY RedisAssumption
<1>1. LiveStrict = [k \in StrictKeys |-> FALSE]  BY <1>0, Zenon DEF Init, LiveStrict, Live
<1>2. ASSUME NEW k \in StrictKeys PROVE LastGrant[k] = [by |-> "nobody", token |-> 0]
  <2>1. LastHolders(k) = {}  BY <1>0, RedisAssumption DEF Init, LastHolders, NoHandle
  <2> QED  BY <1>0, <2>1 DEF Init, LastGrant
<1> QED  BY <1>1, <1>2, SameFunctions DEF Lock!Init

\* The strict scripts of the Redis driver implement FencedLock: at most one
\* live lease per key, and every new one with a larger token, although keys
\* expire by themselves and answers are lost.
THEOREM RedisStrictRefines == ASSUME Recognised PROVE Spec => ImplementsFencedLock
<1>1. Init => IInv /\ Lock!Init  BY IInvInit, LockInit
<1>2. IInv /\ [Next]_vars => IInv'  BY IInvNext
<1>3. IInv /\ [Next]_vars => [Lock!Next]_<<LiveStrict, LastGrant>>
  <2> SUFFICES ASSUME IInv, [Next]_vars PROVE [Lock!Next]_<<LiveStrict, LastGrant>>
    OBVIOUS
  <2>0. IInv'  BY <1>2
  <2>1. CASE \/ Idle \/ Ages \/ \E k \in Keys : Seized(k)
             \/ \E s \in Sessions : Extends(s) \/ Leaves(s)
    BY <2>0, <2>1, EndsOnly DEF Lock!Next
  <2>2. ASSUME NEW s \in Sessions, NEW k \in Keys, Granted(s, k)
        PROVE  [Lock!Next]_<<LiveStrict, LastGrant>>
    BY <2>0, <2>2, GrantStep DEF Lock!Next, Lock!Step
  <2> QED  BY <2>1, <2>2, Steps DEF IInv
<1>4. [Lock!Next]_<<LiveStrict, LastGrant>> => [Lock!Next]_(Lock!vars)  BY DEF Lock!vars
<1> QED  BY <1>1, <1>2, <1>3, <1>4, PTL DEF Spec, ImplementsFencedLock, Lock!Spec

\* Fencing tokens increase across successive acquires of a boundary, if no
\* operator deletes the fence counter.
THEOREM RedisTokensIncrease == ASSUME Recognised PROVE Spec => TokensIncrease
<1> DEFINE A == \A s, t \in Sessions :
                    (/\ handle[s].state = "new" /\ handle'[s].state # "new"
                     /\ handle'[s].key \in StrictKeys /\ Method[s][handle'[s].key] = "strict"
                     /\ handle[t].key = handle'[s].key)
                    => handle[t].token < handle'[s].token
<1>1. Init => IInv  BY IInvInit
<1>2. IInv /\ [Next]_vars => IInv'  BY IInvNext
<1>3. IInv /\ [Next]_vars => A
  <2> SUFFICES ASSUME IInv, [Next]_vars, NEW s \in Sessions, NEW t \in Sessions,
                      handle[s].state = "new", handle'[s].state # "new",
                      handle'[s].key \in StrictKeys, Method[s][handle'[s].key] = "strict",
                      handle[t].key = handle'[s].key
               PROVE  handle[t].token < handle'[s].token
    BY Zenon
  <2>1. handle' # handle  OBVIOUS
  <2>2. ASSUME NEW u \in Sessions, Extends(u) \/ Leaves(u) PROVE FALSE
    BY <2>2, Zenon DEF Extends, Leaves, OnlyCaller
  <2>3. ASSUME NEW u \in Sessions, NEW k \in Keys, Granted(u, k)
        PROVE  handle[t].token < handle'[s].token
    <3>1. u = s  BY <2>3, Zenon DEF Granted, OnlyCaller
    <3>0. handle'[s].key = k
      <4>1. handle'[s].key \in Keys  BY RedisAssumption, Zenon
      <4> QED  BY <2>3, <3>1, <4>1, Zenon DEF Granted
    <3>2. k \in StrictKeys /\ handle'[s].token = counters[k] + 1 /\ handle[t].key = k
      BY <2>3, <3>0, <3>1, Zenon DEF Granted
    <3>3. handle[t].token <= counters[k]  BY <3>2, CallerStored, Zenon
    <3>4. handle[t].token \in Nat /\ counters[k] \in Nat
      BY <2>3, HandleFields, Zenon DEF IInv, TypeInv
    <3> QED  BY <3>2, <3>3, <3>4
  <2>4. ~Idle /\ ~Ages /\ \A k \in Keys : ~Seized(k)  BY <2>1, Zenon DEF Idle, Ages, Seized
  <2> QED  BY <2>2, <2>3, <2>4, Steps, Zenon DEF IInv
<1>4. IInv /\ [Next]_vars => [A]_vars  BY <1>3, Zenon
<1> HIDE DEF A
<1>5. Spec => [][A]_vars  BY <1>1, <1>2, <1>4, PTL DEF Spec
<1> QED  BY <1>5 DEF TokensIncrease, A

-----------------------------------------------------------------------------
(***************************************************************************)
(* The lineage sets.                                                       *)
(***************************************************************************)
\* A bounded set of numbers that is not empty has a greatest element.
LEMMA MaxFacts ==
    ASSUME NEW S \in SUBSET Nat, S # {}, NEW b \in Nat, \A x \in S : x <= b
    PROVE  Max(S) \in S /\ \A x \in S : x <= Max(S)
<1> DEFINE T == {b - x : x \in S}
           R == OpToRel(<, Nat)
<1>1. T \subseteq Nat /\ T # {}
  <2>1. \A x \in S : x \in Nat /\ b - x \in Nat  OBVIOUS
  <2> QED  BY <2>1, Zenon
<1>2. PICK m \in T : \A y \in T : ~(<<y, m>> \in R)
  <2>1. IsWellFoundedOn(R, Nat)  BY NatLessThanWellFounded, Zenon
  <2> HIDE DEF T, R
  <2> QED  BY <1>1, <2>1, WFMin, Zenon
<1>3. PICK x \in S : m = b - x  OBVIOUS
<1>4. ASSUME NEW y \in S PROVE x >= y
  <2>1. b - y \in Nat /\ m \in Nat /\ b - y \in T  BY <1>1, <1>3
  <2>2. ~(b - y < m)
    <3>1. ~(<<b - y, m>> \in R)  BY <1>2, <2>1, Zenon
    <3> QED  BY <2>1, <3>1 DEF OpToRel
  <2> QED  BY <1>3, <2>1, <2>2
<1>5. \E z \in S : \A y \in S : z >= y  BY <1>4
<1>6. Max(S) \in S /\ \A y \in S : Max(S) >= y  BY <1>5, Zenon DEF Max
<1>7. \A y \in S : y \in Nat  OBVIOUS
<1> QED  BY <1>6, <1>7

\* Two numbers have a maximum.
LEMMA MaxOfTwo ==
    ASSUME NEW x \in Int, NEW y \in Int
    PROVE  LET m == Max({x, y}) IN m \in {x, y} /\ x <= m /\ y <= m
<1>1. \E z \in {x, y} : \A w \in {x, y} : z >= w
  <2>1. CASE x >= y  BY <2>1
  <2>2. CASE y >= x  BY <2>2
  <2> QED  BY <2>1, <2>2
<1>2. Max({x, y}) \in {x, y} /\ \A w \in {x, y} : Max({x, y}) >= w  BY <1>1 DEF Max
<1> QED  BY <1>2

\* The clocks of the sessions are not arbitrarily far ahead of the server's.
Bounded == Sessions # {} /\ \E b \in Nat : \A s \in Sessions : Offset[s] <= b

LEMMA SkewFacts ==
    ASSUME Bounded
    PROVE  Skew \in Nat /\ \A s \in Sessions : Offset[s] <= Skew
<1> DEFINE S == {Offset[s] : s \in Sessions}
<1>1. PICK b \in Nat : \A s \in Sessions : Offset[s] <= b  BY DEF Bounded
<1>2. S \in SUBSET Nat /\ S # {} /\ \A x \in S : x <= b  BY <1>1, RedisAssumption DEF Bounded
<1>3. Max(S) \in S /\ \A x \in S : x <= Max(S)
  <2> HIDE DEF S
  <2> QED  BY <1>2, MaxFacts
<1> QED  BY <1>2, <1>3 DEF Skew

LEMMA LatestFacts ==
    ASSUME NEW z \in [Sessions -> Nat], Sessions # {}, NEW b \in Nat,
           \A s \in Sessions : z[s] <= b
    PROVE  /\ Latest(z) \in Nat /\ Latest(z) <= b
           /\ \A s \in Sessions : z[s] <= Latest(z)
<1> DEFINE S == {z[s] : s \in Sessions}
<1>1. S \in SUBSET Nat /\ S # {} /\ \A x \in S : x <= b  OBVIOUS
<1>2. Max(S) \in S /\ \A x \in S : x <= Max(S)
  <2> HIDE DEF S
  <2> QED  BY <1>1, MaxFacts, Zenon
<1> QED  BY <1>1, <1>2 DEF Latest

MembersType == /\ members \in [Keys -> [Sessions -> Nat]]
               /\ deadline \in [Keys -> Int]

\* The TTL of a lineage set, which the server counts, against its scores,
\* which the clients wrote.
SetInv(a) ==
    /\ \A r \in Sessions : members[a][r] <= clock + Skew + Ttl
    /\ \A r \in Sessions : members[a][r] # 0 => members[a][r] <= deadline[a] + Skew
    /\ members[a] # Empty => clock <= deadline[a]
    /\ deadline[a] <= clock + Ttl + Skew + Lag

\* A lease is named in the sets above it until the fastest clock says it is over.
Named(s) == Holds(s) /\ Uses(s) = "lineage" /\ handle[s].expires > clock + Skew =>
                \A a \in Ancestors[handle[s].key] : members[a][s] >= handle[s].expires

LineageInv == MembersType /\ (\A a \in Keys : SetInv(a)) /\ \A s \in Sessions : Named(s)

\* What a script does to one set.
Same(a) == members'[a] = members[a] /\ deadline'[a] = deadline[a]
Trimmed(a, now) ==
    /\ members'[a] = Prune(members[a], now)
    /\ deadline'[a] = IF members'[a] = Empty THEN 0 ELSE deadline[a]
Joined(a, s, now) ==
    /\ members'[a] = Prune([members[a] EXCEPT ![s] = now + Ttl], now)
    /\ deadline'[a] = Max({deadline[a], clock + Latest(members'[a]) - now})
Left(a, s, now) ==
    /\ members'[a] = Prune([members[a] EXCEPT ![s] = 0], now)
    /\ deadline'[a] = IF members'[a] = Empty THEN 0 ELSE clock + Latest(members'[a]) - now

LEMMA PruneShape ==
    ASSUME NEW z \in [Sessions -> Nat], NEW now \in Nat
    PROVE  /\ Prune(z, now) \in [Sessions -> Nat]
           /\ \A r \in Sessions : \/ Prune(z, now)[r] = z[r] /\ z[r] > now
                                  \/ Prune(z, now)[r] = 0 /\ z[r] <= now
BY DEF Prune

LEMMA NotEmpty ==
    ASSUME NEW z \in [Sessions -> Nat]
    PROVE  z # Empty <=> \E r \in Sessions : z[r] # 0
BY DEF Empty

\* The numbers that the scripts work with.
LEMMA ClockFacts ==
    ASSUME TypeInv, Bounded, NEW s \in Sessions, NEW now \in Before(s)
    PROVE  /\ clock \in Nat /\ Ttl \in Nat /\ Ttl > 0 /\ Lag \in Nat /\ Skew \in Nat
           /\ now \in Nat /\ now <= clock + Skew /\ now + Lag >= clock
           /\ now + Ttl >= handle[s].expires
<1>1. /\ clock \in Nat /\ Ttl \in Nat /\ Ttl > 0 /\ Lag \in Nat /\ Skew \in Nat
      /\ Offset[s] \in Nat /\ Offset[s] <= Skew
  BY RedisAssumption, SkewFacts DEF TypeInv
<1>2. /\ now \in Nat /\ now <= Now(s) /\ now + Lag >= Now(s) /\ now + Ttl >= handle[s].expires
  BY NowFacts
<1> QED  BY <1>1, <1>2 DEF Now

\* A set after a script: the bounds hold again, and no score that is ahead of
\* every clock was removed, except by its owner.
SetKept(a, s) ==
    /\ members'[a] \in [Sessions -> Nat] /\ deadline'[a] \in Int
    /\ \A r \in Sessions : members'[a][r] <= clock + Skew + Ttl
    /\ \A r \in Sessions : members'[a][r] # 0 => members'[a][r] <= deadline'[a] + Skew
    /\ members'[a] # Empty => clock <= deadline'[a]
    /\ deadline'[a] <= clock + Ttl + Skew + Lag
    /\ \A r \in Sessions \ {s} : members[a][r] > clock + Skew => members'[a][r] = members[a][r]

LEMMA TrimmedKept ==
    ASSUME TypeInv, Bounded, LineageInv, NEW s \in Sessions, NEW now \in Before(s),
           NEW a \in Keys, Same(a) \/ Trimmed(a, now)
    PROVE  /\ SetKept(a, s)
           /\ members[a][s] > clock + Skew => members'[a][s] = members[a][s]
<1> DEFINE z == members[a]
<1>1. z \in [Sessions -> Nat] /\ deadline[a] \in Int /\ SetInv(a)
  BY DEF LineageInv, MembersType
<1>2. /\ clock \in Nat /\ Ttl \in Nat /\ Lag \in Nat /\ Skew \in Nat
      /\ now \in Nat /\ now <= clock + Skew
  BY ClockFacts
<1>3. CASE Same(a)  BY <1>1, <1>2, <1>3, Zenon DEF Same, SetKept, SetInv
<1>4. CASE Trimmed(a, now)
  <2>1. /\ members'[a] \in [Sessions -> Nat]
        /\ \A r \in Sessions : \/ members'[a][r] = z[r] /\ z[r] > now
                               \/ members'[a][r] = 0 /\ z[r] <= now
    BY <1>1, <1>2, <1>4, PruneShape DEF Trimmed
  <2>2. members'[a] # Empty => members[a] # Empty  BY <1>1, <2>1, NotEmpty
  <2>3. /\ members'[a] = Empty => deadline'[a] = 0
        /\ members'[a] # Empty => deadline'[a] = deadline[a]
    BY <1>4 DEF Trimmed
  <2>4. \A r \in Sessions : z[r] > clock + Skew => members'[a][r] = z[r]
    BY <1>1, <1>2, <2>1
  <2>5. \A r \in Sessions : members'[a][r] <= clock + Skew + Ttl
    BY <1>1, <1>2, <2>1 DEF SetInv
  <2>6. \A r \in Sessions : members'[a][r] # 0 => members'[a][r] <= deadline'[a] + Skew
    BY <1>1, <2>1, <2>3, NotEmpty, Zenon DEF SetInv
  <2>7. /\ deadline'[a] \in Int /\ deadline'[a] <= clock + Ttl + Skew + Lag
        /\ members'[a] # Empty => clock <= deadline'[a]
    BY <1>1, <1>2, <2>2, <2>3 DEF SetInv
  <2> QED  BY <2>1, <2>4, <2>5, <2>6, <2>7, Zenon DEF SetKept
<1> QED  BY <1>3, <1>4

LEMMA JoinedKept ==
    ASSUME TypeInv, Bounded, LineageInv, NEW s \in Sessions, NEW now \in Before(s),
           NEW a \in Keys, Joined(a, s, now)
    PROVE  SetKept(a, s) /\ members'[a][s] = now + Ttl
<1> DEFINE z == [members[a] EXCEPT ![s] = now + Ttl]
           x == clock + Latest(members'[a]) - now
<1>1. members[a] \in [Sessions -> Nat] /\ deadline[a] \in Int /\ SetInv(a)
  BY DEF LineageInv, MembersType
<1>2. /\ clock \in Nat /\ Ttl \in Nat /\ Ttl > 0 /\ Lag \in Nat /\ Skew \in Nat
      /\ now \in Nat /\ now <= clock + Skew /\ now + Lag >= clock
  BY ClockFacts
<1>3. /\ z \in [Sessions -> Nat] /\ z[s] = now + Ttl
      /\ \A r \in Sessions \ {s} : z[r] = members[a][r]
  BY <1>1, <1>2
<1>4. /\ members'[a] \in [Sessions -> Nat]
      /\ \A r \in Sessions : \/ members'[a][r] = z[r] /\ z[r] > now
                             \/ members'[a][r] = 0 /\ z[r] <= now
  <2>1. members'[a] = Prune(z, now)  BY DEF Joined
  <2>2. z \in [Sessions -> Nat] /\ now \in Nat  BY <1>2, <1>3
  <2> HIDE DEF z
  <2>3. /\ Prune(z, now) \in [Sessions -> Nat]
        /\ \A r \in Sessions : \/ Prune(z, now)[r] = z[r] /\ z[r] > now
                               \/ Prune(z, now)[r] = 0 /\ z[r] <= now
    BY <2>2, PruneShape
  <2> QED  BY <2>1, <2>3
<1> HIDE DEF z
<1>5. members'[a][s] = now + Ttl  BY <1>2, <1>3, <1>4
<1>6. \A r \in Sessions : members'[a][r] <= clock + Skew + Ttl
  BY <1>1, <1>2, <1>3, <1>4 DEF SetInv
<1>7. /\ Latest(members'[a]) \in Nat /\ Latest(members'[a]) <= clock + Skew + Ttl
      /\ \A r \in Sessions : members'[a][r] <= Latest(members'[a])
  <2>1. clock + Skew + Ttl \in Nat  BY <1>2
  <2> QED  BY <1>4, <1>6, <2>1, LatestFacts, Zenon
<1>8. /\ x \in Int /\ x >= clock + Ttl /\ x <= clock + Ttl + Skew + Lag
      /\ \A r \in Sessions : members'[a][r] <= x + Skew
  <2>1. now + Ttl <= Latest(members'[a])  BY <1>5, <1>7
  <2>2. \A r \in Sessions : members'[a][r] \in Nat  BY <1>4
  <2> QED  BY <1>2, <1>7, <2>1, <2>2
<1>9. /\ deadline'[a] \in {deadline[a], x} /\ x <= deadline'[a]
  <2> HIDE DEF x
  <2>1. deadline'[a] = Max({deadline[a], x})  BY DEF Joined, x
  <2> QED  BY <1>1, <1>8, <2>1, MaxOfTwo, Zenon
<1> HIDE DEF x
<1>10. /\ deadline'[a] \in Int /\ clock <= deadline'[a]
       /\ deadline'[a] <= clock + Ttl + Skew + Lag
       /\ \A r \in Sessions : members'[a][r] <= deadline'[a] + Skew
  <2>1. deadline[a] <= clock + Ttl + Skew + Lag  BY <1>1 DEF SetInv
  <2>2. \A r \in Sessions : members'[a][r] \in Nat  BY <1>4
  <2> QED  BY <1>1, <1>2, <1>8, <1>9, <2>1, <2>2
<1>11. \A r \in Sessions \ {s} : members[a][r] > clock + Skew => members'[a][r] = members[a][r]
  BY <1>1, <1>2, <1>3, <1>4
<1> QED  BY <1>4, <1>5, <1>6, <1>10, <1>11, Zenon DEF SetKept

LEMMA LeftKept ==
    ASSUME TypeInv, Bounded, LineageInv, NEW s \in Sessions, NEW now \in Before(s),
           NEW a \in Keys, Left(a, s, now)
    PROVE  SetKept(a, s)
<1> DEFINE z == [members[a] EXCEPT ![s] = 0]
           x == clock + Latest(members'[a]) - now
<1>1. members[a] \in [Sessions -> Nat] /\ SetInv(a)
  BY DEF LineageInv, MembersType
<1>2. /\ clock \in Nat /\ Ttl \in Nat /\ Ttl > 0 /\ Lag \in Nat /\ Skew \in Nat
      /\ now \in Nat /\ now <= clock + Skew /\ now + Lag >= clock
  BY ClockFacts
<1>3. /\ z \in [Sessions -> Nat] /\ z[s] = 0
      /\ \A r \in Sessions \ {s} : z[r] = members[a][r]
  BY <1>1
<1>4. /\ members'[a] \in [Sessions -> Nat]
      /\ \A r \in Sessions : \/ members'[a][r] = z[r] /\ z[r] > now
                             \/ members'[a][r] = 0 /\ z[r] <= now
  <2>1. members'[a] = Prune(z, now)  BY DEF Left
  <2>2. z \in [Sessions -> Nat] /\ now \in Nat  BY <1>2, <1>3
  <2> HIDE DEF z
  <2>3. /\ Prune(z, now) \in [Sessions -> Nat]
        /\ \A r \in Sessions : \/ Prune(z, now)[r] = z[r] /\ z[r] > now
                               \/ Prune(z, now)[r] = 0 /\ z[r] <= now
    BY <2>2, PruneShape
  <2> QED  BY <2>1, <2>3
<1> HIDE DEF z
<1>5. \A r \in Sessions : members'[a][r] <= clock + Skew + Ttl
  BY <1>1, <1>2, <1>3, <1>4 DEF SetInv
<1>6. \A r \in Sessions \ {s} : members[a][r] > clock + Skew => members'[a][r] = members[a][r]
  BY <1>1, <1>2, <1>3, <1>4
<1>7. CASE members'[a] = Empty
  <2>1. deadline'[a] = 0 /\ \A r \in Sessions : members'[a][r] = 0
    BY <1>4, <1>7, NotEmpty, Zenon DEF Left
  <2> QED  BY <1>2, <1>4, <1>5, <1>6, <1>7, <2>1 DEF SetKept
<1>8. CASE members'[a] # Empty
  <2>1. deadline'[a] = x  BY <1>8 DEF Left
  <2>2. PICK q \in Sessions : members'[a][q] # 0  BY <1>4, <1>8, NotEmpty
  <2>3. /\ Latest(members'[a]) \in Nat /\ Latest(members'[a]) <= clock + Skew + Ttl
        /\ \A r \in Sessions : members'[a][r] <= Latest(members'[a])
    <3>1. clock + Skew + Ttl \in Nat  BY <1>2
    <3> QED  BY <1>4, <1>5, <3>1, LatestFacts, Zenon
  <2>4. now < Latest(members'[a])  BY <1>2, <1>3, <1>4, <2>2, <2>3
  <2>5. \A r \in Sessions : members'[a][r] \in Nat  BY <1>4
  <2>6. /\ x \in Int /\ x >= clock /\ x <= clock + Ttl + Skew + Lag
        /\ \A r \in Sessions : members'[a][r] <= x + Skew
    BY <1>2, <2>3, <2>4, <2>5
  <2> HIDE DEF x
  <2> QED  BY <1>4, <1>5, <1>6, <2>1, <2>6, ZenonT(60) DEF SetKept
<1> QED  BY <1>7, <1>8

-----------------------------------------------------------------------------
\* What the actions do to the lineage sets.
\* The sets that a lease of k is named in, if s takes it.
Under(s, k) == IF Method[s][k] = "lineage" THEN Ancestors[k] ELSE {}

LineageGrant(s, k, now) ==
    /\ \A a \in Keys : /\ a \in Under(s, k) => Joined(a, s, now)
                       /\ a \notin Under(s, k) => Same(a) \/ Trimmed(a, now)
    /\ handle'[s].state = "held" => handle'[s].expires = now + Ttl
    /\ Method[s][k] = "lineage" => /\ Prune(members[k], now) = Empty
                                   /\ \A a \in Ancestors[k] : leases[a] = NoLease

LEMMA AncestorKeys ==
    ASSUME NEW k \in Keys
    PROVE  k \notin Ancestors[k] /\ \A a \in Ancestors[k] : a \in Keys
BY RedisAssumption

LEMMA AskedKeys ==
    ASSUME NEW s \in Sessions, NEW k \in Asks[s]
    PROVE  k \in Keys
BY RedisAssumption

LEMMA RegisterShape ==
    ASSUME NEW s \in Sessions, NEW k \in Keys, NEW now, NEW zs, NEW ds,
           Register(s, k, now, zs, ds), NEW a \in Keys
    PROVE  /\ a \in Ancestors[k] /\ zs[a] = members[a] => Joined(a, s, now)
           /\ a \notin Ancestors[k] => members'[a] = zs[a] /\ deadline'[a] = ds[a]
<1>1. CASE a \in Ancestors[k]
  <2>1. /\ members'[a] = Prune([zs[a] EXCEPT ![s] = now + Ttl], now)
        /\ deadline'[a] = Extended(a, Prune([zs[a] EXCEPT ![s] = now + Ttl], now), now)
    BY <1>1 DEF Register
  <2> QED  BY <1>1, <2>1 DEF Joined, Extended
<1>2. CASE a \notin Ancestors[k]  BY <1>2 DEF Register
<1> QED  BY <1>1, <1>2

LEMMA AcquireSets ==
    ASSUME TypeInv, MembersType, NEW s \in Sessions, NEW k \in Keys, AcquireAny(s, k)
    PROVE  \E now \in Before(s) :
              \/ Granted(s, k) /\ LineageGrant(s, k, now)
              \/ Idle /\ \A a \in Keys : Same(a) \/ Trimmed(a, now)
<1>1. handle[s].state = "new" /\ (Granted(s, k) \/ Idle)  BY AcquireEffect DEF AcquireAny
<1>2. \A now \in Before(s) : now + Ttl \in Nat
  <2>1. Ttl \in Nat  BY RedisAssumption
  <2> QED  BY <2>1, NowFacts
<1>3. ASSUME NEW now \in Before(s), NEW token \in Nat, Obtain(s, k, now + Ttl, token)
      PROVE  Granted(s, k) /\ (handle'[s].state = "held" => handle'[s].expires = now + Ttl)
  <2>1. /\ handle'[s].state \in {"held", "done"}
        /\ handle'[s].state = "held" => handle'[s].expires = now + Ttl
    BY <1>2, <1>3, ObtainEffect, Zenon
  <2> QED  BY <1>1, <2>1, Zenon DEF Idle
<1>4. CASE Acquire(s, k) \/ AcquireStrict(s, k)
  <2>1. Method[s][k] # "lineage" /\ UNCHANGED <<members, deadline>>
    BY <1>4 DEF Acquire, AcquireStrict
  <2>2. PICK now \in Before(s) : \E token \in Nat : Obtain(s, k, now + Ttl, token)
    <3>1. CASE Acquire(s, k)  BY <3>1 DEF Acquire
    <3>2. CASE AcquireStrict(s, k)
      <4>1. counters'[k] \in Nat  BY AcquireEffect, Zenon DEF TypeInv
      <4> QED  BY <3>2, <4>1 DEF AcquireStrict
    <3> QED  BY <1>4, <3>1, <3>2
  <2>3. Granted(s, k) /\ (handle'[s].state = "held" => handle'[s].expires = now + Ttl)
    BY <1>3, <2>2
  <2>4. Under(s, k) = {}  BY <2>1, Zenon DEF Under
  <2> QED  BY <2>1, <2>3, <2>4, Zenon DEF LineageGrant, Same
<1>5. CASE AcquireWithLineage(s, k)
  <2> DEFINE own(now) == Prune(members[k], now)
             zs(now) == [members EXCEPT ![k] = own(now)]
             ds(now) == [deadline EXCEPT ![k] = IF own(now) = Empty THEN 0 ELSE @]
  <2>1. PICK now \in Before(s) :
          \/ lineageAcquireScript(s, k, now, TRUE) /\ Obtain(s, k, now + Ttl, 0)
          \/ lineageAcquireScript(s, k, now, FALSE) /\ UNCHANGED <<clock, handle, forced>>
    BY <1>5, Zenon DEF AcquireWithLineage
  <2>2. /\ zs(now)[k] = Prune(members[k], now)
        /\ ds(now)[k] = IF zs(now)[k] = Empty THEN 0 ELSE deadline[k]
        /\ \A a \in Keys \ {k} : zs(now)[a] = members[a] /\ ds(now)[a] = deadline[a]
    BY DEF MembersType
  <2>3. CASE lineageAcquireScript(s, k, now, TRUE) /\ Obtain(s, k, now + Ttl, 0)
    <3>1. Free(k, own(now)) /\ Register(s, k, now, zs(now), ds(now))
      BY <2>3 DEF lineageAcquireScript
    <3>2. k \notin Ancestors[k]  BY AncestorKeys, ZenonT(60)
    <3> HIDE DEF zs, ds
    <3>3. ASSUME NEW a \in Keys
          PROVE  /\ a \in Ancestors[k] => Joined(a, s, now)
                 /\ a \notin Ancestors[k] => Same(a) \/ Trimmed(a, now)
      BY <2>2, <3>1, <3>2, RegisterShape DEF Same, Trimmed
    <3>6. Under(s, k) = Ancestors[k]  BY <1>5, Zenon DEF AcquireWithLineage, Under
    <3>4. Granted(s, k) /\ (handle'[s].state = "held" => handle'[s].expires = now + Ttl)
      BY <1>3, <2>3
    <3>5. Prune(members[k], now) = Empty /\ \A a \in Ancestors[k] : leases[a] = NoLease
      BY <3>1 DEF Free
    <3> QED  BY <3>3, <3>4, <3>5, <3>6, Zenon DEF LineageGrant
  <2>4. CASE lineageAcquireScript(s, k, now, FALSE) /\ UNCHANGED <<clock, handle, forced>>
    <3>1. members' = zs(now) /\ deadline' = ds(now)  BY <2>4, Zenon DEF lineageAcquireScript
    <3>2. \A a \in Keys : Same(a) \/ Trimmed(a, now)
      <4> HIDE DEF zs, ds
      <4> QED  BY <2>2, <3>1 DEF Same, Trimmed
    <3>3. Idle  BY <1>1, <2>4, Zenon DEF Granted
    <3> QED  BY <3>2, <3>3
  <2> QED  BY <2>1, <2>3, <2>4, Zenon
<1> QED  BY <1>4, <1>5 DEF AcquireAny

LEMMA RenewSets ==
    ASSUME TypeInv, StoreInv, MembersType, NEW s \in Sessions, RenewAny(s)
    PROVE  \/ Uses(s) # "lineage" /\ \A a \in Keys : Same(a)
           \/ /\ Uses(s) = "lineage"
              /\ \E now \in Before(s) :
                    /\ handle'[s].expires <= now + Ttl
                    /\ \A a \in Keys : /\ a \in Ancestors[handle[s].key] => Joined(a, s, now)
                                       /\ a \notin Ancestors[handle[s].key] => Same(a)
<1> DEFINE k == handle[s].key
<1>0. k \in Keys  BY Zenon DEF RenewAny, StoreInv
<1>1. CASE Renew(s) \/ RenewStrict(s)
  <2>1. Uses(s) # "lineage" /\ UNCHANGED <<members, deadline>>  BY <1>1 DEF Renew, RenewStrict
  <2> QED  BY <2>1, Zenon DEF Same
<1>2. CASE RenewWithLineage(s)
  <2>2. PICK now \in Before(s) : lineageRenewScript(s, k, now) /\ Keep(s, now + Ttl)
    BY <1>2 DEF RenewWithLineage
  <2>3. Register(s, k, now, members, deadline)  BY <2>2 DEF lineageRenewScript
  <2>4. \A a \in Keys : /\ a \in Ancestors[k] => Joined(a, s, now)
                        /\ a \notin Ancestors[k] => Same(a)
    BY <1>0, <2>3, RegisterShape DEF Same
  <2>5. handle'[s].expires <= now + Ttl
    <3>1. now + Ttl \in Nat /\ handle[s].expires \in Nat /\ now + Ttl >= handle[s].expires
      BY RedisAssumption, NowFacts, HandleFields, SMTT(20)
    <3> QED  BY <2>2, <3>1, KeepEffect
  <2> QED  BY <1>2, <2>4, <2>5, Zenon DEF RenewWithLineage
<1> QED  BY <1>1, <1>2, Zenon DEF RenewAny

LEMMA ReleaseSets ==
    ASSUME TypeInv, MembersType, NEW s \in Sessions, ReleaseAny(s)
    PROVE  \/ (\A a \in Keys : Same(a)) /\ (Uses(s) = "lineage" => UNCHANGED leases)
           \/ \E now \in Before(s) :
                 \A a \in Keys : /\ a \in Ancestors[handle[s].key] => Left(a, s, now)
                                 /\ a \notin Ancestors[handle[s].key] => Same(a)
<1> DEFINE k == handle[s].key
<1>1. CASE Release(s) \/ ReleaseStrict(s)  BY <1>1 DEF Release, ReleaseStrict, Same
<1>2. CASE ReleaseWithLineage(s)
  <2>1. PICK now \in Before(s) : lineageReleaseScript(s, k, now)
    BY <1>2 DEF ReleaseWithLineage
  <2>2. CASE ~Owned(s)
    <3>1. UNCHANGED <<leases, members, deadline>>  BY <2>1, <2>2 DEF lineageReleaseScript
    <3> QED  BY <3>1, Zenon DEF Same
  <2>3. CASE Owned(s)
    <3>1. ASSUME NEW a \in Keys
          PROVE  /\ a \in Ancestors[k] => Left(a, s, now)
                 /\ a \notin Ancestors[k] => Same(a)
      BY <2>1, <2>3, Zenon DEF lineageReleaseScript, Same, Left
    <3> QED  BY <3>1, Zenon
  <2> QED  BY <2>2, <2>3
<1> QED  BY <1>1, <1>2 DEF ReleaseAny

LEMMA SetsDomain ==
    ASSUME MembersType, [Next]_vars
    PROVE  /\ members' = [a \in Keys |-> members'[a]]
           /\ deadline' = [a \in Keys |-> deadline'[a]]
<1>0. UNCHANGED <<members, deadline>> => /\ members' = [a \in Keys |-> members'[a]]
                                         /\ deadline' = [a \in Keys |-> deadline'[a]]
  BY DEF MembersType
<1>1. CASE CheckPresence \/ UNCHANGED vars
  BY <1>0, <1>1, Zenon DEF CheckPresence, vars, server
<1>2. CASE Tick  BY <1>2 DEF Tick
<1>3. ASSUME NEW k \in ForceKeys, ForceReleaseDefinition(k)
      PROVE  UNCHANGED <<members, deadline>>
  BY <1>3 DEF ForceReleaseDefinition
<1>4. ASSUME NEW s \in Sessions, NEW k \in Asks[s], AcquireAny(s, k)
      PROVE  /\ members' = [a \in Keys |-> members'[a]]
             /\ deadline' = [a \in Keys |-> deadline'[a]]
  <2>1. CASE Acquire(s, k) \/ AcquireStrict(s, k)
    BY <1>0, <2>1 DEF Acquire, AcquireStrict
  <2>2. CASE AcquireWithLineage(s, k)
    <3>1. PICK now \in Before(s), granted \in BOOLEAN : lineageAcquireScript(s, k, now, granted)
      BY <2>2, Zenon DEF AcquireWithLineage
    <3>2. CASE granted  BY <3>1, <3>2, Zenon DEF lineageAcquireScript, Register
    <3>3. CASE ~granted  BY <3>1, <3>3 DEF lineageAcquireScript, MembersType
    <3> QED  BY <3>2, <3>3
  <2> QED  BY <1>4, <2>1, <2>2 DEF AcquireAny
<1>5. ASSUME NEW s \in Sessions, RenewAny(s)
      PROVE  /\ members' = [a \in Keys |-> members'[a]]
             /\ deadline' = [a \in Keys |-> deadline'[a]]
  <2>1. CASE Renew(s) \/ RenewStrict(s)  BY <1>0, <2>1 DEF Renew, RenewStrict
  <2>2. CASE RenewWithLineage(s)
    BY <2>2, Zenon DEF RenewWithLineage, lineageRenewScript, Register
  <2> QED  BY <1>5, <2>1, <2>2 DEF RenewAny
<1>6. ASSUME NEW s \in Sessions, ReleaseAny(s)
      PROVE  /\ members' = [a \in Keys |-> members'[a]]
             /\ deadline' = [a \in Keys |-> deadline'[a]]
  <2>1. CASE Release(s) \/ ReleaseStrict(s)  BY <1>0, <2>1 DEF Release, ReleaseStrict
  <2>2. CASE ReleaseWithLineage(s)
    BY <1>0, <2>2, Zenon DEF ReleaseWithLineage, lineageReleaseScript
  <2> QED  BY <1>6, <2>1, <2>2 DEF ReleaseAny
<1> QED  BY <1>0, <1>1, <1>2, <1>3, <1>4, <1>5, <1>6, Zenon DEF Next

-----------------------------------------------------------------------------
\* The sets of the next state, from what happened to each of them.
LEMMA SetsNext ==
    ASSUME MembersType, [Next]_vars, clock' = clock, NEW s, \A a \in Keys : SetKept(a, s)
    PROVE  MembersType' /\ \A a \in Keys : SetInv(a)'
<1>1. MembersType'  BY SetsDomain, Zenon DEF SetKept, MembersType
<1>2. ASSUME NEW a \in Keys PROVE SetInv(a)'
  BY <1>2, Zenon DEF SetKept, SetInv, Skew, Empty
<1> QED  BY <1>1, <1>2

\* A caller that does not move is still named, since no script removes a
\* score that is ahead of every clock.
LEMMA NamedFrame ==
    ASSUME IInv, Bounded, LineageInv, NEW t \in Sessions, handle'[t] = handle[t],
           clock' = clock, t \in forced => t \in forced',
           \A a \in Keys : members[a][t] > clock + Skew => members'[a][t] = members[a][t]
    PROVE  Named(t)'
<1> SUFFICES ASSUME Holds(t)', Uses(t) = "lineage", handle[t].expires > clock + Skew,
                    NEW a \in Ancestors[handle[t].key]
             PROVE  members'[a][t] >= handle[t].expires
  BY Zenon DEF Named, Skew, Uses
<1>1. Holds(t)  BY Zenon DEF Holds, Uses, Now
<1>2. handle[t].key \in Keys /\ a \in Keys
  <2>1. handle[t].key \in Keys  BY <1>1, HolderKey, Zenon
  <2> QED  BY <2>1, RedisAssumption
<1>3. members[a][t] >= handle[t].expires  BY <1>1, Zenon DEF LineageInv, Named
<1>4. members[a][t] \in Nat /\ handle[t].expires \in Nat /\ clock \in Nat /\ Skew \in Nat
  BY <1>2, HandleFields, SkewFacts, Zenon DEF LineageInv, MembersType, IInv, TypeInv
<1>5. members[a][t] > clock + Skew  BY <1>3, <1>4
<1> QED  BY <1>2, <1>3, <1>5, Zenon

LEMMA LineageInit == ASSUME Bounded PROVE Init => LineageInv
<1> SUFFICES ASSUME Init PROVE LineageInv  OBVIOUS
<1>1. Skew \in Nat /\ Ttl \in Nat /\ Lag \in Nat  BY SkewFacts, RedisAssumption
<1>2. MembersType  BY DEF Init, MembersType
<1>3. \A a \in Keys : SetInv(a)  BY <1>1 DEF Init, SetInv, Empty
<1>4. \A s \in Sessions : Named(s)  BY DEF Init, Named, Holds, NoHandle
<1> QED  BY <1>2, <1>3, <1>4 DEF LineageInv

LEMMA AcquireLineage ==
    ASSUME IInv, Bounded, LineageInv, [Next]_vars,
           NEW s \in Sessions, NEW k \in Keys, AcquireAny(s, k)
    PROVE  LineageInv'
<1>1. PICK now \in Before(s) :
          \/ Granted(s, k) /\ LineageGrant(s, k, now)
          \/ Idle /\ \A a \in Keys : Same(a) \/ Trimmed(a, now)
  BY AcquireSets DEF IInv, LineageInv
<1>2. CASE Granted(s, k) /\ LineageGrant(s, k, now)
  <2>1. \A a \in Keys : SetKept(a, s)
    BY <1>2, JoinedKept, TrimmedKept, Zenon DEF LineageGrant, IInv
  <2>2. MembersType' /\ \A a \in Keys : SetInv(a)'
    BY <1>2, <2>1, SetsNext, Zenon DEF Granted, LineageInv
  <2>3. ASSUME NEW t \in Sessions \ {s} PROVE Named(t)'
    BY <1>2, <2>1, NamedFrame, ZenonT(30) DEF Granted, OnlyCaller, SetKept
  <2>4. Named(s)'
    <3> SUFFICES ASSUME Holds(s)', Method[s][handle'[s].key] = "lineage",
                        NEW a \in Ancestors[handle'[s].key]
                 PROVE  members'[a][s] >= handle'[s].expires
      BY Zenon DEF Named, Uses
    <3>1. handle'[s].key = k /\ handle'[s].expires = now + Ttl
      BY <1>2, Zenon DEF Granted, LineageGrant, Holds
    <3>2. a \in Keys /\ Joined(a, s, now)
      BY <1>2, <3>1, AncestorKeys, Zenon DEF LineageGrant, Under
    <3>3. now + Ttl \in Nat  BY ClockFacts DEF IInv
    <3> QED  BY <3>1, <3>2, <3>3, JoinedKept DEF IInv
  <2> QED  BY <2>2, <2>3, <2>4, Zenon DEF LineageInv
<1>3. CASE Idle /\ \A a \in Keys : Same(a) \/ Trimmed(a, now)
  <2>1. \A a \in Keys : /\ SetKept(a, s)
                        /\ members[a][s] > clock + Skew => members'[a][s] = members[a][s]
    BY <1>3, TrimmedKept, Zenon DEF IInv
  <2>2. MembersType' /\ \A a \in Keys : SetInv(a)'
    BY <1>3, <2>1, SetsNext, Zenon DEF Idle, LineageInv
  <2>3. ASSUME NEW t \in Sessions PROVE Named(t)'
    BY <1>3, <2>1, NamedFrame, Zenon DEF Idle, SetKept
  <2> QED  BY <2>2, <2>3, Zenon DEF LineageInv
<1> QED  BY <1>1, <1>2, <1>3

\* A set that a step leaves alone.
LEMMA SameKept ==
    ASSUME LineageInv, NEW a \in Keys, Same(a), NEW s
    PROVE  SetKept(a, s)
<1>1. members[a] \in [Sessions -> Nat] /\ deadline[a] \in Int /\ SetInv(a)
  BY DEF LineageInv, MembersType
<1> QED  BY <1>1, Zenon DEF Same, SetKept, SetInv

LEMMA RenewLineage ==
    ASSUME IInv, Bounded, LineageInv, [Next]_vars, NEW s \in Sessions, RenewAny(s)
    PROVE  LineageInv'
<1>0. TypeInv /\ StoreInv /\ MembersType /\ Extends(s)  BY RenewEffect DEF IInv, LineageInv
<1> DEFINE k == handle[s].key
<1>1. k \in Keys /\ handle'[s].key = k /\ OnlyCaller(s) /\ UNCHANGED <<clock, forced>>
  BY <1>0, Zenon DEF Extends
<1>2. CASE Uses(s) # "lineage" /\ \A a \in Keys : Same(a)
  <2>1. \A a \in Keys : SetKept(a, s)  BY <1>2, SameKept
  <2>2. MembersType' /\ \A a \in Keys : SetInv(a)'  BY <1>0, <1>1, <2>1, SetsNext
  <2>3. ASSUME NEW t \in Sessions \ {s} PROVE Named(t)'
    BY <1>1, <2>1, NamedFrame, Zenon DEF OnlyCaller, SetKept
  <2>4. Named(s)'  BY <1>1, <1>2, Zenon DEF Named, Uses
  <2> QED  BY <2>2, <2>3, <2>4, Zenon DEF LineageInv
<1>3. ASSUME NEW now \in Before(s), handle'[s].expires <= now + Ttl,
             \A a \in Keys : /\ a \in Ancestors[k] => Joined(a, s, now)
                             /\ a \notin Ancestors[k] => Same(a)
      PROVE  LineageInv'
  <2>1. \A a \in Keys : SetKept(a, s)  BY <1>0, <1>3, SameKept, JoinedKept, Zenon
  <2>2. MembersType' /\ \A a \in Keys : SetInv(a)'  BY <1>0, <1>1, <2>1, SetsNext
  <2>3. ASSUME NEW t \in Sessions \ {s} PROVE Named(t)'
    BY <1>1, <2>1, NamedFrame, Zenon DEF OnlyCaller, SetKept
  <2>4. Named(s)'
    <3> SUFFICES ASSUME NEW a \in Ancestors[k]
                 PROVE  members'[a][s] >= handle'[s].expires
      BY <1>1, Zenon DEF Named
    <3>1. a \in Keys /\ Joined(a, s, now)  BY <1>1, <1>3, AncestorKeys, Zenon
    <3>2. members'[a][s] = now + Ttl  BY <1>0, <3>1, JoinedKept, ZenonT(60)
    <3>3. now \in Nat /\ Ttl \in Nat  BY <1>0, ClockFacts, Zenon
    <3>4. handle'[s].expires \in Nat  BY <1>0, Zenon DEF Extends, HandleType
    <3>5. now + Ttl \in Nat  BY <3>3
    <3> QED  BY <1>3, <3>2, <3>4, <3>5, Zenon
  <2> QED  BY <2>2, <2>3, <2>4, Zenon DEF LineageInv
<1> QED  BY <1>0, <1>2, <1>3, RenewSets, Zenon

LEMMA LeavesDone ==
    ASSUME TypeInv, NEW s \in Sessions, Leaves(s)
    PROVE  handle'[s].state = "done"
<1>1. /\ handle[s].key \in Keys /\ handle'[s] = Gone(handle[s].key, handle[s].token)
      /\ handle[s].token \in Nat
  BY Zenon DEF Leaves, TypeInv, HandleType
<1>2. Gone(handle[s].key, handle[s].token).state = "done"  BY <1>1, GoneShape, ZenonT(60)
<1> QED  BY <1>1, <1>2, Zenon

LEMMA ReleaseLineage ==
    ASSUME IInv, Bounded, LineageInv, [Next]_vars, NEW s \in Sessions, ReleaseAny(s)
    PROVE  LineageInv'
<1>0. TypeInv /\ StoreInv /\ MembersType /\ Leaves(s)  BY ReleaseEffect DEF IInv, LineageInv
<1>1. \A a \in Keys : SetKept(a, s)
  <2>1. CASE \A a \in Keys : Same(a)  BY <2>1, SameKept
  <2>2. ASSUME NEW now \in Before(s), \A a \in Keys : Same(a) \/ Left(a, s, now)
        PROVE  \A a \in Keys : SetKept(a, s)
    BY <1>0, <2>2, SameKept, LeftKept
  <2>3. \/ \A a \in Keys : Same(a)
        \/ \E now \in Before(s) : \A a \in Keys : Same(a) \/ Left(a, s, now)
    BY <1>0, ReleaseSets
  <2> QED  BY <2>1, <2>2, <2>3, Zenon
<1>2. OnlyCaller(s) /\ clock' = clock /\ forced' = forced \ {s}  BY <1>0, Zenon DEF Leaves
<1>3. MembersType' /\ \A a \in Keys : SetInv(a)'  BY <1>0, <1>1, <1>2, SetsNext
<1>4. ASSUME NEW t \in Sessions \ {s} PROVE Named(t)'
  <2>1. t \in forced => t \in forced'  BY <1>2, <1>4
  <2> QED  BY <1>1, <1>2, <1>4, <2>1, NamedFrame, Zenon DEF OnlyCaller, SetKept
<1>5. Named(s)'
  <2>1. handle'[s].state = "done"  BY <1>0, LeavesDone, Zenon
  <2> QED  BY <2>1, Zenon DEF Named, Holds
<1> QED  BY <1>3, <1>4, <1>5 DEF LineageInv

LEMMA ForceLineage ==
    ASSUME IInv, Bounded, LineageInv, [Next]_vars, NEW k \in ForceKeys, ForceReleaseDefinition(k)
    PROVE  LineageInv'
<1>1. UNCHANGED <<clock, members, deadline, handle>> /\ forced \subseteq forced'
  BY DEF ForceReleaseDefinition
<1>2. PICK s : s \in Sessions  BY DEF Bounded
<1>3. \A a \in Keys : SetKept(a, s)  BY <1>1, SameKept DEF Same
<1>4. MembersType' /\ \A a \in Keys : SetInv(a)'  BY <1>1, <1>3, SetsNext DEF LineageInv
<1>5. ASSUME NEW t \in Sessions PROVE Named(t)'  BY <1>1, NamedFrame
<1> QED  BY <1>4, <1>5 DEF LineageInv

LEMMA TickLineage ==
    ASSUME IInv, Bounded, LineageInv, Tick
    PROVE  LineageInv'
<1>1. /\ clock \in Nat /\ clock' = clock + 1 /\ Skew \in Nat /\ Ttl \in Nat /\ Lag \in Nat
      /\ UNCHANGED <<handle, forced>>
  BY SkewFacts, RedisAssumption, Zenon DEF Tick, IInv, TypeInv
<1>2. members \in [Keys -> [Sessions -> Nat]] /\ deadline \in [Keys -> Int]
  BY DEF LineageInv, MembersType
<1>3. Empty \in [Sessions -> Nat] /\ \A r \in Sessions : Empty[r] = 0  BY DEF Empty
<1>4. \A a \in Keys : /\ members'[a] = IF clock' > deadline[a] THEN Empty ELSE members[a]
                      /\ deadline'[a] = IF clock' > deadline[a] THEN 0 ELSE deadline[a]
  BY DEF Tick
<1>5. MembersType'
  <2>1. /\ members' = [k \in Keys |-> IF clock' > deadline[k] THEN Empty ELSE members[k]]
        /\ deadline' = [k \in Keys |-> IF clock' > deadline[k] THEN 0 ELSE deadline[k]]
    BY DEF Tick
  <2> QED  BY <1>2, <1>3, <2>1 DEF MembersType
<1>6. ASSUME NEW a \in Keys
      PROVE  /\ \A r \in Sessions : members'[a][r] <= clock' + Skew + Ttl
             /\ \A r \in Sessions : members'[a][r] # 0 => members'[a][r] <= deadline'[a] + Skew
             /\ members'[a] # Empty => clock' <= deadline'[a]
             /\ deadline'[a] <= clock' + Ttl + Skew + Lag
  <2>1. SetInv(a)  BY DEF LineageInv
  <2>2. CASE clock' > deadline[a]  BY <1>1, <1>3, <1>4, <2>2
  <2>3. CASE ~(clock' > deadline[a])
    <3>1. \A r \in Sessions : members[a][r] \in Nat  BY <1>2
    <3>2. deadline[a] \in Int  BY <1>2
    <3> QED  BY <1>1, <1>4, <2>1, <2>3, <3>1, <3>2 DEF SetInv
  <2> QED  BY <2>2, <2>3, Zenon
<1>7. \A a \in Keys : SetInv(a)'  BY <1>6, Zenon DEF SetInv, Skew, Empty
<1>8. ASSUME NEW t \in Sessions, Holds(t)', Uses(t) = "lineage", handle[t].expires > clock' + Skew,
             NEW a \in Ancestors[handle[t].key]
      PROVE  members'[a][t] >= handle[t].expires
  <2>1. handle[t].expires \in Nat /\ Offset[t] \in Nat
    BY HandleFields, RedisAssumption, Zenon DEF IInv
  <2>2. Holds(t)
    <3>1. Slack(t, handle[t].key) \in Nat  BY RedisAssumption DEF Slack
    <3>2. /\ handle[t].state \in {"held", "lost"} /\ t \notin forced
          /\ clock + 1 + Offset[t] + Slack(t, handle[t].key) <= handle[t].expires
      BY <1>1, <1>8, Zenon DEF Holds, Uses, Now, Slack
    <3>3. clock + Offset[t] + Slack(t, handle[t].key) <= handle[t].expires
      BY <1>1, <2>1, <3>1, <3>2
    <3> QED  BY <3>2, <3>3, Zenon DEF Holds, Uses, Now, Slack
  <2>3. a \in Keys  BY <2>2, HolderKey, RedisAssumption
  <2>4. handle[t].expires > clock + Skew  BY <1>1, <1>8, <2>1
  <2>5. members[a][t] >= handle[t].expires /\ members[a][t] \in Nat /\ deadline[a] \in Int
    BY <1>2, <1>8, <2>2, <2>3, <2>4, ZenonT(60) DEF LineageInv, Named
  <2>6. members[a][t] <= deadline[a] + Skew
    <3>1. members[a][t] # 0  BY <1>1, <2>1, <2>4, <2>5
    <3> QED  BY <2>3, <3>1 DEF LineageInv, SetInv
  <2>7. ~(clock' > deadline[a])  BY <1>1, <1>8, <2>1, <2>5, <2>6
  <2> QED  BY <1>4, <2>3, <2>5, <2>7, Zenon
<1>9. \A t \in Sessions : Named(t)'  BY <1>1, <1>8, Zenon DEF Named, Skew, Uses
<1> QED  BY <1>5, <1>7, <1>9 DEF LineageInv

LEMMA LineageNext ==
    ASSUME Bounded
    PROVE  IInv /\ LineageInv /\ [Next]_vars => LineageInv'
<1> SUFFICES ASSUME IInv, LineageInv, [Next]_vars PROVE LineageInv'
  OBVIOUS
<1>1. CASE Tick  BY <1>1, TickLineage
<1>2. CASE CheckPresence \/ UNCHANGED vars
  <2>1. UNCHANGED <<clock, members, deadline, handle, forced>>
    BY <1>2 DEF CheckPresence, vars, server
  <2>2. PICK s : s \in Sessions  BY DEF Bounded
  <2>3. \A a \in Keys : SetKept(a, s)  BY <2>1, SameKept DEF Same
  <2>4. MembersType' /\ \A a \in Keys : SetInv(a)'  BY <2>1, <2>3, SetsNext DEF LineageInv
  <2>5. ASSUME NEW t \in Sessions PROVE Named(t)'  BY <2>1, NamedFrame
  <2> QED  BY <2>4, <2>5 DEF LineageInv
<1>3. ASSUME NEW s \in Sessions, RenewAny(s) PROVE LineageInv'  BY <1>3, RenewLineage
<1>4. ASSUME NEW s \in Sessions, ReleaseAny(s) PROVE LineageInv'  BY <1>4, ReleaseLineage
<1>5. ASSUME NEW s \in Sessions, NEW k \in Asks[s], AcquireAny(s, k) PROVE LineageInv'
  <2>1. k \in Keys  BY RedisAssumption
  <2> QED  BY <1>5, <2>1, AcquireLineage
<1>6. ASSUME NEW k \in ForceKeys, ForceReleaseDefinition(k) PROVE LineageInv'
  BY <1>6, ForceLineage
<1> QED  BY <1>1, <1>2, <1>3, <1>4, <1>5, <1>6 DEF Next

\* The entry of s in the set of a.  Its score is at most a TTL ahead of the
\* clock of s, and it is over on that clock, or s has a lease below a that the
\* server keeps as long.
Names(k, a, s) == /\ a \in Ancestors[k] /\ Method[s][k] = "lineage" /\ leases[k].by = s
                  /\ members[a][s] <= leases[k].expires + Offset[s]
Entry(a, s) == members[a][s] # 0 =>
                   /\ handle[s].state # "new"
                   /\ members[a][s] <= Now(s) + Ttl
                   /\ Unforced(a) =>
                          members[a][s] < Now(s) \/ \E k \in Keys : Names(k, a, s)
EntryInv == \A a \in Keys, s \in Sessions : Entry(a, s)

\* No script writes the score of another session, except to remove it.
LEMMA Scores ==
    ASSUME TypeInv, MembersType, NEW s \in Sessions, NEW now \in Before(s),
           NEW a \in Keys, NEW r \in Sessions
    PROVE  /\ Same(a) \/ Trimmed(a, now) => members'[a][r] \in {members[a][r], 0}
           /\ (Joined(a, s, now) \/ Left(a, s, now)) /\ r # s =>
                  members'[a][r] \in {members[a][r], 0}
           /\ Joined(a, s, now) => members'[a][s] \in {now + Ttl, 0}
           /\ Left(a, s, now) => members'[a][s] = 0
<1>1. members[a] \in [Sessions -> Nat] /\ now \in Nat /\ Ttl \in Nat
  BY RedisAssumption, NowFacts DEF MembersType
<1>2. ASSUME NEW z \in [Sessions -> Nat], members'[a] = Prune(z, now), NEW q \in Sessions
      PROVE  members'[a][q] \in {z[q], 0}
  <2>1. Prune(z, now)[q] \in {z[q], 0}  BY <1>1, PruneShape
  <2> QED  BY <1>2, <2>1, Zenon
<1>3. Same(a) \/ Trimmed(a, now) => members'[a][r] \in {members[a][r], 0}
  BY <1>1, <1>2, Zenon DEF Same, Trimmed
<1>4. ASSUME NEW n \in Nat, members'[a] = Prune([members[a] EXCEPT ![s] = n], now)
      PROVE  /\ members'[a][s] \in {n, 0}
             /\ r # s => members'[a][r] \in {members[a][r], 0}
  <2> DEFINE z == [members[a] EXCEPT ![s] = n]
  <2>1. z \in [Sessions -> Nat] /\ z[s] = n /\ (r # s => z[r] = members[a][r])  BY <1>1
  <2>2. members'[a] = Prune(z, now)  BY <1>4
  <2> HIDE DEF z
  <2>3. members'[a][s] \in {z[s], 0} /\ members'[a][r] \in {z[r], 0}  BY <1>2, <2>1, <2>2, Zenon
  <2> QED  BY <2>1, <2>3, Zenon
<1>5. Joined(a, s, now) => /\ members'[a][s] \in {now + Ttl, 0}
                           /\ r # s => members'[a][r] \in {members[a][r], 0}
  <2>1. now + Ttl \in Nat  BY <1>1
  <2> QED  BY <1>4, <2>1, Zenon DEF Joined
<1>6. Left(a, s, now) => /\ members'[a][s] = 0
                         /\ r # s => members'[a][r] \in {members[a][r], 0}
  <2>1. 0 \in Nat  OBVIOUS
  <2> QED  BY <1>4, <2>1, Zenon DEF Left
<1> QED  BY <1>3, <1>5, <1>6, Zenon

\* An entry that is not written stays right while the leases of its session
\* below the set stay.
LEMMA EntryKept ==
    ASSUME IInv, MembersType, EntryInv, NEW a \in Keys, NEW s \in Sessions, clock' = clock,
           handle[s].state # "new" => handle'[s].state # "new",
           members'[a][s] \in {members[a][s], 0},
           ASSUME NEW k \in Keys, Unforced(a), Names(k, a, s), members'[a][s] # 0
           PROVE  leases'[k].by = s /\ leases[k].expires <= leases'[k].expires /\ leases'[k].expires \in Nat
    PROVE  Entry(a, s)'
<1> SUFFICES ASSUME members'[a][s] # 0
             PROVE  /\ handle'[s].state # "new"
                    /\ members'[a][s] <= Now(s)' + Ttl
                    /\ Unforced(a) =>
                           members'[a][s] < Now(s)' \/ \E k \in Keys : Names(k, a, s)'
  BY Zenon DEF Entry, Unforced
<1>1. members'[a][s] = members[a][s] /\ Now(s)' = Now(s)  BY Zenon DEF Now
<1>2. Entry(a, s)  BY DEF EntryInv
<1>3. ASSUME NEW k \in Keys, Unforced(a), Names(k, a, s) PROVE Names(k, a, s)'
  <2>1. /\ leases'[k].by = s /\ leases[k].expires <= leases'[k].expires
        /\ leases'[k].expires \in Nat
    BY <1>3, Zenon
  <2>2. members[a][s] \in Nat /\ leases[k].expires \in Nat /\ Offset[s] \in Nat
    BY LeaseFields, RedisAssumption, SMTT(20) DEF IInv, MembersType
  <2>3. members[a][s] <= leases'[k].expires + Offset[s]
    <3>1. members[a][s] <= leases[k].expires + Offset[s]  BY <1>3, Zenon DEF Names
    <3> QED  BY <2>1, <2>2, <3>1
  <2> QED  BY <1>1, <1>3, <2>1, <2>3, Zenon DEF Names
<1> QED  BY <1>1, <1>2, <1>3, Zenon DEF Entry

LEMMA AcquireEntry ==
    ASSUME IInv, MembersType, EntryInv, NEW s \in Sessions, NEW k \in Keys, AcquireAny(s, k)
    PROVE  EntryInv'
<1>1. PICK now \in Before(s) :
          \/ Granted(s, k) /\ LineageGrant(s, k, now)
          \/ Idle /\ \A a \in Keys : Same(a) \/ Trimmed(a, now)
  BY AcquireSets DEF IInv
<1> SUFFICES ASSUME NEW a \in Keys, NEW t \in Sessions PROVE Entry(a, t)'
  BY Zenon DEF EntryInv
<1>0. TypeInv  BY DEF IInv
<1>2. CASE Idle /\ \A b \in Keys : Same(b) \/ Trimmed(b, now)
  <2>1. members'[a][t] \in {members[a][t], 0}  BY <1>0, <1>2, Scores
  <2>2. UNCHANGED <<clock, leases, handle>>  BY <1>2 DEF Idle
  <2>3. ASSUME NEW j \in Keys PROVE leases[j].expires <= leases'[j].expires /\ leases'[j].expires \in Nat
    BY <1>0, <2>2, LeaseFields
  <2> QED  BY <2>1, <2>2, <2>3, EntryKept, ZenonT(30) DEF Names
<1>3. CASE Granted(s, k) /\ LineageGrant(s, k, now)
  <2>1. /\ clock' = clock /\ handle[s].state = "new" /\ handle'[s].state # "new"
        /\ leases[k] = NoLease /\ leases'[k] = [by |-> s, expires |-> clock + Ttl]
        /\ \A j \in Keys : j # k => leases'[j] = leases[j]
        /\ \A u \in Sessions : u # s => handle'[u] = handle[u]
    BY <1>3, Zenon DEF Granted, OnlyKey, OnlyCaller
  <2>2. CASE t # s
    <3>1. members'[a][t] \in {members[a][t], 0}
      BY <1>0, <1>3, <2>2, Scores, Zenon DEF LineageGrant
    <3>2. ASSUME NEW j \in Keys, leases[j].by = t
          PROVE  leases'[j].by = t /\ leases[j].expires <= leases'[j].expires /\ leases'[j].expires \in Nat
      <4>1. leases[k].by # t  BY <2>1, RedisAssumption DEF NoLease
      <4>2. leases'[j] = leases[j]  BY <2>1, <3>2, <4>1, Zenon
      <4> QED  BY <1>0, <3>2, <4>2, LeaseFields, SMTT(20)
    <3> QED  BY <2>1, <2>2, <3>1, <3>2, EntryKept, ZenonT(30) DEF Names
  <2>3. CASE t = s
    <3>1. members[a][s] = 0  BY <2>1, Zenon DEF EntryInv, Entry
    <3>2. CASE a \notin Under(s, k)
      <4>1. members'[a][s] = 0  BY <1>0, <1>3, <3>1, <3>2, Scores, Zenon DEF LineageGrant
      <4> QED  BY <2>3, <4>1, Zenon DEF Entry
    <3>3. CASE a \in Under(s, k)
      <4>1. members'[a][s] \in {now + Ttl, 0}
        BY <1>0, <1>3, <3>3, Scores, Zenon DEF LineageGrant
      <4>2. Method[s][k] = "lineage" /\ a \in Ancestors[k]  BY <3>3, Zenon DEF Under
      <4>3. /\ now + Ttl <= Now(s)' + Ttl
            /\ now + Ttl <= leases'[k].expires + Offset[s] /\ leases'[k].by = s
        <5>1. now \in Nat /\ now <= Now(s)  BY <1>0, NowFacts
        <5>2. Ttl \in Nat /\ Offset[s] \in Nat /\ clock \in Nat
          BY <1>0, RedisAssumption DEF TypeInv
        <5> QED  BY <2>1, <5>1, <5>2 DEF Now
      <4>4. members'[a][s] = now + Ttl => Names(k, a, s)'  BY <4>2, <4>3, Zenon DEF Names
      <4> QED  BY <2>1, <2>3, <4>1, <4>3, <4>4, Zenon DEF Entry
    <3> QED  BY <3>2, <3>3
  <2> QED  BY <2>2, <2>3
<1> QED  BY <1>1, <1>2, <1>3

LEMMA RenewEntry ==
    ASSUME Recognised, IInv, MembersType, EntryInv, NEW s \in Sessions, RenewAny(s)
    PROVE  EntryInv'
<1>0. TypeInv /\ StoreInv /\ Extends(s)  BY RenewEffect DEF IInv
<1> DEFINE k == handle[s].key
<1>1. /\ clock' = clock /\ handle[s].state # "new" /\ handle'[s].state # "new" /\ k \in Keys
      /\ leases'[k] = [by |-> leases[k].by, expires |-> clock + Ttl]
      /\ \A j \in Keys : j # k => leases'[j] = leases[j]
      /\ \A u \in Sessions : u # s => handle'[u] = handle[u]
  BY <1>0, Zenon DEF Extends, OnlyKey, OnlyCaller
<1>2. leases[k] # NoLease /\ leases[k].by = s  BY <1>0, <1>1, OwnedIsOwn, Zenon DEF Extends
<1>3. ASSUME NEW j \in Keys
      PROVE  /\ leases'[j].by = leases[j].by
             /\ leases[j].expires <= leases'[j].expires /\ leases'[j].expires \in Nat
  <2>1. clock + Ttl \in Nat  BY <1>0, RedisAssumption DEF TypeInv
  <2>2. leases[k].expires <= clock + Ttl  BY <1>0, <1>1, <1>2, ZenonT(30) DEF StoreInv
  <2>3. leases[j].expires \in Nat  BY <1>0, LeaseFields
  <2> QED  BY <1>1, <2>1, <2>2, <2>3
<1> SUFFICES ASSUME NEW a \in Keys, NEW t \in Sessions PROVE Entry(a, t)'
  BY Zenon DEF EntryInv
<1>4. ASSUME members'[a][t] \in {members[a][t], 0} PROVE Entry(a, t)'
  <2>1. handle[t].state # "new" => handle'[t].state # "new"  BY <1>1, Zenon
  <2>2. ASSUME NEW j \in Keys, Names(j, a, t)
        PROVE  /\ leases'[j].by = t /\ leases[j].expires <= leases'[j].expires
               /\ leases'[j].expires \in Nat
    BY <1>3, <2>2, Zenon DEF Names
  <2> QED  BY <1>1, <1>4, <2>1, <2>2, EntryKept, Zenon
<1>5. CASE \A b \in Keys : Same(b)  BY <1>4, <1>5, Zenon DEF Same
<1>6. ASSUME Uses(s) = "lineage", NEW now \in Before(s),
             \A b \in Keys : /\ b \in Ancestors[k] => Joined(b, s, now)
                             /\ b \notin Ancestors[k] => Same(b)
      PROVE  Entry(a, t)'
  <2>1. CASE a \notin Ancestors[k]  BY <1>4, <1>6, <2>1, Zenon DEF Same
  <2>2. CASE a \in Ancestors[k] /\ t # s
    <3>1. members'[a][t] \in {members[a][t], 0}  BY <1>0, <1>6, <2>2, Scores, Zenon
    <3> QED  BY <1>4, <3>1
  <2>3. CASE a \in Ancestors[k] /\ t = s
    <3>1. members'[a][s] \in {now + Ttl, 0}  BY <1>0, <1>6, <2>3, Scores, ZenonT(30)
    <3>2. /\ now + Ttl <= Now(s)' + Ttl
          /\ now + Ttl <= leases'[k].expires + Offset[s] /\ leases'[k].by = s
      <4>1. now \in Nat /\ now <= Now(s)  BY <1>0, NowFacts
      <4>2. Ttl \in Nat /\ Offset[s] \in Nat /\ clock \in Nat
        BY <1>0, RedisAssumption DEF TypeInv
      <4> QED  BY <1>1, <1>2, <4>1, <4>2, SMTT(20) DEF Now
    <3>3. ASSUME members'[a][s] = now + Ttl PROVE \E j \in Keys : Names(j, a, s)'
      <4>1. /\ k \in Keys /\ a \in Ancestors[k] /\ Method[s][k] = "lineage"
            /\ leases'[k].by = s /\ members'[a][s] <= leases'[k].expires + Offset[s]
        BY <1>1, <1>6, <2>3, <3>2, <3>3, Zenon DEF Uses
      <4> HIDE DEF k
      <4> QED  BY <4>1, Zenon DEF Names
    <3>4. ASSUME members'[a][s] # 0
          PROVE  /\ members'[a][s] <= Now(s)' + Ttl
                 /\ \E j \in Keys : Names(j, a, s)'
      BY <3>1, <3>2, <3>3, <3>4, Zenon
    <3>5. Entry(a, s)'  BY <1>1, <3>4, Zenon DEF Entry
    <3> QED  BY <2>3, <3>5, Zenon
  <2> QED  BY <2>1, <2>2, <2>3, Zenon
<1> QED  BY <1>0, <1>5, <1>6, RenewSets, Zenon

LEMMA ReleaseEntry ==
    ASSUME Recognised, IInv, MembersType, EntryInv, NEW s \in Sessions, ReleaseAny(s)
    PROVE  EntryInv'
<1>0. TypeInv /\ StoreInv /\ Leaves(s)  BY ReleaseEffect DEF IInv
<1> DEFINE k == handle[s].key
<1>1. /\ clock' = clock /\ k \in Keys
      /\ \A j \in Keys : j # k => leases'[j] = leases[j]
      /\ \A u \in Sessions : u # s => handle'[u] = handle[u]
  BY <1>0, Zenon DEF Leaves, OnlyKey, OnlyCaller
<1>2. handle'[s].state # "new"  BY <1>0, LeavesDone
<1>3. UNCHANGED leases \/ leases[k].by = s  BY <1>0, OwnedIsOwn, Zenon DEF Leaves
<1>4. ASSUME NEW j \in Keys, leases'[j] = leases[j]
      PROVE  leases[j].expires <= leases'[j].expires /\ leases'[j].expires \in Nat
  BY <1>0, <1>4, LeaseFields
<1>8. \/ (\A b \in Keys : Same(b)) /\ (Uses(s) = "lineage" => UNCHANGED leases)
      \/ \E now \in Before(s) :
           \A b \in Keys : /\ b \in Ancestors[k] => Left(b, s, now)
                           /\ b \notin Ancestors[k] => Same(b)
  BY <1>0, ReleaseSets, Zenon
<1> SUFFICES ASSUME NEW a \in Keys, NEW t \in Sessions PROVE Entry(a, t)'
  BY Zenon DEF EntryInv
<1>5. ASSUME members'[a][t] \in {members[a][t], 0},
             \A j \in Keys : Names(j, a, t) /\ members'[a][t] # 0 => leases'[j] = leases[j]
      PROVE  Entry(a, t)'
  <2>1. handle[t].state # "new" => handle'[t].state # "new"  BY <1>1, <1>2, Zenon
  <2>2. ASSUME NEW j \in Keys, Names(j, a, t), members'[a][t] # 0
        PROVE  /\ leases'[j].by = t /\ leases[j].expires <= leases'[j].expires
               /\ leases'[j].expires \in Nat
    <3>1. leases'[j] = leases[j] /\ leases[j].by = t  BY <1>5, <2>2, Zenon DEF Names
    <3> QED  BY <1>4, <3>1, Zenon
  <2> QED  BY <1>1, <1>5, <2>1, <2>2, EntryKept, Zenon
<1>6. CASE t # s
  <2>1. members'[a][t] \in {members[a][t], 0}
    <3>1. CASE \A b \in Keys : Same(b)  BY <3>1, Zenon DEF Same
    <3>2. ASSUME NEW now \in Before(s),
                 \A b \in Keys : /\ b \in Ancestors[k] => Left(b, s, now)
                                 /\ b \notin Ancestors[k] => Same(b)
          PROVE  members'[a][t] \in {members[a][t], 0}
      BY <1>0, <1>6, <3>2, Scores, Zenon
    <3> QED  BY <1>8, <3>1, <3>2, Zenon
  <2>2. \A j \in Keys : Names(j, a, t) => leases'[j] = leases[j]
    BY <1>1, <1>3, <1>6, Zenon DEF Names
  <2> QED  BY <1>5, <2>1, <2>2, Zenon
<1>7. CASE t = s
  <2>1. CASE (\A b \in Keys : Same(b)) /\ (Uses(s) = "lineage" => UNCHANGED leases)
    <3>1. \A j \in Keys : Names(j, a, s) => leases'[j] = leases[j]
      BY <1>1, <2>1, Zenon DEF Names, Uses
    <3>2. members'[a][s] = members[a][s]  BY <2>1, Zenon DEF Same
    <3> QED  BY <1>5, <1>7, <3>1, <3>2, Zenon
  <2>2. ASSUME NEW now \in Before(s),
               \A b \in Keys : /\ b \in Ancestors[k] => Left(b, s, now)
                               /\ b \notin Ancestors[k] => Same(b)
        PROVE  Entry(a, s)'
    <3>1. CASE a \in Ancestors[k]
      <4>1. members'[a][s] = 0  BY <1>0, <2>2, <3>1, Scores, Zenon
      <4> QED  BY <4>1, Zenon DEF Entry
    <3>2. CASE a \notin Ancestors[k]
      <4>1. \A j \in Keys : Names(j, a, s) => leases'[j] = leases[j]
        BY <1>1, <3>2, Zenon DEF Names
      <4>2. members'[a][s] = members[a][s]  BY <2>2, <3>2, Zenon DEF Same
      <4> QED  BY <1>5, <1>7, <4>1, <4>2, Zenon
    <3> QED  BY <3>1, <3>2
  <2>3. Entry(a, s)'
    <3>1. CASE (\A b \in Keys : Same(b)) /\ (Uses(s) = "lineage" => UNCHANGED leases)
      BY <1>7, <2>1, <3>1, Zenon
    <3> QED  BY <1>8, <2>2, <3>1, Zenon
  <2> QED  BY <1>7, <2>3, Zenon
<1> QED  BY <1>6, <1>7

LEMMA ForceEntry ==
    ASSUME Recognised, IInv, MembersType, EntryInv, NEW k \in ForceKeys, ForceReleaseDefinition(k)
    PROVE  EntryInv'
<1>1. TypeInv /\ Seized(k) /\ UNCHANGED members
  BY ForceEffect, Zenon DEF ForceReleaseDefinition, IInv
<1>2. /\ UNCHANGED <<clock, handle>> /\ \A j \in Keys : j # k => leases'[j] = leases[j]
  BY <1>1, Zenon DEF Seized, OnlyKey
<1> SUFFICES ASSUME NEW a \in Keys, NEW t \in Sessions PROVE Entry(a, t)'
  BY Zenon DEF EntryInv
<1>3. ASSUME NEW j \in Keys, Unforced(a), Names(j, a, t)
      PROVE  /\ leases'[j].by = t /\ leases[j].expires <= leases'[j].expires
             /\ leases'[j].expires \in Nat
  <2>1. leases'[j] = leases[j] /\ leases[j].by = t  BY <1>2, <1>3, Zenon DEF Unforced, Names
  <2> QED  BY <1>1, <2>1, LeaseFields
<1> QED  BY <1>1, <1>2, <1>3, EntryKept, ZenonT(30)

\* When the server drops a lease, its entries are over on the clock of its caller.
LEMMA TickEntry ==
    ASSUME IInv, MembersType, EntryInv, Tick
    PROVE  EntryInv'
<1>1. TypeInv /\ Ages  BY TickEffect DEF IInv
<1> SUFFICES ASSUME NEW a \in Keys, NEW s \in Sessions, members'[a][s] # 0
             PROVE  /\ handle'[s].state # "new"
                    /\ members'[a][s] <= Now(s)' + Ttl
                    /\ Unforced(a) =>
                           members'[a][s] < Now(s)' \/ \E k \in Keys : Names(k, a, s)'
  BY ZenonT(30) DEF EntryInv, Entry, Unforced
<1>2. /\ clock \in Nat /\ clock' = clock + 1 /\ Offset[s] \in Nat /\ Ttl \in Nat
      /\ UNCHANGED handle /\ members[a][s] \in Nat
  BY <1>1, RedisAssumption DEF Ages, TypeInv, MembersType
<1>3. members'[a][s] = members[a][s]
  <2>1. members'[a] = IF clock' > deadline[a] THEN Empty ELSE members[a]  BY DEF Tick
  <2> QED  BY <2>1, SMTT(20) DEF Empty
<1>4. /\ handle[s].state # "new" /\ members[a][s] <= Now(s) + Ttl
      /\ Unforced(a) => members[a][s] < Now(s) \/ \E k \in Keys : Names(k, a, s)
  BY <1>3, Zenon DEF EntryInv, Entry
<1>5. members'[a][s] <= Now(s)' + Ttl  BY <1>2, <1>3, <1>4 DEF Now
<1>6. members[a][s] < Now(s) => members'[a][s] < Now(s)'  BY <1>2, <1>3 DEF Now
<1>7. ASSUME NEW k \in Keys, Names(k, a, s)
      PROVE  members'[a][s] < Now(s)' \/ Names(k, a, s)'
  <2>1. leases[k].expires \in Nat  BY <1>1, LeaseFields
  <2>2. leases'[k] = IF clock' > leases[k].expires THEN NoLease ELSE leases[k]
    BY <1>1, Zenon DEF Ages
  <2>3. CASE clock' > leases[k].expires
    <3>1. members[a][s] <= leases[k].expires + Offset[s]  BY <1>7, Zenon DEF Names
    <3> QED  BY <1>2, <1>3, <2>1, <2>3, <3>1 DEF Now
  <2>4. CASE ~(clock' > leases[k].expires)
    <3>1. leases'[k] = leases[k]  BY <2>2, <2>4
    <3> QED  BY <1>3, <1>7, <3>1, Zenon DEF Names
  <2> QED  BY <2>3, <2>4
<1> QED  BY <1>2, <1>4, <1>5, <1>6, <1>7, Zenon

LEMMA EntryNext ==
    ASSUME Recognised
    PROVE  IInv /\ LineageInv /\ EntryInv /\ [Next]_vars => EntryInv'
<1> SUFFICES ASSUME IInv, MembersType, EntryInv, [Next]_vars PROVE EntryInv'
  BY Zenon DEF LineageInv
<1>1. CASE CheckPresence \/ UNCHANGED vars
  <2>1. UNCHANGED <<clock, leases, members, handle>>
    BY <1>1 DEF CheckPresence, vars, server
  <2> QED  BY <2>1, Zenon DEF EntryInv, Entry, Names, Now, Unforced
<1>2. ASSUME NEW s \in Sessions, NEW k \in Asks[s], AcquireAny(s, k) PROVE EntryInv'
  <2>1. k \in Keys  BY AskedKeys, ZenonT(60)
  <2> QED  BY <1>2, <2>1, AcquireEntry
<1>3. CASE Tick  BY <1>3, TickEntry
<1>4. ASSUME NEW s \in Sessions, RenewAny(s) \/ ReleaseAny(s) PROVE EntryInv'
  BY <1>4, RenewEntry, ReleaseEntry, Zenon
<1>5. ASSUME NEW k \in ForceKeys, ForceReleaseDefinition(k) PROVE EntryInv'
  BY <1>5, ForceEntry, Zenon
<1> QED  BY <1>1, <1>2, <1>3, <1>4, <1>5, Zenon DEF Next

LEMMA EntryInit == Init => EntryInv
<1>1. Init => \A a \in Keys, s \in Sessions : members[a][s] = 0  BY DEF Init
<1> QED  BY <1>1, Zenon DEF EntryInv, Entry

LEMMA BlockedFromInv == IInv /\ LineageInv /\ EntryInv => BlockedBriefly
<1> SUFFICES ASSUME IInv, LineageInv, EntryInv PROVE BlockedBriefly
  OBVIOUS
<1>1. \A s \in Sessions :
          Holds(s) /\ Uses(s) = "lineage" /\ handle[s].expires > clock + Skew =>
              \A a \in Ancestors[handle[s].key] : members[a][s] >= handle[s].expires
  BY Zenon DEF LineageInv, Named
<1>2. ASSUME NEW a \in Keys, members[a] # Empty
      PROVE  deadline[a] >= clock /\ deadline[a] <= clock + Ttl + Skew + Lag
  <2>1. deadline[a] \in Int /\ clock \in Nat  BY DEF LineageInv, MembersType, IInv, TypeInv
  <2> QED  BY <1>2, <2>1 DEF LineageInv, SetInv
<1>3. ASSUME NEW a \in Keys, NEW s \in Sessions, members[a][s] # 0
      PROVE  /\ members[a][s] <= Now(s) + Ttl
             /\ Unforced(a) /\ (\A k \in Keys : leases[k].by # s) => members[a][s] < Now(s)
  BY <1>3, Zenon DEF EntryInv, Entry, Names
<1> QED  BY <1>1, <1>2, <1>3, Zenon DEF BlockedBriefly

\* A lineage lease is named above it while it is relied on.  Its entries are
\* over once it is gone from Redis, unless it was released by force, and the
\* set is gone a bounded time after the last acquire or renewal below it,
\* whatever the offsets and delays and whatever plain leases stand beside it.
THEOREM RedisBlockedBriefly == ASSUME Recognised, Bounded PROVE Spec => []BlockedBriefly
<1>1. Init => IInv /\ LineageInv /\ EntryInv  BY IInvInit, LineageInit, EntryInit
<1>2. IInv /\ LineageInv /\ EntryInv /\ [Next]_vars => IInv' /\ LineageInv' /\ EntryInv'
  BY IInvNext, LineageNext, EntryNext
<1>3. IInv /\ LineageInv /\ EntryInv => BlockedBriefly  BY BlockedFromInv, Zenon
<1> QED  BY <1>1, <1>2, <1>3, PTL DEF Spec

\* A grant looks at the leases above and at the set of the leases below.
LEMMA GrantLooks ==
    ASSUME IInv, LineageInv, Bounded, NEW s \in Sessions, NEW k \in Keys, Method[s][k] = "lineage",
           NEW now \in Before(s), LineageGrant(s, k, now), NEW t \in Sessions, Holds(t)
    PROVE  /\ handle[t].key \notin Ancestors[k]
           /\ Uses(t) = "lineage" /\ k \in Ancestors[handle[t].key] =>
                 handle[t].expires <= clock + Skew
<1>1. handle[t].key \in Keys /\ leases[handle[t].key] # NoLease  BY HolderKey, Zenon
<1>2. handle[t].key \notin Ancestors[k]
  BY <1>1, Zenon DEF LineageGrant
<1>3. ASSUME Uses(t) = "lineage", k \in Ancestors[handle[t].key], handle[t].expires > clock + Skew
      PROVE  FALSE
  <2>1. Prune(members[k], now) = Empty  BY Zenon DEF LineageGrant
  <2>2. members[k] \in [Sessions -> Nat] /\ members[k][t] >= handle[t].expires
    BY <1>3, Zenon DEF LineageInv, MembersType, Named
  <2>3. now \in Nat /\ now <= clock + Skew /\ clock \in Nat /\ Skew \in Nat
    BY ClockFacts DEF IInv
  <2>4. handle[t].expires \in Nat /\ members[k][t] \in Nat  BY <2>2, HandleFields, Zenon DEF IInv
  <2>5. members[k][t] > now  BY <1>3, <2>2, <2>3, <2>4, SMTT(20)
  <2>6. Prune(members[k], now)[t] = 0  BY <2>1 DEF Empty
  <2>7. \/ Prune(members[k], now)[t] = members[k][t]
        \/ members[k][t] <= now
    BY <2>2, <2>3, PruneShape, Zenon
  <2> QED  BY <2>3, <2>4, <2>5, <2>6, <2>7
<1>4. handle[t].expires \in Nat /\ clock \in Nat /\ Skew \in Nat
  BY HandleFields, SkewFacts, Zenon DEF IInv, TypeInv
<1> QED  BY <1>2, <1>3, <1>4

\* A grant looks at the sets above and below the key it takes.
LEMMA LineageStep ==
    ASSUME IInv, LineageInv, Bounded, Recognised, [Next]_vars, NEW s \in Sessions, NEW t \in Sessions,
           handle[s].state = "new", handle'[s].state = "held", Holds(t),
           Method[s][handle'[s].key] = "lineage"
    PROVE  /\ handle[t].key \notin Ancestors[handle'[s].key]
           /\ Uses(t) = "lineage" /\ handle'[s].key \in Ancestors[handle[t].key] =>
                 handle[t].expires <= clock + Skew
<1>1. ASSUME NEW u \in Sessions, NEW k \in Asks[u], AcquireAny(u, k)
      PROVE  /\ handle[t].key \notin Ancestors[handle'[s].key]
             /\ Uses(t) = "lineage" /\ handle'[s].key \in Ancestors[handle[t].key] =>
                   handle[t].expires <= clock + Skew
  <2>1. k \in Keys  BY AskedKeys, ZenonT(60)
  <2>2. PICK now \in Before(u) :
            \/ Granted(u, k) /\ LineageGrant(u, k, now)
            \/ Idle /\ \A a \in Keys : Same(a) \/ Trimmed(a, now)
    BY <1>1, <2>1, AcquireSets, Zenon DEF IInv, LineageInv
  <2>3. Granted(u, k) /\ LineageGrant(u, k, now)  BY <2>2, Zenon DEF Idle
  <2>4. u = s /\ handle'[s].key = k  BY <2>3, Zenon DEF Granted, OnlyCaller
  <2> QED  BY <2>1, <2>3, <2>4, GrantLooks, Zenon
<1>2. ASSUME NEW u \in Sessions, RenewAny(u) PROVE FALSE
  <2>1. Extends(u)  BY <1>2, RenewEffect DEF IInv
  <2> QED  BY <2>1, Zenon DEF Extends, OnlyCaller
<1>3. ASSUME NEW u \in Sessions, ReleaseAny(u) PROVE FALSE
  <2>1. Leaves(u)  BY <1>3, ReleaseEffect DEF IInv
  <2> QED  BY <2>1, Zenon DEF Leaves, OnlyCaller
<1>4. ~Tick /\ ~CheckPresence /\ ~UNCHANGED vars /\ \A k \in ForceKeys : ~ForceReleaseDefinition(k)
  BY Zenon DEF Tick, CheckPresence, vars, server, ForceReleaseDefinition
<1> QED  BY <1>1, <1>2, <1>3, <1>4, Zenon DEF Next

\* AcquireWithLineage grants a key only when no caller relies on a lease above
\* it, taken by whichever method, nor on one below it that was taken by
\* AcquireWithLineage and that the fastest clock does not call over.
THEOREM RedisLineageRespected ==
    ASSUME Recognised, Bounded PROVE Spec => GrantRespectsLineage
<1> DEFINE A == \A s, t \in Sessions :
                    (/\ handle[s].state = "new" /\ handle'[s].state = "held" /\ Holds(t)
                     /\ Method[s][handle'[s].key] = "lineage")
                    => /\ handle[t].key \notin Ancestors[handle'[s].key]
                       /\ Uses(t) = "lineage" /\ handle'[s].key \in Ancestors[handle[t].key] =>
                             handle[t].expires <= clock + Skew
           Inv == IInv /\ LineageInv
<1>1. Init => Inv  BY IInvInit, LineageInit
<1>2. Inv /\ [Next]_vars => Inv'  BY IInvNext, LineageNext
<1>3. Inv /\ [Next]_vars => A
  BY LineageStep, Zenon
<1>4. Inv /\ [Next]_vars => [A]_vars  BY <1>3, Zenon
<1> HIDE DEF A, Inv
<1>5. Spec => [][A]_vars  BY <1>1, <1>2, <1>4, PTL DEF Spec
<1> QED  BY <1>5 DEF GrantRespectsLineage, A
=============================================================================
