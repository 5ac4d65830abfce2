------------------------- MODULE MemoryDriverProofs -------------------------
(***************************************************************************)
(* Proofs about MemoryDriver for any keys, lineage, sessions, TTL, clock   *)
(* bound and age of clock readings.                                        *)
(***************************************************************************)
EXTENDS MemoryDriver, TLAPS

\* Renew and Release recognise their caller: by its OwnerID, which no other
\* session presents for the key, or by its fencing token.
Recognised == \A k \in Keys, s, t \in Sessions :
                  Owner[s][k] = Owner[t][k] /\ Method[s][k] # "strict" => s = t

\* What ties the driver's maps to the leases its callers hold.
StoreInv ==
    /\ \A k \in Keys : leases[k] # NoLease =>
           leases[k].by \in Sessions /\ handle[leases[k].by].key = k
    /\ \A k \in Keys : strictLeases[k] = IF leases[k] = NoLease THEN 0
                                         ELSE handle[leases[k].by].token
    /\ \A s \in Sessions : handle[s].key \in Keys =>
           /\ handle[s].token <= strictCounters[handle[s].key]
           /\ handle[s].token # 0 <=> Uses(s) = "strict"
    /\ \A s, t \in Sessions :
           (/\ handle[s].key = handle[t].key /\ handle[s].token # 0
            /\ handle[s].token = handle[t].token) => s = t
    /\ \A s \in Sessions : handle[s].state # "new" <=> handle[s].key \in Keys

\* A lease its caller still relies on is in the driver, with the expiry the
\* caller was given.
Backed(s) == Holds(s) => leases[handle[s].key] = [by |-> s, expires |-> handle[s].expires]

IInv == TypeOK /\ StoreInv /\ \A s \in Sessions : Backed(s)

\* A lease taken by AcquireWithLineage, its lease id and its entries under the
\* ancestors come and go together, with one expiry.
LineageInv ==
    /\ \A s \in Sessions : lineageLeases[s] # 0 =>
           /\ handle[s].key \in Keys /\ Uses(s) = "lineage"
           /\ leases[handle[s].key] = [by |-> s, expires |-> lineageLeases[s]]
           /\ \A a \in Ancestors[handle[s].key] : descendantsByAncestor[a][s] = lineageLeases[s]
    /\ \A k \in Keys : leases[k] # NoLease /\ Method[leases[k].by][k] = "lineage" =>
           lineageLeases[leases[k].by] = leases[k].expires
    /\ \A a \in Keys, s \in Sessions : descendantsByAncestor[a][s] # 0 =>
           /\ lineageLeases[s] = descendantsByAncestor[a][s]
           /\ a \in Ancestors[handle[s].key]

\* A lease in the map has the expiry its caller was told.
ToldInv ==
    \A k \in Keys : leases[k] # NoLease =>
        leases[k].expires = handle[leases[k].by].expires /\ leases[k].expires # 0

-----------------------------------------------------------------------------
(***************************************************************************)
(* What a step does, key by key and session by session.                    *)
(***************************************************************************)
LeaseType == [by : Sessions \cup {"nobody"}, expires : Times]
HandleType == [state : {"new", "held", "done"}, key : Keys \cup {"none"},
               expires : Times, token : Nat]

\* A step that only prunes; a session may drop a lease that is not its own
\* any more.
Pruned(now) == Prune(now) /\ UNCHANGED clock

Kept == /\ handle' \in [Sessions -> HandleType]
        /\ \A s \in Sessions : /\ handle'[s].key = handle[s].key
                               /\ handle'[s].token = handle[s].token
                               /\ handle'[s].expires = handle[s].expires
                               /\ \/ handle'[s].state = handle[s].state
                                  \/ handle[s].state = "held" /\ handle'[s].state = "done"

\* The lease of one key becomes l; the others are pruned.
Leased(k, now, l) == /\ leases' \in [Keys -> LeaseType]
                     /\ leases'[k] = l
                     /\ \A j \in Keys \ {k} : leases'[j] = PrunedLeases(now)[j]
                     /\ UNCHANGED clock

\* The lineage maps after a method for session s and key k wrote t.
Enrolled(s, k, now, t) ==
    /\ lineageLeases' \in [Sessions -> Times]
    /\ descendantsByAncestor' \in [Keys -> [Sessions -> Times]]
    /\ \A r \in Sessions : lineageLeases'[r] =
           IF r = s /\ Method[s][k] = "lineage" THEN t ELSE PrunedLineage(now)[r]
    /\ \A a \in Keys, r \in Sessions : descendantsByAncestor'[a][r] =
           IF r = s /\ Method[s][k] = "lineage" /\ a \in Ancestors[k]
           THEN t ELSE PrunedDescendants(now)[a][r]

\* The tokens and the counters: those of key k only, for a new lease or for
\* the lease session s has.
Counted(s, k, now, l) ==
    /\ strictLeases' \in [Keys -> Nat] /\ strictCounters' \in [Keys -> Nat]
    /\ \A j \in Keys \ {k} : /\ strictLeases'[j] = PrunedStrict(now)[j]
                             /\ strictCounters'[j] = strictCounters[j]
    /\ strictLeases'[k] = IF l = NoLease THEN 0 ELSE handle'[s].token
    /\ \/ /\ handle[s].key = k /\ handle'[s].token = handle[s].token
          /\ strictCounters'[k] = strictCounters[k]
       \/ /\ Method[s][k] = "strict" /\ handle'[s].token = strictCounters[k] + 1
          /\ strictCounters'[k] = strictCounters[k] + 1
       \/ /\ Method[s][k] # "strict" /\ handle'[s].token = 0
          /\ strictCounters'[k] = strictCounters[k]

\* The other sessions keep what they have.
Others(s) == /\ handle' \in [Sessions -> HandleType]
             /\ \A t \in Sessions \ {s} : handle'[t] = handle[t]

\* Session s works on key k, whose lease becomes l.
Works(s, k, now, l) ==
    /\ handle[s].key \in Keys => handle[s].key = k
    /\ PrunedLeases(now)[k] = NoLease \/ PrunedLeases(now)[k].by = s
    /\ Others(s) /\ handle'[s].key = k
    /\ \/ l = NoLease /\ handle'[s].state = "done"
       \/ /\ l = [by |-> s, expires |-> handle'[s].expires]
          /\ l.expires # 0 /\ handle'[s].state = "held"
    /\ Leased(k, now, l) /\ Enrolled(s, k, now, l.expires) /\ Counted(s, k, now, l)

Granted(s, k, now) ==
    /\ handle[s].state = "new" /\ PrunedLeases(now)[k] = NoLease
    /\ Method[s][k] = "lineage" => ~rejectLineageConflict(k, now)
    /\ Works(s, k, now, [by |-> s, expires |-> now + Ttl])
    /\ IF Method[s][k] = "strict"
       THEN /\ strictCounters'[k] = strictCounters[k] + 1
            /\ handle'[s].token = strictCounters'[k]
       ELSE strictCounters'[k] = strictCounters[k] /\ handle'[s].token = 0

\* Session s works on its own lease.
Own(s, now, l) ==
    LET k == handle[s].key IN
    /\ k \in Keys /\ leases[k].by = s /\ PrunedLeases(now)[k] = leases[k]
    /\ leases[k] # NoLease /\ handle'[s].token = handle[s].token
    /\ UNCHANGED strictCounters
    /\ Works(s, k, now, l)

Extended(s, now) == Own(s, now, [by |-> s, expires |-> now + Ttl])
Released(s, now) == Own(s, now, NoLease) /\ handle[s].state = "held"

Effect == \/ Tick
          \/ \E now \in Nows :
                \/ Pruned(now) /\ Kept
                \/ \E s \in Sessions : \/ Extended(s, now) \/ Released(s, now)
                                       \/ \E k \in Keys : Granted(s, k, now)

-----------------------------------------------------------------------------
(***************************************************************************)
(* What pruning leaves.                                                    *)
(***************************************************************************)
\* Clock readings are never ahead of the clock.
LEMMA NowFacts ==
    ASSUME TypeOK, NEW now \in Nows
    PROVE  /\ now \in Nat /\ now >= 1 /\ now <= clock /\ clock \in Nat
           /\ now + Ttl \in Times /\ now + Ttl # 0
BY MemoryAssumption DEF Nows, TypeOK, Times

\* Pruning keeps the type of every map it is applied to.
LEMMA PruneTypes ==
    ASSUME IInv, NEW now \in Nows
    PROVE  /\ PrunedLeases(now) \in [Keys -> LeaseType]
           /\ PrunedStrict(now) \in [Keys -> Nat]
           /\ PrunedLineage(now) \in [Sessions -> Times]
           /\ PrunedDescendants(now) \in [Keys -> [Sessions -> Times]]
           /\ NoLease \in LeaseType
<1>1. NoLease \in LeaseType /\ 0 \in Times
  BY MemoryAssumption DEF NoLease, Times, LeaseType
<1> QED
  BY <1>1 DEF PrunedLeases, IInv, TypeOK, PrunedStrict, PrunedLineage, PrunedDescendants,
     LeaseType

\* Pruning keeps every lease that somebody relies on, and invents none.
LEMMA PruneFacts ==
    ASSUME IInv, NEW now \in Nows
    PROVE  /\ \A k \in Keys : PrunedLeases(now)[k] # NoLease =>
                 PrunedLeases(now)[k] = leases[k] /\ PrunedStrict(now)[k] = strictLeases[k]
           /\ \A s \in Sessions : Holds(s) =>
                 /\ handle[s].key \in Keys
                 /\ PrunedLeases(now)[handle[s].key] = [by |-> s, expires |-> handle[s].expires]
                 /\ PrunedLeases(now)[handle[s].key] # NoLease
<1>1. ASSUME NEW s \in Sessions, Holds(s)
      PROVE  /\ handle[s].key \in Keys
             /\ PrunedLeases(now)[handle[s].key] = [by |-> s, expires |-> handle[s].expires]
             /\ PrunedLeases(now)[handle[s].key] # NoLease
  <2>1. handle[s].expires \in Nat /\ ~(now > handle[s].expires)
    BY <1>1, NowFacts DEF Holds, Expired, IInv, TypeOK, Times
  <2> QED
    BY <1>1, <2>1, MemoryAssumption DEF PrunedLeases, Expired, NoLease, IInv, StoreInv, Holds,
       Backed
<1> QED  BY <1>1, Zenon DEF PrunedLeases, PrunedStrict

\* The tokens of the leases that pruning leaves.
LEMMA PruneTokens ==
    ASSUME IInv, NEW now \in Nows, NEW k \in Keys
    PROVE  PrunedStrict(now)[k] = IF PrunedLeases(now)[k] = NoLease THEN 0
                                  ELSE handle[PrunedLeases(now)[k].by].token
<1>1. strictLeases[k] = IF leases[k] = NoLease THEN 0 ELSE handle[leases[k].by].token
  BY Zenon DEF IInv, StoreInv
<1> QED  BY <1>1, Zenon DEF PrunedLeases, PrunedStrict

-----------------------------------------------------------------------------
(***************************************************************************)
(* What the invariants say after a session worked on a key.                *)
(***************************************************************************)
\* The leases a session does not work on.
LEMMA OtherLeases ==
    ASSUME IInv, NEW now \in Nows, NEW s \in Sessions, NEW k \in Keys, NEW l,
           Works(s, k, now, l), NEW j \in Keys \ {k}, leases'[j] # NoLease
    PROVE  /\ leases'[j] = leases[j] /\ leases'[j] = PrunedLeases(now)[j]
           /\ PrunedStrict(now)[j] = strictLeases[j]
           /\ leases[j].by \in Sessions \ {s} /\ handle[leases[j].by].key = j
           /\ handle'[leases[j].by] = handle[leases[j].by]
<1>1. leases'[j] = leases[j] /\ leases'[j] = PrunedLeases(now)[j]
      /\ PrunedStrict(now)[j] = strictLeases[j]
  BY PruneFacts, Zenon DEF Works, Leased
<1>2. leases[j].by \in Sessions /\ handle[leases[j].by].key = j
  BY <1>1, Zenon DEF IInv, StoreInv
<1> QED  BY <1>1, <1>2, Zenon DEF Works, Others

LEMMA StoreStep ==
    ASSUME IInv, NEW now \in Nows, NEW s \in Sessions, NEW k \in Keys, NEW l,
           Works(s, k, now, l)
    PROVE  StoreInv'
<1>0. StoreInv /\ strictCounters \in [Keys -> Nat]  BY DEF IInv, TypeOK
<1>1. /\ leases'[k] = l /\ (l = NoLease \/ l.by = s) /\ handle'[s].key = k
      /\ handle[s].key \in Keys => handle[s].key = k
      /\ handle'[s].state # "new" /\ Counted(s, k, now, l)
      /\ \A t \in Sessions \ {s} : handle'[t] = handle[t]
  BY DEF Works, Leased, Others
<1>2. \A j \in Keys : leases'[j] # NoLease =>
         leases'[j].by \in Sessions /\ handle'[leases'[j].by].key = j
  BY <1>1, OtherLeases
<1>3. ASSUME NEW j \in Keys
      PROVE  strictLeases'[j] = IF leases'[j] = NoLease THEN 0
                                ELSE handle'[leases'[j].by].token
  <2>1. CASE j = k  BY <1>1, <2>1, Zenon DEF Counted
  <2>2. CASE j # k
    <3>1. strictLeases'[j] = PrunedStrict(now)[j] /\ leases'[j] = PrunedLeases(now)[j]
      BY <1>1, <2>2, Zenon DEF Counted, Works, Leased
    <3>2. PrunedStrict(now)[j] = IF PrunedLeases(now)[j] = NoLease THEN 0
                                 ELSE handle[PrunedLeases(now)[j].by].token
      BY PruneTokens
    <3>3. CASE leases'[j] = NoLease  BY <3>1, <3>2, <3>3
    <3>4. CASE leases'[j] # NoLease
      <4>1. handle'[leases'[j].by] = handle[leases'[j].by]  BY <2>2, <3>4, OtherLeases
      <4> QED  BY <3>1, <3>2, <3>4, <4>1
    <3> QED  BY <3>3, <3>4
  <2> QED  BY <2>1, <2>2, Zenon
<1>4. /\ handle'[s].token <= strictCounters'[k]
      /\ handle'[s].token # 0 <=> Method[s][k] = "strict"
      /\ strictCounters'[k] >= strictCounters[k]
      /\ \/ handle'[s].token = handle[s].token /\ handle[s].key = k
         \/ handle'[s].token = 0
         \/ handle'[s].token = strictCounters[k] + 1
  <2>1. strictCounters[k] \in Nat  BY <1>0
  <2>2. handle[s].key = k => /\ handle[s].token <= strictCounters[k]
                             /\ handle[s].token # 0 <=> Method[s][k] = "strict"
    BY <1>0, Zenon DEF StoreInv, Uses
  <2> QED  BY <1>1, <2>1, <2>2 DEF Counted
<1>5. ASSUME NEW t \in Sessions, handle'[t].key \in Keys
      PROVE  /\ handle'[t].token <= strictCounters'[handle'[t].key]
             /\ handle'[t].token # 0 <=> Method[t][handle'[t].key] = "strict"
  <2>1. CASE t = s  BY <1>1, <1>4, <2>1, Zenon
  <2>2. CASE t # s
    <3>1. /\ handle'[t] = handle[t]
          /\ handle[t].token <= strictCounters[handle[t].key]
          /\ handle[t].token # 0 <=> Method[t][handle[t].key] = "strict"
      BY <1>0, <1>1, <1>5, <2>2, Zenon DEF StoreInv, Uses
    <3>2. handle[t].token \in Nat  BY DEF IInv, TypeOK
    <3>3. strictCounters'[handle[t].key] >= strictCounters[handle[t].key]
      BY <1>0, <1>1, <1>4, <1>5, <3>1 DEF Counted
    <3>4. strictCounters'[handle[t].key] \in Nat  BY <1>1, <1>5, <3>1 DEF Counted
    <3> QED  BY <1>0, <1>5, <3>1, <3>2, <3>3, <3>4
  <2> QED  BY <2>1, <2>2
<1>6. ASSUME NEW t \in Sessions \ {s}, handle'[t].key = handle'[s].key,
             handle'[t].token = handle'[s].token
      PROVE  handle'[s].token = 0
  <2>1. handle[t].key = k /\ handle[t].token = handle'[s].token  BY <1>1, <1>6, Zenon
  <2>2. /\ handle[t].token \in Nat /\ strictCounters[k] \in Nat
        /\ handle[t].token <= strictCounters[k]
    BY <1>0, <2>1 DEF IInv, TypeOK, StoreInv
  <2>3. handle'[s].token # strictCounters[k] + 1  BY <2>1, <2>2
  <2>4. handle[s].key = k /\ handle[s].token = handle[t].token => handle[t].token = 0
    BY <1>0, <2>1 DEF StoreInv
  <2> QED  BY <1>4, <2>1, <2>3, <2>4
<1>7. \A r, t \in Sessions :
         (/\ handle'[r].key = handle'[t].key /\ handle'[r].token # 0
          /\ handle'[r].token = handle'[t].token) => r = t
  BY <1>0, <1>1, <1>6 DEF StoreInv
<1>8. \A t \in Sessions : handle'[t].state # "new" <=> handle'[t].key \in Keys
  BY <1>0, <1>1, Zenon DEF StoreInv
<1> QED  BY <1>2, <1>3, <1>5, <1>7, <1>8, Zenon DEF StoreInv, Uses

LEMMA WorkStep ==
    ASSUME IInv, NEW now \in Nows, NEW s \in Sessions, NEW k \in Keys, NEW l,
           Works(s, k, now, l)
    PROVE  IInv'
<1>1. TypeOK'
  BY Zenon DEF Works, Leased, Enrolled, Counted, Others, IInv, TypeOK, LeaseType, HandleType
<1>2. ASSUME NEW t \in Sessions, Holds(t)'
      PROVE  leases'[handle'[t].key] = [by |-> t, expires |-> handle'[t].expires]
  <2>1. CASE t = s  BY <1>2, <2>1, Zenon DEF Works, Leased, Holds
  <2>2. CASE t # s
    <3>1. Holds(t) /\ handle'[t] = handle[t]
      BY <1>2, <2>2 DEF Works, Others, Leased, Holds
    <3> QED  BY <2>2, <3>1, PruneFacts DEF Works, Leased
  <2> QED  BY <2>1, <2>2
<1> QED  BY <1>1, <1>2, StoreStep, Zenon DEF IInv, Backed

\* A step that only prunes.
LEMMA PrunedStep == ASSUME IInv, NEW now \in Nows, Pruned(now), Kept PROVE IInv'
<1>1. TypeOK'
  BY PruneTypes, Zenon DEF IInv, TypeOK, Pruned, Prune, Kept, LeaseType, HandleType
<1>2. \A s \in Sessions : /\ handle'[s].key = handle[s].key
                          /\ handle'[s].token = handle[s].token
                          /\ handle'[s].state # "new" <=> handle[s].state # "new"
  BY DEF Kept
<1>3. ASSUME NEW k \in Keys, leases'[k] # NoLease
      PROVE  leases'[k].by \in Sessions /\ handle'[leases'[k].by].key = k
  <2>1. leases'[k] = leases[k]  BY <1>3, PruneFacts, Zenon DEF Pruned, Prune
  <2>2. leases[k].by \in Sessions /\ handle[leases[k].by].key = k
    BY <1>3, <2>1, Zenon DEF IInv, StoreInv
  <2> QED  BY <1>2, <2>1, <2>2
<1>4. \A k \in Keys : strictLeases'[k] = IF leases'[k] = NoLease THEN 0
                                         ELSE handle'[leases'[k].by].token
  BY <1>2, <1>3, PruneTokens, Zenon DEF Pruned, Prune
<1>5. StoreInv'
  <2>1. StoreInv /\ strictCounters' = strictCounters  BY DEF IInv, Pruned, Prune
  <2>2. ASSUME NEW s \in Sessions, handle'[s].key \in Keys
        PROVE  /\ handle'[s].token <= strictCounters'[handle'[s].key]
               /\ handle'[s].token # 0 <=> Method[s][handle'[s].key] = "strict"
    BY <1>2, <2>1, <2>2 DEF StoreInv, Uses
  <2>3. \A s, t \in Sessions :
           (/\ handle'[s].key = handle'[t].key /\ handle'[s].token # 0
            /\ handle'[s].token = handle'[t].token) => s = t
    BY <1>2, <2>1 DEF StoreInv
  <2>4. \A s \in Sessions : handle'[s].state # "new" <=> handle'[s].key \in Keys
    BY <1>2, <2>1 DEF StoreInv
  <2> QED  BY <1>3, <1>4, <2>2, <2>3, <2>4, Zenon DEF StoreInv, Uses
<1>6. ASSUME NEW s \in Sessions, Holds(s)'
      PROVE  leases'[handle'[s].key] = [by |-> s, expires |-> handle'[s].expires]
  BY <1>6, PruneFacts DEF Pruned, Prune, Kept, Holds
<1> QED  BY <1>1, <1>5, <1>6, Zenon DEF IInv, Backed

LEMMA TickStep == ASSUME IInv, Tick PROVE IInv'
<1>1. TypeOK'  BY MemoryAssumption DEF IInv, TypeOK, Tick, driver
<1>2. StoreInv'  BY Zenon DEF IInv, StoreInv, Uses, Tick, driver
<1>3. ASSUME NEW s \in Sessions PROVE Holds(s)' => Holds(s)
  BY MemoryAssumption DEF IInv, TypeOK, Times, Holds, Expired, Tick
<1> QED  BY <1>1, <1>2, <1>3 DEF IInv, Backed, Tick, driver

-----------------------------------------------------------------------------
(***************************************************************************)
(* Every step has one of the effects.                                      *)
(***************************************************************************)
\* The session Renew and Release recognise is the one the lease was granted to.
LEMMA RecognisedHolder ==
    ASSUME IInv, Recognised, NEW s \in Sessions, NEW now \in Nows,
           handle[s].state = "held", Owned(s, now),
           Uses(s) = "strict" => PrunedStrict(now)[handle[s].key] = handle[s].token
    PROVE  /\ handle[s].key \in Keys
           /\ leases[handle[s].key].by = s /\ leases[handle[s].key] # NoLease
           /\ PrunedLeases(now)[handle[s].key] = leases[handle[s].key]
<1> DEFINE k == handle[s].key
<1>1. k \in Keys  BY Zenon DEF IInv, StoreInv
<1>2. leases[k] # NoLease /\ PrunedLeases(now)[k] = leases[k]
      /\ PrunedStrict(now)[k] = strictLeases[k] /\ Owner[leases[k].by][k] = Owner[s][k]
  BY <1>1, PruneFacts, Zenon DEF Owned
<1>3. leases[k].by \in Sessions /\ handle[leases[k].by].key = k
  BY <1>1, <1>2, Zenon DEF IInv, StoreInv
<1>4. leases[k].by = s
  <2>1. CASE Uses(s) # "strict"  BY <1>1, <1>2, <1>3, <2>1, Zenon DEF Recognised, Uses
  <2>2. CASE Uses(s) = "strict"
    <3>1. strictLeases[k] = handle[leases[k].by].token
      BY <1>1, <1>2, <2>2, Zenon DEF IInv, StoreInv
    <3>2. strictLeases[k] = handle[s].token /\ handle[s].token # 0
      BY <1>1, <1>2, <2>2, Zenon DEF IInv, StoreInv
    <3>3. \A r, t \in Sessions : (/\ handle[r].key = handle[t].key /\ handle[r].token # 0
                                  /\ handle[r].token = handle[t].token) => r = t
      BY Zenon DEF IInv, StoreInv
    <3> QED  BY <1>3, <2>2, <3>1, <3>2, <3>3, Zenon
  <2> QED  BY <2>1, <2>2, Zenon
<1> QED  BY <1>1, <1>2, <1>4, Zenon

LEMMA HandleStep ==
    ASSUME IInv, NEW s \in Sessions, NEW h \in HandleType, handle' = [handle EXCEPT ![s] = h]
    PROVE  Others(s) /\ handle'[s] = h
BY DEF Others, IInv, TypeOK, HandleType

LEMMA LeasedFact ==
    ASSUME IInv, NEW k \in Keys, NEW now \in Nows, NEW l \in LeaseType,
           leases' = [PrunedLeases(now) EXCEPT ![k] = l], UNCHANGED clock
    PROVE  Leased(k, now, l)
BY PruneTypes DEF Leased

LEMMA EnrolledPlain ==
    ASSUME IInv, NEW s \in Sessions, NEW k \in Keys, NEW now \in Nows, NEW t,
           Method[s][k] # "lineage",
           lineageLeases' = PrunedLineage(now), descendantsByAncestor' = PrunedDescendants(now)
    PROVE  Enrolled(s, k, now, t)
BY PruneTypes DEF Enrolled

LEMMA EnrolledLineage ==
    ASSUME IInv, NEW s \in Sessions, NEW k \in Keys, NEW now \in Nows, NEW t \in Times,
           Method[s][k] = "lineage",
           lineageLeases' = [PrunedLineage(now) EXCEPT ![s] = t],
           descendantsByAncestor' = [a \in Keys |-> IF a \in Ancestors[k]
                                                    THEN [PrunedDescendants(now)[a] EXCEPT ![s] = t]
                                                    ELSE PrunedDescendants(now)[a]]
    PROVE  Enrolled(s, k, now, t)
BY PruneTypes DEF Enrolled

LEMMA GrantEffect ==
    ASSUME IInv, NEW s \in Sessions, NEW k \in Keys, NEW now \in Nows, AcquireAny(s, k, now)
    PROVE  Granted(s, k, now) \/ Refuse(now)
<1> DEFINE e == now + Ttl
<1> SUFFICES ASSUME ~Refuse(now) PROVE Granted(s, k, now)  OBVIOUS
<1>0. e \in Times /\ e # 0 /\ strictCounters \in [Keys -> Nat]
  BY NowFacts DEF IInv, TypeOK
<1>1. PICK token \in Nat :
         /\ Grant(s, k, now, token)
         /\ Method[s][k] = "strict" =>
               /\ token = strictCounters[k] + 1
               /\ strictCounters' = [strictCounters EXCEPT ![k] = token]
               /\ strictLeases' = [PrunedStrict(now) EXCEPT ![k] = token]
         /\ Method[s][k] # "strict" =>
               token = 0 /\ UNCHANGED strictCounters /\ strictLeases' = PrunedStrict(now)
  <2>1. strictCounters[k] + 1 \in Nat /\ 0 \in Nat  BY <1>0
  <2> QED
    BY <2>1, Zenon DEF AcquireAny, Acquire, AcquireStrict, AcquireWithLineage
<1>2. /\ [state |-> "held", key |-> k, expires |-> e, token |-> token] \in HandleType
      /\ [by |-> s, expires |-> e] \in LeaseType
  BY <1>0 DEF HandleType, LeaseType
<1>3. /\ Others(s) /\ handle'[s] = [state |-> "held", key |-> k, expires |-> e, token |-> token]
      /\ Leased(k, now, [by |-> s, expires |-> e])
  BY <1>1, <1>2, HandleStep, LeasedFact, Zenon DEF Grant
<1>4. /\ handle[s].state = "new" /\ PrunedLeases(now)[k] = NoLease
      /\ Method[s][k] = "lineage" => ~rejectLineageConflict(k, now)
  BY Zenon DEF AcquireAny, Acquire, AcquireStrict, AcquireWithLineage, rejectLineageConflict
<1>5. Counted(s, k, now, [by |-> s, expires |-> e])
  <2>1. handle'[s].token = token  BY <1>3
  <2>2. PrunedStrict(now) \in [Keys -> Nat]  BY PruneTypes
  <2>3. [by |-> s, expires |-> e] # NoLease  BY <1>0 DEF NoLease
  <2>4. CASE Method[s][k] = "strict"
    <3>1. /\ strictLeases' = [PrunedStrict(now) EXCEPT ![k] = token]
          /\ strictCounters' = [strictCounters EXCEPT ![k] = token]
          /\ token = strictCounters[k] + 1
      BY <1>1, <2>4, Zenon
    <3> QED  BY <1>0, <2>1, <2>2, <2>3, <2>4, <3>1 DEF Counted
  <2>5. CASE Method[s][k] # "strict"
    <3>1. token = 0 /\ strictLeases' = PrunedStrict(now) /\ strictCounters' = strictCounters
      BY <1>1, <2>5, Zenon
    <3>2. PrunedStrict(now)[k] = 0  BY <1>4, PruneTokens, Zenon
    <3> QED  BY <1>0, <2>1, <2>2, <2>3, <2>5, <3>1, <3>2, Zenon DEF Counted
  <2> QED  BY <2>4, <2>5
<1>6. Enrolled(s, k, now, e)
  BY <1>0, EnrolledLineage, EnrolledPlain, Zenon DEF AcquireAny, Acquire, AcquireStrict,
     AcquireWithLineage
<1>7. handle[s].key \notin Keys  BY <1>4, Zenon DEF IInv, StoreInv
<1> HIDE DEF e
<1>8. Works(s, k, now, [by |-> s, expires |-> e])
  BY <1>0, <1>2, <1>3, <1>4, <1>5, <1>6, <1>7 DEF Works
<1>9. handle'[s].token = token  BY <1>3
<1> QED  BY <1>0, <1>1, <1>4, <1>8, <1>9 DEF Granted, e

LEMMA RenewEffect ==
    ASSUME IInv, Recognised, NEW s \in Sessions, NEW now \in Nows, RenewAny(s, now)
    PROVE  Extended(s, now) \/ Refuse(now)
<1> DEFINE k == handle[s].key
           e == now + Ttl
           h == [handle[s] EXCEPT !.expires = e]
<1> SUFFICES ASSUME ~Refuse(now) PROVE Extended(s, now)  OBVIOUS
<1>0. e \in Times /\ e # 0 /\ strictCounters \in [Keys -> Nat]
  BY NowFacts DEF IInv, TypeOK
<1>1. /\ handle[s].state = "held" /\ Owned(s, now) /\ Extend(s, now)
      /\ Uses(s) = "strict" => PrunedStrict(now)[k] = handle[s].token
  BY Zenon DEF RenewAny, Renew, RenewStrict, RenewWithLineage
<1>2. k \in Keys /\ leases[k].by = s /\ PrunedLeases(now)[k] = leases[k] /\ leases[k] # NoLease
  BY <1>1, RecognisedHolder, Zenon
<1>3. /\ h \in HandleType /\ handle' = [handle EXCEPT ![s] = h]
      /\ h.key = k /\ h.token = handle[s].token /\ h.expires = e /\ h.state = "held"
  BY <1>0, <1>1, Zenon DEF Extend, IInv, TypeOK, HandleType
<1>4. Leased(k, now, [by |-> s, expires |-> e])
  BY <1>0, <1>1, <1>2, PruneTypes DEF Leased, Extend, LeaseType
<1>5. Enrolled(s, k, now, e)
  BY <1>0, <1>1, <1>2, EnrolledLineage, EnrolledPlain, Zenon DEF RenewAny, Renew, RenewStrict,
     RenewWithLineage, Uses
<1> HIDE DEF h
<1>6. Others(s) /\ handle'[s] = h  BY <1>3, HandleStep, Zenon
<1>7. Counted(s, k, now, [by |-> s, expires |-> e])
  <2>1. PrunedStrict(now)[k] = handle[s].token  BY <1>2, PruneTokens, Zenon
  <2>2. [by |-> s, expires |-> e] # NoLease  BY <1>0 DEF NoLease
  <2> QED  BY <1>0, <1>1, <1>3, <1>6, <2>1, <2>2, PruneTypes, Zenon DEF Counted, Extend
<1> HIDE DEF e
<1>8. Works(s, k, now, [by |-> s, expires |-> e])
  BY <1>0, <1>2, <1>3, <1>4, <1>5, <1>6, <1>7, Zenon DEF Works
<1> QED  BY <1>1, <1>2, <1>3, <1>6, <1>8, Zenon DEF Extended, Own, Extend, e

LEMMA ReleaseEffect ==
    ASSUME IInv, Recognised, NEW s \in Sessions, NEW now \in Nows, ReleaseAny(s, now)
    PROVE  Released(s, now) \/ (Pruned(now) /\ Kept)
<1> DEFINE k == handle[s].key
           mine == Owned(s, now) /\ (Uses(s) = "strict" => PrunedStrict(now)[k] = handle[s].token)
           h == [handle[s] EXCEPT !.state = "done"]
<1>1. /\ handle[s].state = "held" /\ Drop(s)
      /\ leases' = IF mine THEN [PrunedLeases(now) EXCEPT ![k] = NoLease] ELSE PrunedLeases(now)
      /\ strictLeases' = IF mine /\ Uses(s) = "strict" THEN [PrunedStrict(now) EXCEPT ![k] = 0]
                                                       ELSE PrunedStrict(now)
  BY Zenon DEF ReleaseAny, Release, ReleaseStrict, ReleaseWithLineage
<1>2. /\ h \in HandleType /\ handle' = [handle EXCEPT ![s] = h]
      /\ h.key = k /\ h.token = handle[s].token /\ h.expires = handle[s].expires
      /\ h.state = "done"
      /\ UNCHANGED <<clock, strictCounters>> /\ strictCounters \in [Keys -> Nat]
  <2>1. handle \in [Sessions -> HandleType] /\ strictCounters \in [Keys -> Nat]
    BY DEF IInv, TypeOK, HandleType
  <2> QED  BY <1>1, <2>1, Zenon DEF Drop, HandleType
<1>3. k \in Keys  BY <1>1, Zenon DEF IInv, StoreInv
<1> HIDE DEF h
<1>4. Others(s) /\ handle'[s] = h  BY <1>2, HandleStep, Zenon
<1>5. CASE mine
  <2>1. leases[k].by = s /\ PrunedLeases(now)[k] = leases[k] /\ leases[k] # NoLease
    BY <1>1, <1>5, RecognisedHolder, Zenon
  <2>2. Leased(k, now, NoLease)
    BY <1>1, <1>2, <1>3, <1>5, LeasedFact, PruneTypes, Zenon
  <2>3. 0 \in Times /\ NoLease.expires = 0  BY MemoryAssumption DEF Times, NoLease
  <2>4. Enrolled(s, k, now, 0)
    BY <1>3, <1>5, <2>3, EnrolledLineage, EnrolledPlain, Zenon DEF ReleaseAny, Release,
       ReleaseStrict, ReleaseWithLineage, Uses
  <2>5. Counted(s, k, now, NoLease)
    <3>1. PrunedStrict(now)[k] = handle[s].token  BY <1>3, <2>1, PruneTokens, Zenon
    <3>2. Uses(s) # "strict" => handle[s].token = 0  BY <1>3, Zenon DEF IInv, StoreInv
    <3>3. strictLeases'[k] = 0  BY <1>1, <1>3, <1>5, <3>1, <3>2, PruneTypes
    <3> QED  BY <1>1, <1>2, <1>3, <1>4, <1>5, <3>3, PruneTypes DEF Counted
  <2>6. Works(s, k, now, NoLease)
    BY <1>2, <1>3, <1>4, <2>1, <2>2, <2>3, <2>4, <2>5, Zenon DEF Works
  <2> QED  BY <1>1, <1>2, <1>3, <1>4, <2>1, <2>6, Zenon DEF Released, Own
<1>6. CASE ~mine
  <2>1. Kept  BY <1>1, <1>2, <1>4, Zenon DEF Kept, Others
  <2> QED
    BY <1>2, <1>6, <2>1, Zenon DEF Pruned, Prune, ReleaseAny, Release, ReleaseStrict,
       ReleaseWithLineage, PrunedDescendants
<1> QED  BY <1>5, <1>6

LEMMA RefuseEffect == ASSUME IInv, NEW now \in Nows, Refuse(now) PROVE Pruned(now) /\ Kept
BY DEF Refuse, Pruned, Kept, IInv, TypeOK, HandleType

LEMMA StepEffect == ASSUME IInv, Recognised, Next PROVE Effect
BY RefuseEffect, GrantEffect, RenewEffect, ReleaseEffect, Zenon DEF Next, Effect, CheckPresence

-----------------------------------------------------------------------------
(***************************************************************************)
(* The lineage maps and the leases the callers were told of.               *)
(***************************************************************************)
\* Pruning removes a lease, its lease id and its entries together.
LEMMA PruneLineage ==
    ASSUME IInv, LineageInv, NEW now \in Nows
    PROVE  /\ \A s \in Sessions : PrunedLineage(now)[s] # 0 =>
                 /\ handle[s].key \in Keys /\ Uses(s) = "lineage"
                 /\ PrunedLeases(now)[handle[s].key] = [by |-> s, expires |-> PrunedLineage(now)[s]]
                 /\ PrunedLeases(now)[handle[s].key] # NoLease
                 /\ \A a \in Ancestors[handle[s].key] :
                       PrunedDescendants(now)[a][s] = PrunedLineage(now)[s]
           /\ \A k \in Keys :
                 PrunedLeases(now)[k] # NoLease /\ Method[PrunedLeases(now)[k].by][k] = "lineage" =>
                 PrunedLineage(now)[PrunedLeases(now)[k].by] = PrunedLeases(now)[k].expires
           /\ \A a \in Keys, s \in Sessions : PrunedDescendants(now)[a][s] # 0 =>
                 /\ PrunedLineage(now)[s] = PrunedDescendants(now)[a][s]
                 /\ a \in Ancestors[handle[s].key]
<1>0. \A k \in Keys : Ancestors[k] \subseteq Keys
  BY MemoryAssumption
<1>1. ASSUME NEW s \in Sessions, PrunedLineage(now)[s] # 0
      PROVE  /\ handle[s].key \in Keys /\ Uses(s) = "lineage"
             /\ PrunedLeases(now)[handle[s].key] = [by |-> s, expires |-> PrunedLineage(now)[s]]
             /\ PrunedLeases(now)[handle[s].key] # NoLease
             /\ \A a \in Ancestors[handle[s].key] :
                   PrunedDescendants(now)[a][s] = PrunedLineage(now)[s]
  BY <1>0, <1>1 DEF PrunedLineage, LineageInv, PrunedLeases, NoLease, PrunedDescendants
<1>2. ASSUME NEW k \in Keys, PrunedLeases(now)[k] # NoLease,
             Method[PrunedLeases(now)[k].by][k] = "lineage"
      PROVE  PrunedLineage(now)[PrunedLeases(now)[k].by] = PrunedLeases(now)[k].expires
  BY <1>0, <1>2, Zenon DEF PrunedLeases, LineageInv, IInv, StoreInv, PrunedLineage
<1>3. ASSUME NEW a \in Keys, NEW s \in Sessions, PrunedDescendants(now)[a][s] # 0
      PROVE  /\ PrunedLineage(now)[s] = PrunedDescendants(now)[a][s]
             /\ a \in Ancestors[handle[s].key]
  BY <1>3, Zenon DEF PrunedDescendants, LineageInv, PrunedLineage
<1> QED  BY <1>1, <1>2, <1>3, Zenon

LEMMA LineageStep ==
    ASSUME IInv, LineageInv, NEW now \in Nows, NEW s \in Sessions, NEW k \in Keys, NEW l,
           Works(s, k, now, l)
    PROVE  LineageInv'
<1> DEFINE t == l.expires
<1>0. (\A j \in Keys : Ancestors[j] \subseteq Keys) /\ "nobody" \notin Sessions
  BY MemoryAssumption
<1>1. /\ handle[s].key \in Keys => handle[s].key = k
      /\ handle'[s].key = k /\ leases'[k] = l
      /\ \A j \in Keys \ {k} : leases'[j] = PrunedLeases(now)[j]
      /\ Enrolled(s, k, now, t)
      /\ \A r \in Sessions \ {s} : handle'[r] = handle[r]
  BY DEF Works, Others, Leased
<1>2. \/ l = NoLease /\ t = 0
      \/ l = [by |-> s, expires |-> t] /\ t # 0
  BY DEF Works, NoLease
<1>3. PrunedLeases(now)[k] = NoLease \/ PrunedLeases(now)[k].by = s  BY DEF Works
<1> HIDE DEF t
<1>4. \A r \in Sessions \ {s} :
         /\ lineageLeases'[r] = PrunedLineage(now)[r]
         /\ \A a \in Keys : descendantsByAncestor'[a][r] = PrunedDescendants(now)[a][r]
  BY <1>1 DEF Enrolled
<1>5. PrunedLineage(now)[s] # 0 => handle[s].key = k /\ Method[s][k] = "lineage"
  BY <1>1, PruneLineage, Zenon DEF Uses
<1>6. ASSUME NEW a \in Keys 
      PROVE  descendantsByAncestor'[a][s] =
                IF Method[s][k] = "lineage" /\ a \in Ancestors[k] THEN t ELSE 0
  BY <1>1, <1>5, PruneLineage DEF Enrolled
<1>7. lineageLeases'[s] = IF Method[s][k] = "lineage" THEN t ELSE 0
  BY <1>1, <1>5 DEF Enrolled
<1>8. ASSUME NEW r \in Sessions, lineageLeases'[r] # 0
      PROVE  /\ handle'[r].key \in Keys /\ Method[r][handle'[r].key] = "lineage"
             /\ leases'[handle'[r].key] = [by |-> r, expires |-> lineageLeases'[r]]
             /\ \A a \in Ancestors[handle'[r].key] :
                   descendantsByAncestor'[a][r] = lineageLeases'[r]
  <2>1. CASE r = s  BY <1>0, <1>1, <1>2, <1>6, <1>7, <1>8, <2>1, Zenon
  <2>2. CASE r # s
    <3>1. PrunedLineage(now)[r] # 0 /\ handle'[r] = handle[r]  BY <1>1, <1>4, <1>8, <2>2
    <3>2. /\ handle[r].key \in Keys /\ Method[r][handle[r].key] = "lineage"
          /\ PrunedLeases(now)[handle[r].key] = [by |-> r, expires |-> PrunedLineage(now)[r]]
          /\ PrunedLeases(now)[handle[r].key] # NoLease
          /\ \A a \in Ancestors[handle[r].key] :
                PrunedDescendants(now)[a][r] = PrunedLineage(now)[r]
      BY <3>1, PruneLineage, Zenon DEF Uses
    <3> QED  BY <1>0, <1>1, <1>3, <1>4, <2>2, <3>1, <3>2
  <2> QED  BY <2>1, <2>2, Zenon
<1>9. ASSUME NEW j \in Keys, leases'[j] # NoLease, Method[leases'[j].by][j] = "lineage"
      PROVE  lineageLeases'[leases'[j].by] = leases'[j].expires
  <2>1. CASE j = k  BY <1>1, <1>2, <1>7, <1>9, <2>1
  <2>2. CASE j # k  BY <1>0, <1>1, <1>4, <1>9, <2>2, PruneLineage, OtherLeases
  <2> QED  BY <2>1, <2>2
<1>10. ASSUME NEW a \in Keys, NEW r \in Sessions, descendantsByAncestor'[a][r] # 0
      PROVE  /\ lineageLeases'[r] = descendantsByAncestor'[a][r]
             /\ a \in Ancestors[handle'[r].key]
  <2>1. CASE r = s  BY <1>1, <1>6, <1>7, <1>10, <2>1, Zenon
  <2>2. CASE r # s  BY <1>1, <1>4, <1>10, <2>2, PruneLineage
  <2> QED  BY <2>1, <2>2, Zenon
<1> QED  BY <1>8, <1>9, <1>10, Zenon DEF LineageInv, Uses

LEMMA ToldStep ==
    ASSUME IInv, ToldInv, NEW now \in Nows, NEW s \in Sessions, NEW k \in Keys, NEW l,
           Works(s, k, now, l)
    PROVE  ToldInv'
<1>1. /\ leases'[k] = l
      /\ l = NoLease \/ (l = [by |-> s, expires |-> handle'[s].expires] /\ l.expires # 0)
      /\ \A r \in Sessions \ {s} : handle'[r] = handle[r]
  BY DEF Works, Others, Leased
<1>2. ASSUME NEW j \in Keys, leases'[j] # NoLease
      PROVE  leases'[j].expires = handle'[leases'[j].by].expires /\ leases'[j].expires # 0
  <2>1. CASE j = k  BY <1>1, <1>2, <2>1
  <2>2. CASE j # k  BY <1>2, <2>2, OtherLeases DEF ToldInv
  <2> QED  BY <2>1, <2>2, Zenon
<1> QED  BY <1>2, Zenon DEF ToldInv

\* A step that only prunes.
LEMMA PrunedLineageStep ==
    ASSUME IInv, LineageInv, ToldInv, NEW now \in Nows, Pruned(now), Kept
    PROVE  LineageInv' /\ ToldInv'
<1>0. \A s \in Sessions : /\ handle'[s].key = handle[s].key
                          /\ handle'[s].token = handle[s].token
                          /\ handle'[s].expires = handle[s].expires
  BY DEF Kept
<1>1. LineageInv'
  <2>1. /\ leases' = PrunedLeases(now) /\ lineageLeases' = PrunedLineage(now)
        /\ descendantsByAncestor' = PrunedDescendants(now)
    BY Zenon DEF Pruned, Prune
  <2>2. ASSUME NEW s \in Sessions, lineageLeases'[s] # 0
        PROVE  /\ handle'[s].key \in Keys /\ Method[s][handle'[s].key] = "lineage"
               /\ leases'[handle'[s].key] = [by |-> s, expires |-> lineageLeases'[s]]
               /\ \A a \in Ancestors[handle'[s].key] :
                     descendantsByAncestor'[a][s] = lineageLeases'[s]
    <3>1. /\ handle[s].key \in Keys /\ Method[s][handle[s].key] = "lineage"
          /\ PrunedLeases(now)[handle[s].key] = [by |-> s, expires |-> PrunedLineage(now)[s]]
          /\ \A a \in Ancestors[handle[s].key] :
                PrunedDescendants(now)[a][s] = PrunedLineage(now)[s]
      BY <2>1, <2>2, PruneLineage, Zenon DEF Uses
    <3> QED  BY <1>0, <2>1, <3>1
  <2>3. ASSUME NEW a \in Keys, NEW s \in Sessions, descendantsByAncestor'[a][s] # 0
        PROVE  /\ lineageLeases'[s] = descendantsByAncestor'[a][s]
               /\ a \in Ancestors[handle'[s].key]
    BY <1>0, <2>1, <2>3, PruneLineage, Zenon
  <2>4. ASSUME NEW k \in Keys, leases'[k] # NoLease, Method[leases'[k].by][k] = "lineage"
        PROVE  lineageLeases'[leases'[k].by] = leases'[k].expires
    BY <2>1, <2>4, PruneLineage, Zenon
  <2> QED  BY <2>2, <2>3, <2>4, Zenon DEF LineageInv, Uses
<1>2. ASSUME NEW k \in Keys, leases'[k] # NoLease
      PROVE  leases'[k] = leases[k] /\ leases[k].by \in Sessions
  <2>1. leases'[k] = leases[k]  BY <1>2, PruneFacts, Zenon DEF Pruned, Prune
  <2> QED  BY <1>2, <2>1, Zenon DEF IInv, StoreInv
<1>3. ToldInv'  BY <1>0, <1>2 DEF ToldInv
<1> QED  BY <1>1, <1>3

-----------------------------------------------------------------------------
(***************************************************************************)
(* The inductive invariant.                                                *)
(***************************************************************************)
Inv == IInv /\ LineageInv /\ ToldInv

LEMMA InvInit == Init => Inv
<1> SUFFICES ASSUME Init PROVE Inv  OBVIOUS
<1>1. IInv
  BY MemoryAssumption DEF Init, IInv, TypeOK, StoreInv, Backed, Holds, NoLease, NoHandle, Times
<1>2. LineageInv /\ ToldInv
  BY MemoryAssumption DEF Init, LineageInv, ToldInv, NoHandle
<1> QED  BY <1>1, <1>2 DEF Inv

LEMMA InvNext == ASSUME Inv, Recognised, [Next]_vars PROVE Inv'
<1>0. IInv /\ LineageInv /\ ToldInv  BY DEF Inv
<1>1. CASE UNCHANGED vars
  <2>1. UNCHANGED <<clock, leases, strictLeases, strictCounters, lineageLeases,
                    descendantsByAncestor, handle>>
    BY <1>1 DEF vars, driver
  <2>2. TypeOK' /\ StoreInv'  BY <1>0, <2>1, Zenon DEF IInv, TypeOK, StoreInv, Uses
  <2>3. (\A s \in Sessions : Backed(s))'  BY <1>0, <2>1, Zenon DEF IInv, Backed, Holds
  <2>4. LineageInv' /\ ToldInv'  BY <1>0, <2>1, Zenon DEF LineageInv, Uses, ToldInv
  <2> QED  BY <2>2, <2>3, <2>4 DEF Inv, IInv
<1>2. CASE Tick
  <2>1. LineageInv' /\ ToldInv'  BY <1>0, <1>2, Zenon DEF Tick, driver, LineageInv, Uses, ToldInv
  <2> QED  BY <1>0, <1>2, <2>1, TickStep, Zenon DEF Inv
<1>3. ASSUME NEW now \in Nows, Pruned(now), Kept PROVE Inv'
  BY <1>0, <1>3, PrunedStep, PrunedLineageStep, Zenon DEF Inv
<1>4. ASSUME NEW now \in Nows, NEW s \in Sessions, NEW k \in Keys, NEW l, Works(s, k, now, l)
      PROVE  Inv'
  BY <1>0, <1>4, WorkStep, LineageStep, ToldStep, Zenon DEF Inv
<1>5. CASE Next
  <2>1. Effect  BY <1>0, <1>5, StepEffect
  <2> QED
    BY <1>2, <1>3, <1>4, <2>1, Zenon DEF Effect, Extended, Released, Own, Granted
<1> QED  BY <1>1, <1>5

LEMMA MutualFromInv == IInv => MutualExclusion
<1> SUFFICES ASSUME IInv, NEW s \in Sessions, NEW t \in Sessions, Holds(s), Holds(t),
                    handle[s].key = handle[t].key
             PROVE  s = t
  BY DEF MutualExclusion
<1>1. /\ leases[handle[s].key] = [by |-> s, expires |-> handle[s].expires]
      /\ leases[handle[t].key] = [by |-> t, expires |-> handle[t].expires]
  BY DEF IInv, Backed
<1> QED  BY <1>1

LEMMA ConsistentFromInv == IInv /\ LineageInv => MembershipConsistent
<1> SUFFICES ASSUME IInv, LineageInv PROVE MembershipConsistent  OBVIOUS
<1>1. ASSUME NEW k \in Keys, Live(k), Method[leases[k].by][k] = "lineage"
      PROVE  /\ lineageLeases[leases[k].by] = leases[k].expires
             /\ \A a \in Ancestors[k] : descendantsByAncestor[a][leases[k].by] = leases[k].expires
  <2>1. leases[k] # NoLease  BY <1>1 DEF Live
  <2>2. leases[k].by \in Sessions /\ handle[leases[k].by].key = k
    BY <2>1, Zenon DEF IInv, StoreInv
  <2>3. lineageLeases[leases[k].by] = leases[k].expires  BY <1>1, <2>1, Zenon DEF LineageInv
  <2>4. leases[k].expires # 0  BY <1>1 DEF Live, Expired, IInv, TypeOK
  <2> QED  BY <2>2, <2>3, <2>4, Zenon DEF LineageInv
<1> QED  BY <1>1, Zenon DEF MembershipConsistent, LineageInv

\* No two callers of the memory driver rely on leases of one resource, if
\* Renew and Release can recognise their callers: a session that uses the plain
\* or the lineage methods shares its OwnerID with no other.
THEOREM MemoryExclusive == ASSUME Recognised PROVE Spec => []MutualExclusion
<1>1. Inv => MutualExclusion  BY MutualFromInv DEF Inv
<1> QED  BY <1>1, InvInit, InvNext, PTL DEF Spec

\* The lineage maps of the memory driver are consistent: pruning, renewal and
\* release never leave an entry without its lease, or a lease that was taken by
\* AcquireWithLineage without its entries, whatever the clock readings they
\* work with and whoever takes plain leases of the same keys.
THEOREM LineageConsistent == ASSUME Recognised PROVE Spec => []MembershipConsistent
<1>1. Inv => MembershipConsistent  BY ConsistentFromInv DEF Inv
<1> QED  BY <1>1, InvInit, InvNext, PTL DEF Spec

-----------------------------------------------------------------------------
(***************************************************************************)
(* What a step may do to a live lease, and to a lease somebody relies on.  *)
(***************************************************************************)
LEMMA LiveKept ==
    ASSUME IInv, NEW now \in Nows, NEW k \in Keys
    PROVE  /\ Live(k) => PrunedLeases(now)[k] = leases[k] /\ leases[k] # NoLease
           /\ PrunedLeases(now)[k] # NoLease => PrunedLeases(now)[k] = leases[k]
BY NowFacts DEF Live, Expired, PrunedLeases, IInv, TypeOK, Times

LEMMA HolderStep ==
    ASSUME Inv, Recognised, Next, NEW k \in Keys
    PROVE  ChangedByHolder(k)
<1> SUFFICES ASSUME Live(k), leases'[k] # leases[k]
             PROVE  handle'[leases[k].by] # handle[leases[k].by]
  BY DEF ChangedByHolder
<1>0. IInv /\ ToldInv  BY DEF Inv
<1>1. ASSUME NEW now \in Nows PROVE ~Pruned(now)
  BY <1>0, LiveKept DEF Pruned, Prune
<1>2. ASSUME NEW now \in Nows, NEW s \in Sessions, NEW j \in Keys, NEW l, Works(s, j, now, l)
      PROVE  j = k /\ leases[k].by = s /\ leases'[k] = l
  BY <1>0, <1>2, LiveKept DEF Works, Leased
<1>3. ASSUME NEW now \in Nows, NEW s \in Sessions, Extended(s, now)
      PROVE  handle'[leases[k].by] # handle[leases[k].by]
  <2>1. /\ leases[k].by = s /\ leases'[k] = [by |-> s, expires |-> now + Ttl]
        /\ handle'[s].expires = now + Ttl
    BY <1>2, <1>3, MemoryAssumption DEF Extended, Own, Works, NoLease
  <2>2. handle'[s].expires # handle[s].expires
    <3>1. leases[k].expires = handle[s].expires  BY <1>0, <2>1, Zenon DEF ToldInv, Live
    <3> QED  BY <1>0, <2>1, <3>1 DEF IInv, TypeOK
  <2> QED  BY <2>1, <2>2
<1>4. ASSUME NEW now \in Nows, NEW s \in Sessions, Released(s, now)
      PROVE  handle'[leases[k].by] # handle[leases[k].by]
  BY <1>2, <1>4, Zenon DEF Released, Own, Works, NoLease
<1>5. ASSUME NEW now \in Nows, NEW s \in Sessions, NEW j \in Keys PROVE ~Granted(s, j, now)
  BY <1>0, <1>2, LiveKept DEF Granted
<1> QED  BY <1>0, <1>1, <1>3, <1>4, <1>5, StepEffect, Zenon DEF Effect, Tick, driver

LEMMA GrantStepLineage ==
    ASSUME IInv, LineageInv, NEW s \in Sessions, NEW t \in Sessions, NEW k \in Keys,
           NEW now \in Nows, Granted(s, k, now), Holds(t), Blocks(t, s, k)
    PROVE  handle[t].expires = clock
<1> DEFINE j == handle[t].key
           e == handle[t].expires
<1>1. /\ j \in Keys /\ PrunedLeases(now)[j] # NoLease
      /\ leases[j] = [by |-> t, expires |-> e]
  BY PruneFacts, Zenon
<1>2. /\ now \in Nat /\ now >= 1 /\ now <= clock /\ clock \in Nat
      /\ e \in Nat /\ e >= clock
  BY NowFacts DEF IInv, TypeOK, Times, Holds, Expired
<1>3. CASE j \in Ancestors[k]
  BY <1>1, <1>3, Zenon DEF Blocks, Kind, Granted, rejectLineageConflict
<1>4. CASE Ancestors[k] = {} /\ Uses(t) = "lineage" /\ k \in Ancestors[j]
  <2>1. Method[s][k] = "lineage" /\ Kind(k) = "parent" /\ Method[t][j] = "lineage"
    BY <1>4, Zenon DEF Blocks, Kind, Uses
  <2>2. leases[j] # NoLease  BY <1>1, MemoryAssumption DEF NoLease
  <2>3. lineageLeases[t] = e  BY <1>1, <2>1, <2>2 DEF LineageInv
  <2>4. descendantsByAncestor[k][t] = e
    <3>1. e # 0  BY <1>2
    <3> QED  BY <1>4, <2>3, <3>1, Zenon DEF LineageInv
  <2> QED
    BY <1>2, <2>1, <2>3, <2>4 DEF PrunedDescendants, Expired, Granted, rejectLineageConflict
<1> QED  BY <1>3, <1>4 DEF Blocks

LEMMA LineageGrants ==
    ASSUME Inv, Recognised, Next, NEW s \in Sessions, NEW t \in Sessions,
           handle[s].state = "new", handle'[s].state = "held",
           Holds(t), Blocks(t, s, handle'[s].key)
    PROVE  handle[t].expires = clock
<1>0. IInv /\ LineageInv  BY DEF Inv
<1>1. handle[s].key \notin Keys  BY <1>0, Zenon DEF IInv, StoreInv
<1>2. ASSUME NEW r \in Sessions, NEW k \in Keys, NEW now, NEW l, Works(r, k, now, l)
      PROVE  r = s /\ handle'[s].key = k
  BY <1>2 DEF Works, Others
<1>3. PICK now \in Nows, r \in Sessions, k \in Keys : Granted(r, k, now)
  <2>1. \A now \in Nows : \A r \in Sessions : ~Extended(r, now) /\ ~Released(r, now)
    BY <1>1, <1>2, Zenon DEF Extended, Released, Own
  <2> QED  BY <1>0, <2>1, StepEffect, Zenon DEF Effect, Tick, Kept
<1>4. r = s /\ handle'[s].key = k  BY <1>2, <1>3 DEF Granted
<1> QED  BY <1>0, <1>3, <1>4, GrantStepLineage

\* A live lease of the memory driver is changed only by the session it was
\* granted to.
THEOREM OnlyHolderChanges == ASSUME Recognised PROVE Spec => OnlyHolder
<1>1. Inv /\ [Next]_vars => [\A k \in Keys : ChangedByHolder(k)]_vars
  BY HolderStep
<1> QED  BY <1>1, InvInit, InvNext, PTL DEF Spec, OnlyHolder

\* AcquireWithLineage grants nothing while a caller relies on an ancestor,
\* however that was taken, nor a root while a caller relies on a descendant
\* that was taken by AcquireWithLineage.
THEOREM LineageRespected == ASSUME Recognised PROVE Spec => GrantRespectsLineage
<1> DEFINE A == \A s, t \in Sessions :
                   (/\ handle[s].state = "new" /\ handle'[s].state = "held"
                    /\ Holds(t) /\ Blocks(t, s, handle'[s].key))
                   => handle[t].expires = clock
<1>1. Inv /\ [Next]_vars => [A]_vars
  BY LineageGrants
<1> QED  BY <1>1, InvInit, InvNext, PTL DEF Spec, GrantRespectsLineage

-----------------------------------------------------------------------------
(***************************************************************************)
(* The strict methods implement FencedLock, if a clock reading is never    *)
(* older than a lease is long: a lease is then alive when it is granted.   *)
(***************************************************************************)
LEMMA SameFunctions ==
    /\ LiveStrict = [k \in StrictKeys |-> LiveStrict[k]]
    /\ LiveStrict' = [k \in StrictKeys |-> LiveStrict'[k]]
    /\ LastGrant = [k \in StrictKeys |-> LastGrant[k]]
    /\ LastGrant' = [k \in StrictKeys |-> LastGrant'[k]]
    /\ \A k \in StrictKeys : /\ LiveStrict[k] = (Live(k) /\ strictLeases[k] # 0)
                             /\ LiveStrict'[k] = (Live(k)' /\ strictLeases'[k] # 0)
BY DEF LiveStrict, LastGrant

\* A key whose counter and whose holder a step leaves alone.
LEMMA LastKept ==
    ASSUME NEW k \in StrictKeys, strictCounters'[k] = strictCounters[k],
           LastHolders(k)' = LastHolders(k)
    PROVE  LastGrant'[k] = LastGrant[k]
BY Zenon DEF LastGrant

LEMMA SameHolders ==
    ASSUME NEW k \in StrictKeys, strictCounters'[k] = strictCounters[k],
           \A s \in Sessions : handle'[s].key = handle[s].key /\ handle'[s].token = handle[s].token
    PROVE  LastGrant'[k] = LastGrant[k]
BY LastKept DEF LastHolders

\* Pruning, at any clock reading, changes no lease that is live.
LEMMA SameLive ==
    ASSUME IInv, NEW now \in Nows, NEW k \in StrictKeys,
           leases'[k] = PrunedLeases(now)[k], strictLeases'[k] = PrunedStrict(now)[k],
           clock' = clock
    PROVE  LiveStrict'[k] = LiveStrict[k]
<1>1. k \in Keys  BY MemoryAssumption
<1>2. Live(k) => /\ PrunedLeases(now)[k] = leases[k] /\ leases[k] # NoLease
                 /\ PrunedStrict(now)[k] = strictLeases[k]
  BY <1>1, LiveKept, PruneFacts, Zenon
<1>3. Live(k)' => Live(k)  BY <1>1, LiveKept DEF Live
<1> QED  BY <1>2, <1>3 DEF LiveStrict, Live

Stutter == UNCHANGED <<LiveStrict, LastGrant>>

LEMMA FencedTick == ASSUME IInv, Tick PROVE Fenced!LapseSome
<1>1. ASSUME NEW k \in StrictKeys PROVE LastGrant'[k] = LastGrant[k]
  BY SameHolders DEF Tick, driver
<1>2. ASSUME NEW k \in StrictKeys, Live(k)' PROVE Live(k) /\ strictLeases'[k] = strictLeases[k]
  BY <1>2, MemoryAssumption DEF IInv, TypeOK, Times, Live, Expired, Tick, driver
<1>3. \A k \in StrictKeys : LiveStrict'[k] \in BOOLEAN  BY DEF LiveStrict, Live
<1> QED  BY <1>1, <1>2, <1>3, SameFunctions DEF Fenced!LapseSome

LEMMA FencedPruned ==
    ASSUME IInv, NEW now \in Nows, Pruned(now), Kept
    PROVE  Stutter
<1>1. ASSUME NEW k \in StrictKeys
      PROVE  LiveStrict'[k] = LiveStrict[k] /\ LastGrant'[k] = LastGrant[k]
  BY SameLive, SameHolders, Zenon DEF Pruned, Prune, Kept
<1> QED  BY <1>1, SameFunctions DEF Stutter

\* A step of session s on its own lease.
LEMMA FencedOwn ==
    ASSUME IInv, NEW now \in Nows, NEW s \in Sessions, NEW l, Own(s, now, l)
    PROVE  Stutter \/ \E k \in StrictKeys : Fenced!Revive(k) \/ Fenced!Lapse(k)
<1> DEFINE j == handle[s].key
<1>1. /\ j \in Keys /\ UNCHANGED strictCounters /\ clock' = clock
      /\ \A k \in Keys \ {j} : /\ leases'[k] = PrunedLeases(now)[k]
                                /\ strictLeases'[k] = PrunedStrict(now)[k]
      /\ \A r \in Sessions : handle'[r].key = handle[r].key /\ handle'[r].token = handle[r].token
      /\ strictLeases'[j] = 0 \/ strictLeases'[j] = handle[s].token
      /\ strictLeases[j] = handle[s].token
  <2>1. j \in Keys /\ leases[j] # NoLease /\ leases[j].by = s  BY Zenon DEF Own
  <2>2. strictLeases[j] = handle[s].token  BY <2>1, Zenon DEF IInv, StoreInv
  <2> QED  BY <2>1, <2>2, Zenon DEF Own, Works, Leased, Others, Counted
<1>2. \A k \in StrictKeys \ {j} : LiveStrict'[k] = LiveStrict[k]
  BY <1>1, SameLive, MemoryAssumption
<1>3. LastGrant' = LastGrant  BY <1>1, SameFunctions, SameHolders
<1>4. CASE j \notin StrictKeys \/ LiveStrict'[j] = LiveStrict[j]
  BY <1>2, <1>3, <1>4, SameFunctions DEF Stutter
<1>5. CASE j \in StrictKeys /\ LiveStrict'[j] # LiveStrict[j]
  <2>1. LiveStrict' = [LiveStrict EXCEPT ![j] = LiveStrict'[j]]  BY <1>2, SameFunctions
  <2>2. LastGrant[j].token # 0
    <3>1. handle[s].token # 0  BY <1>1, <1>5, SameFunctions
    <3>2. handle[s].token <= strictCounters[j] /\ handle[s].token \in Nat
      BY <1>1 DEF IInv, StoreInv, TypeOK
    <3>3. LastGrant[j].token = strictCounters[j]  BY <1>5 DEF LastGrant
    <3> QED  BY <1>1, <3>1, <3>2, <3>3 DEF IInv, TypeOK
  <2>3. CASE LiveStrict[j] = FALSE /\ LiveStrict'[j] = TRUE
    BY <1>3, <1>5, <2>1, <2>2, <2>3, Zenon DEF Fenced!Revive
  <2>4. CASE LiveStrict[j] = TRUE /\ LiveStrict'[j] = FALSE
    BY <1>3, <1>5, <2>1, <2>4, Zenon DEF Fenced!Lapse
  <2> QED  BY <1>5, <2>3, <2>4, Zenon DEF LiveStrict, Live
<1> QED  BY <1>4, <1>5

LEMMA FencedGrant ==
    ASSUME IInv, IInv', Lag <= Ttl, NEW now \in Nows, NEW s \in Sessions, NEW j \in Keys,
           Granted(s, j, now)
    PROVE  Stutter \/ (j \in StrictKeys /\ Fenced!Grant(s, j))
<1>1. /\ clock' = clock
      /\ \A k \in Keys \ {j} : /\ leases'[k] = PrunedLeases(now)[k]
                                /\ strictLeases'[k] = PrunedStrict(now)[k]
      /\ leases'[j] = [by |-> s, expires |-> now + Ttl] /\ PrunedLeases(now)[j] = NoLease
      /\ handle'[s].key = j /\ \A r \in Sessions \ {s} : handle'[r] = handle[r]
      /\ \A k \in Keys \ {j} : strictCounters'[k] = strictCounters[k]
  BY Zenon DEF Granted, Works, Leased, Counted, Others
<1>a. ~Live(j)  BY <1>1, LiveKept, Zenon
<1>b. strictLeases'[j] = handle'[s].token
  <2>1. leases'[j] # NoLease  BY <1>1, MemoryAssumption DEF NoLease
  <2>2. strictLeases'[j] = IF leases'[j] = NoLease THEN 0 ELSE handle'[leases'[j].by].token
    BY Zenon DEF IInv, StoreInv
  <2> QED  BY <1>1, <2>1, <2>2
<1>2. StrictKeys \subseteq Keys  BY MemoryAssumption
<1>3. handle[s].key \notin Keys  BY Zenon DEF Granted, IInv, StoreInv
<1>4. ASSUME NEW k \in StrictKeys \ {j}
      PROVE  LastGrant'[k] = LastGrant[k] /\ LiveStrict'[k] = LiveStrict[k]
  BY <1>1, <1>2, <1>3, LastKept, SameLive DEF LastHolders
<1>5. CASE j \notin StrictKeys  BY <1>4, <1>5, SameFunctions DEF Stutter
<1>7. CASE j \in StrictKeys /\ Method[s][j] # "strict"
  <2>1. strictCounters'[j] = strictCounters[j] /\ handle'[s].token = 0
    BY <1>7, Zenon DEF Granted
  <2>2. LastHolders(j)' = LastHolders(j)  BY <1>1, <1>3, <2>1 DEF LastHolders
  <2>3. LastGrant'[j] = LastGrant[j]  BY <1>7, <2>1, <2>2, LastKept
  <2>4. LiveStrict'[j] = FALSE /\ LiveStrict[j] = FALSE
    BY <1>7, <1>a, <1>b, <2>1, Zenon DEF LiveStrict
  <2> QED  BY <1>4, <2>3, <2>4, SameFunctions, Zenon DEF Stutter
<1>6. CASE j \in StrictKeys /\ Method[s][j] = "strict"
  <2>1. LiveStrict'[j] = TRUE
    <3>1. Live(j)'
      BY <1>1, NowFacts, MemoryAssumption DEF Live, Expired, Nows, IInv, NoLease
    <3>2. strictLeases'[j] # 0
      BY <1>6, <1>b DEF Granted, IInv, TypeOK
    <3> QED  BY <1>6, <3>1, <3>2, Zenon DEF LiveStrict
  <2>2. /\ strictCounters'[j] = strictCounters[j] + 1 /\ handle'[s].token = strictCounters'[j]
        /\ handle'[s].token # 0
    BY <1>6 DEF Granted, IInv, TypeOK
  <2>3. LastHolders(j)' = {s}
    <3>1. ASSUME NEW r \in LastHolders(j)' PROVE r = s
      BY <1>1, <1>6, <2>2 DEF LastHolders, IInv, StoreInv
    <3> QED  BY <1>1, <2>2, <3>1 DEF LastHolders
  <2>4. LastGrant'[j] = [by |-> s, token |-> strictCounters[j] + 1]
    BY <1>6, <2>2, <2>3 DEF LastGrant
  <2>5. LastGrant[j].token = strictCounters[j]  BY <1>6 DEF LastGrant
  <2>6. /\ LiveStrict' = [LiveStrict EXCEPT ![j] = TRUE]
        /\ LastGrant' = [LastGrant EXCEPT ![j] = [by |-> s, token |-> @.token + 1]]
    BY <1>4, <2>1, <2>4, <2>5, SameFunctions
  <2> QED  BY <1>6, <1>a, <2>6, Zenon DEF Fenced!Grant, LiveStrict
<1> QED  BY <1>5, <1>6, <1>7, Zenon

LEMMA FencedStep ==
    ASSUME Inv, Inv', Recognised, Lag <= Ttl, [Next]_vars
    PROVE  [Fenced!Next]_<<LiveStrict, LastGrant>>
<1>0. IInv /\ IInv'  BY DEF Inv
<1>1. CASE UNCHANGED vars  BY <1>1, SameHolders, SameFunctions DEF vars, driver, Live
<1>2. CASE Next
  <2>1. ASSUME NEW now \in Nows, NEW s \in Sessions, Extended(s, now) \/ Released(s, now)
        PROVE  Stutter \/ \E k \in StrictKeys : Fenced!Revive(k) \/ Fenced!Lapse(k)
    BY <1>0, <2>1, FencedOwn DEF Extended, Released
  <2>2. Effect  BY <1>0, <1>2, StepEffect
  <2>3. Stutter \/ Fenced!Next
    BY <1>0, <2>1, <2>2, FencedTick, FencedPruned, FencedGrant, Zenon DEF Fenced!Next,
       Fenced!Step, Effect
  <2> QED  BY <2>3 DEF Stutter
<1> QED  BY <1>1, <1>2

LEMMA FencedInit == Init => Fenced!Init
<1> SUFFICES ASSUME Init PROVE Fenced!Init  OBVIOUS
<1>0. StrictKeys \subseteq Keys  BY MemoryAssumption
<1>2. ASSUME NEW k \in StrictKeys PROVE LastGrant[k] = [by |-> "nobody", token |-> 0]
  BY MemoryAssumption DEF Init, LastHolders, NoHandle, LastGrant
<1> QED  BY <1>0, <1>2, SameFunctions, Zenon DEF Fenced!Init, Init, LiveStrict, Live

\* The strict methods of the memory driver implement FencedLock: at most one
\* live lease per key, and every new one with a larger token, if a clock
\* reading is used within the length of a lease.
THEOREM StrictRefines == ASSUME Recognised, Lag <= Ttl PROVE Spec => ImplementsFencedLock
<1>1. Inv /\ Inv' /\ [Next]_vars => [Fenced!Next]_(Fenced!vars)
  BY FencedStep DEF Fenced!vars
<1> QED
  BY <1>1, InvInit, InvNext, FencedInit, PTL DEF Spec, ImplementsFencedLock, Fenced!Spec
=============================================================================

