------------------------ MODULE ObservabilityProofs -------------------------
(***************************************************************************)
(* Proofs about Observability for any runs, claims, Execute* calls and     *)
(* Shutdown calls, any workers, any capacity of the queue and of the       *)
(* history, and each policy of a full queue.                               *)
(***************************************************************************)
EXTENDS Observability, FiniteSetTheorems, TLAPS

Places == {"new", "peek", "admit", "acquire", "contended", "granted", "held", "release",
           "released", "leave", "done", "runtime", "drainRuntime", "worker", "drainWorker",
           "final", "dispatcher", "wait", "returned", "stopped", "expired"}
Marks == {"idle", "send", "evict", "resend"}

\* A process reports an event and goes on at x.
Announces(p, x) == /\ pc' = [pc EXCEPT ![p] = x]
                   /\ pub' = [pub EXCEPT ![p] = "send"]
                   /\ AppendToRing
                   /\ UNCHANGED <<policy, channel, crashed>>

\* A process goes on at x and reports nothing.
Moves(p, x) == pc' = [pc EXCEPT ![p] = x] /\ Quiet

Drops(p) == Send(p) \/ HandleDrop(p) \/ Evict(p) \/ Resend(p) \/ Panic(p)
Works(w) == Take(w) \/ Deliver(w) \/ Stop(w)

\* Only a Shutdown call that has seen every worker stop gets to "stopped".
Allowed(x) == x = "stopped" => stopped = Workers

\* Publish is one synchronous call: the event is in the ring when it returns.
LEMMA PublishAnnounces ==
    ASSUME NEW p, NEW kind, NEW key, NEW x, Publish(p, kind, key, x)
    PROVE  Announces(p, x)
BY Zenon DEF Publish, Announces

\* A step of an execution reports one event or none.
LEMMA ExecuteShape ==
    ASSUME NEW e \in Execs, Execute(e)
    PROVE  \E x \in Places : x # "stopped" /\ (Announces(e, x) \/ Moves(e, x))
<1>1. CASE Enter(e)
  <2>1. Moves(e, "done") \/ Moves(e, "peek")
    <3>1. CASE Manager(e) \in closing  BY <1>1, <3>1, Zenon DEF Enter, Goto, Moves
    <3>2. CASE Manager(e) \notin closing  BY <1>1, <3>2, Zenon DEF Enter, Goto, Moves
    <3> QED  BY <3>1, <3>2
  <2> QED  BY <2>1 DEF Places
<1>2. CASE Peek(e)
  <2>1. Announces(e, "admit")  BY <1>2, PublishAnnounces, Zenon DEF Peek, Report
  <2> QED  BY <2>1 DEF Places
<1>3. CASE Admit(e)
  <2>1. Announces(e, "acquire") \/ Moves(e, "done")
    BY <1>3, PublishAnnounces, Zenon DEF Admit, Report, Goto, Moves
  <2> QED  BY <2>1 DEF Places
<1>4. CASE Acquire(e)
  <2>1. Moves(e, "granted")  BY <1>4, Zenon DEF Acquire, Goto, Moves
  <2> QED  BY <2>1 DEF Places
<1>5. CASE AcquireFailed(e)
  <2>1. Announces(e, "contended") \/ Announces(e, "leave")
    <3>1. CASE e \in Runs  BY <1>5, <3>1, PublishAnnounces, Zenon DEF AcquireFailed, Report
    <3>2. CASE e \notin Runs  BY <1>5, <3>2, PublishAnnounces, Zenon DEF AcquireFailed, Report
    <3> QED  BY <3>1, <3>2
  <2> QED  BY <2>1 DEF Places
<1>6. CASE AcquireSucceeded(e)
  <2>1. Announces(e, "held")  BY <1>6, PublishAnnounces, Zenon DEF AcquireSucceeded, Report
  <2> QED  BY <2>1 DEF Places
<1>7. CASE Finish(e)
  <2>1. Announces(e, "release") \/ Moves(e, "release")
    BY <1>7, PublishAnnounces, Zenon DEF Finish, Report, Goto, Moves
  <2> QED  BY <2>1 DEF Places
<1>8. CASE Release(e)
  <2>1. Moves(e, "leave") \/ Moves(e, "released")  BY <1>8, Zenon DEF Release, Goto, Moves
  <2> QED  BY <2>1 DEF Places
<1>9. CASE Released(e)
  <2>1. Announces(e, "leave")  BY <1>9, PublishAnnounces, Zenon DEF Released, Report
  <2> QED  BY <2>1 DEF Places
<1>10. CASE Leave(e)
  <2>1. Moves(e, "done")  BY <1>10, Zenon DEF Leave, Goto, Moves
  <2> QED  BY <2>1 DEF Places
<1> QED  BY <1>1, <1>2, <1>3, <1>4, <1>5, <1>6, <1>7, <1>8, <1>9, <1>10, Zenon DEF Execute

\* So does a step of a Shutdown call, apart from the one that closes the channel.
LEMMA ShutdownShape ==
    ASSUME NEW c \in Closers, Shutdown(c)
    PROVE  \/ CloseDispatcher(c)
           \/ \E x \in Places : Allowed(x) /\ (Announces(c, x) \/ Moves(c, x))
<1>1. CASE Begin(c)
  <2>1. Announces(c, "runtime")  BY <1>1, PublishAnnounces, Zenon DEF Begin, Say
  <2> QED  BY <2>1 DEF Allowed, Places
<1>2. ASSUME NEW m \in Managers, CloseManager(c, m)
      PROVE  \E x \in Places : Allowed(x) /\ Announces(c, x)
  <2>1. Drains[m] \in {"drainRuntime", "drainWorker"}  BY DEF Drains, Managers
  <2>2. Announces(c, Drains[m])  BY <1>2, PublishAnnounces, Zenon DEF CloseManager, Say
  <2> QED  BY <2>1, <2>2 DEF Allowed, Places
<1>3. ASSUME NEW m \in Managers, DrainManager(c, m)
      PROVE  \E x \in Places : Allowed(x) /\ (Announces(c, x) \/ Moves(c, x))
  <2>1. Then[m] \in {"worker", "final"}  BY DEF Then, Managers
  <2>2. Announces(c, Then[m]) \/ Moves(c, Then[m])
    BY <1>3, PublishAnnounces, Zenon DEF DrainManager, Say, Goto, Moves
  <2> QED  BY <2>1, <2>2 DEF Allowed, Places
<1>4. CASE Conclude(c)
  <2>1. Announces(c, "dispatcher")  BY <1>4, PublishAnnounces, Zenon DEF Conclude, Say
  <2> QED  BY <2>1 DEF Allowed, Places
<1>5. CASE AwaitWorkers(c)
  <2>1. (stopped = Workers /\ Moves(c, "stopped")) \/ Moves(c, "expired")
    BY <1>5, Zenon DEF AwaitWorkers, Goto, Moves
  <2> QED  BY <2>1 DEF Allowed, Places
<1> QED  BY <1>1, <1>2, <1>3, <1>4, <1>5, Zenon DEF Shutdown

\* Every step, as the dispatcher and the ring of events see it.
LEMMA StepShape ==
    ASSUME [Next]_vars
    PROVE  \/ \E p \in Procs, x \in Places : Allowed(x) /\ (Announces(p, x) \/ Moves(p, x))
           \/ \E c \in Closers : CloseDispatcher(c)
           \/ \E p \in Procs : Drops(p)
           \/ \E w \in Workers : Works(w)
           \/ UNCHANGED pc /\ Quiet
<1>1. ASSUME NEW e \in Execs, Execute(e)
      PROVE  \E p \in Procs, x \in Places : Allowed(x) /\ (Announces(p, x) \/ Moves(p, x))
  BY <1>1, ExecuteShape, Zenon DEF Procs, Allowed
<1>2. ASSUME NEW c \in Closers, Shutdown(c)
      PROVE  \/ CloseDispatcher(c)
             \/ \E p \in Procs, x \in Places : Allowed(x) /\ (Announces(p, x) \/ Moves(p, x))
  BY <1>2, ShutdownShape, Zenon DEF Procs
<1>3. ASSUME NEW r \in Resources, Expire(r) PROVE UNCHANGED pc /\ Quiet
  BY <1>3, Zenon DEF Expire
<1>4. UNCHANGED vars => UNCHANGED pc /\ Quiet  BY Zenon DEF vars, Quiet
<1>5. Rest => UNCHANGED vars  BY Zenon DEF Rest
<1> QED  BY <1>1, <1>2, <1>3, <1>4, <1>5, Zenon DEF Next, Drops, Works

-----------------------------------------------------------------------------
(***************************************************************************)
(* The dispatcher.  Under DropOldest an event is counted as dropped before *)
(* one is taken out of the queue, so a publisher that has counted stands   *)
(* for the events that its eviction and its second send may still lose.    *)
(***************************************************************************)
At(x) == {p \in Procs : pub[p] = x}
Weight(x) == IF x = "evict" THEN 2 ELSE IF x = "resend" THEN 1 ELSE 0
Owed == 2 * Cardinality(At("evict")) + Cardinality(At("resend"))

DispatchInv == /\ pub \in [Procs -> Marks]
               /\ queue \in 0..BufferSize
               /\ dropped \in Nat /\ lost \in Nat
               /\ policy \in {"DropOldest", "DropNewest"}
               /\ policy = "DropOldest" => lost + Owed <= 2 * dropped
               /\ policy = "DropNewest" =>
                      lost <= dropped /\ \A p \in Procs : pub[p] \notin {"evict", "resend"}

LEMMA FiniteAt == ASSUME NEW x PROVE IsFiniteSet(At(x)) /\ Cardinality(At(x)) \in Nat
<1>1. IsFiniteSet(Procs) /\ At(x) \in SUBSET Procs  BY ObservabilityAssumption DEF At
<1>2. IsFiniteSet(At(x))  BY <1>1, FS_Subset
<1> QED  BY <1>2, FS_CardinalityType

\* One publisher goes from x to y or stays away from it.
LEMMA Recount ==
    ASSUME pub \in [Procs -> Marks], NEW p \in Procs, NEW m \in Marks,
           pub' = [pub EXCEPT ![p] = m], NEW x
    PROVE  /\ Cardinality(At(x))' \in Nat
           /\ Cardinality(At(x))' = (Cardinality(At(x)) + IF m = x THEN 1 ELSE 0)
                                        - IF pub[p] = x THEN 1 ELSE 0
<1>1. \A r \in Procs : pub'[r] = IF r = p THEN m ELSE pub[r]  BY Zenon
<1>2. IsFiniteSet(At(x)) /\ Cardinality(At(x)) \in Nat  BY FiniteAt
<1>3. CASE m = x
  <2>1. At(x)' = At(x) \cup {p}  BY <1>1, <1>3 DEF At
  <2>2. p \in At(x) <=> pub[p] = x  BY DEF At
  <2>3. Cardinality(At(x) \cup {p}) = IF p \in At(x) THEN Cardinality(At(x))
                                                     ELSE Cardinality(At(x)) + 1
    BY <1>2, FS_AddElement, Zenon
  <2> HIDE DEF At
  <2> QED  BY <1>2, <1>3, <2>1, <2>2, <2>3
<1>4. CASE m # x
  <2>1. At(x)' = At(x) \ {p}  BY <1>1, <1>4 DEF At
  <2>2. p \in At(x) <=> pub[p] = x  BY DEF At
  <2>3. /\ IsFiniteSet(At(x) \ {p})
        /\ Cardinality(At(x) \ {p}) = IF p \in At(x) THEN Cardinality(At(x)) - 1
                                                     ELSE Cardinality(At(x))
    BY <1>2, FS_RemoveElement, Zenon
  <2>4. Cardinality(At(x) \ {p}) \in Nat  BY <2>3, FS_CardinalityType
  <2> HIDE DEF At
  <2> QED  BY <1>2, <1>4, <2>1, <2>2, <2>3, <2>4
<1> QED  BY <1>3, <1>4

LEMMA OwedStep ==
    ASSUME pub \in [Procs -> Marks], NEW p \in Procs, NEW m \in Marks,
           pub' = [pub EXCEPT ![p] = m]
    PROVE  Owed \in Nat /\ Owed' \in Nat /\ Owed' = (Owed + Weight(m)) - Weight(pub[p])
<1> DEFINE E == Cardinality(At("evict"))
           R == Cardinality(At("resend"))
<1>1. E \in Nat /\ R \in Nat  BY FiniteAt
<1>2. E' \in Nat /\ E' = (E + IF m = "evict" THEN 1 ELSE 0) - IF pub[p] = "evict" THEN 1 ELSE 0
  BY Recount, Zenon
<1>3. R' \in Nat /\ R' = (R + IF m = "resend" THEN 1 ELSE 0) - IF pub[p] = "resend" THEN 1 ELSE 0
  BY Recount, Zenon
<1>4. Owed = 2 * E + R /\ Owed' = 2 * E' + R'  BY DEF Owed
<1> HIDE DEF E, R
<1> QED  BY <1>1, <1>2, <1>3, <1>4 DEF Weight

LEMMA DispatchInit == Init => DispatchInv
<1> SUFFICES ASSUME Init PROVE DispatchInv  OBVIOUS
<1>1. At("evict") = {} /\ At("resend") = {}  BY DEF Init, At
<1>2. Owed = 0  BY <1>1, FS_EmptySet DEF Owed
<1> QED  BY <1>2, ObservabilityAssumption DEF Init, DispatchInv, Marks

LEMMA Balance ==
    ASSUME NEW a \in Nat, NEW b \in Nat, NEW c \in Nat, NEW d \in Nat,
           a + d <= c + b, c <= d
    PROVE  a <= b
OBVIOUS

\* A publisher that goes on at m: its losses and what it still owes are
\* covered by what it counts.
LEMMA Covered ==
    ASSUME DispatchInv, NEW p \in Procs, NEW m \in Marks, pub' = [pub EXCEPT ![p] = m],
           queue' \in 0..BufferSize, dropped' \in Nat, lost' \in Nat, policy' = policy,
           policy = "DropOldest" =>
               lost' + Weight(m) + 2 * dropped <= lost + Weight(pub[p]) + 2 * dropped',
           policy = "DropNewest" =>
               lost' + dropped <= lost + dropped' /\ m \notin {"evict", "resend"}
    PROVE  DispatchInv'
<1>1. /\ pub \in [Procs -> Marks] /\ dropped \in Nat /\ lost \in Nat
      /\ policy \in {"DropOldest", "DropNewest"}
  BY Zenon DEF DispatchInv
<1>2. pub' \in [Procs -> Marks] /\ \A r \in Procs : pub'[r] = IF r = p THEN m ELSE pub[r]
  BY <1>1, Zenon
<1>3. Owed \in Nat /\ Owed' \in Nat /\ Owed' = (Owed + Weight(m)) - Weight(pub[p])
  BY <1>1, OwedStep, Zenon
<1>4. Weight(m) \in Nat /\ Weight(pub[p]) \in Nat  BY DEF Weight
<1>5. ASSUME policy = "DropOldest" PROVE lost' + Owed' <= 2 * dropped'
  <2>1. lost + Owed <= 2 * dropped  BY <1>5, Zenon DEF DispatchInv
  <2> QED  BY <1>1, <1>3, <1>4, <1>5, <2>1
<1>6. ASSUME policy = "DropNewest"
      PROVE  lost' <= dropped' /\ \A r \in Procs : pub'[r] \notin {"evict", "resend"}
  <2>1. lost <= dropped /\ \A r \in Procs : pub[r] \notin {"evict", "resend"}
    BY <1>6, Zenon DEF DispatchInv
  <2>2. \A r \in Procs : pub'[r] \notin {"evict", "resend"}  BY <1>2, <1>6, <2>1, Zenon
  <2>3. lost' <= dropped'
    <3>1. lost' + dropped <= lost + dropped'  BY <1>6, Zenon
    <3>2. lost <= dropped  BY <2>1, Zenon
    <3> QED  BY <1>1, <3>1, <3>2, Balance, Zenon
  <2> QED  BY <2>2, <2>3
<1> QED  BY <1>1, <1>2, <1>5, <1>6, Zenon DEF DispatchInv

LEMMA DispatchNext == DispatchInv /\ [Next]_vars => DispatchInv'
<1> SUFFICES ASSUME DispatchInv, [Next]_vars PROVE DispatchInv'  OBVIOUS
<1>0. /\ pub \in [Procs -> Marks] /\ BufferSize \in Nat /\ queue \in 0..BufferSize
      /\ dropped \in Nat /\ lost \in Nat
  BY ObservabilityAssumption DEF DispatchInv
<1>1. /\ "idle" \in Marks /\ "send" \in Marks /\ "evict" \in Marks /\ "resend" \in Marks
      /\ "idle" \notin {"evict", "resend"} /\ "send" \notin {"evict", "resend"}
      /\ Weight("idle") = 0 /\ Weight("send") = 0 /\ Weight("evict") = 2 /\ Weight("resend") = 1
      /\ \A m \in Marks : Weight(m) \in Nat
  BY DEF Marks, Weight
<1>2. ASSUME NEW p \in Procs, NEW x, Announces(p, x) PROVE DispatchInv'
  <2>1. pub' = [pub EXCEPT ![p] = "send"] /\ UNCHANGED <<queue, dropped, lost, policy>>
    BY <1>2, Zenon DEF Announces, channel
  <2>2. pub[p] \in Marks /\ Weight(pub[p]) \in Nat  BY <1>0, <1>1, Zenon
  <2>3. lost' + Weight("send") + 2 * dropped <= lost + Weight(pub[p]) + 2 * dropped'
    BY <1>0, <1>1, <2>1, <2>2
  <2>4. lost' + dropped <= lost + dropped'  BY <1>0, <2>1
  <2> QED  BY <1>0, <1>1, <2>1, <2>3, <2>4, Covered, Zenon
<1>3. ASSUME UNCHANGED <<pub, queue, dropped, lost, policy>> PROVE DispatchInv'
  BY <1>3, Zenon DEF DispatchInv, Owed, At
<1>4. Quiet => UNCHANGED <<pub, queue, dropped, lost, policy>>  BY Zenon DEF Quiet, channel
<1>5. ASSUME NEW c \in Closers, CloseDispatcher(c)
      PROVE  UNCHANGED <<pub, queue, dropped, lost, policy>>
  BY <1>5, Zenon DEF CloseDispatcher
<1>6. ASSUME NEW p \in Procs, Drops(p) PROVE DispatchInv'
  <2>1. CASE Send(p)
    <3>1. /\ pub[p] = "send" /\ pub' = [pub EXCEPT ![p] = "idle"]
          /\ UNCHANGED <<dropped, lost, policy>>
      BY <2>1, Zenon DEF Send, Published, NotPublishing
    <3>2. queue' \in 0..BufferSize  BY <1>0, <2>1 DEF Send
    <3>3. lost' + 0 + 2 * dropped <= lost + 0 + 2 * dropped' /\ lost' + dropped <= lost + dropped'
      BY <1>0, <3>1
    <3> QED  BY <1>0, <1>1, <3>1, <3>2, <3>3, Covered, Zenon
  <2>2. CASE HandleDrop(p)
    <3>1. /\ pub[p] = "send" /\ dropped' = dropped + 1 /\ UNCHANGED <<queue, policy>>
          /\ \/ policy = "DropOldest" /\ pub' = [pub EXCEPT ![p] = "evict"] /\ lost' = lost
             \/ policy = "DropNewest" /\ pub' = [pub EXCEPT ![p] = "idle"] /\ lost' = lost + 1
      BY <2>2, Zenon DEF HandleDrop, Published, NotPublishing
    <3>2. dropped' \in Nat /\ lost' \in Nat /\ queue' \in 0..BufferSize  BY <1>0, <3>1
    <3>3. CASE policy = "DropOldest"
      <4>1. /\ pub' = [pub EXCEPT ![p] = "evict"] /\ policy # "DropNewest"
            /\ lost' + 2 + 2 * dropped <= lost + 0 + 2 * dropped'
        BY <1>0, <3>1, <3>3
      <4> QED  BY <1>1, <3>1, <3>2, <4>1, Covered, Zenon
    <3>4. CASE policy = "DropNewest"
      <4>1. /\ pub' = [pub EXCEPT ![p] = "idle"] /\ policy # "DropOldest"
            /\ lost' + dropped <= lost + dropped'
        BY <1>0, <3>1, <3>4
      <4> QED  BY <1>1, <3>1, <3>2, <4>1, Covered, Zenon
    <3> QED  BY <3>1, <3>3, <3>4, Zenon
  <2>3. CASE Evict(p)
    <3>1. /\ pub[p] = "evict" /\ pub' = [pub EXCEPT ![p] = "resend"]
          /\ UNCHANGED <<dropped, policy>> /\ (lost' = lost \/ lost' = lost + 1)
      BY <2>3, Zenon DEF Evict, NotPublishing
    <3>2. queue' \in 0..BufferSize /\ lost' \in Nat  BY <1>0, <2>3, <3>1 DEF Evict
    <3>3. lost' + 1 + 2 * dropped <= lost + 2 + 2 * dropped'  BY <1>0, <3>1
    <3>4. policy # "DropNewest"  BY <1>1, <3>1 DEF DispatchInv
    <3> QED  BY <1>0, <1>1, <3>1, <3>2, <3>3, <3>4, Covered, Zenon
  <2>4. CASE Resend(p)
    <3>1. /\ pub[p] = "resend" /\ pub' = [pub EXCEPT ![p] = "idle"]
          /\ UNCHANGED <<dropped, policy>> /\ (lost' = lost \/ lost' = lost + 1)
      BY <2>4, Zenon DEF Resend, Published, NotPublishing
    <3>2. queue' \in 0..BufferSize /\ lost' \in Nat  BY <1>0, <2>4, <3>1 DEF Resend
    <3>3. lost' + 0 + 2 * dropped <= lost + 1 + 2 * dropped'  BY <1>0, <3>1
    <3>4. policy # "DropNewest"  BY <1>1, <3>1 DEF DispatchInv
    <3> QED  BY <1>0, <1>1, <3>1, <3>2, <3>3, <3>4, Covered, Zenon
  <2>5. CASE Panic(p)
    <3>1. UNCHANGED <<pub, queue, dropped, lost, policy>>
      BY <2>5, Zenon DEF Panic, channel, NotPublishing
    <3> QED  BY <1>3, <3>1, Zenon
  <2> QED  BY <1>6, <2>1, <2>2, <2>3, <2>4, <2>5, Zenon DEF Drops
<1>7. ASSUME NEW w \in Workers, Works(w) PROVE DispatchInv'
  <2>1. UNCHANGED <<pub, dropped, lost, policy>>
    BY <1>7, Zenon DEF Works, Take, Deliver, Stop, NotWorking
  <2>2. queue' \in 0..BufferSize
    <3>1. (queue > 0 /\ queue' = queue - 1) \/ queue' = queue
      BY <1>7, Zenon DEF Works, Take, Deliver, Stop
    <3> QED  BY <1>0, <3>1
  <2> QED  BY <2>1, <2>2, Zenon DEF DispatchInv, Owed, At
<1> QED  BY <1>2, <1>3, <1>4, <1>5, <1>6, <1>7, StepShape, Zenon DEF Moves

\* DroppedCount bounds the events that publishers evicted or gave up, within
\* the factor two of an eviction whose second send fails, whatever the policy,
\* the buffer size and the number of publishers and workers between a full
\* buffer and the second send.
THEOREM LossIsAccounted == Spec => []LossAccounted
<1>1. DispatchInv => LossAccounted
  <2> SUFFICES ASSUME DispatchInv PROVE LossAccounted  OBVIOUS
  <2>1. /\ dropped \in Nat /\ lost \in Nat /\ Owed \in Nat
        /\ policy \in {"DropOldest", "DropNewest"}
        /\ policy = "DropOldest" => lost + Owed <= 2 * dropped
        /\ policy = "DropNewest" => lost <= dropped
    BY FiniteAt DEF DispatchInv, Owed
  <2> QED  BY <2>1 DEF LossAccounted
<1> QED  BY <1>1, DispatchInit, DispatchNext, PTL DEF Spec

-----------------------------------------------------------------------------
(***************************************************************************)
(* The end of the dispatcher.                                              *)
(***************************************************************************)
WorkersInv == /\ pc \in [Procs -> Places]
              /\ busy \subseteq Workers /\ stopped \subseteq Workers /\ busy \cap stopped = {}
              /\ \A c \in Closers : pc[c] = "stopped" => stopped = Workers

LEMMA WorkersInit == Init => WorkersInv
BY DEF Init, WorkersInv, Places, Procs

LEMMA WorkersNext == WorkersInv /\ [Next]_vars => WorkersInv'
<1> SUFFICES ASSUME WorkersInv, [Next]_vars PROVE WorkersInv'  OBVIOUS
<1>0. /\ pc \in [Procs -> Places] /\ busy \subseteq Workers /\ stopped \subseteq Workers
      /\ \A c \in Closers : c \in Procs
  BY Zenon DEF WorkersInv, Procs
<1>1. ASSUME NEW p \in Procs, NEW x \in Places, pc' = [pc EXCEPT ![p] = x], Allowed(x),
             UNCHANGED <<busy, stopped>>
      PROVE  WorkersInv'
  <2>1. pc' \in [Procs -> Places]  BY <1>0, <1>1, Zenon
  <2>2. \A c \in Closers : pc'[c] = IF c = p THEN x ELSE pc[c]  BY <1>0, <1>1, Zenon
  <2>3. \A c \in Closers : pc'[c] = "stopped" => stopped' = Workers
    BY <1>1, <2>2, Zenon DEF WorkersInv, Allowed
  <2> QED  BY <1>1, <2>1, <2>3, Zenon DEF WorkersInv
<1>2. ASSUME NEW p \in Procs, NEW x \in Places, Allowed(x), Announces(p, x) \/ Moves(p, x)
      PROVE  WorkersInv'
  <2>1. pc' = [pc EXCEPT ![p] = x] /\ UNCHANGED <<busy, stopped>>
    BY <1>2, Zenon DEF Announces, Moves, Quiet, channel
  <2> QED  BY <1>1, <1>2, <2>1, Zenon
<1>3. ASSUME NEW c \in Closers, CloseDispatcher(c) PROVE WorkersInv'
  <2>1. UNCHANGED <<busy, stopped>> /\ (pc' = [pc EXCEPT ![c] = "returned"]
                                         \/ pc' = [pc EXCEPT ![c] = "wait"])
    <3>1. CASE closed  BY <1>3, <3>1, Zenon DEF CloseDispatcher, Goto
    <3>2. CASE ~closed  BY <1>3, <3>2, Zenon DEF CloseDispatcher, Goto
    <3> QED  BY <3>1, <3>2
  <2>2. /\ "returned" \in Places /\ Allowed("returned")
        /\ "wait" \in Places /\ Allowed("wait")
    BY DEF Places, Allowed
  <2> QED  BY <1>0, <1>1, <2>1, <2>2, Zenon
<1>4. ASSUME NEW p \in Procs, Drops(p) PROVE UNCHANGED <<pc, busy, stopped>>
  BY <1>4, Zenon DEF Drops, Send, HandleDrop, Evict, Resend, Panic, NotPublishing, channel
<1>5. ASSUME UNCHANGED <<pc, busy, stopped>> PROVE WorkersInv'
  BY <1>5, Zenon DEF WorkersInv
<1>6. Quiet => UNCHANGED <<busy, stopped>>  BY Zenon DEF Quiet, channel
<1>7. ASSUME NEW w \in Workers, Works(w) PROVE WorkersInv'
  <2>0. UNCHANGED pc  BY <1>7, Zenon DEF Works, Take, Deliver, Stop, NotWorking
  <2>1. CASE Take(w)
    <3>1. stopped' = stopped /\ w \notin stopped /\ w \notin busy /\ busy' = busy \cup {w}
      BY <2>1, Zenon DEF Take
    <3> QED  BY <1>0, <2>0, <3>1, Zenon DEF WorkersInv
  <2>2. CASE Deliver(w)
    <3>1. stopped' = stopped /\ busy' = busy \ {w}  BY <2>2, Zenon DEF Deliver
    <3> QED  BY <1>0, <2>0, <3>1, Zenon DEF WorkersInv
  <2>3. CASE Stop(w)
    <3>1. busy' = busy /\ w \notin stopped /\ w \notin busy /\ stopped' = stopped \cup {w}
      BY <2>3, Zenon DEF Stop
    <3>2. \A c \in Closers : pc'[c] # "stopped"  BY <2>0, <3>1, Zenon DEF WorkersInv
    <3> QED  BY <1>0, <2>0, <3>1, <3>2, Zenon DEF WorkersInv
  <2> QED  BY <1>7, <2>1, <2>2, <2>3, Zenon DEF Works
<1> QED  BY <1>2, <1>3, <1>4, <1>5, <1>6, <1>7, StepShape, Zenon

\* The Shutdown call that closed the dispatcher returns nil only when no sink
\* is being called, and no sink is called afterwards: a worker that returned
\* takes no other event.  Later Shutdown calls wait for nothing.
THEOREM ShutdownIsQuiet == Spec => []QuietAfterShutdown
<1>1. WorkersInv => QuietAfterShutdown  BY Zenon DEF WorkersInv, QuietAfterShutdown
<1> QED  BY <1>1, WorkersInit, WorkersNext, PTL DEF Spec

-----------------------------------------------------------------------------
(***************************************************************************)
(* The ring.  The number of the last event and the write position differ   *)
(* by nothing or by one turn; an entry before the write position is of     *)
(* this turn, one behind it of the turn before.                            *)
(***************************************************************************)
LEMMA ModFacts ==
    ASSUME NEW m \in Nat \ {0}, NEW x \in 0..(2 * m - 1)
    PROVE  x % m = IF x < m THEN x ELSE x - m
<1> DEFINE q == x \div m
           r == x % m
<1>1. q \in Int /\ r \in 0..(m - 1) /\ x = m * q + r  OBVIOUS
<1> HIDE DEF q, r
<1>2. q > -1
  <2>1. ASSUME q <= -1 PROVE FALSE
    <3>1. m * q <= m * (-1)  BY <1>1, <2>1
    <3> QED  BY <1>1, <3>1
  <2> QED  BY <1>1, <2>1
<1>3. q < 2
  <2>1. ASSUME q >= 2 PROVE FALSE
    <3>1. m * q >= m * 2  BY <1>1, <2>1
    <3> QED  BY <1>1, <3>1
  <2> QED  BY <1>1, <2>1
<1>4. q = 0 \/ q = 1  BY <1>1, <1>2, <1>3
<1>5. CASE q = 0
  <2>1. x = r  BY <1>1, <1>5
  <2> QED  BY <1>1, <2>1 DEF r
<1>6. CASE q = 1
  <2>1. x = m + r  BY <1>1, <1>6
  <2> QED  BY <1>1, <2>1 DEF r
<1> QED  BY <1>4, <1>5, <1>6

Turn == consumed - historyHead
RingInv == /\ history \in [0..(HistoryCap - 1) -> Nat]
           /\ historyHead \in 0..(HistoryCap - 1) /\ historyLen \in 0..HistoryCap
           /\ consumed \in Nat /\ Turn \in {0, HistoryCap}
           /\ historyLen < HistoryCap => historyHead = historyLen /\ Turn = 0
           /\ \A j \in 0..(HistoryCap - 1) :
                 /\ j < historyHead => history[j] = Turn + j + 1
                 /\ j >= historyHead /\ historyLen = HistoryCap =>
                       history[j] = IF Turn = HistoryCap THEN j + 1
                                    ELSE IF j = HistoryCap - 1 THEN 0 ELSE HistoryCap + j + 1

LEMMA RingInit == Init => RingInv
BY ObservabilityAssumption DEF Init, RingInv, Turn

Wrap(x) == x % HistoryCap

\* An index that has not gone round twice.
LEMMA WrapFacts ==
    ASSUME NEW x \in Nat, x < 2 * HistoryCap
    PROVE  /\ x < HistoryCap => Wrap(x) = x
           /\ ~(x < HistoryCap) => Wrap(x) = x - HistoryCap
<1>1. HistoryCap \in Nat \ {0}  BY ObservabilityAssumption
<1>2. x \in 0..(2 * HistoryCap - 1)  BY <1>1
<1>3. x % HistoryCap = IF x < HistoryCap THEN x ELSE x - HistoryCap
  BY Zenon, <1>1, <1>2, ModFacts
<1> QED  BY Zenon, <1>3 DEF Wrap

\* The numbers of the events go round in twice the capacity.
LEMMA FollowingFacts ==
    ASSUME NEW n \in 0..(2 * HistoryCap - 1)
    PROVE  Following(n) = IF n + 1 = 2 * HistoryCap THEN 0 ELSE n + 1
<1>1. HistoryCap \in Nat \ {0}  BY ObservabilityAssumption
<1>2. 2 * HistoryCap \in Nat \ {0} /\ n + 1 \in 0..(2 * (2 * HistoryCap) - 1)  BY <1>1
<1>3. (n + 1) % (2 * HistoryCap) = IF n + 1 < 2 * HistoryCap THEN n + 1
                                   ELSE n + 1 - 2 * HistoryCap
  BY <1>2, ModFacts
<1> QED  BY <1>1, <1>3 DEF Following

\* append overwrites the oldest event and moves the head.
LEMMA AppendRing ==
    ASSUME RingInv, AppendToRing
    PROVE  RingInv'
<1> DEFINE C == HistoryCap
<1>1. /\ C \in Nat \ {0} /\ history \in [0..(C - 1) -> Nat] /\ historyHead \in 0..(C - 1)
      /\ historyLen \in 0..C /\ consumed \in Nat /\ Turn \in {0, C}
      /\ consumed = Turn + historyHead
  BY ObservabilityAssumption DEF RingInv, Turn
<1>2. historyHead' = IF historyHead + 1 = C THEN 0 ELSE historyHead + 1
  <2>1. PICK y \in Nat : y = historyHead + 1  BY <1>1
  <2>2. y < 2 * C  BY <1>1, <2>1
  <2>3. /\ y < C => Wrap(y) = y
        /\ ~(y < C) => Wrap(y) = y - C
    BY Zenon, <2>2, WrapFacts
  <2>4. historyHead' = Wrap(y)  BY Zenon, <2>1 DEF AppendToRing, Wrap
  <2> QED  BY <1>1, <2>1, <2>3, <2>4
<1>3. consumed' = IF consumed + 1 = 2 * C THEN 0 ELSE consumed + 1
  <2>1. consumed \in 0..(2 * C - 1)  BY <1>1
  <2> QED  BY <2>1, FollowingFacts DEF AppendToRing
<1>4. /\ consumed' \in Nat /\ history' = [history EXCEPT ![historyHead] = consumed']
      /\ historyLen' = IF historyLen < C THEN historyLen + 1 ELSE historyLen
  BY <1>1, <1>3 DEF AppendToRing
<1>5. /\ history' \in [0..(C - 1) -> Nat]
      /\ \A j \in 0..(C - 1) : history'[j] = IF j = historyHead THEN consumed' ELSE history[j]
  BY <1>1, <1>4
<1>6. CASE historyHead + 1 < C
  <2>1. /\ historyHead' = historyHead + 1 /\ consumed' = consumed + 1 /\ Turn' = Turn
        /\ historyLen < C => historyHead = historyLen /\ Turn = 0
        /\ historyLen < C => historyLen' = historyLen + 1 /\ historyLen' < C
        /\ historyLen = C => historyLen' = C
    BY <1>1, <1>2, <1>3, <1>4, <1>6 DEF Turn, RingInv
  <2>2. ASSUME NEW j \in 0..(C - 1)
        PROVE  /\ j < historyHead' => history'[j] = Turn' + j + 1
               /\ j >= historyHead' /\ historyLen' = C =>
                     history'[j] = IF Turn' = C THEN j + 1 ELSE IF j = C - 1 THEN 0 ELSE C + j + 1
    <3>1. CASE j = historyHead  BY <1>1, <1>5, <2>1, <3>1
    <3>2. CASE j # historyHead  BY <1>1, <1>5, <2>1, <3>2 DEF RingInv
    <3> QED  BY <3>1, <3>2
  <2>3. historyHead' \in 0..(C - 1) /\ historyLen' \in 0..C  BY <1>1, <1>6, <2>1
  <2> QED  BY <1>1, <1>4, <1>5, <2>1, <2>2, <2>3 DEF RingInv
<1>7. CASE historyHead + 1 = C
  <2>1. /\ historyHead' = 0 /\ historyLen' = C
        /\ Turn = 0 => Turn' = C /\ consumed' = C
        /\ Turn = C => Turn' = 0 /\ consumed' = 0
    BY <1>1, <1>2, <1>3, <1>4, <1>7 DEF Turn, RingInv
  <2>2. ASSUME NEW j \in 0..(C - 1)
        PROVE  history'[j] = IF Turn' = C THEN j + 1 ELSE IF j = C - 1 THEN 0 ELSE C + j + 1
    <3>1. CASE j = historyHead  BY <1>1, <1>5, <1>7, <2>1, <3>1
    <3>2. CASE j # historyHead
      <4>1. history'[j] = Turn + j + 1  BY <1>1, <1>5, <1>7, <3>2 DEF RingInv
      <4> QED  BY <1>1, <1>7, <2>1, <3>2, <4>1
    <3> QED  BY <3>1, <3>2
  <2>3. Turn' \in {0, C} /\ historyHead' \in 0..(C - 1) /\ historyLen' \in 0..C
    BY <1>1, <2>1
  <2>4. ASSUME NEW j \in 0..(C - 1) PROVE ~(j < historyHead')  BY <1>1, <2>1
  <2> HIDE DEF C
  <2> QED  BY <1>1, <1>4, <1>5, <2>1, <2>2, <2>3, <2>4 DEF RingInv, C
<1> QED  BY <1>1, <1>6, <1>7

LEMMA RingNext == RingInv /\ [Next]_vars => RingInv'
<1> SUFFICES ASSUME RingInv, [Next]_vars PROVE RingInv'  OBVIOUS
<1>1. ASSUME UNCHANGED ring PROVE RingInv'  BY <1>1, Zenon DEF RingInv, ring, Turn
<1>2. ASSUME NEW p \in Procs, NEW x \in Places, Announces(p, x) PROVE RingInv'
  BY <1>2, AppendRing, Zenon DEF Announces
<1>3. ASSUME NEW p \in Procs, NEW x \in Places, Moves(p, x) PROVE UNCHANGED ring
  BY <1>3, Zenon DEF Moves, Quiet, store
<1>4. ASSUME NEW c \in Closers, CloseDispatcher(c) PROVE UNCHANGED ring
  BY <1>4, Zenon DEF CloseDispatcher, store
<1>5. ASSUME NEW p \in Procs, Drops(p) PROVE UNCHANGED ring
  BY <1>5, Zenon DEF Drops, Send, HandleDrop, Evict, Resend, Panic, NotPublishing, store
<1>6. ASSUME NEW w \in Workers, Works(w) PROVE UNCHANGED ring
  BY <1>6, Zenon DEF Works, Take, Deliver, Stop, NotWorking, store
<1>7. Quiet => UNCHANGED ring  BY Zenon DEF Quiet, store
<1> QED  BY <1>1, <1>2, <1>3, <1>4, <1>5, <1>6, <1>7, StepShape, Zenon

\* The entry after another one, unless that was the last one written.
LEMMA NextEntry ==
    ASSUME RingInv, NEW j \in 0..(HistoryCap - 1),
           NEW k, k = IF j = HistoryCap - 1 THEN 0 ELSE j + 1, k # historyHead,
           historyLen < HistoryCap => j < historyHead /\ k < historyHead
    PROVE  history[k] = Following(history[j])
<1> DEFINE C == HistoryCap
<1>1. /\ C \in Nat \ {0} /\ historyHead \in 0..(C - 1) /\ historyLen \in 0..C
      /\ Turn \in {0, C} /\ k \in 0..(C - 1)
      /\ historyLen < C => historyHead = historyLen /\ Turn = 0
  BY ObservabilityAssumption DEF RingInv
<1>2. /\ j < historyHead => history[j] = Turn + j + 1
      /\ j >= historyHead /\ historyLen = C =>
            history[j] = IF Turn = C THEN j + 1 ELSE IF j = C - 1 THEN 0 ELSE C + j + 1
  BY DEF RingInv
<1>3. /\ k < historyHead => history[k] = Turn + k + 1
      /\ k >= historyHead /\ historyLen = C =>
            history[k] = IF Turn = C THEN k + 1 ELSE IF k = C - 1 THEN 0 ELSE C + k + 1
  BY <1>1 DEF RingInv
<1> HIDE DEF C
<1>4. CASE j < historyHead
  <2>1. /\ j # C - 1 /\ k = j + 1 /\ k < historyHead
        /\ history[j] = Turn + j + 1 /\ history[k] = Turn + j + 2
    BY <1>1, <1>2, <1>3, <1>4 DEF C
  <2>2. history[j] \in 0..(2 * C - 1) /\ history[j] + 1 # 2 * C /\ history[k] = history[j] + 1
    BY <1>1, <2>1
  <2> QED  BY <2>2, FollowingFacts DEF C
<1>5. CASE j >= historyHead
  <2>0. historyLen = C  BY <1>1, <1>5 DEF C
  <2>1. CASE j = C - 1
    <3>1. /\ k = 0 /\ k < historyHead /\ history[k] = Turn + 1
          /\ history[j] = IF Turn = C THEN C ELSE 0
      BY <1>1, <1>2, <1>3, <1>5, <2>0, <2>1 DEF C
    <3>2. history[j] \in 0..(2 * C - 1) /\ history[j] + 1 # 2 * C /\ history[k] = history[j] + 1
      BY <1>1, <1>5, <2>1, <3>1
    <3> QED  BY <3>2, FollowingFacts DEF C
  <2>2. CASE j # C - 1
    <3>1. /\ k = j + 1 /\ k > historyHead
          /\ history[j] = IF Turn = C THEN j + 1 ELSE C + j + 1
          /\ history[k] = IF Turn = C THEN j + 2 ELSE IF j + 1 = C - 1 THEN 0 ELSE C + j + 2
      BY <1>1, <1>2, <1>3, <1>5, <2>0, <2>2 DEF C
    <3>2. /\ history[j] \in 0..(2 * C - 1)
          /\ history[k] = IF history[j] + 1 = 2 * C THEN 0 ELSE history[j] + 1
      BY <1>1, <1>5, <2>2, <3>1
    <3> QED  BY <3>2, FollowingFacts DEF C
  <2> QED  BY <2>1, <2>2
<1> QED  BY <1>1, <1>4, <1>5

LEMMA RingIsExact == RingInv => HistoryExact
<1> SUFFICES ASSUME RingInv PROVE HistoryExact  OBVIOUS
<1> DEFINE C == HistoryCap
           events == RecentEvents(0)
<1>1. /\ C \in Nat \ {0} /\ history \in [0..(C - 1) -> Nat] /\ historyHead \in 0..(C - 1)
      /\ historyLen \in 0..C /\ consumed \in Nat /\ Turn \in {0, C}
      /\ consumed = Turn + historyHead
      /\ historyLen < C => historyHead = historyLen /\ Turn = 0
  BY ObservabilityAssumption DEF RingInv, Turn
<1>2. events = [i \in 1..historyLen |-> history[Wrap(Start + i - 1)]]
  BY DEF RecentEvents, Wrap
<1>3. Len(events) = historyLen /\ DOMAIN events = 1..historyLen
  BY <1>1, <1>2
<1>4. ASSUME NEW i \in 1..historyLen
      PROVE  events[i] = history[IF Start + i - 1 < C THEN Start + i - 1 ELSE (Start + i - 1) - C]
  <2>1. PICK y \in Nat : y = Start + i - 1  BY <1>1 DEF Start
  <2>2. y < 2 * C  BY <1>1, <2>1 DEF Start
  <2>3. /\ y < C => Wrap(y) = y
        /\ ~(y < C) => Wrap(y) = y - C
    BY Zenon, <2>2, WrapFacts
  <2>4. events[i] = history[Wrap(y)]  BY Zenon, <1>2, <2>1
  <2> HIDE DEF events
  <2>5. events[i] = history[IF y < C THEN y ELSE y - C]  BY Zenon, <2>3, <2>4
  <2> QED  BY Zenon, <2>1, <2>5
<1> HIDE DEF events
<1>5. ASSUME historyLen > 0 PROVE events[historyLen] = consumed
  <2>1. CASE historyLen < C
    <3>1. events[historyLen] = history[historyLen - 1]  BY <1>1, <1>4, <1>5, <2>1 DEF Start
    <3> QED  BY <1>1, <1>5, <2>1, <3>1 DEF RingInv
  <2>2. CASE historyLen = C /\ historyHead > 0
    <3>1. events[C] = history[historyHead - 1]  BY <1>1, <1>4, <1>5, <2>2 DEF Start
    <3> QED  BY <1>1, <1>5, <2>2, <3>1 DEF RingInv
  <2>3. CASE historyLen = C /\ historyHead = 0
    <3>1. events[C] = history[C - 1]  BY <1>1, <1>4, <1>5, <2>3 DEF Start
    <3> QED  BY <1>1, <1>5, <2>3, <3>1 DEF RingInv
  <2> QED  BY <1>1, <2>1, <2>2, <2>3
<1>6. ASSUME NEW i \in 1..historyLen, i > 1 PROVE events[i] = Following(events[i - 1])
  <2> DEFINE at(n) == IF Start + n - 1 < C THEN Start + n - 1 ELSE (Start + n - 1) - C
  <2>1. events[i] = history[at(i)] /\ events[i - 1] = history[at(i - 1)]
    BY <1>1, <1>4, <1>6
  <2>2. /\ at(i - 1) \in 0..(C - 1) /\ at(i) = IF at(i - 1) = C - 1 THEN 0 ELSE at(i - 1) + 1
        /\ historyLen < C => at(i - 1) < historyHead /\ at(i) < historyHead
        /\ at(i) # historyHead
    BY <1>1, <1>6 DEF Start
  <2> HIDE DEF at
  <2> QED  BY <2>1, <2>2, NextEntry
<1>7. events # <<>> => historyLen > 0  BY <1>1, <1>3
<1>8. historyLen < C => Len(events) = consumed  BY <1>1, <1>3
<1> QED  BY <1>3, <1>5, <1>6, <1>7, <1>8 DEF HistoryExact, events

\* RecentEvents(0) returns the last events applied, oldest first, without a
\* gap, for any capacity and after any number of turns of the ring.
THEOREM HistoryIsExact == Spec => []HistoryExact
BY RingInit, RingNext, RingIsExact, PTL DEF Spec

-----------------------------------------------------------------------------
(***************************************************************************)
(* The lists of the inspection store.  The guard of an execution keeps     *)
(* every other one of its manager with the same lockKey out from           *)
(* AcquireStarted to its last event, so that no event removes an entry of  *)
(* one of them; an execution of the other manager may, and its place tells *)
(* that it has.                                                            *)
(***************************************************************************)
LEMMA Disjoint == Runs \cap Claims = {} /\ Execs \cap Closers = {}
BY ObservabilityAssumption

Inner == {"acquire", "contended", "granted", "held", "release", "released", "leave"}

GuardInv == /\ \A f \in Execs : pc[f] \in Inner => Guard(f) \in active
            /\ \A f, g \in Execs : pc[f] \in Inner /\ pc[g] \in Inner /\ Guard(f) = Guard(g)
                                      => f = g
LocksInv == /\ \A f \in Execs : pc[f] = "held" => Lock(f) \in runtimeLocks \/ Hidden(f, Over)
            /\ \A k \in runtimeLocks : \E f \in Execs : Lock(f) = k /\ Listed(f)
ClaimsInv == /\ \A f \in Execs : pc[f] \in Trying =>
                    Lock(f) \in workerClaims \/ Hidden(f, Answered)
             /\ \A k \in workerClaims : \E f \in Execs : Lock(f) = k /\ pc[f] \in Trying
ActiveInv == pc \in [Procs -> Places] /\ GuardInv /\ LocksInv /\ ClaimsInv

LEMMA ActiveInit == Init => ActiveInv
<1> SUFFICES ASSUME Init PROVE ActiveInv  OBVIOUS
<1>1. pc \in [Procs -> Places] /\ \A f \in Execs : pc[f] = "new"
  BY DEF Init, Places, Procs
<1>2. "new" \notin Inner /\ "new" \notin Trying /\ "new" # "held"  BY DEF Inner, Trying
<1>3. runtimeLocks = {} /\ workerClaims = {}  BY Zenon DEF Init
<1> QED  BY <1>1, <1>2, <1>3, Zenon DEF ActiveInv, GuardInv, LocksInv, ClaimsInv

LEMMA SameLock ==
    ASSUME NEW e \in Execs, NEW f \in Execs, Lock(e) = Lock(f), Manager(e) = Manager(f)
    PROVE  Guard(e) = Guard(f)
<1>1. Resource[e] = Resource[f] /\ Owner[e] = Owner[f]  BY DEF Lock
<1>2. (e \in Runs) <=> (f \in Runs)
  <2>1. e \in Runs => Manager(e) = "runtime"  BY DEF Manager
  <2>2. e \notin Runs => Manager(e) = "worker"  BY DEF Manager
  <2>3. f \in Runs => Manager(f) = "runtime"  BY DEF Manager
  <2>4. f \notin Runs => Manager(f) = "worker"  BY DEF Manager
  <2> QED  BY <2>1, <2>2, <2>3, <2>4
<1>3. CASE e \in Runs  BY <1>1, <1>2, <1>3, Zenon DEF Guard
<1>4. CASE e \notin Runs  BY <1>1, <1>2, <1>4, Zenon DEF Guard
<1> QED  BY <1>3, <1>4

\* Of the executions of one manager with the same lockKey one is under way.
LEMMA Alone ==
    ASSUME GuardInv, NEW e \in Execs, pc[e] \in Inner
    PROVE  \A f \in Execs : f # e /\ pc[f] \in Inner /\ Lock(f) = Lock(e) =>
               Manager(f) # Manager(e)
BY SameLock, Zenon DEF GuardInv

\* A process p goes on at x; the others stay where they are.
Turns(p, x) == /\ pc' = [pc EXCEPT ![p] = x]
               /\ pc'[p] = x
               /\ \A f \in Procs : f # p => pc'[f] = pc[f]

\* A step that leaves the guards alone and enters no guarded part.
LEMMA GuardKept ==
    ASSUME GuardInv, NEW e \in Execs, NEW x, Turns(e, x), active' = active,
           x \in Inner => pc[e] \in Inner
    PROVE  GuardInv'
BY Zenon DEF GuardInv, Turns, Guard, Manager, Procs

\* An execution that is past its acquisition, or its callback, stays past it.
Onward(e, x) == (pc[e] \in Over => x \in Over) /\ (pc[e] \in Answered => x \in Answered)

LEMMA HiddenKept ==
    ASSUME NEW e \in Execs, NEW x, Turns(e, x), Onward(e, x), NEW f \in Execs
    PROVE  /\ Hidden(f, Over) => Hidden(f, Over)'
           /\ Hidden(f, Answered) => Hidden(f, Answered)'
<1>1. \A g \in Execs : g # e => pc'[g] = pc[g]  BY Zenon DEF Turns, Procs
<1>2. pc'[e] = x  BY Zenon DEF Turns
<1>3. ASSUME NEW P, pc[e] \in P => x \in P, Hidden(f, P)
      PROVE  \E g \in Execs : Lock(g) = Lock(f) /\ Manager(g) # Manager(f) /\ pc'[g] \in P
  <2>1. PICK g \in Execs : Lock(g) = Lock(f) /\ Manager(g) # Manager(f) /\ pc[g] \in P
    BY <1>3, Zenon DEF Hidden
  <2>2. pc'[g] \in P  BY <1>1, <1>2, <1>3, <2>1, Zenon
  <2> QED  BY <2>1, <2>2, Zenon
<1>4. /\ Over' = Over /\ Answered' = Answered
      /\ \A g \in Execs : Lock(g)' = Lock(g) /\ Manager(g)' = Manager(g)
  BY Zenon DEF Over, Answered, Lock, Manager
<1> QED  BY <1>3, <1>4, Zenon DEF Onward, Hidden, Lock, Manager, Over, Answered

\* e is where it hides the others with its lockKey.
LEMMA Hides ==
    ASSUME NEW e \in Execs, NEW x, Turns(e, x), NEW f \in Execs, Lock(f) = Lock(e),
           Manager(f) # Manager(e)
    PROVE  (x \in Over => Hidden(f, Over)') /\ (x \in Answered => Hidden(f, Answered)')
<1>1. pc'[e] = x /\ Lock(e) = Lock(f) /\ Manager(e) # Manager(f)  BY Zenon DEF Turns
<1> QED  BY <1>1, Zenon DEF Hidden, Lock, Manager, Over, Answered

\* An acquisition enters its own lockKey, and takes out one that no other of
\* its manager has.
LEMMA ClaimsKept ==
    ASSUME ClaimsInv, NEW e \in Execs, NEW x, Turns(e, x), Onward(e, x),
           \/ workerClaims' = workerClaims /\ (x \in Trying <=> pc[e] \in Trying)
           \/ workerClaims' = workerClaims \cup {Lock(e)} /\ x \in Trying
           \/ /\ workerClaims' = workerClaims \ {Lock(e)}
              /\ x \notin Trying /\ x \in Answered
              /\ \A f \in Execs : f # e /\ pc[f] \in Trying /\ Lock(f) = Lock(e) =>
                     Manager(f) # Manager(e)
    PROVE  ClaimsInv'
<1>1. \A f \in Execs : f \in Procs  BY Zenon DEF Procs
<1>2. \A f \in Execs : f # e => pc'[f] = pc[f]  BY <1>1, Zenon DEF Turns
<1>3. pc'[e] = x  BY Zenon DEF Turns
<1> DEFINE Seen(f) == Lock(f) \in workerClaims' \/ Hidden(f, Answered)'
<1>0. ASSUME \A f \in Execs : pc'[f] \in Trying => Seen(f),
             \A k \in workerClaims' : \E f \in Execs : Lock(f) = k /\ pc'[f] \in Trying
      PROVE  ClaimsInv'
  BY <1>0, Zenon DEF ClaimsInv, Lock, Trying
<1>4. ASSUME NEW f \in Execs, pc[f] \in Trying, Lock(f) \in workerClaims => Seen(f)
      PROVE  Seen(f)
  BY <1>4, HiddenKept, Zenon DEF ClaimsInv
<1> HIDE DEF Seen
<1>5. CASE workerClaims' = workerClaims /\ (x \in Trying <=> pc[e] \in Trying)
  <2>1. \A f \in Execs : pc'[f] \in Trying <=> pc[f] \in Trying  BY <1>2, <1>3, <1>5, Zenon
  <2>2. \A f \in Execs : Lock(f) \in workerClaims => Seen(f)  BY <1>5, Zenon DEF Seen
  <2>3. \A f \in Execs : pc'[f] \in Trying => Seen(f)  BY <1>4, <2>1, <2>2, Zenon
  <2>4. \A k \in workerClaims' : \E f \in Execs : Lock(f) = k /\ pc'[f] \in Trying
    BY <1>5, <2>1, Zenon DEF ClaimsInv
  <2> QED  BY <1>0, <2>3, <2>4, Zenon
<1>6. CASE workerClaims' = workerClaims \cup {Lock(e)} /\ x \in Trying
  <2>1. \A f \in Execs : pc[f] \in Trying => pc'[f] \in Trying  BY <1>2, <1>3, <1>6, Zenon
  <2>2. \A f \in Execs : Lock(f) \in workerClaims => Seen(f)  BY <1>6, Zenon DEF Seen
  <2>3. Seen(e)  BY <1>6, Zenon DEF Seen
  <2>4. \A f \in Execs : pc'[f] \in Trying => Seen(f)  BY <1>2, <1>4, <2>2, <2>3, Zenon
  <2>5. \A k \in workerClaims' : \E f \in Execs : Lock(f) = k /\ pc'[f] \in Trying
    BY <1>3, <1>6, <2>1, Zenon DEF ClaimsInv
  <2> QED  BY <1>0, <2>4, <2>5, Zenon
<1>7. CASE /\ workerClaims' = workerClaims \ {Lock(e)} /\ x \notin Trying /\ x \in Answered
           /\ \A f \in Execs : f # e /\ pc[f] \in Trying /\ Lock(f) = Lock(e) =>
                  Manager(f) # Manager(e)
  <2>1. ASSUME NEW f \in Execs, pc'[f] \in Trying PROVE Seen(f)
    <3>1. f # e /\ pc[f] \in Trying  BY <1>2, <1>3, <1>7, <2>1, Zenon
    <3>2. CASE Lock(f) = Lock(e)
      <4>1. Hidden(f, Answered)'  BY <1>7, <3>1, <3>2, Hides, Zenon
      <4> QED  BY <4>1, Zenon DEF Seen
    <3>3. CASE Lock(f) # Lock(e)
      <4>1. Lock(f) \in workerClaims => Seen(f)  BY <1>7, <3>3, Zenon DEF Seen
      <4> QED  BY <1>4, <3>1, <4>1, Zenon
    <3> QED  BY <3>2, <3>3
  <2>2. \A k \in workerClaims' : \E f \in Execs : Lock(f) = k /\ pc'[f] \in Trying
    BY <1>2, <1>7, Zenon DEF ClaimsInv
  <2> QED  BY <1>0, <2>1, <2>2, Zenon
<1> QED  BY <1>5, <1>6, <1>7, Zenon

\* The same for the locks that are held.
LEMMA LocksKept ==
    ASSUME LocksInv, NEW e \in Execs, NEW x, Turns(e, x), Onward(e, x),
           \/ runtimeLocks' = runtimeLocks /\ (x = "held" => pc[e] = "held")
                                           /\ (Listed(e) => Listed(e)')
           \/ runtimeLocks' = runtimeLocks \cup {Lock(e)} /\ x = "held"
           \/ /\ runtimeLocks' = runtimeLocks \ {Lock(e)}
              /\ x # "held" /\ x \in Over
              /\ \A f \in Execs : f # e /\ pc[f] = "held" /\ Lock(f) = Lock(e) =>
                     Manager(f) # Manager(e)
           \/ runtimeLocks' = runtimeLocks /\ e \in Claims /\ pc[e] = "held" /\ x = "release"
    PROVE  LocksInv'
<1>1. \A f \in Execs : f \in Procs  BY Zenon DEF Procs
<1>2. \A f \in Execs : f # e => pc'[f] = pc[f]  BY <1>1, Zenon DEF Turns
<1>3. pc'[e] = x  BY Zenon DEF Turns
<1>4. \A f \in Execs : f # e => (Listed(f)' <=> Listed(f))  BY <1>2, Zenon DEF Listed
<1>5. "release" \in {"release", "released"} /\ "release" # "held"  OBVIOUS
<1> DEFINE Seen(f) == Lock(f) \in runtimeLocks' \/ Hidden(f, Over)'
<1>0. ASSUME \A f \in Execs : pc'[f] = "held" => Seen(f),
             \A k \in runtimeLocks' : \E f \in Execs : Lock(f) = k /\ Listed(f)'
      PROVE  LocksInv'
  BY <1>0, Zenon DEF LocksInv, Lock
<1>10. ASSUME NEW f \in Execs, pc[f] = "held", Lock(f) \in runtimeLocks => Seen(f)
       PROVE  Seen(f)
  BY <1>10, HiddenKept, Zenon DEF LocksInv
<1> HIDE DEF Seen
<1>6. CASE runtimeLocks' = runtimeLocks /\ (x = "held" => pc[e] = "held")
                                        /\ (Listed(e) => Listed(e)')
  <2>1. \A f \in Execs : pc'[f] = "held" => pc[f] = "held"  BY <1>2, <1>3, <1>6, Zenon
  <2>2. \A f \in Execs : Listed(f) => Listed(f)'  BY <1>4, <1>6, Zenon
  <2>3. \A f \in Execs : Lock(f) \in runtimeLocks => Seen(f)  BY <1>6, Zenon DEF Seen
  <2>4. \A f \in Execs : pc'[f] = "held" => Seen(f)  BY <1>10, <2>1, <2>3, Zenon
  <2>5. \A k \in runtimeLocks' : \E f \in Execs : Lock(f) = k /\ Listed(f)'
    BY <1>6, <2>2, Zenon DEF LocksInv
  <2> QED  BY <1>0, <2>4, <2>5, Zenon
<1>7. CASE runtimeLocks' = runtimeLocks \cup {Lock(e)} /\ x = "held"
  <2>1. Listed(e)'  BY <1>3, <1>7, Zenon DEF Listed
  <2>2. \A f \in Execs : Listed(f) => Listed(f)'  BY <1>4, <2>1, Zenon
  <2>3. \A f \in Execs : Lock(f) \in runtimeLocks => Seen(f)  BY <1>7, Zenon DEF Seen
  <2>4. Seen(e)  BY <1>7, Zenon DEF Seen
  <2>5. \A f \in Execs : pc'[f] = "held" => Seen(f)  BY <1>2, <1>10, <2>3, <2>4, Zenon
  <2>6. \A k \in runtimeLocks' : \E f \in Execs : Lock(f) = k /\ Listed(f)'
    BY <1>7, <2>1, <2>2, Zenon DEF LocksInv
  <2> QED  BY <1>0, <2>5, <2>6, Zenon
<1>8. CASE /\ runtimeLocks' = runtimeLocks \ {Lock(e)} /\ x # "held" /\ x \in Over
           /\ \A f \in Execs : f # e /\ pc[f] = "held" /\ Lock(f) = Lock(e) =>
                  Manager(f) # Manager(e)
  <2>1. ASSUME NEW f \in Execs, pc'[f] = "held" PROVE Seen(f)
    <3>1. f # e /\ pc[f] = "held"  BY <1>2, <1>3, <1>8, <2>1, Zenon
    <3>2. CASE Lock(f) = Lock(e)
      <4>1. Hidden(f, Over)'  BY <1>8, <3>1, <3>2, Hides, Zenon
      <4> QED  BY <4>1, Zenon DEF Seen
    <3>3. CASE Lock(f) # Lock(e)
      <4>1. Lock(f) \in runtimeLocks => Seen(f)  BY <1>8, <3>3, Zenon DEF Seen
      <4> QED  BY <1>10, <3>1, <4>1, Zenon
    <3> QED  BY <3>2, <3>3
  <2>2. \A k \in runtimeLocks' : \E f \in Execs : Lock(f) = k /\ Listed(f)'
    BY <1>4, <1>8, Zenon DEF LocksInv
  <2> QED  BY <1>0, <2>1, <2>2, Zenon
<1>9. CASE runtimeLocks' = runtimeLocks /\ e \in Claims /\ pc[e] = "held" /\ x = "release"
  <2>1. Listed(e)'  BY <1>3, <1>5, <1>9, Zenon DEF Listed
  <2> QED  BY <1>5, <1>6, <1>9, <2>1, Zenon
<1> QED  BY <1>6, <1>7, <1>8, <1>9, Zenon

\* What an event does to the lists.
LEMMA Applied ==
    ASSUME NEW kind, NEW key, ApplyEvent(kind, key)
    PROVE  /\ kind = "AcquireStarted" =>
                 runtimeLocks' = runtimeLocks /\ workerClaims' = workerClaims \cup {key}
           /\ kind = "AcquireSucceeded" =>
                 /\ runtimeLocks' = runtimeLocks \cup {key}
                 /\ workerClaims' = workerClaims \ {key}
           /\ kind = "AcquireFailed" =>
                 runtimeLocks' = runtimeLocks /\ workerClaims' = workerClaims \ {key}
           /\ kind \in {"Released", "LeaseLost"} =>
                 runtimeLocks' = runtimeLocks \ {key} /\ workerClaims' = workerClaims
           /\ kind \in {"PresenceChecked", "Contention", "ShutdownStarted", "ShutdownCompleted"} =>
                 runtimeLocks' = runtimeLocks /\ workerClaims' = workerClaims
BY DEF ApplyEvent

\* What a step that reports does to the places and the store.
LEMMA Reported ==
    ASSUME NEW e \in Procs, NEW kind, NEW key, NEW x, pc \in [Procs -> Places],
           Publish(e, kind, key, x)
    PROVE  Turns(e, x) /\ ApplyEvent(kind, key)
BY Zenon DEF Publish, Turns

\* A step that reports nothing leaves the store alone.
LEMMA Went ==
    ASSUME NEW e \in Procs, NEW x, pc \in [Procs -> Places], Goto(e, x), Quiet
    PROVE  Turns(e, x) /\ UNCHANGED <<runtimeLocks, workerClaims>>
BY Zenon DEF Goto, Quiet, store, Turns

\* Where the places of an execution belong.
LEMMA PlaceFacts ==
    /\ "new" \notin Inner /\ "new" \notin Trying /\ "new" # "held"
    /\ "peek" \notin Inner /\ "peek" \notin Trying /\ "peek" # "held"
    /\ "admit" \notin Inner /\ "admit" \notin Trying /\ "admit" # "held"
    /\ "done" \notin Inner /\ "done" \notin Trying /\ "done" # "held"
    /\ "acquire" \in Inner /\ "acquire" \in Trying /\ "acquire" # "held"
    /\ "granted" \in Inner /\ "granted" \in Trying /\ "granted" # "held"
    /\ "contended" \in Inner /\ "contended" \notin Trying /\ "contended" # "held"
    /\ "release" \in Inner /\ "release" \notin Trying /\ "release" # "held"
    /\ "released" \in Inner /\ "released" \notin Trying /\ "released" # "held"
    /\ "leave" \in Inner /\ "leave" \notin Trying /\ "leave" # "held"
    /\ "held" \in Inner /\ "held" \notin Trying
    /\ \A x \in Trying : x \in Inner
    /\ "held" \in Answered /\ "contended" \in Answered /\ "leave" \in Answered
    /\ "release" \in Over /\ "released" \in Over /\ "leave" \in Over /\ "done" \in Over
BY DEF Inner, Trying, Answered, Over

LEMMA Onwards ==
    ASSUME NEW e \in Execs, NEW x,
           \/ pc[e] \in {"new", "peek", "admit", "acquire", "granted"}
           \/ pc[e] \in {"contended", "held", "release", "released", "leave"} /\ x \in Over
    PROVE  Onward(e, x)
BY DEF Onward, Over, Answered

\* One execution takes a step.
LEMMA ExecuteActive ==
    ASSUME ActiveInv, NEW e \in Execs, Execute(e)
    PROVE  ActiveInv'
<1>1. pc' \in [Procs -> Places]
  BY ExecuteShape, Zenon DEF ActiveInv, Announces, Moves
<1>2. e \in Procs /\ pc \in [Procs -> Places] /\ GuardInv /\ LocksInv /\ ClaimsInv
  BY Zenon DEF Procs, ActiveInv
<1> SUFFICES GuardInv' /\ LocksInv' /\ ClaimsInv'  BY <1>1, Zenon DEF ActiveInv
<1> DEFINE Same == UNCHANGED <<active, runtimeLocks, workerClaims>>
\* Outside the guard nothing is listed.
<1>3. ASSUME NEW x, Turns(e, x), Same, x \notin Inner, pc[e] \in {"new", "peek", "admit"}
      PROVE  GuardInv' /\ LocksInv' /\ ClaimsInv'
  <2>1. x \notin Trying /\ pc[e] \notin Trying  BY <1>3 DEF Inner, Trying
  <2>2. x # "held" /\ pc[e] # "held" /\ ~Listed(e)  BY <1>3 DEF Listed, Inner
  <2>6. Onward(e, x)  BY <1>3, Onwards, Zenon
  <2>3. GuardInv'  BY <1>2, <1>3, <2>1, <2>2, GuardKept, Zenon
  <2>4. LocksInv'  BY <1>2, <1>3, <2>1, <2>2, <2>6, LocksKept, Zenon
  <2>5. ClaimsInv'  BY <1>2, <1>3, <2>1, <2>2, <2>6, ClaimsKept, Zenon
  <2> QED  BY <2>3, <2>4, <2>5
<1>4. CASE Enter(e)
  <2>1. pc[e] = "new" /\ Same /\ (Turns(e, "done") \/ Turns(e, "peek"))
    <3>1. CASE Manager(e) \in closing
      BY <1>2, <1>4, <3>1, Went, Zenon DEF Enter, Ready, lock
    <3>2. CASE Manager(e) \notin closing
      BY <1>2, <1>4, <3>2, Went, Zenon DEF Enter, Ready, lock
    <3> QED  BY <3>1, <3>2, Zenon
  <2> QED  BY <1>3, <2>1, PlaceFacts, Zenon
<1>5. CASE Peek(e)
  <2>1. pc[e] = "peek" /\ Turns(e, "admit") /\ active' = active
        /\ ApplyEvent("PresenceChecked", Lock(e))
    BY <1>2, <1>5, Reported, Zenon DEF Peek, Report, lock
  <2>2. Same  BY <2>1, Applied, Zenon
  <2> QED  BY <1>3, <2>1, <2>2, PlaceFacts, Zenon
<1>6. CASE Admit(e)
  <2>0. pc[e] = "admit" \/ pc[e] = "new"  BY <1>6, Zenon DEF Admit
  <2>1. CASE Turns(e, "done") /\ Same  BY <1>3, <2>0, <2>1, PlaceFacts, Zenon
  <2>2. CASE /\ Guard(e) \notin active /\ active' = active \cup {Guard(e)}
             /\ Turns(e, "acquire") /\ ApplyEvent("AcquireStarted", Lock(e))
    <3>1. runtimeLocks' = runtimeLocks /\ workerClaims' = workerClaims \cup {Lock(e)}
      BY <2>2, Applied, Zenon
    <3>2. ~Listed(e) /\ Onward(e, "acquire")  BY <2>0, Onwards DEF Listed
    <3>3. LocksInv' /\ ClaimsInv'
      BY <1>2, <2>0, <2>2, <3>1, <3>2, PlaceFacts, LocksKept, ClaimsKept, Zenon
    <3>4. \A f \in Execs : f \in Procs /\ (f # e => pc'[f] = pc[f])
      BY <2>2, Zenon DEF Turns, Procs
    <3>5. \A f \in Execs : pc'[f] \in Inner => Guard(f) \in active'
      BY <1>2, <2>2, <3>4, Zenon DEF GuardInv
    <3>6. \A f, g \in Execs : pc'[f] \in Inner /\ pc'[g] \in Inner /\ Guard(f) = Guard(g) => f = g
      BY <1>2, <2>2, <3>4, Zenon DEF GuardInv
    <3> QED  BY <3>3, <3>5, <3>6, Zenon DEF GuardInv, Guard, Manager
  <2> QED
    BY <1>2, <1>6, <2>1, <2>2, Reported, Went, Zenon DEF Admit, Report
<1>7. CASE Acquire(e)
  <2>1. pc[e] = "acquire" /\ Turns(e, "granted") /\ Same
    BY <1>2, <1>7, Went, Zenon DEF Acquire, Ready
  <2>2. ~Listed(e) /\ Onward(e, "granted")  BY <2>1, Onwards DEF Listed
  <2> QED  BY <1>2, <2>1, <2>2, PlaceFacts, GuardKept, LocksKept, ClaimsKept, Zenon
<1>8. CASE AcquireFailed(e)
  <2>1. CASE /\ pc[e] = "acquire" /\ active' = active
             /\ Turns(e, "contended") \/ Turns(e, "leave")
             /\ ApplyEvent("AcquireFailed", Lock(e))
    <3>1. runtimeLocks' = runtimeLocks /\ workerClaims' = workerClaims \ {Lock(e)}
      BY <2>1, Applied, Zenon
    <3>2. ~Listed(e) /\ Onward(e, "contended") /\ Onward(e, "leave")
      BY <2>1, Onwards DEF Listed
    <3>3. \A f \in Execs : f # e /\ pc[f] \in Trying /\ Lock(f) = Lock(e) =>
              Manager(f) # Manager(e)
      BY <1>2, <2>1, Alone, PlaceFacts, Zenon
    <3> QED  BY <1>2, <2>1, <3>1, <3>2, <3>3, PlaceFacts, GuardKept, LocksKept, ClaimsKept, Zenon
  <2>2. CASE /\ pc[e] = "contended" /\ active' = active /\ Turns(e, "leave")
             /\ ApplyEvent("Contention", Lock(e))
    <3>1. runtimeLocks' = runtimeLocks /\ workerClaims' = workerClaims
      BY <2>2, Applied, Zenon
    <3>2. ~Listed(e) /\ Onward(e, "leave")  BY <2>2, PlaceFacts, Onwards DEF Listed
    <3> QED  BY <1>2, <2>2, <3>1, <3>2, PlaceFacts, GuardKept, LocksKept, ClaimsKept, Zenon
  <2>3. active' = active  BY <1>8, Zenon DEF AcquireFailed, lock
  <2>4. CASE e \in Runs
    BY <1>2, <1>8, <2>1, <2>2, <2>3, <2>4, Reported, Zenon DEF AcquireFailed, Report
  <2>5. CASE e \notin Runs
    BY <1>2, <1>8, <2>1, <2>2, <2>3, <2>5, Reported, Zenon DEF AcquireFailed, Report
  <2> QED  BY <2>4, <2>5, Zenon
<1>9. CASE AcquireSucceeded(e)
  <2>1. /\ pc[e] = "granted" /\ active' = active /\ Turns(e, "held")
        /\ ApplyEvent("AcquireSucceeded", Lock(e))
    BY <1>2, <1>9, Reported, Zenon DEF AcquireSucceeded, Report, lock
  <2>2. runtimeLocks' = runtimeLocks \cup {Lock(e)} /\ workerClaims' = workerClaims \ {Lock(e)}
    BY <2>1, Applied, Zenon
  <2>3. \A f \in Execs : f # e /\ pc[f] \in Trying /\ Lock(f) = Lock(e) =>
            Manager(f) # Manager(e)
    BY <1>2, <2>1, Alone, PlaceFacts, Zenon
  <2>4. Onward(e, "held")  BY <2>1, Onwards
  <2> QED  BY <1>2, <2>1, <2>2, <2>3, <2>4, PlaceFacts, GuardKept, LocksKept, ClaimsKept, Zenon
\* The last report of an execution, or the loss of its lease.
<1>10. ASSUME NEW x, Turns(e, x), x \in {"release", "leave"}, pc[e] \in {"held", "released"},
              active' = active, NEW kind \in {"Released", "LeaseLost"}, ApplyEvent(kind, Lock(e))
       PROVE  GuardInv' /\ LocksInv' /\ ClaimsInv'
  <2>1. runtimeLocks' = runtimeLocks \ {Lock(e)} /\ workerClaims' = workerClaims
    BY <1>10, Applied, Zenon
  <2>2. \A f \in Execs : f # e /\ pc[f] = "held" /\ Lock(f) = Lock(e) =>
            Manager(f) # Manager(e)
    BY <1>2, <1>10, Alone, PlaceFacts, Zenon
  <2>3. x \in Over /\ Onward(e, x)
    <3>1. x \in Over  BY <1>10, PlaceFacts, Zenon
    <3> QED  BY <1>10, <3>1, Onwards, Zenon
  <2> QED  BY <1>2, <1>10, <2>1, <2>2, <2>3, PlaceFacts, GuardKept, LocksKept, ClaimsKept, Zenon
<1>11. CASE Finish(e)
  <2>1. pc[e] = "held" /\ active' = active  BY <1>11, Zenon DEF Finish, Ready, lock
  <2>0. Onward(e, "release")  BY <2>1, PlaceFacts, Onwards, Zenon
  <2>2. CASE e \in Claims /\ Turns(e, "release") /\ Same
    BY <1>2, <2>0, <2>1, <2>2, PlaceFacts, GuardKept, LocksKept, ClaimsKept, Zenon
  <2>3. CASE Turns(e, "release") /\ \E kind \in {"Released", "LeaseLost"} : ApplyEvent(kind, Lock(e))
    BY <1>10, <2>1, <2>3, Zenon
  <2> QED
    BY <1>2, <1>11, <2>1, <2>2, <2>3, Reported, Went, Zenon DEF Finish, Report
<1>12. CASE Release(e)
  <2>1. pc[e] = "release" /\ Same  BY <1>2, <1>12, Went, Zenon DEF Release, Ready
  <2>0. Onward(e, "leave") /\ Onward(e, "released")  BY <2>1, PlaceFacts, Onwards, Zenon
  <2>2. CASE e \in Runs
    <3>1. Turns(e, "leave")  BY <1>2, <1>12, <2>2, Went, Zenon DEF Release
    <3>2. ~Listed(e)  BY <2>1, <2>2, Disjoint DEF Listed
    <3> QED  BY <1>2, <2>0, <2>1, <3>1, <3>2, PlaceFacts, GuardKept, LocksKept, ClaimsKept, Zenon
  <2>3. CASE e \notin Runs
    <3>1. Turns(e, "released")  BY <1>2, <1>12, <2>3, Went, Zenon DEF Release
    <3>2. Listed(e) => Listed(e)'  BY <2>1, <3>1 DEF Listed, Turns
    <3> QED  BY <1>2, <2>0, <2>1, <3>1, <3>2, PlaceFacts, GuardKept, LocksKept, ClaimsKept, Zenon
  <2> QED  BY <2>2, <2>3, Zenon
<1>13. CASE Released(e)
  <2>1. /\ pc[e] = "released" /\ active' = active /\ Turns(e, "leave")
        /\ ApplyEvent("Released", Lock(e))
    BY <1>2, <1>13, Reported, Zenon DEF Released, Report, lock
  <2> QED  BY <1>10, <2>1, Zenon
<1>14. CASE Leave(e)
  <2>1. /\ pc[e] = "leave" /\ active' = active \ {Guard(e)} /\ Turns(e, "done")
        /\ UNCHANGED <<runtimeLocks, workerClaims>>
    BY <1>2, <1>14, Went, Zenon DEF Leave, Ready
  <2>2. ~Listed(e) /\ Onward(e, "done")  BY <2>1, PlaceFacts, Onwards DEF Listed
  <2>3. LocksInv' /\ ClaimsInv'
    BY <1>2, <2>1, <2>2, PlaceFacts, LocksKept, ClaimsKept, Zenon
  <2>4. /\ \A f \in Execs : f # e => pc'[f] = pc[f]
        /\ pc'[e] \notin Inner /\ pc[e] \in Inner
    BY <2>1, PlaceFacts, Zenon DEF Turns, Procs
  <2>5. \A f \in Execs : pc'[f] \in Inner => Guard(f) \in active'
    BY <1>2, <2>1, <2>4, Zenon DEF GuardInv
  <2>6. \A f, g \in Execs : pc'[f] \in Inner /\ pc'[g] \in Inner /\ Guard(f) = Guard(g) => f = g
    BY <1>2, <2>4, Zenon DEF GuardInv
  <2> QED  BY <2>3, <2>5, <2>6, Zenon DEF GuardInv, Guard, Manager
<1> QED
  BY <1>4, <1>5, <1>6, <1>7, <1>8, <1>9, <1>11, <1>12, <1>13, <1>14, Zenon DEF Execute

\* Nobody else touches the guards or the lists.
LEMMA OthersActive ==
    ASSUME [Next]_vars
    PROVE  \/ \E e \in Execs : Execute(e)
           \/ \E p \in Closers, x \in Places :
                 pc' = [pc EXCEPT ![p] = x] /\ UNCHANGED <<active, runtimeLocks, workerClaims>>
           \/ UNCHANGED <<pc, active, runtimeLocks, workerClaims>>
<1> DEFINE Same == UNCHANGED <<active, runtimeLocks, workerClaims>>
<1>1. ASSUME NEW c \in Closers, Shutdown(c) PROVE Same
  <2>1. ASSUME NEW kind \in {"ShutdownStarted", "ShutdownCompleted"}, NEW x, Say(c, kind, x)
        PROVE  UNCHANGED <<runtimeLocks, workerClaims>>
    BY <2>1, Applied, Zenon DEF Say, Publish
  <2>2. Quiet => UNCHANGED <<runtimeLocks, workerClaims>>  BY Zenon DEF Quiet, store
  <2>3. UNCHANGED lock => active' = active  BY Zenon DEF lock
  <2>4. (Begin(c) \/ Conclude(c)) => Same  BY <2>1, <2>3, Zenon DEF Begin, Conclude
  <2>5. \A m \in Managers : (CloseManager(c, m) \/ DrainManager(c, m)) => Same
    BY <2>1, <2>2, <2>3, Zenon DEF CloseManager, DrainManager
  <2>6. CloseDispatcher(c) => Same  BY Zenon DEF CloseDispatcher, lock, store
  <2>7. AwaitWorkers(c) => Same  BY <2>2, <2>3, Zenon DEF AwaitWorkers
  <2> QED  BY <1>1, <2>4, <2>5, <2>6, <2>7, Zenon DEF Shutdown
<1>2. ASSUME NEW c \in Closers, Shutdown(c) PROVE \E x \in Places : pc' = [pc EXCEPT ![c] = x]
  <2>1. "returned" \in Places /\ "wait" \in Places  BY DEF Places
  <2>2. CloseDispatcher(c) => pc' = [pc EXCEPT ![c] = "returned"] \/ pc' = [pc EXCEPT ![c] = "wait"]
    <3>1. CASE closed  BY <3>1, Zenon DEF CloseDispatcher, Goto
    <3>2. CASE ~closed  BY <3>2, Zenon DEF CloseDispatcher, Goto
    <3> QED  BY <3>1, <3>2
  <2> QED  BY <1>2, <2>1, <2>2, ShutdownShape, Zenon DEF Announces, Moves
<1>3. ASSUME NEW p \in Procs, Drops(p) PROVE UNCHANGED pc /\ Same
  <2>1. NotPublishing  BY <1>3, Zenon DEF Drops, Send, HandleDrop, Evict, Resend, Panic
  <2> QED  BY <2>1, Zenon DEF NotPublishing, lock, store
<1>4. ASSUME NEW w \in Workers, Works(w) PROVE UNCHANGED pc /\ Same
  <2>1. NotWorking  BY <1>4, Zenon DEF Works, Take, Deliver, Stop
  <2> QED  BY <2>1, Zenon DEF NotWorking, lock, store
<1>5. ASSUME NEW r \in Resources, Expire(r) PROVE UNCHANGED pc /\ Same
  BY <1>5, Zenon DEF Expire, Quiet, store
<1>6. UNCHANGED vars => UNCHANGED pc /\ Same  BY Zenon DEF vars, lock, store
<1>7. Rest => UNCHANGED vars  BY Zenon DEF Rest
<1> QED  BY <1>1, <1>2, <1>3, <1>4, <1>5, <1>6, <1>7, Zenon DEF Next, Drops, Works

LEMMA ActiveNext == ActiveInv /\ [Next]_vars => ActiveInv'
<1> SUFFICES ASSUME ActiveInv, [Next]_vars PROVE ActiveInv'  OBVIOUS
<1>1. ASSUME UNCHANGED <<active, runtimeLocks, workerClaims>>, pc' \in [Procs -> Places],
             \A f \in Execs : pc'[f] = pc[f]
      PROVE  ActiveInv'
  <2>1. GuardInv'  BY <1>1, Zenon DEF ActiveInv, GuardInv, Guard, Manager
  <2>2. \A f \in Execs : /\ Hidden(f, Over) => Hidden(f, Over)'
                         /\ Hidden(f, Answered) => Hidden(f, Answered)'
    BY <1>1, Zenon DEF Hidden, Lock, Manager, Over, Answered
  <2>3. \A f \in Execs : Listed(f) => Listed(f)'  BY <1>1, Zenon DEF Listed
  <2>4. LocksInv'  BY <1>1, <2>2, <2>3, Zenon DEF ActiveInv, LocksInv, Lock
  <2>5. ClaimsInv'  BY <1>1, <2>2, Zenon DEF ActiveInv, ClaimsInv, Lock, Trying
  <2> QED  BY <1>1, <2>1, <2>4, <2>5, Zenon DEF ActiveInv
<1>2. ASSUME NEW p \in Closers, NEW x \in Places, pc' = [pc EXCEPT ![p] = x]
      PROVE  pc' \in [Procs -> Places] /\ \A f \in Execs : pc'[f] = pc[f]
  <2>1. p \in Procs /\ \A f \in Execs : f \in Procs /\ f # p
    BY <1>2, Disjoint, Zenon DEF Procs
  <2> QED  BY <1>2, <2>1, Zenon DEF ActiveInv
<1>3. UNCHANGED pc => pc' \in [Procs -> Places] /\ \A f \in Execs : pc'[f] = pc[f]
  BY Zenon DEF ActiveInv
<1> QED  BY <1>1, <1>2, <1>3, ExecuteActive, OthersActive, Zenon

\* The inspection store lists the executions in their callbacks and the
\* acquisitions in progress and nothing else, however many executions share a
\* resource and at whatever event they are; it misses one only where an
\* execution of the other manager with the same lockKey has ended.
THEOREM StoreIsExact == Spec => []ActiveExact
<1>1. ActiveInv => ActiveExact
  BY Zenon DEF ActiveInv, LocksInv, ClaimsInv, ActiveExact
<1> QED  BY <1>1, ActiveInit, ActiveNext, PTL DEF Spec
=============================================================================
