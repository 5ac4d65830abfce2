------------------------ MODULE WorkerManagerProofs -------------------------
(***************************************************************************)
(* Proofs about WorkerManager for any number of claims, processes,         *)
(* deliveries and members, and any lengths of the claims' plans: an        *)
(* inductive invariant, that every step of a claim, restarts and lapses    *)
(* keep it, and what follows from it.                                      *)
(***************************************************************************)
EXTENDS WorkerManager, Integers, TLAPS

Stages == {"idle", "guard", "get", "begin", "refresh", "acquire", "run", "stop",
           "persist", "release", "unguard", "leave"}
Statuses == {"missing", "in_progress", "completed", "failed"}

\* What a callback returns, or the loss of a lease in its place, and what of it
\* is acknowledged.
Errors == {{}, {"duplicate"}, {"invariant"}, {"dlq"}, {"other"}, {"lease_lost"}}
Acked == {{}, {"duplicate"}}

CallType == [pc : Stages, proc : Procs \cup {"nobody"}, msg : Messages \cup {NoKey},
             plan : Seq(Members), i : Nat, seen : Statuses,
             ren : Seq({"alive", "failed", "stopped"}),
             err : Errors, res : {"nil", "error"}]

TypeInv == /\ guards \subseteq Procs \X Members
           /\ call \in [Claims -> CallType]
           /\ leases \in [Members -> [by : Claims \cup {"nobody"},
                                      owner : Procs \cup {"nobody"}]]
           /\ records \in [Messages -> Statuses]
           /\ overrun \subseteq Messages /\ processed \subseteq Messages

\* What the stage of a claim says about its other fields.
Shape(r) ==
    /\ r.pc # "idle" => r.proc \in Procs /\ r.i \in 1..Len(r.plan)
    /\ r.pc = "idle" => r.proc = "nobody"
    /\ IF r.pc \in {"run", "stop", "persist"} THEN Len(r.ren) = Len(r.plan) ELSE r.ren = <<>>
    /\ r.pc = "run" => r.i = Len(r.plan)
    /\ r.pc = "stop" => \A j \in 1..Len(r.ren) : j > r.i => r.ren[j] # "alive"
    /\ r.pc = "persist" => \A j \in 1..Len(r.ren) :
           r.ren[j] # "alive" /\ (r.ren[j] = "failed" => r.err = {"lease_lost"})
    /\ r.pc \in {"get", "begin", "refresh"} => r.msg \in Messages
    /\ r.pc = "refresh" => r.seen \in {"completed", "failed"}
    /\ r.res = "nil" => r.pc \in {"release", "unguard", "leave"}

\* The positions of a plan whose guards the claim has installed, and those
\* whose leases it has acquired and not yet given back.
Guarded(r) == {j \in 1..Len(r.plan) :
                  \/ r.pc = "guard" /\ j < r.i
                  \/ r.pc \in {"get", "begin", "refresh", "acquire", "run", "stop",
                               "persist", "release"}
                  \/ r.pc = "unguard" /\ j >= r.i}
Leased(r) == {j \in 1..Len(r.plan) : \/ r.pc = "acquire" /\ j < r.i
                                     \/ r.pc \in {"run", "stop", "persist"}
                                     \/ r.pc = "release" /\ j <= r.i}

\* A guard belongs to one position of one claim.
GuardInv ==
    /\ \A c \in Claims : \A j \in Guarded(call[c]) :
          <<call[c].proc, call[c].plan[j]>> \in guards
    /\ \A c, d \in Claims : \A j \in Guarded(call[c]), k \in Guarded(call[d]) :
          call[c].proc = call[d].proc /\ call[c].plan[j] = call[d].plan[k] => c = d /\ j = k

\* A lease that a claim will release is one the claim acquired; one the driver
\* would take for the claim's is the claim's.
LeaseInv ==
    /\ \A m \in Members : leases[m].by \in Claims =>
          /\ leases[m].owner = call[leases[m].by].proc
          /\ \E j \in Leased(call[leases[m].by]) : call[leases[m].by].plan[j] = m
    /\ \A c \in Claims : \A j \in Leased(call[c]) :
          leases[call[c].plan[j]].owner = call[c].proc => leases[call[c].plan[j]].by = c

Slot == {"acquire", "run", "stop", "persist"}

\* What the store has for a message while claims use it.
RecordInv ==
    /\ \A c \in Claims : call[c].msg \in Messages \ overrun =>
          /\ call[c].pc \in Slot => records[call[c].msg] = "in_progress"
          /\ call[c].pc = "refresh" => records[call[c].msg] = call[c].seen
          /\ call[c].res = "nil" => records[call[c].msg] = "completed"
          /\ \A d \in Claims : call[d].msg = call[c].msg /\ call[c].pc \in Slot
                               /\ call[d].pc \in Slot => c = d
    /\ \A k \in Messages : records[k] = "completed" => k \in processed
    /\ \A c \in Claims : call[c].msg \in Messages =>
          /\ call[c].pc = "refresh" /\ call[c].seen = "completed" => call[c].msg \in processed
          /\ call[c].pc \in {"stop", "persist"} /\ call[c].err \in Acked =>
                call[c].msg \in processed

ClaimInv == /\ TypeInv
            /\ \A c \in Claims : Shape(call[c])
            /\ GuardInv /\ LeaseInv /\ RecordInv

-----------------------------------------------------------------------------
(***************************************************************************)
(* What a step of one claim must leave alone.                              *)
(***************************************************************************)
Only(c) == \A d \in Claims \ {c} : call'[d] = call[d]

LEMMA GuardFrame ==
  ASSUME GuardInv, NEW c \in Claims, Only(c), guards' = guards,
         \A j \in Guarded(call'[c]) :
            /\ j \in Guarded(call[c])
            /\ call'[c].proc = call[c].proc
            /\ call'[c].plan[j] = call[c].plan[j]
  PROVE  GuardInv'
  BY DEF GuardInv, Only

LEMMA GuardAdded ==
  ASSUME GuardInv, NEW c \in Claims, Only(c), NEW n,
         <<call[c].proc, call[c].plan[n]>> \notin guards,
         guards' = guards \cup {<<call[c].proc, call[c].plan[n]>>},
         call'[c].proc = call[c].proc, call'[c].plan = call[c].plan,
         Guarded(call'[c]) = Guarded(call[c]) \cup {n}
  PROVE  GuardInv'
<1> DEFINE G(d, j) == <<call[d].proc, call[d].plan[j]>>
<1>1. ASSUME NEW d \in Claims, NEW j \in Guarded(call'[d])
      PROVE  /\ <<call'[d].proc, call'[d].plan[j]>> = G(d, j)
             /\ \/ d = c /\ j = n
                \/ j \in Guarded(call[d]) /\ G(d, j) \in guards
  <2>1. CASE d = c
    BY <2>1, Zenon DEF GuardInv
  <2>2. CASE d # c
    BY <2>2, Zenon DEF GuardInv, Only
  <2> QED
    BY <2>1, <2>2, Zenon
<1>2. ASSUME NEW d \in Claims, NEW j \in Guarded(call'[d])
      PROVE  <<call'[d].proc, call'[d].plan[j]>> \in guards'
  BY <1>1, Zenon
<1>3. ASSUME NEW d \in Claims, NEW e \in Claims,
             NEW j \in Guarded(call'[d]), NEW k \in Guarded(call'[e]),
             call'[d].proc = call'[e].proc, call'[d].plan[j] = call'[e].plan[k]
      PROVE  d = e /\ j = k
  <2>1. G(d, j) = G(e, k)
    BY <1>1, <1>3, Zenon
  <2>2. CASE d = c /\ j = n
    BY <1>1, <2>1, <2>2, Zenon
  <2>3. CASE e = c /\ k = n
    BY <1>1, <2>1, <2>3, Zenon
  <2>4. CASE j \in Guarded(call[d]) /\ k \in Guarded(call[e])
    BY <2>1, <2>4 DEF GuardInv
  <2> QED
    BY <1>1, <2>2, <2>3, <2>4, Zenon
<1> QED
  BY <1>2, <1>3 DEF GuardInv

LEMMA LeaseFrame ==
  ASSUME LeaseInv, NEW c \in Claims, Only(c), leases' = leases,
         Leased(call'[c]) = Leased(call[c]),
         \A j \in Leased(call[c]) :
            /\ call'[c].proc = call[c].proc
            /\ call'[c].plan[j] = call[c].plan[j]
  PROVE  LeaseInv'
<1>1. ASSUME NEW m \in Members, leases'[m].by \in Claims
      PROVE  /\ leases'[m].owner = call'[leases'[m].by].proc
             /\ \E j \in Leased(call'[leases'[m].by]) : call'[leases'[m].by].plan[j] = m
  BY <1>1 DEF LeaseInv, Only
<1>2. ASSUME NEW d \in Claims, NEW j \in Leased(call'[d]),
             leases'[call'[d].plan[j]].owner = call'[d].proc
      PROVE  leases'[call'[d].plan[j]].by = d
  BY <1>2 DEF LeaseInv, Only
<1> QED
  BY <1>1, <1>2, Zenon DEF LeaseInv

LEMMA RecordFrame ==
  ASSUME RecordInv, NEW c \in Claims, Only(c),
         records' = records, overrun' = overrun, processed \subseteq processed',
         call'[c].msg \in Messages =>
            /\ \/ call'[c].msg = call[c].msg
               \/ call'[c].pc \notin Slot \cup {"refresh"} /\ call'[c].res # "nil"
            /\ call'[c].pc \in Slot => call[c].pc \in Slot
            /\ call'[c].res = "nil" => call[c].res = "nil"
            /\ call'[c].pc = "refresh" => call'[c].seen = records[call[c].msg]
            /\ call'[c].pc \in {"stop", "persist"} /\ call'[c].err \in Acked =>
                  call'[c].msg \in processed'
  PROVE  RecordInv'
<1>1. ASSUME NEW d \in Claims, call'[d].msg \in Messages \ overrun'
      PROVE  /\ call'[d].pc \in Slot => records'[call'[d].msg] = "in_progress"
             /\ call'[d].pc = "refresh" => records'[call'[d].msg] = call'[d].seen
             /\ call'[d].res = "nil" => records'[call'[d].msg] = "completed"
  BY <1>1 DEF RecordInv, Only
<1>2. ASSUME NEW d \in Claims, call'[d].msg \in Messages \ overrun', call'[d].pc \in Slot,
             NEW e \in Claims, call'[e].msg = call'[d].msg, call'[e].pc \in Slot
      PROVE  d = e
  <2>1. /\ call[d].msg = call'[d].msg /\ call[d].pc \in Slot
        /\ call[e].msg = call'[e].msg /\ call[e].pc \in Slot
    BY <1>2, Zenon DEF Only
  <2> QED
    BY <1>2, <2>1, Zenon DEF RecordInv
<1>3. \A k \in Messages : records'[k] = "completed" => k \in processed'
  BY Zenon DEF RecordInv
<1>4. ASSUME NEW d \in Claims, call'[d].msg \in Messages
      PROVE  /\ call'[d].pc = "refresh" /\ call'[d].seen = "completed" =>
                    call'[d].msg \in processed'
             /\ call'[d].pc \in {"stop", "persist"} /\ call'[d].err \in Acked =>
                    call'[d].msg \in processed'
  BY <1>4 DEF RecordInv, Only
<1> QED
  BY <1>1, <1>2, <1>3, <1>4, Zenon DEF RecordInv

LEMMA AtFields ==
  ASSUME TypeInv, NEW c \in Claims, NEW pc \in Stages, NEW i \in Nat
  PROVE  /\ At(c, pc, i) \in CallType
         /\ At(c, pc, i).pc = pc /\ At(c, pc, i).i = i
         /\ At(c, pc, i).proc = call[c].proc /\ At(c, pc, i).msg = call[c].msg
         /\ At(c, pc, i).plan = call[c].plan /\ At(c, pc, i).seen = call[c].seen
         /\ At(c, pc, i).ren = call[c].ren /\ At(c, pc, i).err = call[c].err
         /\ At(c, pc, i).res = call[c].res
<1>1. call[c] \in CallType
  BY Zenon DEF TypeInv
<1>2. At(c, pc, i) \in CallType
  BY <1>1, Zenon DEF At, CallType
<1> QED
  BY <1>1, <1>2, Zenon DEF At, CallType

LEMMA CallFields ==
  ASSUME NEW r \in CallType
  PROVE  /\ r.pc \in Stages /\ r.i \in Nat /\ r.plan \in Seq(Members)
         /\ Len(r.plan) \in Nat /\ Len(r.ren) \in Nat
  BY DEF CallType

\* A stage without renewals: what Shape asks is in the claim's own fields.
LEMMA QuietShape ==
  ASSUME NEW r, r.pc \in {"release", "unguard", "leave"}, r.proc \in Procs,
         r.i \in 1..Len(r.plan), r.ren = <<>>
  PROVE  Shape(r)
  BY DEF Shape

LEMMA OneClaim ==
  ASSUME TypeInv, NEW c \in Claims, NEW r \in CallType, Becomes(c, r)
  PROVE  Only(c) /\ call'[c] = r /\ call' \in [Claims -> CallType]
  BY DEF TypeInv, Only, Becomes

-----------------------------------------------------------------------------
(***************************************************************************)
(* Every step preserves ClaimInv: one lemma per action.                    *)
(***************************************************************************)
LEMMA ClaimInit == Init => ClaimInv
<1> SUFFICES ASSUME Init PROVE ClaimInv
  OBVIOUS
<1>1. Idle \in CallType
  BY DEF Idle, CallType, Stages, Statuses, Errors
<1>2. TypeInv
  BY <1>1 DEF Init, TypeInv, Free, Statuses
<1>3. \A c \in Claims : Shape(call[c])
  BY Zenon DEF Init, Shape, Idle
<1>4. \A c \in Claims : Guarded(call[c]) = {} /\ Leased(call[c]) = {}
  BY Zenon DEF Init, Idle, Guarded, Leased
<1>5. \A m \in Members : leases[m].by \notin Claims
  BY WorkerAssumption DEF Init, Free
<1>6. GuardInv /\ LeaseInv
  BY <1>4, <1>5, Zenon DEF GuardInv, LeaseInv
<1>7. RecordInv
  BY Zenon DEF RecordInv, Init, Idle, Slot
<1> QED
  BY <1>2, <1>3, <1>6, <1>7 DEF ClaimInv

LEMMA StartStep ==
  ASSUME ClaimInv, NEW c \in Claims, NEW d \in Deliveries, NEW plan \in Seq(Members),
         plan # <<>>, Start(c, d, plan)
  PROVE  ClaimInv'
<1>1. PICK p \in Procs :
         Becomes(c, [Idle EXCEPT !.pc = "guard", !.proc = p, !.msg = d.msg, !.plan = plan])
  BY Zenon DEF Start
<1>2. /\ Only(c) /\ call[c].pc = "idle"
      /\ call'[c] = [pc |-> "guard", proc |-> p, msg |-> d.msg, plan |-> plan, i |-> 1,
                     seen |-> "missing", ren |-> <<>>, err |-> {}, res |-> "error"]
      /\ UNCHANGED <<guards, leases, records, history>>
  BY <1>1, Zenon DEF Start, Only, ClaimInv, TypeInv, Idle, Becomes
<1>3. call'[c] \in CallType
  BY <1>2 DEF CallType, Stages, Statuses, Messages, Errors
<1>4. TypeInv'
  BY <1>1, <1>2, <1>3, Zenon DEF ClaimInv, TypeInv, history, Becomes
<1>5. \A e \in Claims : Shape(call'[e])
  <2>1. Shape(call'[c])
    BY <1>2 DEF Shape
  <2> QED
    BY <1>2, <2>1, Zenon DEF ClaimInv, Only
<1>6. /\ Guarded(call'[c]) = {} /\ Leased(call'[c]) = {}
      /\ Leased(call[c]) = {}
  BY <1>2 DEF Guarded, Leased
<1>7. GuardInv'
  BY <1>2, <1>6, GuardFrame, Zenon DEF ClaimInv
<1>8. LeaseInv'
  BY <1>2, <1>6, LeaseFrame, Zenon DEF ClaimInv
<1>9. RecordInv'
  BY <1>2, RecordFrame DEF ClaimInv, history, Slot
<1> QED
  BY <1>4, <1>5, <1>7, <1>8, <1>9 DEF ClaimInv

LEMMA InstallGuardStep ==
  ASSUME ClaimInv, NEW c \in Claims, InstallGuard(c)
  PROVE  ClaimInv'
<1> DEFINE g == <<call[c].proc, Current(c)>>
<1>1. /\ call[c] \in CallType /\ Shape(call[c]) /\ call[c].pc = "guard"
      /\ UNCHANGED <<leases, records, history>>
  BY DEF ClaimInv, TypeInv, InstallGuard
<1>2. g \in Procs \X Members
  BY <1>1 DEF Shape, CallType, Current
<1>3. CASE g \in guards /\ Becomes(c, At(c, "leave", 1)) /\ UNCHANGED guards
  <2>1. "leave" \in Stages /\ 1 \in Nat
    BY DEF Stages
  <2>2. Only(c) /\ call'[c] = At(c, "leave", 1) /\ call' \in [Claims -> CallType]
    BY <1>3, <2>1, AtFields, OneClaim, Zenon DEF ClaimInv
  <2>3. /\ call'[c].pc = "leave" /\ call'[c].i = 1 /\ call'[c].proc = call[c].proc
        /\ call'[c].plan = call[c].plan /\ call'[c].ren = <<>> /\ call'[c].res = "error"
        /\ call'[c].msg = call[c].msg
    BY <1>1, <2>1, <2>2, AtFields DEF ClaimInv, Shape, CallType
  <2>4. TypeInv'
    BY <1>1, <1>3, <2>2, Zenon DEF ClaimInv, TypeInv, history
  <2>5. Shape(call'[c])
    BY <1>1, <2>3 DEF Shape, CallType
  <2>6. /\ Guarded(call'[c]) = {} /\ Leased(call'[c]) = {}
        /\ Leased(call[c]) = {}
    BY <1>1, <2>3, Zenon DEF Guarded, Leased
  <2>7. GuardInv' /\ LeaseInv'
    BY <1>1, <1>3, <2>2, <2>6, GuardFrame, LeaseFrame, Zenon DEF ClaimInv
  <2>8. RecordInv'
    BY <1>1, <2>2, <2>3, RecordFrame, Zenon DEF ClaimInv, history, Slot
  <2> QED
    BY <2>2, <2>4, <2>5, <2>7, <2>8 DEF ClaimInv, Only
<1>4. CASE /\ g \notin guards
           /\ guards' = guards \cup {g}
           /\ Becomes(c, Forward(c, IF call[c].msg = NoKey THEN "acquire" ELSE "get"))
  <2>1. PICK pc \in Stages, i \in Nat :
           /\ Becomes(c, At(c, pc, i))
           /\ \/ call[c].i < Len(call[c].plan) /\ pc = "guard" /\ i = call[c].i + 1
              \/ /\ call[c].i = Len(call[c].plan) /\ i = 1
                 /\ pc = IF call[c].msg = NoKey THEN "acquire" ELSE "get"
    BY <1>1, <1>4 DEF Forward, Shape, CallType, Stages
  <2>2. Only(c) /\ call'[c] = At(c, pc, i) /\ call' \in [Claims -> CallType]
    BY <2>1, AtFields, OneClaim, Zenon DEF ClaimInv
  <2>3. /\ call'[c].pc = pc /\ call'[c].i = i /\ call'[c].proc = call[c].proc
        /\ call'[c].plan = call[c].plan /\ call'[c].ren = <<>> /\ call'[c].res = "error"
        /\ call'[c].msg = call[c].msg
    BY <1>1, <2>2, AtFields DEF ClaimInv, Shape, CallType
  <2>4. TypeInv'
    BY <1>1, <1>2, <1>4, <2>2, Zenon DEF ClaimInv, TypeInv, history
  <2>5. Shape(call'[c])
    BY <1>1, <2>1, <2>3 DEF Shape, CallType
  <2>6. /\ Guarded(call'[c]) = Guarded(call[c]) \cup {call[c].i}
        /\ Leased(call'[c]) = {} /\ Leased(call[c]) = {}
    BY <1>1, <2>1, <2>3 DEF Guarded, Leased, CallType, Shape
  <2>7. GuardInv'
    BY <1>4, <2>2, <2>3, <2>6, GuardAdded, Zenon DEF ClaimInv, Current
  <2>8. LeaseInv'
    BY <1>1, <2>2, <2>6, LeaseFrame, Zenon DEF ClaimInv
  <2>9. RecordInv'
    <3>1. call'[c].msg \in Messages => pc \in {"guard", "get"}
      BY <2>1, <2>3, Zenon DEF Messages
    <3> QED
      BY <1>1, <2>1, <2>2, <2>3, <3>1, RecordFrame, Zenon DEF ClaimInv, history, Slot
  <2> QED
    BY <2>2, <2>4, <2>5, <2>7, <2>8, <2>9 DEF ClaimInv, Only
<1> QED
  BY <1>3, <1>4, Zenon DEF InstallGuard

\* An error return: the guards stay until they are removed, and what has been
\* leased so far is what will be released.
LEMMA FailsKeeps ==
  ASSUME ClaimInv, NEW c \in Claims, NEW n \in Nat, Fails(c, n), guards' = guards,
         \/ call[c].pc \in {"get", "begin", "refresh"} /\ n = 0
         \/ call[c].pc = "acquire" /\ n = call[c].i - 1
  PROVE  /\ Only(c) /\ call' \in [Claims -> CallType] /\ GuardInv'
         /\ \A d \in Claims : Shape(call'[d])
         /\ call'[c].pc \in {"unguard", "release"} /\ call'[c].res = "error"
         /\ call'[c].msg = call[c].msg /\ call'[c].proc = call[c].proc
         /\ call'[c].plan = call[c].plan /\ Leased(call'[c]) = Leased(call[c])
<1> DEFINE pc == IF n = 0 THEN "unguard" ELSE "release"
           i == IF n = 0 THEN 1 ELSE n
           r == At(c, pc, i)
<1>1. call[c] \in CallType /\ Shape(call[c]) /\ TypeInv
  BY Zenon DEF ClaimInv, TypeInv
<1>2. Becomes(c, [r EXCEPT !.seen = "missing"])
  BY DEF Fails
<1>3. pc \in Stages /\ i \in Nat
  BY DEF Stages
<1> HIDE DEF pc, i
<1>4. /\ r \in CallType /\ r.pc = pc /\ r.i = i /\ r.proc = call[c].proc
      /\ r.plan = call[c].plan /\ r.msg = call[c].msg /\ r.ren = call[c].ren /\ r.res = call[c].res
  BY <1>1, <1>3, AtFields
<1> HIDE DEF r
<1> DEFINE q == [r EXCEPT !.seen = "missing"]
<1>5. /\ q \in CallType /\ q.pc = pc /\ q.i = i /\ q.proc = call[c].proc
      /\ q.plan = call[c].plan /\ q.msg = call[c].msg /\ q.ren = call[c].ren /\ q.res = call[c].res
  BY <1>4, Zenon DEF CallType, Statuses
<1>6. Only(c) /\ call'[c] = q /\ call' \in [Claims -> CallType]
  BY <1>1, <1>2, <1>5, OneClaim, Zenon
<1> HIDE DEF q
<1>7. q.ren = <<>> /\ q.res = "error"
  BY <1>1, <1>5, Zenon DEF Shape, CallType
<1>8. Shape(q)
  BY <1>1, <1>5, <1>7 DEF Shape, CallType, pc, i
<1>9. /\ \A j \in Guarded(q) : j \in Guarded(call[c])
      /\ Leased(q) = Leased(call[c])
  BY <1>1, <1>5 DEF Guarded, Leased, Shape, CallType, pc, i
<1>10. GuardInv'
  BY <1>5, <1>6, <1>9, GuardFrame, Zenon DEF ClaimInv
<1>11. \A d \in Claims : Shape(call'[d])
  BY <1>6, <1>8 DEF ClaimInv, Only
<1> QED
  BY <1>5, <1>6, <1>7, <1>9, <1>10, <1>11, Zenon DEF pc

\* The same for a step that only changes stage, on the way to the callback.
LEMMA AtKeeps ==
  ASSUME ClaimInv, NEW c \in Claims, NEW pc \in {"begin", "acquire"}, guards' = guards,
         Becomes(c, At(c, pc, 1)), call[c].pc \in {"get", "begin"}
  PROVE  /\ Only(c) /\ call' \in [Claims -> CallType] /\ GuardInv'
         /\ \A d \in Claims : Shape(call'[d])
         /\ call'[c].pc = pc /\ call'[c].msg = call[c].msg /\ call'[c].res = "error"
         /\ Leased(call'[c]) = {} /\ Leased(call[c]) = {}
<1>1. call[c] \in CallType /\ Shape(call[c]) /\ TypeInv
  BY DEF ClaimInv, TypeInv
<1>2. pc \in Stages /\ 1 \in Nat
  BY DEF Stages
<1> DEFINE r == At(c, pc, 1)
<1>3. /\ r \in CallType /\ r.pc = pc /\ r.i = 1 /\ r.proc = call[c].proc
      /\ r.plan = call[c].plan /\ r.msg = call[c].msg /\ r.ren = call[c].ren /\ r.res = call[c].res
  BY <1>1, <1>2, AtFields
<1> HIDE DEF r
<1>4. Only(c) /\ call'[c] = r /\ call' \in [Claims -> CallType]
  BY <1>1, <1>3, OneClaim, Zenon DEF r
<1>5. Shape(r) /\ r.res = "error"
  BY <1>1, <1>3 DEF Shape, CallType
<1>6. /\ \A j \in Guarded(r) : j \in Guarded(call[c])
      /\ Leased(r) = {} /\ Leased(call[c]) = {}
  BY <1>1, <1>3 DEF Guarded, Leased, Shape, CallType
<1>7. GuardInv'
  BY <1>3, <1>4, <1>6, GuardFrame, Zenon DEF ClaimInv
<1>8. \A d \in Claims : Shape(call'[d])
  BY <1>4, <1>5 DEF ClaimInv, Only
<1> QED
  BY <1>3, <1>4, <1>5, <1>6, <1>7, <1>8, Zenon

\* The same for a claim that found a terminal record.
LEMMA SeenKeeps ==
  ASSUME ClaimInv, NEW c \in Claims, guards' = guards, call[c].pc \in {"get", "begin"},
         NEW s \in {"completed", "failed"},
         Becomes(c, [At(c, "refresh", 1) EXCEPT !.seen = s])
  PROVE  /\ Only(c) /\ call' \in [Claims -> CallType] /\ GuardInv'
         /\ \A d \in Claims : Shape(call'[d])
         /\ call'[c].pc = "refresh" /\ call'[c].msg = call[c].msg /\ call'[c].res = "error"
         /\ call'[c].seen = s
         /\ Leased(call'[c]) = {} /\ Leased(call[c]) = {}
<1>1. call[c] \in CallType /\ Shape(call[c]) /\ TypeInv
  BY DEF ClaimInv, TypeInv
<1>2. "refresh" \in Stages /\ 1 \in Nat
  BY DEF Stages
<1> DEFINE r == At(c, "refresh", 1)
           q == [r EXCEPT !.seen = s]
<1>3. /\ r \in CallType /\ r.pc = "refresh" /\ r.i = 1 /\ r.proc = call[c].proc
      /\ r.plan = call[c].plan /\ r.msg = call[c].msg /\ r.ren = call[c].ren /\ r.res = call[c].res
  BY <1>1, <1>2, AtFields
<1> HIDE DEF r
<1>4. /\ q \in CallType /\ q.pc = "refresh" /\ q.i = 1 /\ q.proc = call[c].proc /\ q.seen = s
      /\ q.plan = call[c].plan /\ q.msg = call[c].msg /\ q.ren = call[c].ren /\ q.res = call[c].res
  BY <1>3, Zenon DEF CallType, Statuses
<1>5. Only(c) /\ call'[c] = q /\ call' \in [Claims -> CallType]
  BY <1>1, <1>4, OneClaim, Zenon DEF r
<1> HIDE DEF q
<1>6. Shape(q) /\ q.res = "error"
  BY <1>1, <1>4 DEF Shape, CallType
<1>7. /\ \A j \in Guarded(q) : j \in Guarded(call[c])
      /\ Leased(q) = {} /\ Leased(call[c]) = {}
  BY <1>1, <1>4, Zenon DEF Guarded, Leased, Shape, CallType
<1>8. GuardInv'
  BY <1>4, <1>5, <1>7, GuardFrame, Zenon DEF ClaimInv
<1>9. \A d \in Claims : Shape(call'[d])
  BY <1>5, <1>6 DEF ClaimInv, Only
<1> QED
  BY <1>4, <1>5, <1>6, <1>7, <1>8, <1>9, Zenon

LEMMA GetStep ==
  ASSUME ClaimInv, NEW c \in Claims, Get(c)
  PROVE  ClaimInv'
<1>1. /\ call[c] \in CallType /\ Shape(call[c]) /\ call[c].pc = "get"
      /\ UNCHANGED <<guards, leases, records, history>>
  BY Zenon DEF ClaimInv, TypeInv, Get
<1>2. CASE Becomes(c, At(c, "begin", 1))
  <2>1. RecordInv'
    BY <1>1, <1>2, AtKeeps, RecordFrame, Zenon DEF ClaimInv, history, Slot
  <2>2. LeaseInv'
    BY <1>1, <1>2, AtKeeps, LeaseFrame, Zenon DEF ClaimInv
  <2>3. TypeInv'
    BY <1>1, <1>2, AtKeeps, Zenon DEF ClaimInv, TypeInv, history
  <2> QED
    BY <1>1, <1>2, <2>1, <2>2, <2>3, AtKeeps, Zenon DEF ClaimInv
<1>3. CASE /\ records[call[c].msg] \in {"completed", "failed"}
           /\ Becomes(c, [At(c, "refresh", 1) EXCEPT !.seen = records[call[c].msg]])
  <2>1. RecordInv'
    BY <1>1, <1>3, SeenKeeps, RecordFrame, Zenon DEF ClaimInv, history, Slot
  <2>2. LeaseInv'
    BY <1>1, <1>3, SeenKeeps, LeaseFrame, Zenon DEF ClaimInv
  <2>3. TypeInv'
    BY <1>1, <1>3, SeenKeeps, Zenon DEF ClaimInv, TypeInv, history
  <2> QED
    BY <1>1, <1>3, <2>1, <2>2, <2>3, SeenKeeps, Zenon DEF ClaimInv
<1>4. CASE Fails(c, 0)
  <2>1. RecordInv'
    BY <1>1, <1>4, FailsKeeps, RecordFrame, Zenon DEF ClaimInv, history, Slot
  <2>2. LeaseInv'
    BY <1>1, <1>4, FailsKeeps, LeaseFrame, Zenon DEF ClaimInv
  <2>3. TypeInv'
    BY <1>1, <1>4, FailsKeeps, Zenon DEF ClaimInv, TypeInv, history
  <2> QED
    BY <1>1, <1>4, <2>1, <2>2, <2>3, FailsKeeps, Zenon DEF ClaimInv
<1> QED
  BY <1>2, <1>3, <1>4, Zenon DEF Get

\* A record appears only where there was none, so nobody relied on it.
LEMMA RecordBegun ==
  ASSUME ClaimInv, NEW c \in Claims, Only(c), call[c].pc = "begin",
         records[call[c].msg] = "missing",
         records' = [records EXCEPT ![call[c].msg] = "in_progress"],
         UNCHANGED history, call'[c].msg = call[c].msg, call'[c].res = "error",
         call'[c].pc \in {"acquire", "unguard", "release"}
  PROVE  RecordInv'
<1> DEFINE k == call[c].msg
<1>1. /\ k \in Messages
      /\ \A d \in Claims : Shape(call[d])
      /\ records'[k] = "in_progress" /\ \A l \in Messages \ {k} : records'[l] = records[l]
      /\ overrun' = overrun /\ processed' = processed
  BY Zenon DEF ClaimInv, TypeInv, Shape, history
<1>2. ASSUME NEW d \in Claims \ {c}, call[d].msg = k, k \notin overrun
      PROVE  call[d].pc \notin Slot /\ call[d].pc # "refresh" /\ call[d].res # "nil"
  BY <1>1, <1>2 DEF ClaimInv, RecordInv, Shape
<1>3. ASSUME NEW d \in Claims, call'[d].msg \in Messages \ overrun'
      PROVE  /\ call'[d].pc \in Slot => records'[call'[d].msg] = "in_progress"
             /\ call'[d].pc = "refresh" => records'[call'[d].msg] = call'[d].seen
             /\ call'[d].res = "nil" => records'[call'[d].msg] = "completed"
  BY <1>1, <1>2, <1>3 DEF ClaimInv, RecordInv, Only, Slot
<1>4. ASSUME NEW d \in Claims, call'[d].msg \in Messages \ overrun', call'[d].pc \in Slot,
             NEW e \in Claims, call'[e].msg = call'[d].msg, call'[e].pc \in Slot
      PROVE  d = e
  BY <1>1, <1>2, <1>4 DEF ClaimInv, RecordInv, Only
<1>5. \A l \in Messages : records'[l] = "completed" => l \in processed'
  BY <1>1, Zenon DEF ClaimInv, RecordInv
<1>6. ASSUME NEW d \in Claims, call'[d].msg \in Messages
      PROVE  /\ call'[d].pc = "refresh" /\ call'[d].seen = "completed" =>
                    call'[d].msg \in processed'
             /\ call'[d].pc \in {"stop", "persist"} /\ call'[d].err \in Acked =>
                    call'[d].msg \in processed'
  BY <1>1, <1>6 DEF ClaimInv, RecordInv, Only
<1> QED
  BY <1>3, <1>4, <1>5, <1>6, Zenon DEF RecordInv

LEMMA BeginStep ==
  ASSUME ClaimInv, NEW c \in Claims, Begin(c)
  PROVE  ClaimInv'
<1> DEFINE k == call[c].msg
<1>1. /\ call[c] \in CallType /\ Shape(call[c]) /\ call[c].pc = "begin" /\ k \in Messages
      /\ UNCHANGED <<guards, leases, history>>
  BY Zenon DEF ClaimInv, TypeInv, Begin, Shape
<1>2. CASE /\ records[k] = "missing"
           /\ records' = [records EXCEPT ![k] = "in_progress"]
           /\ Becomes(c, At(c, "acquire", 1))
  <2>1. TypeInv'
    BY <1>1, <1>2, AtKeeps, Zenon DEF ClaimInv, TypeInv, history, Statuses
  <2>2. RecordInv'
    BY <1>1, <1>2, AtKeeps, RecordBegun, Zenon
  <2>3. LeaseInv'
    BY <1>1, <1>2, AtKeeps, LeaseFrame, Zenon DEF ClaimInv
  <2> QED
    BY <1>1, <1>2, <2>1, <2>2, <2>3, AtKeeps, Zenon DEF ClaimInv
<1>3. CASE /\ records[k] = "missing"
           /\ records' = [records EXCEPT ![k] = "in_progress"]
           /\ Fails(c, 0)
  <2>1. TypeInv'
    BY <1>1, <1>3, FailsKeeps, Zenon DEF ClaimInv, TypeInv, history, Statuses
  <2>2. RecordInv'
    BY <1>1, <1>3, FailsKeeps, RecordBegun, Zenon
  <2>3. LeaseInv'
    BY <1>1, <1>3, FailsKeeps, LeaseFrame, Zenon DEF ClaimInv
  <2> QED
    BY <1>1, <1>3, <2>1, <2>2, <2>3, FailsKeeps, Zenon DEF ClaimInv
<1>4. CASE /\ records[k] \in {"completed", "failed"} /\ UNCHANGED records
           /\ Becomes(c, [At(c, "refresh", 1) EXCEPT !.seen = records[k]])
  <2>1. RecordInv'
    BY <1>1, <1>4, SeenKeeps, RecordFrame, Zenon DEF ClaimInv, history, Slot
  <2>2. LeaseInv'
    BY <1>1, <1>4, SeenKeeps, LeaseFrame, Zenon DEF ClaimInv
  <2>3. TypeInv'
    BY <1>1, <1>4, SeenKeeps, Zenon DEF ClaimInv, TypeInv, history
  <2> QED
    BY <1>1, <1>4, <2>1, <2>2, <2>3, SeenKeeps, Zenon DEF ClaimInv
<1>5. CASE Fails(c, 0) /\ UNCHANGED records
  <2>1. RecordInv'
    BY <1>1, <1>5, FailsKeeps, RecordFrame, Zenon DEF ClaimInv, history, Slot
  <2>2. LeaseInv'
    BY <1>1, <1>5, FailsKeeps, LeaseFrame, Zenon DEF ClaimInv
  <2>3. TypeInv'
    BY <1>1, <1>5, FailsKeeps, Zenon DEF ClaimInv, TypeInv, history
  <2> QED
    BY <1>1, <1>5, <2>1, <2>2, <2>3, FailsKeeps, Zenon DEF ClaimInv
<1> QED
  BY <1>2, <1>3, <1>4, <1>5, Zenon DEF Begin

\* A terminal status is written only where no other claim relies on another.
LEMMA RecordWritten ==
  ASSUME ClaimInv, NEW c \in Claims, Only(c), NEW status \in {"completed", "failed"},
         call[c].msg \in Messages,
         records' = [records EXCEPT ![call[c].msg] = status], UNCHANGED history,
         call'[c].msg = call[c].msg, call'[c].pc \in {"unguard", "release"},
         status = "completed" => call[c].msg \in processed,
         call'[c].res = "nil" => status = "completed",
         \A d \in Claims \ {c} : call[d].msg = call[c].msg /\ call[c].msg \notin overrun =>
            /\ call[d].pc \notin Slot
            /\ call[d].pc = "refresh" => call[d].seen = status
            /\ call[d].res = "nil" => status = "completed"
  PROVE  RecordInv'
<1> DEFINE k == call[c].msg
<1>1. /\ records'[k] = status /\ \A l \in Messages \ {k} : records'[l] = records[l]
      /\ overrun' = overrun /\ processed' = processed
  BY Zenon DEF ClaimInv, TypeInv, history
<1>2. ASSUME NEW d \in Claims, call'[d].msg \in Messages \ overrun'
      PROVE  /\ call'[d].pc \in Slot => records'[call'[d].msg] = "in_progress"
             /\ call'[d].pc = "refresh" => records'[call'[d].msg] = call'[d].seen
             /\ call'[d].res = "nil" => records'[call'[d].msg] = "completed"
  BY <1>1, <1>2 DEF ClaimInv, RecordInv, Only, Slot
<1>3. ASSUME NEW d \in Claims, call'[d].msg \in Messages \ overrun', call'[d].pc \in Slot,
             NEW e \in Claims, call'[e].msg = call'[d].msg, call'[e].pc \in Slot
      PROVE  d = e
  <2>1. d # c /\ e # c
    BY <1>3, Zenon DEF Slot
  <2> QED
    BY <1>1, <1>3, <2>1 DEF ClaimInv, RecordInv, Only
<1>4. \A l \in Messages : records'[l] = "completed" => l \in processed'
  BY <1>1, Zenon DEF ClaimInv, RecordInv
<1>5. ASSUME NEW d \in Claims, call'[d].msg \in Messages
      PROVE  /\ call'[d].pc = "refresh" /\ call'[d].seen = "completed" =>
                    call'[d].msg \in processed'
             /\ call'[d].pc \in {"stop", "persist"} /\ call'[d].err \in Acked =>
                    call'[d].msg \in processed'
  BY <1>1, <1>5 DEF ClaimInv, RecordInv, Only
<1> QED
  BY <1>2, <1>3, <1>4, <1>5, Zenon DEF RecordInv

LEMMA RefreshStep ==
  ASSUME ClaimInv, NEW c \in Claims, Refresh(c)
  PROVE  ClaimInv'
<1> DEFINE k == call[c].msg
<1>1. /\ call[c] \in CallType /\ Shape(call[c]) /\ call[c].pc = "refresh" /\ k \in Messages
      /\ UNCHANGED <<guards, leases, history>> /\ Fails(c, 0)
      /\ UNCHANGED records \/ records' = [records EXCEPT ![k] = call[c].seen]
      /\ call[c].seen \in {"completed", "failed"}
  BY Zenon DEF ClaimInv, TypeInv, Refresh, Shape, SetTerminalStatus
<1>2. LeaseInv'
  BY <1>1, FailsKeeps, LeaseFrame, Zenon DEF ClaimInv
<1>3. TypeInv'
  BY <1>1, FailsKeeps DEF ClaimInv, TypeInv, history, Statuses
<1>4. RecordInv'
  <2>1. CASE UNCHANGED records
    BY <1>1, <2>1, FailsKeeps, RecordFrame, Zenon DEF ClaimInv, history, Slot
  <2>2. CASE records' = [records EXCEPT ![k] = call[c].seen]
    <3>1. call[c].seen = "completed" => k \in processed
      BY <1>1, Zenon DEF ClaimInv, RecordInv
    <3>2. \A d \in Claims \ {c} : call[d].msg = k /\ k \notin overrun =>
              /\ call[d].pc \notin Slot
              /\ call[d].pc = "refresh" => call[d].seen = call[c].seen
              /\ call[d].res = "nil" => call[c].seen = "completed"
      BY <1>1, Zenon DEF ClaimInv, RecordInv
    <3>3. /\ Only(c) /\ call'[c].msg = k /\ call'[c].pc \in {"unguard", "release"}
          /\ call'[c].res = "error"
      BY <1>1, FailsKeeps, Zenon
    <3> QED
      BY <1>1, <2>2, <3>1, <3>2, <3>3, RecordWritten, ZenonT(60)
  <2> QED
    BY <1>1, <2>1, <2>2, Zenon
<1> QED
  BY <1>1, <1>2, <1>3, <1>4, FailsKeeps, Zenon DEF ClaimInv

\* What has been leased is guarded.
LEMMA LeasedIsGuarded ==
  ASSUME NEW r \in CallType
  PROVE  Leased(r) \subseteq Guarded(r)
  BY DEF Leased, Guarded, CallType

\* The lease of the next member is stored, for the claim or for nobody.
LEMMA LeaseTaken ==
  ASSUME ClaimInv, NEW c \in Claims, Only(c), call[c].pc = "acquire", NEW by \in {c, "nobody"},
         leases' = [leases EXCEPT ![Current(c)] = [by |-> by, owner |-> call[c].proc]],
         call'[c].proc = call[c].proc, call'[c].plan = call[c].plan,
         leases[Current(c)] = Free,
         Leased(call'[c]) = IF by = c THEN Leased(call[c]) \cup {call[c].i} ELSE Leased(call[c])
  PROVE  LeaseInv'
<1> DEFINE m == Current(c)
           i == call[c].i
<1>1. call[c] \in CallType /\ Shape(call[c])
  BY Zenon DEF ClaimInv, TypeInv
<1>2. /\ m \in Members /\ m = call[c].plan[i]
      /\ i \in Guarded(call[c]) /\ i \notin Leased(call[c])
  BY <1>1 DEF Shape, CallType, Current, Guarded, Leased
<1>3. /\ leases'[m].by = by /\ leases'[m].owner = call[c].proc
      /\ \A n \in Members \ {m} : leases'[n] = leases[n]
  BY <1>2, Zenon DEF ClaimInv, TypeInv
<1>4. "nobody" \notin Claims
  BY WorkerAssumption, Zenon
<1>5. ASSUME NEW n \in Members, leases'[n].by \in Claims
      PROVE  /\ leases'[n].owner = call'[leases'[n].by].proc
             /\ \E j \in Leased(call'[leases'[n].by]) : call'[leases'[n].by].plan[j] = n
  <2>1. CASE n = m
    <3>1. by = c
      BY <1>3, <1>4, <1>5, <2>1, Zenon
    <3>2. i \in Leased(call'[c]) /\ call'[c].plan[i] = m
      BY <1>2, <3>1, Zenon
    <3> QED
      BY <1>3, <2>1, <3>1, <3>2, Zenon
  <2>2. CASE n # m
    <3>1. leases[n].by \in Claims /\ leases'[n] = leases[n]
      BY <1>3, <1>5, <2>2, Zenon
    <3>2. /\ leases[n].owner = call[leases[n].by].proc
          /\ \E j \in Leased(call[leases[n].by]) : call[leases[n].by].plan[j] = n
      BY <3>1, Zenon DEF ClaimInv, LeaseInv
    <3> QED
      BY <3>1, <3>2 DEF Only
  <2> QED
    BY <2>1, <2>2, Zenon
<1>6. ASSUME NEW d \in Claims, NEW j \in Leased(call'[d]),
             leases'[call'[d].plan[j]].owner = call'[d].proc
      PROVE  leases'[call'[d].plan[j]].by = d
  <2>1. call'[d].proc = call[d].proc /\ call'[d].plan = call[d].plan
    BY Zenon DEF Only
  <2>2. (d = c /\ j = i /\ by = c) \/ j \in Leased(call[d])
    BY Zenon DEF Only
  <2>3. CASE d = c /\ j = i /\ by = c
    BY <1>2, <1>3, <2>1, <2>3
  <2>4. CASE j \in Leased(call[d])
    <3>1. call[d] \in CallType
      BY Zenon DEF ClaimInv, TypeInv
    <3>2. j \in Guarded(call[d]) /\ call[d].plan[j] \in Members
      <4>1. j \in Guarded(call[d])
        BY <2>4, <3>1, LeasedIsGuarded
      <4>2. j \in 1..Len(call[d].plan) /\ call[d].plan \in Seq(Members)
        BY <2>4, <3>1 DEF Leased, CallType
      <4> QED
        BY <4>1, <4>2
    <3>3. CASE call[d].plan[j] = m
      <4>1. call[d].proc = call[c].proc
        BY <1>3, <1>6, <2>1, <3>3
      <4>2. d = c /\ j = i
        BY <1>2, <3>2, <3>3, <4>1 DEF ClaimInv, GuardInv
      <4> QED
        BY <1>2, <2>4, <4>2, Zenon
    <3>4. CASE call[d].plan[j] # m
      BY <1>3, <1>6, <2>1, <2>4, <3>2, <3>4 DEF ClaimInv, LeaseInv
    <3> QED
      BY <3>3, <3>4, Zenon
  <2> QED
    BY <2>2, <2>3, <2>4, Zenon
<1> QED
  BY <1>5, <1>6, Zenon DEF LeaseInv

LEMMA AcquireStep ==
  ASSUME ClaimInv, NEW c \in Claims, AcquireClaimLease(c)
  PROVE  ClaimInv'
<1> DEFINE m == Current(c)
           i == call[c].i
           n == Len(call[c].plan)
<1>1. /\ call[c] \in CallType /\ Shape(call[c]) /\ call[c].pc = "acquire" /\ TypeInv
      /\ UNCHANGED <<guards, records, history>>
  BY Zenon DEF ClaimInv, TypeInv, AcquireClaimLease
<1>2. i \in 1..n /\ n \in Nat /\ i \in Nat /\ m \in Members
  BY <1>1 DEF Shape, CallType, Current
<1>3. CASE /\ leases[m] = Free
           /\ leases' = [leases EXCEPT ![m] = [by |-> c, owner |-> call[c].proc]]
           /\ Becomes(c, IF i < n THEN Forward(c, "run")
                         ELSE [At(c, "run", i) EXCEPT !.ren = [k \in 1..n |-> "alive"]])
  <2>1. /\ Only(c) /\ call' \in [Claims -> CallType] /\ call'[c].proc = call[c].proc
        /\ call'[c].plan = call[c].plan /\ call'[c].msg = call[c].msg
        /\ call'[c].res = call[c].res
        /\ \/ i < n /\ call'[c].pc = "acquire" /\ call'[c].i = i + 1 /\ call'[c].ren = <<>>
           \/ /\ i = n /\ call'[c].pc = "run" /\ call'[c].i = i
              /\ call'[c].ren = [k \in 1..n |-> "alive"]
    <3>1. CASE i < n
      <4>1. Becomes(c, At(c, "acquire", i + 1)) /\ "acquire" \in Stages /\ i + 1 \in Nat
        BY <1>1, <1>2, <1>3, <3>1 DEF Forward, Stages
      <4> QED
        BY <1>1, <3>1, <4>1, AtFields, OneClaim DEF Shape
    <3>2. CASE i = n
      <4> DEFINE r == At(c, "run", i)
                 q == [r EXCEPT !.ren = [k \in 1..n |-> "alive"]]
      <4>1. Becomes(c, q) /\ "run" \in Stages
        BY <1>2, <1>3, <3>2 DEF Stages
      <4>2. /\ r \in CallType /\ r.pc = "run" /\ r.i = i /\ r.proc = call[c].proc
            /\ r.plan = call[c].plan /\ r.msg = call[c].msg /\ r.res = call[c].res
        BY <1>1, <1>2, <4>1, AtFields
      <4>3. [k \in 1..n |-> "alive"] \in Seq({"alive", "failed", "stopped"})
        BY <1>2
      <4> HIDE DEF r
      <4>4. /\ q \in CallType /\ q.pc = "run" /\ q.i = i /\ q.proc = call[c].proc
            /\ q.plan = call[c].plan /\ q.msg = call[c].msg /\ q.res = call[c].res
            /\ q.ren = [k \in 1..n |-> "alive"]
        BY <4>2, <4>3, Zenon DEF CallType
      <4>5. Only(c) /\ call'[c] = q /\ call' \in [Claims -> CallType]
        BY <1>1, <4>1, <4>4, OneClaim, Zenon DEF r
      <4> QED
        BY <3>2, <4>4, <4>5, Zenon
    <3> QED
      BY <1>2, <3>1, <3>2
  <2>2. TypeInv'
    BY <1>1, <1>2, <1>3, <2>1, Zenon DEF TypeInv, history, Shape
  <2>3. Shape(call'[c])
    <3>1. CASE i < n
      BY <1>1, <1>2, <2>1, <3>1 DEF Shape
    <3>2. CASE i = n
      <4>1. Len(call'[c].ren) = n
        BY <1>2, <2>1, <3>2
      <4> QED
        BY <1>1, <1>2, <2>1, <3>2, <4>1 DEF Shape
    <3> QED
      BY <1>2, <3>1, <3>2
  <2>4. /\ Guarded(call'[c]) = Guarded(call[c])
        /\ Leased(call'[c]) = Leased(call[c]) \cup {i}
    BY <1>1, <1>2, <2>1 DEF Guarded, Leased
  <2>5. GuardInv'
    BY <1>1, <2>1, <2>4, GuardFrame, Zenon DEF ClaimInv
  <2>6. LeaseInv'
    BY <1>1, <1>3, <2>1, <2>4, LeaseTaken, Zenon
  <2>7. RecordInv'
    BY <1>1, <2>1, RecordFrame, Zenon DEF ClaimInv, history, Slot
  <2> QED
    BY <2>1, <2>2, <2>3, <2>5, <2>6, <2>7, Zenon DEF ClaimInv, Only
<1>4. CASE /\ leases[m] = Free
           /\ leases' = [leases EXCEPT ![m] = [by |-> "nobody", owner |-> call[c].proc]]
           /\ Fails(c, i - 1)
  <2>1. LeaseInv'
    <3>1. "nobody" # c
      BY WorkerAssumption
    <3>2. /\ Only(c) /\ call'[c].proc = call[c].proc /\ call'[c].plan = call[c].plan
          /\ Leased(call'[c]) = Leased(call[c])
      BY <1>1, <1>2, <1>4, FailsKeeps
    <3> HIDE DEF m, i
    <3> QED
      BY <1>1, <1>4, <3>1, <3>2, LeaseTaken, Zenon DEF m
  <2>2. TypeInv'
    <3>1. call' \in [Claims -> CallType]
      BY <1>1, <1>2, <1>4, FailsKeeps
    <3>2. call[c].proc \in Procs
      BY <1>1, Zenon DEF Shape
    <3> HIDE DEF m, i
    <3> QED
      BY <1>1, <1>4, <3>1, <3>2, Zenon DEF TypeInv, history
  <2>3. RecordInv'
    BY <1>1, <1>2, <1>4, FailsKeeps, RecordFrame DEF ClaimInv, history, Slot
  <2> QED
    BY <1>1, <1>2, <1>4, <2>1, <2>2, <2>3, FailsKeeps DEF ClaimInv
<1>5. CASE Fails(c, i - 1) /\ UNCHANGED leases
  <2>1. LeaseInv'
    BY <1>1, <1>2, <1>5, FailsKeeps, LeaseFrame DEF ClaimInv
  <2>2. TypeInv'
    BY <1>1, <1>2, <1>5, FailsKeeps DEF TypeInv, history, Shape
  <2>3. RecordInv'
    BY <1>1, <1>2, <1>5, FailsKeeps, RecordFrame DEF ClaimInv, history, Slot
  <2> QED
    BY <1>1, <1>2, <1>5, <2>1, <2>2, <2>3, FailsKeeps DEF ClaimInv
<1>6. n = 1 => i - 1 = 0
  BY <1>2
<1> QED
  BY <1>3, <1>4, <1>5, <1>6, Zenon DEF AcquireClaimLease

LEMMA CallbackStep ==
  ASSUME ClaimInv, NEW c \in Claims, Callback(c)
  PROVE  ClaimInv'
<1>1. /\ call[c] \in CallType /\ Shape(call[c]) /\ call[c].pc = "run" /\ TypeInv
      /\ UNCHANGED <<guards, leases, records, overrun>>
  BY Zenon DEF ClaimInv, TypeInv, Callback
<1>2. PICK err \in {{}, {"duplicate"}, {"invariant"}, {"dlq"}, {"other"}} :
         /\ Becomes(c, [At(c, "stop", call[c].i) EXCEPT !.err = err])
         /\ processed' = IF err \in Acked
                         THEN processed \cup ({call[c].msg} \ {NoKey}) ELSE processed
  BY Zenon DEF Callback, Acked
<1>0. err \in Errors
  BY Zenon DEF Errors
<1> DEFINE r == At(c, "stop", call[c].i)
           q == [r EXCEPT !.err = err]
<1>3. "stop" \in Stages /\ call[c].i \in Nat
  BY <1>1, Zenon DEF Stages, CallType
<1>4. /\ r \in CallType /\ r.pc = "stop" /\ r.i = call[c].i /\ r.proc = call[c].proc
      /\ r.plan = call[c].plan /\ r.msg = call[c].msg /\ r.res = call[c].res
      /\ r.ren = call[c].ren
  BY <1>1, <1>3, AtFields
<1> HIDE DEF r
<1>5. /\ q \in CallType /\ q.pc = "stop" /\ q.i = call[c].i /\ q.proc = call[c].proc
      /\ q.plan = call[c].plan /\ q.msg = call[c].msg /\ q.res = call[c].res
      /\ q.ren = call[c].ren /\ q.err = err
  BY <1>0, <1>4, Zenon DEF CallType
<1>6. Only(c) /\ call'[c] = q /\ call' \in [Claims -> CallType]
  BY <1>1, <1>2, <1>5, OneClaim, Zenon DEF r
<1> HIDE DEF q
<1>7. TypeInv'
  <2>1. processed' \subseteq Messages
    BY <1>1, <1>2, Zenon DEF TypeInv, CallType
  <2> QED
    BY <1>1, <1>6, <2>1 DEF TypeInv
<1>8. Shape(q)
  BY <1>1, <1>5 DEF Shape, CallType
<1>9. Guarded(q) = Guarded(call[c]) /\ Leased(q) = Leased(call[c])
  BY <1>1, <1>5, Zenon DEF Guarded, Leased
<1>10. GuardInv'
  BY <1>1, <1>5, <1>6, <1>9, GuardFrame, Zenon DEF ClaimInv
<1>11. LeaseInv'
  BY <1>1, <1>5, <1>6, <1>9, LeaseFrame, Zenon DEF ClaimInv
<1>12. RecordInv'
  <2>1. processed \subseteq processed'
    BY <1>2
  <2>2. call'[c].err \in Acked /\ call'[c].msg \in Messages => call'[c].msg \in processed'
    BY <1>2, <1>5, <1>6, Zenon DEF Messages
  <2> QED
    BY <1>1, <1>5, <1>6, <2>1, <2>2, RecordFrame, Zenon DEF ClaimInv, Slot
<1> QED
  BY <1>6, <1>7, <1>8, <1>10, <1>11, <1>12 DEF ClaimInv, Only

LEMMA RenewStep ==
  ASSUME ClaimInv, NEW c \in Claims, Renewal(c)
  PROVE  ClaimInv'
<1>1. call[c] \in CallType /\ Shape(call[c]) /\ TypeInv
  BY DEF ClaimInv, TypeInv
<1>2. PICK n \in DOMAIN call[c].ren : RenewLease(c, n)
  BY DEF Renewal
<1>3. /\ UNCHANGED <<guards, leases, records, history>> /\ call[c].ren[n] = "alive"
      /\ call[c].pc \in {"run", "stop"} /\ n \in 1..Len(call[c].ren)
      /\ Len(call[c].ren) = Len(call[c].plan)
  BY <1>1, <1>2 DEF RenewLease, Shape, CallType, Stages
<1>4. CASE UNCHANGED call
  <2>1. UNCHANGED vars
    BY <1>3, <1>4, Zenon DEF vars
  <2> QED
    BY <2>1 DEF ClaimInv, TypeInv, GuardInv, LeaseInv, RecordInv, vars, history
<1>5. ASSUME NEW s \in {"failed", "stopped"},
             Becomes(c, [call[c] EXCEPT !.ren = [@ EXCEPT ![n] = s]])
      PROVE  ClaimInv'
  <2> DEFINE ren == [call[c].ren EXCEPT ![n] = s]
             q == [call[c] EXCEPT !.ren = ren]
  <2>1. /\ ren \in Seq({"alive", "failed", "stopped"}) /\ Len(ren) = Len(call[c].plan)
        /\ \A j \in 1..Len(ren) : ren[j] = "alive" => call[c].ren[j] = "alive"
    BY <1>1, <1>3 DEF CallType
  <2>2. Becomes(c, q)
    BY <1>5
  <2> HIDE DEF ren
  <2>3. /\ q \in CallType /\ q.pc = call[c].pc /\ q.i = call[c].i /\ q.proc = call[c].proc
        /\ q.plan = call[c].plan /\ q.msg = call[c].msg /\ q.res = call[c].res
        /\ q.ren = ren /\ q.err = call[c].err /\ q.seen = call[c].seen
    BY <1>1, <2>1, Zenon DEF CallType
  <2>4. Only(c) /\ call'[c] = q /\ call' \in [Claims -> CallType]
    BY <1>1, <2>2, <2>3, OneClaim
  <2> HIDE DEF q
  <2>5. TypeInv'
    BY <1>1, <1>3, <2>4, Zenon DEF TypeInv, history
  <2>6. Shape(q)
    BY <1>1, <1>3, <2>1, <2>3 DEF Shape, CallType
  <2>7. Guarded(q) = Guarded(call[c]) /\ Leased(q) = Leased(call[c])
    BY <2>3, Zenon DEF Guarded, Leased
  <2>8. GuardInv'
    BY <1>3, <2>3, <2>4, <2>7, GuardFrame, Zenon DEF ClaimInv
  <2>9. LeaseInv'
    BY <1>3, <2>3, <2>4, <2>7, LeaseFrame, Zenon DEF ClaimInv
  <2>10. RecordInv'
    <3>1. call[c].msg \in Messages /\ call[c].pc = "stop" /\ call[c].err \in Acked =>
             call[c].msg \in processed'
      BY <1>3, Zenon DEF ClaimInv, RecordInv, history
    <3> QED
      BY <1>3, <2>3, <2>4, <3>1, RecordFrame, Zenon DEF ClaimInv, history, Slot
  <2> QED
    BY <2>4, <2>5, <2>6, <2>8, <2>9, <2>10 DEF ClaimInv, Only
<1> QED
  BY <1>2, <1>4, <1>5, Zenon DEF RenewLease

-----------------------------------------------------------------------------
LEMMA StopStep ==
  ASSUME ClaimInv, NEW c \in Claims, StopRenewal(c)
  PROVE  ClaimInv'
<1>1. /\ call[c] \in CallType /\ Shape(call[c]) /\ TypeInv /\ call[c].pc = "stop"
      /\ call[c].ren[call[c].i] \in {"stopped", "failed"}
      /\ UNCHANGED <<guards, leases, records, history>>
  BY Zenon DEF ClaimInv, TypeInv, StopRenewal
<1> DEFINE r == Backward(c, "persist")
           err == IF call[c].i > 1 THEN call[c].err ELSE Lost(c)
           q == [r EXCEPT !.err = err]
<1>2. /\ r \in CallType /\ r.proc = call[c].proc /\ r.plan = call[c].plan
      /\ r.msg = call[c].msg /\ r.res = call[c].res /\ r.ren = call[c].ren
      /\ r.err = call[c].err /\ r.seen = call[c].seen
      /\ IF call[c].i > 1 THEN r.pc = "stop" /\ r.i = call[c].i - 1
                          ELSE r.pc = "persist" /\ r.i = 1
  <2>1. call[c].i \in Nat /\ call[c].i > 0 /\ {"stop", "persist"} \subseteq Stages
    BY <1>1 DEF Shape, CallType, Stages
  <2>2. CASE call[c].i > 1
    BY <1>1, <2>1, <2>2, AtFields DEF Backward
  <2>3. CASE call[c].i = 1
    BY <1>1, <2>1, <2>3, AtFields DEF Backward
  <2> QED
    BY <2>1, <2>2, <2>3
<1>3. Becomes(c, q)
  BY <1>2, Zenon DEF StopRenewal
<1>4. err \in Errors
  BY <1>1, Zenon DEF CallType, Lost, Errors
<1>5. call[c].i <= 1 =>
         \A j \in 1..Len(call[c].ren) : call[c].ren[j] = "failed" => err = {"lease_lost"}
  BY <1>1 DEF Shape, CallType, Lost
<1>6. err \in Acked => call[c].err \in Acked
  BY DEF Lost, Acked
<1> HIDE DEF r, err
<1>7. /\ q \in CallType /\ q.pc = r.pc /\ q.i = r.i /\ q.proc = call[c].proc
      /\ q.plan = call[c].plan /\ q.msg = call[c].msg /\ q.res = call[c].res
      /\ q.ren = call[c].ren /\ q.err = err
  BY <1>2, <1>4, Zenon DEF CallType
<1>8. Only(c) /\ call'[c] = q /\ call' \in [Claims -> CallType]
  BY <1>1, <1>3, <1>7, OneClaim, Zenon
<1> HIDE DEF q
<1>9. TypeInv'
  BY <1>1, <1>8, Zenon DEF TypeInv, history
<1>10. Shape(q)
  <2>1. /\ call[c].i \in 1..Len(call[c].ren) /\ Len(call[c].ren) = Len(call[c].plan)
        /\ call[c].ren[call[c].i] # "alive" /\ call[c].res = "error"
        /\ \A j \in 1..Len(call[c].ren) : j >= call[c].i => call[c].ren[j] # "alive"
    BY <1>1 DEF Shape, CallType
  <2>2. CASE call[c].i > 1
    BY <1>1, <1>2, <1>7, <2>1, <2>2 DEF Shape, CallType
  <2>3. CASE call[c].i <= 1
    <3>1. q.pc = "persist" /\ q.i = 1 /\ q.res = "error" /\ Len(q.ren) = Len(q.plan)
      BY <1>2, <1>7, <2>1, <2>3
    <3>2. q.proc \in Procs /\ 1 \in 1..Len(q.plan)
      BY <1>1, <1>7, <2>1, CallFields DEF Shape
    <3>3. call[c].i = 1
      BY <2>1, <2>3
    <3>4. \A j \in 1..Len(q.ren) :
             q.ren[j] # "alive" /\ (q.ren[j] = "failed" => q.err = {"lease_lost"})
      BY <1>5, <1>7, <2>1, <3>3
    <3> QED
      BY <3>1, <3>2, <3>4, Zenon DEF Shape
  <2> QED
    BY <1>1, <2>2, <2>3 DEF CallType
<1>11. Guarded(q) = Guarded(call[c]) /\ Leased(q) = Leased(call[c])
  BY <1>1, <1>2, <1>7, Zenon DEF Guarded, Leased
<1>12. GuardInv'
  BY <1>1, <1>7, <1>8, <1>11, GuardFrame, Zenon DEF ClaimInv
<1>13. LeaseInv'
  BY <1>1, <1>7, <1>8, <1>11, LeaseFrame, Zenon DEF ClaimInv
<1>14. RecordInv'
  <2>1. call[c].msg \in Messages /\ err \in Acked => call[c].msg \in processed'
    BY <1>1, <1>6, Zenon DEF ClaimInv, RecordInv, history
  <2> QED
    BY <1>1, <1>2, <1>7, <1>8, <2>1, RecordFrame, Zenon DEF ClaimInv, history, Slot
<1> QED
  BY <1>8, <1>9, <1>10, <1>12, <1>13, <1>14 DEF ClaimInv, Only

\* The outcomes that a claim's errors have.
LEMMA Outcomes ==
  /\ OutcomeFromError({}) = "ack" /\ OutcomeFromError({"duplicate"}) = "ack"
  /\ OutcomeFromError({"invariant"}) = "drop" /\ OutcomeFromError({"dlq"}) = "dlq"
  /\ OutcomeFromError({"other"}) = "retry" /\ OutcomeFromError({"lease_lost"}) = "retry"
  BY DEF OutcomeFromError

LEMMA ReturnsKeeps ==
  ASSUME ClaimInv, NEW c \in Claims, NEW err, Returns(c, err), guards' = guards,
         call[c].pc = "persist"
  PROVE  /\ Only(c) /\ call' \in [Claims -> CallType] /\ GuardInv'
         /\ \A d \in Claims : Shape(call'[d])
         /\ call'[c].pc = "release" /\ call'[c].res = IF err = {} THEN "nil" ELSE "error"
         /\ call'[c].msg = call[c].msg /\ call'[c].proc = call[c].proc
         /\ call'[c].plan = call[c].plan /\ Leased(call'[c]) = Leased(call[c])
<1> DEFINE res == IF err = {} THEN "nil" ELSE "error"
           r == At(c, "release", Len(call[c].plan))
           q == [r EXCEPT !.ren = <<>>, !.err = {}, !.res = res]
<1>1. /\ call[c] \in CallType /\ Shape(call[c]) /\ TypeInv
      /\ "release" \in Stages /\ Len(call[c].plan) \in Nat
  <2>1. call[c] \in CallType /\ Shape(call[c]) /\ TypeInv
    BY DEF ClaimInv, TypeInv
  <2>2. call[c].plan \in Seq(Members)
    BY <2>1, Zenon DEF CallType
  <2> QED
    BY <2>1, <2>2 DEF Stages
<1>2. /\ r \in CallType /\ r.pc = "release" /\ r.i = Len(call[c].plan)
      /\ r.proc = call[c].proc /\ r.plan = call[c].plan /\ r.msg = call[c].msg
  BY <1>1, AtFields
<1>3. Becomes(c, q)
  BY DEF Returns
<1>4. /\ res \in {"nil", "error"} /\ <<>> \in Seq({"alive", "failed", "stopped"})
      /\ {} \in Errors
  BY DEF Errors
<1> HIDE DEF r, res
<1>5. /\ q \in CallType /\ q.pc = "release" /\ q.i = Len(call[c].plan)
      /\ q.proc = call[c].proc /\ q.plan = call[c].plan /\ q.msg = call[c].msg
      /\ q.ren = <<>> /\ q.res = res
  BY <1>2, <1>4, Zenon DEF CallType
<1>6. Only(c) /\ call'[c] = q /\ call' \in [Claims -> CallType]
  BY <1>1, <1>3, <1>5, OneClaim, Zenon
<1> HIDE DEF q
<1>7. Shape(q)
  BY <1>1, <1>5 DEF Shape, CallType
<1>8. Guarded(q) = Guarded(call[c]) /\ Leased(q) = Leased(call[c])
  BY <1>1, <1>5 DEF Guarded, Leased, CallType
<1>9. GuardInv'
  BY <1>5, <1>6, <1>8, GuardFrame, Zenon DEF ClaimInv
<1>10. \A d \in Claims : Shape(call'[d])
  BY <1>6, <1>7 DEF ClaimInv, Only
<1> QED
  BY <1>5, <1>6, <1>8, <1>9, <1>10, Zenon DEF res

LEMMA PersistStep ==
  ASSUME ClaimInv, NEW c \in Claims, Persist(c)
  PROVE  ClaimInv'
<1> DEFINE k == call[c].msg
           err == call[c].err
<1>1. /\ call[c] \in CallType /\ Shape(call[c]) /\ call[c].pc = "persist"
      /\ UNCHANGED <<guards, leases, history>>
      /\ err \in Errors
      /\ k \in Messages \cup {NoKey} /\ NoKey \notin Messages
  BY Zenon DEF ClaimInv, TypeInv, Persist, CallType, Messages
<1>2. ASSUME NEW e, Returns(c, e)
      PROVE  /\ LeaseInv'
             /\ records' \in [Messages -> Statuses] => TypeInv'
  <2>1. LeaseInv'
    BY <1>1, <1>2, ReturnsKeeps, LeaseFrame, Zenon DEF ClaimInv
  <2>2. ASSUME records' \in [Messages -> Statuses]
        PROVE  TypeInv'
    BY <1>1, <1>2, <2>2, ReturnsKeeps, Zenon DEF ClaimInv, TypeInv, history
  <2> QED
    BY <2>1, <2>2
<1>3. ASSUME NEW e, Returns(c, e), UNCHANGED records, e = {} => k = NoKey
      PROVE  ClaimInv'
  <2>1. RecordInv'
    <3>1. /\ Only(c) /\ call'[c].pc = "release" /\ call'[c].msg = k
          /\ call'[c].res = IF e = {} THEN "nil" ELSE "error"
      BY <1>1, <1>3, ReturnsKeeps, Zenon
    <3>2. RecordInv /\ overrun' = overrun /\ processed' = processed
      BY <1>1, Zenon DEF ClaimInv, history
    <3>3. call'[c].msg \in Messages => call'[c].res # "nil"
      BY <1>1, <1>3, <3>1, Zenon
    <3>4. call'[c].pc \notin Slot /\ call'[c].pc \notin {"refresh", "stop", "persist"}
      BY <3>1, Zenon DEF Slot
    <3> QED
      BY <1>3, <3>1, <3>2, <3>3, <3>4, RecordFrame, Zenon
  <2> QED
    BY <1>1, <1>2, <1>3, <2>1, ReturnsKeeps, Zenon DEF ClaimInv, TypeInv
<1>4. ASSUME NEW e, Returns(c, e), NEW status \in {"completed", "failed"},
             records' = [records EXCEPT ![k] = status], k # NoKey,
             e = {} => status = "completed", status = "completed" => err \in Acked
      PROVE  ClaimInv'
  <2>1. status = "completed" => k \in processed
    BY <1>1, <1>4, Zenon DEF ClaimInv, RecordInv
  <2>2. \A d \in Claims \ {c} : call[d].msg = k /\ k \notin overrun =>
            /\ call[d].pc \notin Slot
            /\ call[d].pc = "refresh" => call[d].seen = status
            /\ call[d].res = "nil" => status = "completed"
    <3>1. k \notin overrun => records[k] = "in_progress"
      BY <1>1, <1>4, Zenon DEF ClaimInv, RecordInv, Slot
    <3> SUFFICES ASSUME NEW d \in Claims \ {c}, call[d].msg = k, k \notin overrun
                 PROVE  call[d].pc \notin Slot /\ call[d].pc # "refresh" /\ call[d].res # "nil"
      BY Zenon
    <3>2. call[d].pc \notin Slot
      BY <1>1, <1>4, Zenon DEF ClaimInv, RecordInv, Slot
    <3>3. call[d].pc # "refresh" /\ call[d].res # "nil"
      BY <1>1, <1>4, <3>1, Zenon DEF ClaimInv, RecordInv, Shape
    <3> QED
      BY <3>2, <3>3
  <2>3. /\ Only(c) /\ call'[c].msg = k /\ call'[c].pc = "release"
        /\ call'[c].res = "nil" => e = {}
    BY <1>1, <1>4, ReturnsKeeps, Zenon
  <2>4. RecordInv'
    BY <1>1, <1>4, <2>1, <2>2, <2>3, RecordWritten, Zenon
  <2>5. records' \in [Messages -> Statuses]
    BY <1>1, <1>4, Zenon DEF ClaimInv, TypeInv, Statuses
  <2> QED
    BY <1>1, <1>2, <1>4, <2>4, <2>5, ReturnsKeeps, Zenon DEF ClaimInv
<1>5. err \cup {"store"} # {}
  OBVIOUS
<1>6. CASE (k = NoKey \/ OutcomeFromError(err) = "retry") /\ Returns(c, err) /\ UNCHANGED records
  BY <1>1, <1>3, <1>6, Outcomes, Zenon DEF Errors
<1>7. CASE /\ k # NoKey /\ OutcomeFromError(err) = "ack"
           /\ SetTerminalStatus(c, "completed", Returns(c, err), Returns(c, err \cup {"store"}))
  <2>1. err \in Acked
    BY <1>1, <1>7, Outcomes, Zenon DEF Errors, Acked
  <2> QED
    BY <1>3, <1>4, <1>5, <1>7, <2>1, Zenon DEF SetTerminalStatus
<1>8. CASE /\ k # NoKey /\ OutcomeFromError(err) \in {"drop", "dlq"}
           /\ SetTerminalStatus(c, "failed", Returns(c, err), Returns(c, err \cup {"store"}))
  <2>1. err # {}
    BY <1>1, <1>8, Outcomes, Zenon DEF Errors
  <2> QED
    BY <1>3, <1>4, <1>5, <1>8, <2>1, Zenon DEF SetTerminalStatus
<1> QED
  BY <1>6, <1>7, <1>8, Zenon DEF Persist

\* A lease that has ended is nobody's.
LEMMA FreeLease ==
  ASSUME ClaimInv, NEW m \in Members, leases'[m] = Free,
         \A n \in Members \ {m} : leases'[n] = leases[n],
         \A d \in Claims : call'[d].proc = call[d].proc /\ call'[d].plan = call[d].plan,
         \A d \in Claims : Leased(call'[d]) \subseteq Leased(call[d]),
         \A d \in Claims : \A j \in Leased(call[d]) \ Leased(call'[d]) : call[d].plan[j] = m
  PROVE  LeaseInv'
<1>1. "nobody" \notin Claims \cup Procs
  BY WorkerAssumption, Zenon
<1>2. ASSUME NEW n \in Members, leases'[n].by \in Claims
      PROVE  /\ leases'[n].owner = call'[leases'[n].by].proc
             /\ \E j \in Leased(call'[leases'[n].by]) : call'[leases'[n].by].plan[j] = n
  <2>1. n # m /\ leases'[n] = leases[n]
    BY <1>1, <1>2 DEF Free
  <2>2. /\ leases[n].owner = call[leases[n].by].proc
        /\ \E j \in Leased(call[leases[n].by]) : call[leases[n].by].plan[j] = n
    BY <1>2, <2>1, Zenon DEF ClaimInv, LeaseInv
  <2> QED
    BY <1>2, <2>1, <2>2
<1>3. ASSUME NEW d \in Claims, NEW j \in Leased(call'[d]),
             leases'[call'[d].plan[j]].owner = call'[d].proc
      PROVE  leases'[call'[d].plan[j]].by = d
  <2>1. /\ j \in Leased(call[d]) /\ call[d] \in CallType /\ Shape(call[d])
        /\ call'[d].plan[j] = call[d].plan[j] /\ call'[d].proc = call[d].proc
    BY Zenon DEF ClaimInv, TypeInv
  <2>2. call[d].plan[j] \in Members /\ call[d].pc # "idle"
    <3>1. /\ j \in 1..Len(call[d].plan) /\ call[d].plan \in Seq(Members)
          /\ call[d].pc # "idle"
      BY <2>1, Zenon DEF Leased, CallType
    <3> QED
      BY <3>1
  <2>3. call[d].proc # "nobody"
    BY <1>1, <2>1, <2>2, Zenon DEF Shape
  <2>4. call[d].plan[j] # m
    BY <1>3, <2>1, <2>3 DEF Free
  <2> QED
    BY <1>3, <2>1, <2>2, <2>4 DEF ClaimInv, LeaseInv
<1> QED
  BY <1>2, <1>3, Zenon DEF LeaseInv

LEMMA ReleaseStep ==
  ASSUME ClaimInv, NEW c \in Claims, ReleaseClaimLease(c)
  PROVE  ClaimInv'
<1> DEFINE m == Current(c)
           i == call[c].i
           r == Backward(c, "unguard")
<1>1. /\ call[c] \in CallType /\ Shape(call[c]) /\ TypeInv /\ call[c].pc = "release"
      /\ UNCHANGED <<guards, records, history>> /\ Becomes(c, r)
  BY Zenon DEF ClaimInv, TypeInv, ReleaseClaimLease
<1>2. i \in Nat /\ i > 0 /\ i \in 1..Len(call[c].plan) /\ m = call[c].plan[i] /\ m \in Members
  BY <1>1 DEF Shape, CallType, Current
<1>3. /\ r \in CallType /\ r.proc = call[c].proc /\ r.plan = call[c].plan
      /\ r.msg = call[c].msg /\ r.res = call[c].res /\ r.ren = call[c].ren
      /\ IF i > 1 THEN r.pc = "release" /\ r.i = i - 1 ELSE r.pc = "unguard" /\ r.i = 1
  <2>1. {"release", "unguard"} \subseteq Stages
    BY DEF Stages
  <2>2. CASE i > 1
    <3>1. r = At(c, "release", i - 1) /\ i - 1 \in Nat /\ "release" \in Stages
      BY <1>1, <1>2, <2>1, <2>2 DEF Backward
    <3> HIDE DEF r, i
    <3> QED
      BY <1>1, <2>2, <3>1, AtFields
  <2>3. CASE ~(i > 1)
    <3>1. r = At(c, "unguard", 1) /\ 1 \in Nat /\ "unguard" \in Stages
      BY <2>1, <2>3 DEF Backward
    <3> HIDE DEF r, i
    <3> QED
      BY <1>1, <2>3, <3>1, AtFields
  <2> QED
    BY <2>2, <2>3, Zenon
<1>4. Only(c) /\ call'[c] = r /\ call' \in [Claims -> CallType]
  BY <1>1, <1>3, OneClaim, Zenon
<1> HIDE DEF r
<1>5. Shape(r)
  <2>1. call[c].proc \in Procs /\ call[c].ren = <<>>
    BY <1>1, Zenon DEF Shape
  <2>2. Len(call[c].plan) \in Nat
    BY <1>1, CallFields
  <2> HIDE DEF i, m
  <2>3. r.pc \in {"release", "unguard"} /\ r.i \in 1..Len(r.plan)
    BY <1>2, <1>3, <2>2
  <2> QED
    BY <1>3, <2>1, <2>3, QuietShape
<1>6. Guarded(r) = Guarded(call[c]) /\ Leased(r) = Leased(call[c]) \ {i}
  BY <1>1, <1>2, <1>3 DEF Guarded, Leased, CallType
<1>7. GuardInv'
  BY <1>1, <1>3, <1>4, <1>6, GuardFrame, Zenon DEF ClaimInv
<1>8. RecordInv'
  BY <1>1, <1>3, <1>4, RecordFrame, Zenon DEF ClaimInv, history, Slot
<1>9. /\ \A d \in Claims : call'[d].proc = call[d].proc /\ call'[d].plan = call[d].plan
      /\ \A d \in Claims : Leased(call'[d]) \subseteq Leased(call[d])
      /\ \A d \in Claims : \A j \in Leased(call[d]) \ Leased(call'[d]) : d = c /\ j = i
      /\ i \notin Leased(call'[c])
  BY <1>3, <1>4, <1>6, Zenon DEF Only
<1>10. CASE leases' = [leases EXCEPT ![m] = Free]
  <2>1. leases'[m] = Free /\ \A n \in Members \ {m} : leases'[n] = leases[n]
    BY <1>1, <1>2, <1>10, Zenon DEF TypeInv
  <2>2. TypeInv'
    BY <1>1, <1>4, <1>10, Zenon DEF TypeInv, history, Free
  <2>3. LeaseInv'
    BY <1>2, <1>9, <2>1, FreeLease, ZenonT(60) DEF ClaimInv
  <2> QED
    BY <1>4, <1>5, <1>7, <1>8, <2>2, <2>3 DEF ClaimInv, Only
<1>11. CASE leases' = [leases EXCEPT ![m].by = IF @ = c THEN "nobody" ELSE @]
  <2>1. /\ leases'[m].owner = leases[m].owner
        /\ leases'[m].by = IF leases[m].by = c THEN "nobody" ELSE leases[m].by
        /\ \A n \in Members \ {m} : leases'[n] = leases[n]
    BY <1>1, <1>2, <1>11, Zenon DEF TypeInv
  <2>2. TypeInv'
    BY <1>1, <1>2, <1>4, <1>11 DEF TypeInv, history
  <2>3. ASSUME NEW n \in Members, leases'[n].by \in Claims
        PROVE  /\ leases'[n].owner = call'[leases'[n].by].proc
               /\ \E j \in Leased(call'[leases'[n].by]) : call'[leases'[n].by].plan[j] = n
    <3>1. /\ leases'[n].by = leases[n].by /\ leases'[n].owner = leases[n].owner
          /\ n = m => leases[n].by # c
      BY <2>1, <2>3, WorkerAssumption, Zenon
    <3>2. /\ leases[n].owner = call[leases[n].by].proc
          /\ \E j \in Leased(call[leases[n].by]) : call[leases[n].by].plan[j] = n
      BY <2>3, <3>1, Zenon DEF ClaimInv, LeaseInv
    <3> QED
      BY <1>2, <1>9, <2>3, <3>1, <3>2, Zenon
  <2>4. ASSUME NEW d \in Claims, NEW j \in Leased(call'[d]),
               leases'[call'[d].plan[j]].owner = call'[d].proc
        PROVE  leases'[call'[d].plan[j]].by = d
    <3>1. /\ j \in Leased(call[d]) /\ call[d] \in CallType
          /\ call'[d].plan[j] = call[d].plan[j] /\ call'[d].proc = call[d].proc
      BY <1>1, <1>9, Zenon DEF TypeInv
    <3>2. call[d].plan[j] \in Members /\ j \in Guarded(call[d]) /\ i \in Guarded(call[c])
      <4>1. j \in 1..Len(call[d].plan) /\ call[d].plan \in Seq(Members)
        BY <3>1, Zenon DEF Leased, CallType
      <4>2. j \in Guarded(call[d])
        BY <3>1, LeasedIsGuarded
      <4>3. i \in Guarded(call[c])
        BY <1>1, <1>2, Zenon DEF Guarded
      <4> QED
        BY <4>1, <4>2, <4>3
    <3>3. leases[call[d].plan[j]].owner = call[d].proc
      BY <2>1, <2>4, <3>1, <3>2, Zenon
    <3>4. leases[call[d].plan[j]].by = d
      BY <3>1, <3>3, Zenon DEF ClaimInv, LeaseInv
    <3>5. CASE call[d].plan[j] = m
      <4>1. d = c => j = i
        BY <1>2, <3>2, <3>5 DEF ClaimInv, GuardInv
      <4>2. d # c
        BY <1>9, <4>1
      <4> QED
        BY <2>1, <3>1, <3>4, <3>5, <4>2, Zenon
    <3>6. CASE call[d].plan[j] # m
      BY <2>1, <3>1, <3>2, <3>4, <3>6, Zenon
    <3> QED
      BY <3>5, <3>6, Zenon
  <2>5. LeaseInv'
    BY <2>3, <2>4, Zenon DEF LeaseInv
  <2> QED
    BY <1>4, <1>5, <1>7, <1>8, <2>2, <2>5 DEF ClaimInv, Only
<1> QED
  BY <1>10, <1>11, Zenon DEF ReleaseClaimLease

LEMMA RemoveGuardStep ==
  ASSUME ClaimInv, NEW c \in Claims, RemoveGuard(c)
  PROVE  ClaimInv'
<1> DEFINE i == call[c].i
           n == Len(call[c].plan)
           r == Forward(c, "leave")
           g == <<call[c].proc, call[c].plan[i]>>
<1>1. /\ call[c] \in CallType /\ Shape(call[c]) /\ TypeInv /\ call[c].pc = "unguard"
      /\ UNCHANGED <<leases, records, history>> /\ Becomes(c, r)
      /\ guards' = guards \ {g}
  BY Zenon DEF ClaimInv, TypeInv, RemoveGuard, Current
<1>2. i \in 1..n /\ n \in Nat /\ i \in Nat
  BY <1>1 DEF Shape, CallType
<1>3. /\ r \in CallType /\ r.proc = call[c].proc /\ r.plan = call[c].plan
      /\ r.msg = call[c].msg /\ r.res = call[c].res /\ r.ren = call[c].ren
      /\ IF i < n THEN r.pc = "unguard" /\ r.i = i + 1 ELSE r.pc = "leave" /\ r.i = 1
  <2>1. {"leave", "unguard"} \subseteq Stages
    BY DEF Stages
  <2>2. CASE i < n
    <3>1. r = At(c, "unguard", i + 1) /\ i + 1 \in Nat /\ "unguard" \in Stages
      BY <1>1, <1>2, <2>1, <2>2 DEF Forward
    <3> HIDE DEF r, i, n
    <3> QED
      BY <1>1, <2>2, <3>1, AtFields, Zenon
  <2>3. CASE ~(i < n)
    <3>1. r = At(c, "leave", 1) /\ 1 \in Nat /\ "leave" \in Stages
      BY <2>1, <2>3 DEF Forward
    <3> HIDE DEF r, i, n
    <3> QED
      BY <1>1, <2>3, <3>1, AtFields
  <2> QED
    BY <2>2, <2>3, Zenon
<1>4. Only(c) /\ call'[c] = r /\ call' \in [Claims -> CallType]
  BY <1>1, <1>3, OneClaim, Zenon
<1> HIDE DEF r
<1>5. Shape(r)
  <2>1. call[c].proc \in Procs /\ call[c].ren = <<>>
    BY <1>1, Zenon DEF Shape
  <2>2. r.pc \in {"unguard", "leave"} /\ r.i \in 1..Len(r.plan)
    BY <1>2, <1>3
  <2> QED
    BY <1>3, <2>1, <2>2, QuietShape
<1>6. /\ Guarded(r) = Guarded(call[c]) \ {i} /\ i \in Guarded(call[c])
      /\ Leased(r) = {} /\ Leased(call[c]) = {}
  <2>1. Guarded(call[c]) = {j \in 1..n : j >= i} /\ Leased(call[c]) = {}
    BY <1>1, Zenon DEF Guarded, Leased
  <2>2. Leased(r) = {} /\ Guarded(r) = {j \in 1..n : i < n /\ j >= i + 1}
    BY <1>2, <1>3, Zenon DEF Guarded, Leased
  <2> HIDE DEF i, n
  <2> QED
    BY <1>2, <2>1, <2>2
<1>7. TypeInv'
  BY <1>1, <1>4, Zenon DEF TypeInv, history
<1>8. GuardInv'
  <2>1. /\ \A d \in Claims : call'[d].proc = call[d].proc /\ call'[d].plan = call[d].plan
        /\ \A d \in Claims : Guarded(call'[d]) \subseteq Guarded(call[d])
        /\ i \notin Guarded(call'[c])
    BY <1>3, <1>4, <1>6, Zenon DEF Only
  <2>2. ASSUME NEW d \in Claims, NEW j \in Guarded(call'[d])
        PROVE  <<call'[d].proc, call'[d].plan[j]>> \in guards'
    <3>1. /\ j \in Guarded(call[d]) /\ <<call[d].proc, call[d].plan[j]>> \in guards
          /\ ~(d = c /\ j = i)
      BY <2>1, Zenon DEF ClaimInv, GuardInv
    <3>2. <<call[d].proc, call[d].plan[j]>> # g
      BY <1>6, <3>1 DEF ClaimInv, GuardInv
    <3> QED
      BY <1>1, <2>1, <3>1, <3>2, Zenon
  <2>3. ASSUME NEW d \in Claims, NEW e \in Claims,
               NEW j \in Guarded(call'[d]), NEW k \in Guarded(call'[e]),
               call'[d].proc = call'[e].proc, call'[d].plan[j] = call'[e].plan[k]
        PROVE  d = e /\ j = k
    BY <2>1, <2>3 DEF ClaimInv, GuardInv
  <2> QED
    BY <2>2, <2>3 DEF GuardInv
<1>9. LeaseInv'
  BY <1>1, <1>4, <1>6, LeaseFrame, Zenon DEF ClaimInv
<1>10. RecordInv'
  BY <1>1, <1>3, <1>4, RecordFrame, Zenon DEF ClaimInv, history, Slot
<1> QED
  BY <1>4, <1>5, <1>7, <1>8, <1>9, <1>10 DEF ClaimInv, Only

\* Claims end: they leave, or their process dies.
LEMMA ClaimsEnd ==
  ASSUME ClaimInv, NEW dead \in SUBSET Claims,
         \A c \in dead : call'[c] = Idle,
         \A c \in Claims \ dead : call'[c] = call[c],
         overrun' = {k \in overrun : Users(k) \ dead # {}},
         UNCHANGED <<records, processed>>
  PROVE  /\ \A c \in Claims : Shape(call'[c])
         /\ \A c \in Claims : Guarded(call'[c]) \subseteq Guarded(call[c])
         /\ \A c \in Claims : \A j \in Guarded(call'[c]) : call'[c] = call[c] /\ c \notin dead
         /\ \A c \in dead : Leased(call'[c]) = {}
         /\ RecordInv'
<1>1. /\ Shape(Idle) /\ Guarded(Idle) = {} /\ Leased(Idle) = {}
      /\ Idle.pc = "idle" /\ Idle.res = "error"
  BY Zenon DEF Shape, Idle, Guarded, Leased
<1>2. \A c \in Claims : Shape(call[c])
  BY DEF ClaimInv
<1>3. ASSUME NEW c \in Claims, call'[c].msg \in Messages \ overrun',
             call'[c].pc \in Slot \cup {"refresh"} \/ call'[c].res = "nil"
      PROVE  call'[c] = call[c] /\ call[c].msg \in Messages \ overrun
  <2>1. c \notin dead /\ call'[c] = call[c]
    BY <1>1, <1>3, Zenon DEF Slot
  <2>2. c \in Users(call[c].msg)
    BY <1>2, <1>3, <2>1, Zenon DEF Users, Shape, Slot
  <2> QED
    BY <1>3, <2>1, <2>2, Zenon
<1>4. RecordInv'
  <2>1. ASSUME NEW c \in Claims, call'[c].msg \in Messages \ overrun'
        PROVE  /\ call'[c].pc \in Slot => records'[call'[c].msg] = "in_progress"
               /\ call'[c].pc = "refresh" => records'[call'[c].msg] = call'[c].seen
               /\ call'[c].res = "nil" => records'[call'[c].msg] = "completed"
    BY <1>3, <2>1, Zenon DEF ClaimInv, RecordInv
  <2>2. ASSUME NEW c \in Claims, call'[c].msg \in Messages \ overrun', call'[c].pc \in Slot,
               NEW d \in Claims, call'[d].msg = call'[c].msg, call'[d].pc \in Slot
        PROVE  c = d
    BY <1>3, <2>2, Zenon DEF ClaimInv, RecordInv
  <2>3. ASSUME NEW c \in Claims, call'[c].msg \in Messages
        PROVE  /\ call'[c].pc = "refresh" /\ call'[c].seen = "completed" =>
                      call'[c].msg \in processed'
               /\ call'[c].pc \in {"stop", "persist"} /\ call'[c].err \in Acked =>
                      call'[c].msg \in processed'
    BY <1>1, <2>3, Zenon DEF ClaimInv, RecordInv
  <2>4. \A k \in Messages : records'[k] = "completed" => k \in processed'
    BY Zenon DEF ClaimInv, RecordInv
  <2> QED
    BY <2>1, <2>2, <2>3, <2>4, Zenon DEF RecordInv
<1> QED
  BY <1>1, <1>2, <1>4

LEMMA LeaveStep ==
  ASSUME ClaimInv, NEW c \in Claims, Leave(c)
  PROVE  ClaimInv'
<1>1. /\ call[c].pc = "leave" /\ UNCHANGED <<guards, leases, records, processed>>
      /\ overrun' = {k \in overrun : Users(k) \ {c} # {}} /\ TypeInv
      /\ Becomes(c, Idle)
  BY DEF ClaimInv, Leave
<1>2. Only(c) /\ call'[c] = Idle /\ call' \in [Claims -> CallType]
  <2>1. Idle \in CallType
    BY DEF Idle, CallType, Stages, Statuses, Errors
  <2> QED
    BY <1>1, <2>1, OneClaim
<1>3. TypeInv'
  BY <1>1, <1>2 DEF TypeInv
<1>4. /\ \A d \in Claims : Shape(call'[d]) /\ RecordInv'
      /\ Guarded(call'[c]) = {} /\ Leased(call'[c]) = {} /\ Leased(call[c]) = {}
  <2>1. /\ {c} \in SUBSET Claims /\ \A d \in {c} : call'[d] = Idle
        /\ \A d \in Claims \ {c} : call'[d] = call[d]
    BY <1>2 DEF Only
  <2>2. (\A d \in Claims : Shape(call'[d])) /\ RecordInv'
    BY <1>1, <2>1, ClaimsEnd, Zenon
  <2>3. Guarded(call'[c]) = {} /\ Leased(call'[c]) = {} /\ Leased(call[c]) = {}
    BY <1>1, <1>2 DEF Guarded, Leased, Idle
  <2> QED
    BY <2>2, <2>3
<1>5. GuardInv'
  BY <1>1, <1>2, <1>4, GuardFrame, Zenon DEF ClaimInv
<1>6. LeaseInv'
  BY <1>1, <1>2, <1>4, LeaseFrame, Zenon DEF ClaimInv
<1> QED
  BY <1>3, <1>4, <1>5, <1>6 DEF ClaimInv

LEMMA RestartStep ==
  ASSUME ClaimInv, NEW p \in Procs, Restart(p)
  PROVE  ClaimInv'
<1> DEFINE dead == {c \in Claims : call[c].proc = p}
<1>1. /\ call' = [c \in Claims |-> IF c \in dead THEN Idle ELSE call[c]]
      /\ guards' = {g \in guards : g[1] # p}
      /\ leases' = [m \in Members |-> [leases[m] EXCEPT !.by = IF @ \in dead THEN "nobody" ELSE @]]
      /\ overrun' = {k \in overrun : Users(k) \ dead # {}}
      /\ UNCHANGED <<records, processed>> /\ TypeInv
  BY Zenon DEF ClaimInv, Restart
<1>2. /\ \A c \in Claims : call'[c] = IF c \in dead THEN Idle ELSE call[c]
      /\ \A m \in Members : /\ leases'[m].owner = leases[m].owner
                            /\ leases'[m].by = IF leases[m].by \in dead THEN "nobody"
                                               ELSE leases[m].by
  BY <1>1, Zenon DEF TypeInv
<1>3. TypeInv'
  <2>1. Idle \in CallType
    BY DEF Idle, CallType, Stages, Statuses, Errors
  <2>2. call' \in [Claims -> CallType]
    BY <1>1, <2>1, Zenon DEF TypeInv
  <2>3. leases' \in [Members -> [by : Claims \cup {"nobody"}, owner : Procs \cup {"nobody"}]]
    BY <1>1, Zenon DEF TypeInv
  <2> QED
    BY <1>1, <2>2, <2>3, Zenon DEF TypeInv
<1>4. /\ \A c \in Claims : Shape(call'[c])
      /\ \A c \in Claims : Guarded(call'[c]) \subseteq Guarded(call[c])
      /\ \A c \in Claims : \A j \in Guarded(call'[c]) : call'[c] = call[c] /\ c \notin dead
      /\ \A c \in dead : Leased(call'[c]) = {}
      /\ RecordInv'
  <2>1. /\ dead \in SUBSET Claims /\ \A c \in dead : call'[c] = Idle
        /\ \A c \in Claims \ dead : call'[c] = call[c]
    BY <1>2, Zenon
  <2> HIDE DEF dead
  <2> QED
    BY <1>1, <2>1, ClaimsEnd, Zenon
<1>5. GuardInv'
  <2>1. ASSUME NEW c \in Claims, NEW j \in Guarded(call'[c])
        PROVE  <<call'[c].proc, call'[c].plan[j]>> \in guards'
    <3>1. j \in Guarded(call[c]) /\ call'[c] = call[c] /\ call[c].proc # p
      BY <1>4
    <3>2. <<call[c].proc, call[c].plan[j]>> \in guards
      BY <3>1, Zenon DEF ClaimInv, GuardInv
    <3> QED
      BY <1>1, <3>1, <3>2, Zenon
  <2>2. ASSUME NEW c \in Claims, NEW d \in Claims,
               NEW j \in Guarded(call'[c]), NEW k \in Guarded(call'[d]),
               call'[c].proc = call'[d].proc, call'[c].plan[j] = call'[d].plan[k]
        PROVE  c = d /\ j = k
    <3>1. /\ j \in Guarded(call[c]) /\ call'[c] = call[c]
          /\ k \in Guarded(call[d]) /\ call'[d] = call[d]
      BY <1>4
    <3> QED
      BY <2>2, <3>1 DEF ClaimInv, GuardInv
  <2> QED
    BY <2>1, <2>2 DEF GuardInv
<1>6. LeaseInv'
  <2>1. ASSUME NEW m \in Members, leases'[m].by \in Claims
        PROVE  /\ leases'[m].owner = call'[leases'[m].by].proc
               /\ \E j \in Leased(call'[leases'[m].by]) : call'[leases'[m].by].plan[j] = m
    <3>1. /\ leases'[m].by = leases[m].by /\ leases[m].by \notin dead
          /\ leases'[m].owner = leases[m].owner
      BY <1>2, <2>1, WorkerAssumption, Zenon
    <3>2. call'[leases[m].by] = call[leases[m].by]
      BY <1>2, <2>1, <3>1, Zenon
    <3> QED
      BY <2>1, <3>1, <3>2 DEF ClaimInv, LeaseInv
  <2>2. ASSUME NEW c \in Claims, NEW j \in Leased(call'[c]),
               leases'[call'[c].plan[j]].owner = call'[c].proc
        PROVE  leases'[call'[c].plan[j]].by = c
    <3>1. c \notin dead
      BY <1>4
    <3>2. call'[c] = call[c] /\ call[c] \in CallType
      BY <1>1, <1>2, <3>1, Zenon DEF TypeInv
    <3>3. call[c].plan[j] \in Members
      <4>1. j \in 1..Len(call[c].plan) /\ call[c].plan \in Seq(Members)
        BY <3>2, Zenon DEF Leased, CallType
      <4> QED
        BY <4>1
    <3>4. leases[call[c].plan[j]].by = c
      BY <1>2, <2>2, <3>2, <3>3 DEF ClaimInv, LeaseInv
    <3> QED
      BY <1>2, <3>1, <3>2, <3>3, <3>4, Zenon
  <2> QED
    BY <2>1, <2>2, Zenon DEF LeaseInv
<1> QED
  BY <1>3, <1>4, <1>5, <1>6 DEF ClaimInv

LEMMA LapseStep ==
  ASSUME ClaimInv, NEW m \in Members, Lapse(m)
  PROVE  ClaimInv'
<1>1. /\ leases' = [leases EXCEPT ![m] = Free]
      /\ UNCHANGED <<guards, call, records, history>> /\ TypeInv
  BY DEF ClaimInv, Lapse
<1>2. leases'[m] = Free /\ \A n \in Members \ {m} : leases'[n] = leases[n]
  BY <1>1 DEF TypeInv
<1>3. TypeInv'
  BY <1>1 DEF TypeInv, history, Free
<1>4. LeaseInv'
  BY <1>1, <1>2, FreeLease
<1>5. (\A c \in Claims : Shape(call'[c])) /\ GuardInv'
  BY <1>1 DEF ClaimInv, GuardInv
<1>6. RecordInv'
  BY <1>1, Zenon DEF ClaimInv, RecordInv, history
<1> QED
  BY <1>3, <1>4, <1>5, <1>6 DEF ClaimInv

LEMMA ForgetStep ==
  ASSUME ClaimInv, NEW k \in Messages, Forget(k)
  PROVE  ClaimInv'
<1>1. /\ records' = [records EXCEPT ![k] = "missing"]
      /\ overrun' = IF Users(k) # {} THEN overrun \cup {k} ELSE overrun
      /\ UNCHANGED <<guards, call, leases, processed>> /\ TypeInv
  BY DEF ClaimInv, Forget
<1>2. TypeInv'
  BY <1>1 DEF TypeInv, Statuses
<1>3. (\A c \in Claims : Shape(call'[c])) /\ GuardInv' /\ LeaseInv'
  <2>1. \A c \in Claims : Shape(call'[c])
    BY <1>1 DEF ClaimInv
  <2>2. GuardInv'
    BY <1>1 DEF ClaimInv, GuardInv
  <2>3. LeaseInv'
    BY <1>1 DEF ClaimInv, LeaseInv
  <2> QED
    BY <2>1, <2>2, <2>3
<1>4. RecordInv'
  <2>1. /\ \A l \in Messages \ {k} : records'[l] = records[l]
        /\ records'[k] = "missing"
    BY <1>1 DEF TypeInv
  <2>2. ASSUME NEW c \in Claims, call[c].msg = k, k \notin overrun'
        PROVE  call[c].pc \notin Slot \cup {"refresh"} /\ call[c].res # "nil"
    <3>1. c \notin Users(k)
      BY <1>1, <2>2
    <3>2. call[c].pc \in {"idle", "guard", "get"} /\ Shape(call[c])
      BY <2>2, <3>1 DEF Users, ClaimInv
    <3> QED
      BY <3>2, Zenon DEF Shape, Slot
  <2>3. ASSUME NEW c \in Claims, call'[c].msg \in Messages \ overrun'
        PROVE  /\ call'[c].pc \in Slot => records'[call'[c].msg] = "in_progress"
               /\ call'[c].pc = "refresh" => records'[call'[c].msg] = call'[c].seen
               /\ call'[c].res = "nil" => records'[call'[c].msg] = "completed"
               /\ \A d \in Claims : call'[d].msg = call'[c].msg /\ call'[c].pc \in Slot
                                    /\ call'[d].pc \in Slot => c = d
    <3>1. call'[c] = call[c] /\ call[c].msg \notin overrun
      BY <1>1, <2>3
    <3>2. CASE call[c].msg = k
      BY <2>2, <2>3, <3>1, <3>2, Zenon
    <3>3. CASE call[c].msg # k
      BY <1>1, <2>1, <2>3, <3>1, <3>3, Zenon DEF ClaimInv, RecordInv
    <3> QED
      BY <3>2, <3>3, Zenon
  <2>4. \A l \in Messages : records'[l] = "completed" => l \in processed'
    BY <1>1, <2>1, Zenon DEF ClaimInv, RecordInv
  <2>5. ASSUME NEW c \in Claims, call'[c].msg \in Messages
        PROVE  /\ call'[c].pc = "refresh" /\ call'[c].seen = "completed" =>
                      call'[c].msg \in processed'
               /\ call'[c].pc \in {"stop", "persist"} /\ call'[c].err \in Acked =>
                      call'[c].msg \in processed'
    BY <1>1, <2>5, Zenon DEF ClaimInv, RecordInv
  <2> QED
    BY <2>3, <2>4, <2>5, Zenon DEF RecordInv
<1> QED
  BY <1>2, <1>3, <1>4 DEF ClaimInv

-----------------------------------------------------------------------------
LEMMA ExecutionStep ==
  ASSUME ClaimInv, NEW c \in Claims, Execution(c)
  PROVE  ClaimInv'
  BY InstallGuardStep, GetStep, BeginStep, RefreshStep, AcquireStep, CallbackStep, RenewStep,
     StopStep, PersistStep, ReleaseStep, RemoveGuardStep, LeaveStep DEF Execution, Body

\* What CanonicalizeMembers returns, and the sizes of small sets.
INSTANCE PoliciesProofs

LEMMA ClaimStep == ClaimInv /\ [Next]_vars => ClaimInv'
<1> SUFFICES ASSUME ClaimInv, [Next]_vars PROVE ClaimInv'
  OBVIOUS
<1>1. ASSUME NEW c \in Claims, ExecuteClaimed(c)
      PROVE  ClaimInv'
  <2>1. ASSUME NEW d \in Deliveries, Start(c, d, d.members)
        PROVE  ClaimInv'
    BY <2>1, StartStep, WorkerAssumption
  <2> QED
    BY <1>1, <2>1, ExecutionStep DEF ExecuteClaimed
<1>2. ASSUME NEW c \in Claims, ExecuteCompositeClaimed(c)
      PROVE  ClaimInv'
  <2>1. ASSUME NEW d \in Deliveries, Start(c, d, CanonicalizeMembers(d.members))
        PROVE  ClaimInv'
    <3>1. d.members \in Seq(Members) /\ d.members # <<>>
      BY WorkerAssumption
    <3>2. /\ CanonicalizeMembers(d.members) \in Seq(Members)
          /\ Len(CanonicalizeMembers(d.members)) = Len(d.members)
      BY <3>1, CanonicalType, WorkerAssumption, Zenon
    <3>3. CanonicalizeMembers(d.members) # <<>>
      BY <3>1, <3>2
    <3> QED
      BY <2>1, <3>2, <3>3, StartStep
  <2> QED
    BY <1>2, <2>1, ExecutionStep, Zenon DEF ExecuteCompositeClaimed
<1>3. CASE UNCHANGED vars
  <2>1. /\ guards' = guards /\ call' = call /\ leases' = leases /\ records' = records
        /\ overrun' = overrun /\ processed' = processed
    BY <1>3 DEF vars, history
  <2>2. TypeInv' /\ \A c \in Claims : Shape(call'[c])
    BY <2>1 DEF ClaimInv, TypeInv
  <2>3. GuardInv'
    BY <2>1 DEF ClaimInv, GuardInv
  <2>4. LeaseInv'
    BY <2>1, Zenon DEF ClaimInv, LeaseInv
  <2>5. RecordInv'
    BY <2>1, Zenon DEF ClaimInv, RecordInv
  <2> QED
    BY <2>2, <2>3, <2>4, <2>5 DEF ClaimInv
<1> QED
  BY <1>1, <1>2, <1>3, RestartStep, LapseStep, ForgetStep DEF Next

\* ClaimInv is an inductive invariant of workers.Manager.
THEOREM ClaimInvariant == Spec => []ClaimInv
<1>1. Init => ClaimInv
  BY ClaimInit
<1>2. ClaimInv /\ [Next]_vars => ClaimInv'
  BY ClaimStep
<1> QED
  BY <1>1, <1>2, PTL DEF Spec

\* One claim at a time processes a message, whatever processes its copies
\* reach and whatever fails, unless a claim outlives its in-progress record.
THEOREM OneProcessor == Spec => []SlotExclusive
<1>1. ClaimInv => SlotExclusive
  <2> SUFFICES ASSUME ClaimInv, NEW k \in Messages \ overrun
               PROVE  /\ Cardinality(Processing(k)) <= 1
                      /\ Processing(k) # {} => records[k] = "in_progress"
    BY DEF SlotExclusive
  <2>1. \A c, d \in Processing(k) : c = d
    BY DEF ClaimInv, RecordInv, Processing, Slot
  <2>2. Processing(k) # {} => records[k] = "in_progress"
    BY DEF ClaimInv, RecordInv, Processing, Slot
  <2>3. Processing(k) = {} \/ \E c : Processing(k) = {c}
    BY <2>1
  <2>4. Cardinality(Processing(k)) = 0 \/ Cardinality(Processing(k)) = 1
    BY <2>3, FS_EmptySet, FS_Singleton, Zenon
  <2> QED
    BY <2>2, <2>4
<1> QED
  BY <1>1, ClaimInvariant, PTL

\* Only a message that some callback dealt with is recorded as completed.
THEOREM CompletedIsProcessed == Spec => []CompletedMeansProcessed
<1>1. ClaimInv => CompletedMeansProcessed
  BY Zenon DEF ClaimInv, RecordInv, CompletedMeansProcessed
<1> QED
  BY <1>1, ClaimInvariant, PTL

\* A claim that returns nil has renewed its leases to the end and recorded its
\* message as completed.
THEOREM AckIsDone == Spec => []AckMeansDone
<1>1. ClaimInv => AckMeansDone
  <2> SUFFICES ASSUME ClaimInv, NEW c \in Claims
               PROVE  /\ (/\ call[c].pc = "persist"
                          /\ \E i \in DOMAIN call[c].ren : call[c].ren[i] = "failed") =>
                            /\ call[c].err = {"lease_lost"}
                            /\ OutcomeFromError(call[c].err) = "retry"
                      /\ call[c].res = "nil" /\ call[c].msg \notin {NoKey} \cup overrun =>
                            records[call[c].msg] = "completed"
    BY Zenon DEF AckMeansDone
  <2>1. call[c] \in CallType /\ Shape(call[c])
    BY DEF ClaimInv, TypeInv
  <2>2. DOMAIN call[c].ren = 1..Len(call[c].ren)
    BY <2>1 DEF CallType
  <2>3. ASSUME call[c].pc = "persist", NEW i \in DOMAIN call[c].ren, call[c].ren[i] = "failed"
        PROVE  call[c].err = {"lease_lost"}
    BY <2>1, <2>2, <2>3, Zenon DEF Shape
  <2>4. call[c].msg \in Messages \cup {NoKey}
    BY <2>1, Zenon DEF CallType
  <2> QED
    BY <2>3, <2>4, Outcomes, Zenon DEF ClaimInv, RecordInv
<1> QED
  BY <1>1, ClaimInvariant, PTL

\* A renewal goroutine never extends the lease of another claim.
THEOREM RenewalIsOwn == Spec => []RenewsOnlyItsOwn
<1>1. ClaimInv => RenewsOnlyItsOwn
  <2> SUFFICES ASSUME ClaimInv, NEW c \in Claims, NEW i \in DOMAIN call[c].ren,
                      call[c].ren[i] = "alive", Recognised(c, call[c].plan[i])
               PROVE  leases[call[c].plan[i]].by = c
    BY Zenon DEF RenewsOnlyItsOwn
  <2>1. call[c] \in CallType /\ Shape(call[c])
    BY DEF ClaimInv, TypeInv
  <2>2. call[c].pc \in {"run", "stop", "persist"} /\ Len(call[c].ren) = Len(call[c].plan)
    <3>1. call[c].ren # <<>>
      OBVIOUS
    <3> QED
      BY <2>1, <3>1, Zenon DEF Shape
  <2>3. i \in 1..Len(call[c].plan)
    <3>1. call[c].ren \in Seq({"alive", "failed", "stopped"})
      BY <2>1, Zenon DEF CallType
    <3> QED
      BY <2>2, <3>1
  <2>4. i \in Leased(call[c])
    BY <2>2, <2>3, Zenon DEF Leased
  <2> QED
    BY <2>4, Zenon DEF ClaimInv, LeaseInv, Recognised
<1> QED
  BY <1>1, ClaimInvariant, PTL

\* A claim that has left holds no lease, unless giving it back failed.
THEOREM LeasesGivenBack == Spec => []NothingLeftBehind
<1>1. ClaimInv => NothingLeftBehind
  <2> SUFFICES ASSUME ClaimInv, NEW m \in Members, leases[m].by \in Claims
               PROVE  LET c == leases[m].by IN \E i \in DOMAIN call[c].plan :
                         /\ call[c].plan[i] = m
                         /\ \/ call[c].pc = "acquire" /\ i < call[c].i
                            \/ call[c].pc \in {"run", "stop", "persist"}
                            \/ call[c].pc = "release" /\ i <= call[c].i
    BY Zenon DEF NothingLeftBehind
  <2> DEFINE c == leases[m].by
  <2>1. PICK j \in Leased(call[c]) : call[c].plan[j] = m
    BY Zenon DEF ClaimInv, LeaseInv
  <2>2. call[c].plan \in Seq(Members)
    BY Zenon DEF ClaimInv, TypeInv, CallType
  <2>3. j \in DOMAIN call[c].plan
    BY <2>1, <2>2 DEF Leased
  <2> QED
    BY <2>1, <2>3, Zenon DEF Leased
<1> QED
  BY <1>1, ClaimInvariant, PTL
=============================================================================

