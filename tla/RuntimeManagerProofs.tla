------------------------ MODULE RuntimeManagerProofs ------------------------
(***************************************************************************)
(* Proofs about RuntimeManager for any number of calls, owners, members,   *)
(* definitions and requests, and any lengths of the calls' plans: an       *)
(* inductive invariant, that every step of a call and of everybody else    *)
(* keeps it, and what follows from it.                                     *)
(***************************************************************************)
EXTENDS RuntimeManager, Integers, TLAPS

Stages == {"idle", "check", "admit", "guard", "acquire", "run", "release", "unguard",
           "leave"}
Results == {"none", "nil", "error", "busy", "reentrant"}

CallType == [pc : Stages, op : {"none", "exclusive", "multiple", "composite"},
             owner : Owners \cup {"none"}, checks : Seq(Members), plan : Seq(Members),
             i : Nat, res : Results, by : Calls \cup {"nobody"}]

Lease == [by : Calls \cup {"nobody", "other"}, owner : Owners \cup {"none", "other"}]

TypeInv == /\ guards \in [Members \X Owners -> {"none", "pending", "held"}]
           /\ activeByDef \in [Defs -> Int]
           /\ call \in [Calls -> CallType]
           /\ leases \in [Members -> Lease]
           /\ closing \in BOOLEAN /\ drained \in BOOLEAN
           /\ inside \in SUBSET Calls
           /\ lost \in SUBSET Calls

\* The stages between admission and the return of the in-flight count.
Inside == {"guard", "acquire", "run", "release", "unguard", "leave"}

\* The members of a plan are in canonical order.
Ordered(plan) == \A a, b \in 1..Len(plan) : a < b => ~Precedes(plan[b], plan[a])

\* What the stage of a call says about its other fields.
Shape(r) ==
    /\ r.pc # "idle" => r.owner \in Owners
    /\ r.pc \in {"guard", "acquire", "release", "unguard"} => r.i \in 1..Len(r.plan)
    /\ r.pc \in {"idle", "check", "admit", "guard", "acquire", "run"} =>
          r.res = "none" /\ r.by = "nobody"
    /\ r.pc \in {"release", "unguard", "leave"} => r.res # "none"
    /\ Ordered(r.plan)

\* The positions of a plan whose guards the call has installed, those whose
\* guards do not say "held" yet, and those whose leases the call has acquired
\* and not yet given back.
Guarded(r) == {j \in 1..Len(r.plan) :
                  \/ r.pc = "guard" /\ j < r.i
                  \/ r.pc \in {"acquire", "run", "release"}
                  \/ r.pc = "unguard" /\ j >= r.i}
Pending(r) == {j \in 1..Len(r.plan) : \/ r.pc = "guard" /\ j < r.i
                                      \/ r.pc = "acquire" /\ j >= r.i}
Leased(r) == {j \in 1..Len(r.plan) : \/ r.pc = "acquire" /\ j < r.i
                                     \/ r.pc = "run"
                                     \/ r.pc = "release" /\ j <= r.i}

\* A guard belongs to one position of one call.
GuardInv ==
    /\ \A c \in Calls : \A j \in Guarded(call[c]) : guards[Guard(c, call[c].plan[j])] # "none"
    /\ \A c, d \in Calls : \A j \in Guarded(call[c]), k \in Guarded(call[d]) :
          call[c].owner = call[d].owner /\ call[c].plan[j] = call[d].plan[k] => c = d /\ j = k

\* A lease that a call will release is one the call acquired; one the driver
\* would take for the call's is the call's.
LeaseInv ==
    /\ \A m \in Members : leases[m].by \in Calls =>
          /\ leases[m].owner = call[leases[m].by].owner
          /\ \E j \in Leased(call[leases[m].by]) : call[leases[m].by].plan[j] = m
    /\ \A c \in Calls : \A j \in Leased(call[c]) :
          leases[call[c].plan[j]].owner = call[c].owner => leases[call[c].plan[j]].by = c

\* A call that lost no lease has them all; one that did will find out when it
\* releases them.
LossInv ==
    /\ \A c \in Calls \ lost : \A j \in Leased(call[c]) : leases[call[c].plan[j]].by = c
    /\ \A c \in lost : call[c].res \in {"none", "nil"} =>
          \E j \in Leased(call[c]) : leases[call[c].plan[j]].by # c

\* When c has been refused because of d, the member in the way comes after
\* everything c has and before everything d still asks for.
InTheWay(c, d, p, q) ==
    /\ p \in 1..Len(call[c].plan) /\ q \in 1..Len(call[d].plan)
    /\ call[c].plan[p] = call[d].plan[q]
    /\ \A j \in Leased(call[c]) : j < p
    /\ call[d].pc = "acquire" => q < call[d].i
RefusalInv ==
    \A c, d \in Calls : call[c].by = d =>
        /\ call[d].pc \in Inside \ {"guard"}
        /\ \E p, q \in Nat : InTheWay(c, d, p, q)

AdmissionInv == /\ \A c \in Calls : c \in inside <=> call[c].pc \in Inside
                /\ drained => closing /\ inside = {}

\* What the counters rest on, when no two members share a joined string.
DistinctIds == \A m, n \in Members : m.joined = n.joined => m = n
PendingInv == DistinctIds => \A c \in Calls : \A j \in Pending(call[c]) :
                                guards[Guard(c, call[c].plan[j])] = "pending"
CountInv == DistinctIds =>
    \A d \in Defs : IsFiniteSet(HeldOf(d)) /\ activeByDef[d] = Cardinality(HeldOf(d))

CallInv == /\ TypeInv
           /\ \A c \in Calls : Shape(call[c])
           /\ GuardInv /\ LeaseInv /\ LossInv /\ RefusalInv /\ AdmissionInv
           /\ PendingInv /\ CountInv

\* What the steps use of finite sets and of CanonicalizeMembers.  It is proved
\* at the end of the module, from the library's theorems and PoliciesProofs.
Counting ==
    /\ IsFiniteSet({}) /\ Cardinality({}) = 0
    /\ \A S : IsFiniteSet(S) =>
          /\ Cardinality(S) \in Nat
          /\ \A x : x \notin S => /\ IsFiniteSet(S \cup {x})
                                  /\ Cardinality(S \cup {x}) = Cardinality(S) + 1
          /\ \A x \in S : IsFiniteSet(S \ {x}) /\ Cardinality(S \ {x}) = Cardinality(S) - 1

Positions == \A n \in Nat : \A P \in SUBSET (1..n) :
    P # {} => /\ Cardinality(P) \in Nat /\ Cardinality(P) > 0
              /\ Increasing(P) \in [1..Cardinality(P) -> P]

Checked(r) == MembersOf(CanonicalizeMembers(r), FailIfHeld)
ChecksOf(r) == [i \in DOMAIN Checked(r) |-> LastOf(r, Checked(r)[i].def)]
PlanOf(r) == MembersOf(CanonicalizeMembers(r), Defs \ FailIfHeld)
Plans == \A r \in Requests :
    /\ CanonicalizeMembers(r) \in Seq(Members) /\ Ordered(CanonicalizeMembers(r))
    /\ ChecksOf(r) \in Seq(Members)
    /\ PlanOf(r) \in Seq(Members) /\ Ordered(PlanOf(r))

Library == Counting /\ Positions /\ Plans

-----------------------------------------------------------------------------
(***************************************************************************)
(* What a step of one call must leave alone.                               *)
(***************************************************************************)
Only(c) == \A d \in Calls \ {c} : call'[d] = call[d]

LEMMA GuardFrame ==
  ASSUME GuardInv, NEW c \in Calls, Only(c), guards' = guards,
         \A j \in Guarded(call'[c]) :
            /\ j \in Guarded(call[c])
            /\ call'[c].owner = call[c].owner /\ call'[c].plan[j] = call[c].plan[j]
  PROVE  GuardInv'
<1>1. ASSUME NEW d \in Calls, NEW j \in Guarded(call'[d])
      PROVE  /\ j \in Guarded(call[d])
             /\ call'[d].owner = call[d].owner /\ call'[d].plan[j] = call[d].plan[j]
  BY <1>1, Zenon DEF Only
<1>2. ASSUME NEW d \in Calls, NEW j \in Guarded(call'[d])
      PROVE  guards'[<<call'[d].plan[j], call'[d].owner>>] # "none"
  BY <1>1, <1>2 DEF GuardInv, Guard
<1>3. ASSUME NEW d \in Calls, NEW e \in Calls,
             NEW j \in Guarded(call'[d]), NEW k \in Guarded(call'[e]),
             call'[d].owner = call'[e].owner, call'[d].plan[j] = call'[e].plan[k]
      PROVE  d = e /\ j = k
  BY <1>1, <1>3 DEF GuardInv
<1> QED
  BY <1>2, <1>3 DEF GuardInv, Guard

LEMMA PendingFrame ==
  ASSUME PendingInv, NEW c \in Calls, Only(c), guards' = guards,
         \A j \in Pending(call'[c]) :
            /\ j \in Pending(call[c])
            /\ call'[c].owner = call[c].owner /\ call'[c].plan[j] = call[c].plan[j]
  PROVE  PendingInv'
<1>1. ASSUME NEW d \in Calls, NEW j \in Pending(call'[d])
      PROVE  /\ j \in Pending(call[d])
             /\ call'[d].owner = call[d].owner /\ call'[d].plan[j] = call[d].plan[j]
  BY <1>1, Zenon DEF Only
<1>2. ASSUME DistinctIds, NEW d \in Calls, NEW j \in Pending(call'[d])
      PROVE  guards'[<<call'[d].plan[j], call'[d].owner>>] = "pending"
  BY <1>1, <1>2 DEF PendingInv, Guard
<1> QED
  BY <1>2, Zenon DEF PendingInv, Guard

LEMMA LeaseFrame ==
  ASSUME LeaseInv, NEW c \in Calls, Only(c), leases' = leases,
         Leased(call'[c]) = Leased(call[c]),
         \A j \in Leased(call[c]) :
            call'[c].owner = call[c].owner /\ call'[c].plan[j] = call[c].plan[j]
  PROVE  LeaseInv'
<1>1. ASSUME NEW d \in Calls
      PROVE  /\ Leased(call'[d]) = Leased(call[d])
             /\ \A j \in Leased(call[d]) :
                   call'[d].owner = call[d].owner /\ call'[d].plan[j] = call[d].plan[j]
  BY Zenon DEF Only
<1>2. ASSUME NEW m \in Members, leases'[m].by \in Calls
      PROVE  /\ leases'[m].owner = call'[leases'[m].by].owner
             /\ \E j \in Leased(call'[leases'[m].by]) : call'[leases'[m].by].plan[j] = m
  <2>1. leases[m].by \in Calls
    BY <1>2, Zenon
  <2>2. leases[m].owner = call[leases[m].by].owner
    BY <2>1, Zenon DEF LeaseInv
  <2>3. PICK j \in Leased(call[leases[m].by]) : call[leases[m].by].plan[j] = m
    BY <2>1, Zenon DEF LeaseInv
  <2> QED
    BY <1>1, <2>1, <2>2, <2>3, Zenon
<1>3. ASSUME NEW d \in Calls, NEW j \in Leased(call'[d]),
             leases'[call'[d].plan[j]].owner = call'[d].owner
      PROVE  leases'[call'[d].plan[j]].by = d
  <2>1. /\ j \in Leased(call[d])
        /\ call'[d].owner = call[d].owner /\ call'[d].plan[j] = call[d].plan[j]
    BY <1>1, <1>3, Zenon
  <2>2. leases[call[d].plan[j]].owner = call[d].owner
    BY <1>3, <2>1, Zenon
  <2>3. leases[call[d].plan[j]].by = d
    BY <2>1, <2>2, Zenon DEF LeaseInv
  <2> QED
    BY <2>1, <2>3, Zenon
<1> QED
  BY <1>2, <1>3, Zenon DEF LeaseInv

LEMMA LossFrame ==
  ASSUME LossInv, lost \in SUBSET Calls, NEW c \in Calls, Only(c), leases' = leases,
         lost' = lost, Leased(call'[c]) = Leased(call[c]),
         \A j \in Leased(call[c]) : call'[c].plan[j] = call[c].plan[j],
         call'[c].res \in {"none", "nil"} => call[c].res \in {"none", "nil"} \/ c \notin lost
  PROVE  LossInv'
<1>1. ASSUME NEW d \in Calls
      PROVE  /\ Leased(call'[d]) = Leased(call[d])
             /\ \A j \in Leased(call[d]) : call'[d].plan[j] = call[d].plan[j]
             /\ call'[d].res \in {"none", "nil"} =>
                   call[d].res \in {"none", "nil"} \/ d \notin lost
  BY Zenon DEF Only
<1>2. ASSUME NEW d \in Calls \ lost', NEW j \in Leased(call'[d])
      PROVE  leases'[call'[d].plan[j]].by = d
  <2>1. d \in Calls \ lost /\ j \in Leased(call[d]) /\ call'[d].plan[j] = call[d].plan[j]
    BY <1>1, <1>2, Zenon
  <2>2. leases[call[d].plan[j]].by = d
    BY <2>1, Zenon DEF LossInv
  <2> QED
    BY <2>1, <2>2, Zenon
<1>3. ASSUME NEW d \in lost', call'[d].res \in {"none", "nil"}
      PROVE  \E j \in Leased(call'[d]) : leases'[call'[d].plan[j]].by # d
  <2>1. d \in lost /\ d \in Calls
    BY <1>3, Zenon
  <2>2. call[d].res \in {"none", "nil"}
    BY <1>1, <1>3, <2>1, Zenon
  <2>3. PICK j \in Leased(call[d]) : leases[call[d].plan[j]].by # d
    BY <2>1, <2>2, Zenon DEF LossInv
  <2> QED
    BY <1>1, <2>1, <2>3, Zenon
<1> QED
  BY <1>2, <1>3, Zenon DEF LossInv

LEMMA RefusalFrame ==
  ASSUME RefusalInv, NEW c \in Calls, Only(c), "nobody" \notin Calls,
         \/ call'[c].by = "nobody"
         \/ /\ call'[c].by = call[c].by /\ call'[c].plan = call[c].plan
            /\ Leased(call'[c]) \subseteq Leased(call[c]),
         \/ call[c].pc \notin Inside \ {"guard"}
         \/ /\ call'[c].pc \in Inside \ {"guard"} /\ call'[c].plan = call[c].plan
            /\ call'[c].pc = "acquire" => /\ call[c].pc = "acquire"
                                          /\ \A q \in Nat : q < call[c].i => q < call'[c].i
  PROVE  RefusalInv'
<1> SUFFICES ASSUME NEW a \in Calls, NEW b \in Calls, call'[a].by = b
             PROVE  /\ call'[b].pc \in Inside \ {"guard"}
                    /\ \E p, q \in Nat : InTheWay(a, b, p, q)'
  BY Zenon DEF RefusalInv
<1>1. /\ call[a].by = b /\ call'[a].plan = call[a].plan
      /\ Leased(call'[a]) \subseteq Leased(call[a])
  BY Zenon DEF Only
<1>2. call[b].pc \in Inside \ {"guard"}
  BY <1>1, Zenon DEF RefusalInv
<1>3. PICK p \in Nat, q \in Nat : InTheWay(a, b, p, q)
  BY <1>1, Zenon DEF RefusalInv
<1>4. /\ call'[b].pc \in Inside \ {"guard"} /\ call'[b].plan = call[b].plan
      /\ call'[b].pc = "acquire" => call[b].pc = "acquire" /\ (q < call[b].i => q < call'[b].i)
  BY <1>2, Zenon DEF Only
<1>5. InTheWay(a, b, p, q)'
  BY <1>1, <1>3, <1>4, Zenon DEF InTheWay
<1> QED
  BY <1>4, <1>5, Zenon

LEMMA AtFields ==
  ASSUME TypeInv, NEW c \in Calls, NEW pc \in Stages, NEW i \in Nat
  PROVE  /\ At(c, pc, i) \in CallType
         /\ At(c, pc, i).pc = pc /\ At(c, pc, i).i = i
         /\ At(c, pc, i).op = call[c].op /\ At(c, pc, i).owner = call[c].owner
         /\ At(c, pc, i).checks = call[c].checks /\ At(c, pc, i).plan = call[c].plan
         /\ At(c, pc, i).res = call[c].res /\ At(c, pc, i).by = call[c].by
<1>1. call[c] \in CallType
  BY DEF TypeInv
<1>2. At(c, pc, i) \in CallType
  BY <1>1, Zenon DEF At, CallType
<1> QED
  BY <1>1, <1>2, Zenon DEF At, CallType

LEMMA OneCall ==
  ASSUME TypeInv, NEW c \in Calls, NEW r \in CallType, Becomes(c, r)
  PROVE  Only(c) /\ call'[c] = r /\ call' \in [Calls -> CallType]
  BY DEF TypeInv, Only, Becomes

LEMMA ResFields ==
  ASSUME NEW r \in CallType, NEW result \in Results
  PROVE  /\ [r EXCEPT !.res = result] \in CallType
         /\ [r EXCEPT !.res = result].res = result
         /\ [r EXCEPT !.res = result].pc = r.pc /\ [r EXCEPT !.res = result].i = r.i
         /\ [r EXCEPT !.res = result].owner = r.owner
         /\ [r EXCEPT !.res = result].plan = r.plan
         /\ [r EXCEPT !.res = result].by = r.by
  BY DEF CallType

LEMMA UnwindFields ==
  ASSUME TypeInv, NEW c \in Calls, NEW n \in Nat, NEW result \in Results
  PROVE  /\ Unwind(c, n, result) \in CallType
         /\ Unwind(c, n, result).pc = (IF n = 0 THEN "unguard" ELSE "release")
         /\ Unwind(c, n, result).i = (IF n = 0 THEN 1 ELSE n)
         /\ Unwind(c, n, result).owner = call[c].owner
         /\ Unwind(c, n, result).plan = call[c].plan
         /\ Unwind(c, n, result).res = result
         /\ Unwind(c, n, result).by = call[c].by
<1>1. {"unguard", "release"} \subseteq Stages /\ 1 \in Nat
  BY DEF Stages
<1>2. CASE n = 0
  BY <1>1, <1>2, AtFields, ResFields DEF Unwind
<1>3. CASE n # 0
  BY <1>1, <1>3, AtFields, ResFields DEF Unwind
<1> QED
  BY <1>2, <1>3, Zenon

\* What a call has at hand in a stage that goes through its plan.
LEMMA PositionFacts ==
  ASSUME CallInv, NEW c \in Calls, call[c].pc \in {"guard", "acquire", "release", "unguard"}
  PROVE  /\ call[c] \in CallType /\ Shape(call[c]) /\ call[c].owner \in Owners
         /\ call[c].plan \in Seq(Members) /\ Len(call[c].plan) \in Nat
         /\ call[c].i \in 1..Len(call[c].plan) /\ call[c].i \in Nat /\ call[c].i > 0
         /\ Current(c) = call[c].plan[call[c].i] /\ Current(c) \in Members
<1>1. call[c] \in CallType /\ Shape(call[c])
  BY DEF CallInv, TypeInv
<1>2. call[c].plan \in Seq(Members)
  BY <1>1, Zenon DEF CallType
<1>3. call[c].i \in 1..Len(call[c].plan) /\ call[c].owner \in Owners
  BY <1>1, Zenon DEF Shape
<1>4. Len(call[c].plan) \in Nat /\ call[c].plan[call[c].i] \in Members
  BY <1>2, <1>3
<1> QED
  BY <1>1, <1>2, <1>3, <1>4 DEF Current

\* s is r at the next member of its plan, or at the given stage after the last.
Follows(s, r, stage) ==
    /\ s \in CallType /\ s.owner = r.owner /\ s.plan = r.plan /\ s.res = r.res /\ s.by = r.by
    /\ \/ r.i < Len(r.plan) /\ s.pc = r.pc /\ s.i = r.i + 1
       \/ r.i = Len(r.plan) /\ s.pc = stage /\ s.i = 1

\* s is r with n leases left to release.
Unwound(s, r, n) ==
    /\ s \in CallType /\ s.owner = r.owner /\ s.plan = r.plan /\ s.res # "none"
    /\ IF n = 0 THEN s.pc = "unguard" /\ s.i = 1 ELSE s.pc = "release" /\ s.i = n

LEMMA AdvanceFollows ==
  ASSUME CallInv, NEW c \in Calls, call[c].pc \in {"guard", "acquire", "release", "unguard"},
         NEW stage \in Stages, Becomes(c, Advance(c, stage))
  PROVE  Only(c) /\ call' \in [Calls -> CallType] /\ Follows(call'[c], call[c], stage)
<1>1. TypeInv /\ 1 \in Nat
  BY DEF CallInv
<1>2. /\ call[c].i \in Nat /\ Len(call[c].plan) \in Nat /\ call[c].i <= Len(call[c].plan)
      /\ call[c].pc \in Stages
  BY PositionFacts DEF CallType
<1>3. CASE call[c].i < Len(call[c].plan)
  <2> DEFINE s == At(c, call[c].pc, call[c].i + 1)
  <2>1. Advance(c, stage) = s
    BY <1>3 DEF Advance
  <2>2. call[c].i + 1 \in Nat
    BY <1>2
  <2>3. /\ s \in CallType /\ s.pc = call[c].pc /\ s.i = call[c].i + 1
        /\ s.owner = call[c].owner /\ s.plan = call[c].plan
        /\ s.res = call[c].res /\ s.by = call[c].by
    BY <1>1, <1>2, <2>2, AtFields
  <2> HIDE DEF s
  <2>4. Follows(s, call[c], stage)
    BY <1>3, <2>3, Zenon DEF Follows
  <2> QED
    BY <1>1, <2>1, <2>3, <2>4, OneCall, Zenon
<1>4. CASE ~(call[c].i < Len(call[c].plan))
  <2> DEFINE s == At(c, stage, 1)
  <2>1. Advance(c, stage) = s
    BY <1>4 DEF Advance
  <2>2. call[c].i = Len(call[c].plan)
    BY <1>2, <1>4
  <2>3. /\ s \in CallType /\ s.pc = stage /\ s.i = 1
        /\ s.owner = call[c].owner /\ s.plan = call[c].plan
        /\ s.res = call[c].res /\ s.by = call[c].by
    BY <1>1, AtFields
  <2> HIDE DEF s
  <2>4. Follows(s, call[c], stage)
    BY <2>2, <2>3, Zenon DEF Follows
  <2> QED
    BY <1>1, <2>1, <2>3, <2>4, OneCall, Zenon
<1> QED
  BY <1>3, <1>4, Zenon

\* What a record that goes one position on has of guards and leases.
LEMMA AfterGuard ==
  ASSUME NEW r \in CallType, NEW s, Shape(r), r.pc = "guard", Follows(s, r, "acquire")
  PROVE  /\ Shape(s) /\ Leased(s) = {} /\ Guarded(s) = Guarded(r) \cup {r.i}
         /\ Pending(s) = Pending(r) \cup {r.i}
<1>1. /\ r.i \in 1..Len(r.plan) /\ r.plan \in Seq(Members) /\ r.owner \in Owners
      /\ r.res = "none" /\ r.by = "nobody" /\ Ordered(r.plan)
  BY DEF Shape, CallType
<1>2. Len(r.plan) \in Nat /\ r.i \in Nat /\ r.i > 0
  BY <1>1
<1>3. Leased(s) = {} /\ Guarded(s) = Guarded(r) \cup {r.i}
  BY <1>1, <1>2 DEF Follows, Leased, Guarded
<1>4. Pending(s) = Pending(r) \cup {r.i}
  BY <1>1, <1>2 DEF Follows, Pending
<1>5. Shape(s)
  BY <1>1, <1>2 DEF Follows, Shape
<1> QED
  BY <1>3, <1>4, <1>5

LEMMA AfterAcquire ==
  ASSUME NEW r \in CallType, NEW s, Shape(r), r.pc = "acquire", Follows(s, r, "run")
  PROVE  /\ Shape(s) /\ Leased(s) = Leased(r) \cup {r.i} /\ Guarded(s) = Guarded(r)
         /\ Pending(s) = Pending(r) \ {r.i}
<1>1. /\ r.i \in 1..Len(r.plan) /\ r.plan \in Seq(Members) /\ r.owner \in Owners
      /\ r.res = "none" /\ r.by = "nobody" /\ Ordered(r.plan)
  BY DEF Shape, CallType
<1>2. Len(r.plan) \in Nat /\ r.i \in Nat /\ r.i > 0
  BY <1>1
<1>3. Leased(s) = Leased(r) \cup {r.i} /\ Guarded(s) = Guarded(r)
  BY <1>1, <1>2 DEF Follows, Leased, Guarded
<1>4. Pending(s) = Pending(r) \ {r.i}
  BY <1>1, <1>2 DEF Follows, Pending
<1>5. Shape(s)
  BY <1>1, <1>2 DEF Follows, Shape
<1> QED
  BY <1>3, <1>4, <1>5

LEMMA AfterUnguard ==
  ASSUME NEW r \in CallType, NEW s, Shape(r), r.pc = "unguard", Follows(s, r, "leave")
  PROVE  /\ Shape(s) /\ Leased(s) = {} /\ Leased(r) = {} /\ Pending(s) = {}
         /\ Guarded(s) = Guarded(r) \ {r.i} /\ r.i \in Guarded(r)
<1>1. /\ r.i \in 1..Len(r.plan) /\ r.plan \in Seq(Members) /\ r.owner \in Owners
      /\ r.res # "none" /\ Ordered(r.plan)
  BY DEF Shape, CallType
<1>2. Len(r.plan) \in Nat /\ r.i \in Nat /\ r.i > 0
  BY <1>1
<1>3. Guarded(s) = Guarded(r) \ {r.i} /\ r.i \in Guarded(r)
  BY <1>1, <1>2 DEF Follows, Guarded
<1>4. Leased(s) = {} /\ Leased(r) = {} /\ Pending(s) = {}
  BY Zenon DEF Follows, Pending, Leased
<1>5. Shape(s)
  BY <1>1, <1>2 DEF Follows, Shape
<1> QED
  BY <1>3, <1>4, <1>5

\* A refused acquire and a release: the leases before this position remain.
LEMMA AfterUnwinding ==
  ASSUME NEW r \in CallType, NEW s, Shape(r), r.pc \in {"acquire", "release"},
         Unwound(s, r, r.i - 1)
  PROVE  /\ Shape(s) /\ Guarded(s) = Guarded(r) /\ Pending(s) = {}
         /\ Leased(s) = Leased(r) \ {r.i} /\ \A j \in Leased(s) : j < r.i
         /\ r.i \in Guarded(r) /\ (r.pc = "release" <=> r.i \in Leased(r))
<1>1. /\ r.i \in 1..Len(r.plan) /\ r.plan \in Seq(Members) /\ r.owner \in Owners
      /\ Ordered(r.plan)
  BY DEF Shape, CallType
<1>2. Len(r.plan) \in Nat /\ r.i \in Nat /\ r.i > 0
  BY <1>1
<1>3. Guarded(s) = Guarded(r) /\ r.i \in Guarded(r)
  BY <1>1, <1>2 DEF Unwound, Guarded
<1>4. /\ Leased(s) = Leased(r) \ {r.i} /\ \A j \in Leased(s) : j < r.i
      /\ r.pc = "release" <=> r.i \in Leased(r)
  BY <1>1, <1>2 DEF Unwound, Leased
<1>5. Pending(s) = {}
  BY DEF Unwound, Pending
<1>6. Shape(s)
  BY <1>1, <1>2 DEF Unwound, Shape
<1> QED
  BY <1>3, <1>4, <1>5, <1>6

LEMMA AdmissionFrame ==
  ASSUME AdmissionInv, NEW c \in Calls, Only(c), UNCHANGED admission,
         call'[c].pc \in Inside <=> call[c].pc \in Inside
  PROVE  AdmissionInv'
  BY DEF AdmissionInv, Only, admission

LEMMA CountFrame ==
  ASSUME CountInv, UNCHANGED <<guards, activeByDef>>
  PROVE  CountInv'
  BY DEF CountInv, HeldOf

\* A step of c that touches neither guards nor leases.
LEMMA Quiet ==
  ASSUME CallInv, NEW c \in Calls, NEW r \in CallType, Becomes(c, r), UNCHANGED manager,
         Shape(r), inside' \in SUBSET Calls, closing' \in BOOLEAN, drained' \in BOOLEAN,
         AdmissionInv',
         Guarded(r) \subseteq Guarded(call[c]), Pending(r) \subseteq Pending(call[c]),
         Leased(r) = Leased(call[c]),
         \/ r.owner = call[c].owner /\ r.plan = call[c].plan
         \/ Guarded(r) = {} /\ Pending(r) = {} /\ Leased(r) = {},
         r.res \in {"none", "nil"} => call[c].res \in {"none", "nil"} \/ c \notin lost,
         \/ r.by = "nobody"
         \/ r.by = call[c].by /\ r.plan = call[c].plan,
         \/ call[c].pc \notin Inside \ {"guard"}
         \/ /\ r.pc \in Inside \ {"guard", "acquire"} /\ r.plan = call[c].plan
  PROVE  CallInv'
<1>1. Only(c) /\ call'[c] = r /\ call' \in [Calls -> CallType]
  BY OneCall, Zenon DEF CallInv
<1>2. TypeInv'
  BY <1>1, Zenon DEF CallInv, TypeInv, manager
<1>3. \A d \in Calls : Shape(call'[d])
  BY <1>1, Zenon DEF CallInv, Only
<1>4. GuardInv'
  BY <1>1, GuardFrame, Zenon DEF CallInv, manager
<1>5. LeaseInv'
  BY <1>1, LeaseFrame, Zenon DEF CallInv, manager
<1>6. LossInv'
  BY <1>1, LossFrame, Zenon DEF CallInv, TypeInv, manager
<1>7. RefusalInv'
  <2>1. "nobody" \notin Calls
    BY RuntimeAssumption, Zenon
  <2> QED
    BY <1>1, <2>1, RefusalFrame, Zenon DEF CallInv
<1>8. CountInv' /\ PendingInv'
  BY <1>1, CountFrame, PendingFrame, Zenon DEF CallInv, manager
<1> QED
  BY <1>2, <1>3, <1>4, <1>5, <1>6, <1>7, <1>8, Zenon DEF CallInv

-----------------------------------------------------------------------------
(***************************************************************************)
(* Every step preserves CallInv: one lemma per action.                     *)
(***************************************************************************)
LEMMA IdleFacts ==
  /\ Idle \in CallType /\ Shape(Idle) /\ Idle.pc = "idle" /\ Idle.by = "nobody"
  /\ Idle.res = "none" /\ Guarded(Idle) = {} /\ Pending(Idle) = {} /\ Leased(Idle) = {}
<1>1. Idle \in CallType
  BY DEF Idle, CallType, Stages, Results
<1>2. /\ Idle.pc = "idle" /\ Idle.by = "nobody" /\ Idle.res = "none"
      /\ Idle.plan = <<>> /\ 1..Len(Idle.plan) = {}
  BY DEF Idle
<1>3. Ordered(Idle.plan)
  BY <1>2, Zenon DEF Ordered
<1>4. Guarded(Idle) = {} /\ Pending(Idle) = {} /\ Leased(Idle) = {}
  BY <1>2, Zenon DEF Guarded, Pending, Leased
<1> QED
  BY <1>1, <1>2, <1>3, <1>4 DEF Shape

LEMMA CallInit == ASSUME Library PROVE Init => CallInv
<1> SUFFICES ASSUME Init PROVE CallInv
  OBVIOUS
<1>1. \A c \in Calls : call[c] = Idle
  BY DEF Init
<1>2. TypeInv
  <2>1. call \in [Calls -> CallType]
    BY <1>1, IdleFacts DEF Init
  <2>2. leases \in [Members -> Lease]
    BY DEF Init, Free, Lease
  <2>3. /\ guards \in [Members \X Owners -> {"none", "pending", "held"}]
        /\ activeByDef \in [Defs -> Int]
    BY DEF Init
  <2>4. closing \in BOOLEAN /\ drained \in BOOLEAN /\ inside \in SUBSET Calls /\ lost \in SUBSET Calls
    BY Zenon DEF Init, Admission!Init
  <2> QED
    BY <2>1, <2>2, <2>3, <2>4 DEF TypeInv
<1>3. \A m \in Members : leases[m].by \notin Calls
  BY RuntimeAssumption, Zenon DEF Init, Free
<1>4. GuardInv /\ LeaseInv
  BY <1>1, <1>3, IdleFacts, Zenon DEF GuardInv, LeaseInv
<1>5. LossInv
  BY <1>1, IdleFacts, Zenon DEF LossInv, Init
<1>6. RefusalInv
  BY <1>1, IdleFacts, RuntimeAssumption, Zenon DEF RefusalInv
<1>7. AdmissionInv
  BY <1>1, IdleFacts DEF AdmissionInv, Init, Admission!Init, Inside
<1>8. CountInv /\ PendingInv
  <2>1. \A d \in Defs : HeldOf(d) = {}
    BY DEF HeldOf, Init
  <2> QED
    BY <1>1, <2>1, IdleFacts, Zenon DEF CountInv, PendingInv, Init, Library, Counting
<1> QED
  BY <1>1, <1>2, <1>4, <1>5, <1>6, <1>7, <1>8, IdleFacts DEF CallInv

\* A call outside the manager has nothing there.
LEMMA OutsideFacts ==
  ASSUME CallInv, NEW c \in Calls, call[c].pc \in {"idle", "check", "admit"}
  PROVE  /\ Guarded(call[c]) = {} /\ Pending(call[c]) = {} /\ Leased(call[c]) = {}
         /\ call[c].res = "none" /\ call[c].by = "nobody" /\ call[c].pc \notin Inside
  BY DEF CallInv, Shape, Guarded, Pending, Leased, Inside

LEMMA Outside ==
  ASSUME CallInv, NEW c \in Calls, call[c].pc \in {"idle", "check", "admit"},
         NEW r \in CallType, Becomes(c, r), UNCHANGED <<manager, admission>>,
         Shape(r), r.pc \in {"idle", "check", "admit"}
  PROVE  CallInv'
<1>1. /\ Guarded(r) = {} /\ Pending(r) = {} /\ Leased(r) = {}
      /\ r.by = "nobody" /\ r.pc \notin Inside
  BY Zenon DEF Shape, Guarded, Pending, Leased, Inside
<1>2. Only(c) /\ call'[c] = r
  BY OneCall DEF CallInv
<1>3. AdmissionInv'
  BY <1>1, <1>2, OutsideFacts, AdmissionFrame, Zenon DEF CallInv
<1>4. inside' \in SUBSET Calls /\ closing' \in BOOLEAN /\ drained' \in BOOLEAN
  BY DEF CallInv, TypeInv, admission
<1> QED
  BY <1>1, <1>3, <1>4, OutsideFacts, Quiet, Zenon

LEMMA StartStep ==
  ASSUME CallInv, NEW c \in Calls, NEW op \in {"exclusive", "multiple", "composite"},
         NEW checks \in Seq(Members), NEW plan \in Seq(Members), Ordered(plan),
         Start(c, op, checks, plan)
  PROVE  CallInv'
<1>1. PICK o \in Owners :
         Becomes(c, [Idle EXCEPT !.op = op, !.owner = o, !.pc = "check", !.checks = checks,
                                 !.plan = plan])
  BY Zenon DEF Start
<1> DEFINE r == [Idle EXCEPT !.op = op, !.owner = o, !.pc = "check", !.checks = checks,
                             !.plan = plan]
<1>2. "check" \in Stages
  BY DEF Stages
<1>3. /\ r \in CallType /\ r.pc = "check" /\ r.owner = o /\ r.plan = plan
      /\ r.res = Idle.res /\ r.by = Idle.by
  BY <1>2, IdleFacts, Zenon DEF CallType
<1> HIDE DEF r
<1>4. Shape(r)
  BY <1>3, IdleFacts DEF Shape
<1>5. Becomes(c, r)
  BY <1>1 DEF r
<1>6. call[c].pc \in {"idle", "check", "admit"} /\ UNCHANGED <<manager, admission>>
  BY DEF Start
<1>7. r.pc \in {"idle", "check", "admit"}
  BY <1>3
<1> QED
  BY <1>3, <1>4, <1>5, <1>6, <1>7, Outside, Zenon

LEMMA PrecheckStep ==
  ASSUME CallInv, NEW c \in Calls, Precheck(c)
  PROVE  CallInv'
<1>1. /\ call[c].pc = "check" /\ call[c] \in CallType /\ Shape(call[c])
      /\ UNCHANGED <<manager, admission>>
  BY Zenon DEF Precheck, CallInv, TypeInv
<1>2. CASE Becomes(c, At(c, "admit", 1))
  <2>1. "admit" \in Stages /\ 1 \in Nat
    BY DEF Stages
  <2>2. Shape(At(c, "admit", 1))
    BY <1>1, <2>1, AtFields DEF CallInv, Shape
  <2> QED
    BY <1>1, <1>2, <2>1, <2>2, AtFields, Outside DEF CallInv
<1>3. CASE call[c].checks # <<>> /\ Becomes(c, [call[c] EXCEPT !.checks = Tail(@)])
  <2> DEFINE r == [call[c] EXCEPT !.checks = Tail(call[c].checks)]
  <2>1. Tail(call[c].checks) \in Seq(Members)
    BY <1>1, <1>3 DEF CallType
  <2>2. /\ r \in CallType /\ r.pc = call[c].pc /\ r.owner = call[c].owner /\ r.i = call[c].i
        /\ r.plan = call[c].plan /\ r.res = call[c].res /\ r.by = call[c].by
    BY <1>1, <2>1, Zenon DEF CallType
  <2>3. Becomes(c, r)
    BY <1>3, Zenon
  <2> HIDE DEF r
  <2>4. Shape(r)
    BY <1>1, <2>2, Zenon DEF Shape
  <2> QED
    BY <1>1, <2>2, <2>3, <2>4, Outside, Zenon
<1>4. CASE Return(c)
  BY <1>1, <1>4, IdleFacts, Outside DEF Return
<1> QED
  BY <1>2, <1>3, <1>4, Zenon DEF Precheck

LEMMA AdmitStep ==
  ASSUME CallInv, NEW c \in Calls, Admit(c)
  PROVE  CallInv'
<1>1. /\ call[c].pc = "admit" /\ call[c] \in CallType /\ Shape(call[c]) /\ UNCHANGED manager
  BY DEF Admit, CallInv, TypeInv
<1>2. CASE Return(c) /\ UNCHANGED admission
  BY <1>1, <1>2, IdleFacts, Outside DEF Return
<1>3. CASE /\ Admission!Admit(c)
           /\ Becomes(c, At(c, IF call[c].plan = <<>> THEN "run" ELSE "guard", 1))
  <2> DEFINE pc == IF call[c].plan = <<>> THEN "run" ELSE "guard"
             r == At(c, pc, 1)
  <2>1. pc \in Stages /\ 1 \in Nat
    BY DEF Stages
  <2>2. /\ r \in CallType /\ r.pc = pc /\ r.i = 1 /\ r.owner = call[c].owner
        /\ r.plan = call[c].plan /\ r.res = call[c].res /\ r.by = call[c].by
    BY <2>1, AtFields DEF CallInv
  <2> HIDE DEF r
  <2>3. Len(r.plan) \in Nat /\ (r.plan = <<>> <=> Len(r.plan) = 0) /\ r.plan \in Seq(Members)
    BY <2>2 DEF CallType
  <2>4. Guarded(r) = {} /\ Pending(r) = {} /\ Leased(r) = {}
    BY <2>2, <2>3 DEF Guarded, Pending, Leased
  <2>5. Shape(r)
    BY <1>1, <2>2, <2>3 DEF Shape
  <2>6. Becomes(c, r)
    BY <1>3 DEF r
  <2>7. Only(c) /\ call'[c] = r
    BY <2>2, <2>6, OneCall, Zenon DEF CallInv
  <2>8. /\ inside' = inside \cup {c} /\ UNCHANGED <<closing, drained>> /\ ~closing
        /\ inside' \in SUBSET Calls /\ closing' \in BOOLEAN /\ drained' \in BOOLEAN
    BY <1>3 DEF Admission!Admit, CallInv, TypeInv
  <2>9. AdmissionInv'
    BY <2>2, <2>7, <2>8, Zenon DEF AdmissionInv, CallInv, Only, Inside
  <2> QED
    BY <1>1, <2>2, <2>4, <2>5, <2>6, <2>8, <2>9, OutsideFacts, Quiet, Zenon
<1> QED
  BY <1>2, <1>3 DEF Admit

LEMMA GuardAdded ==
  ASSUME GuardInv, PendingInv, guards \in [Members \X Owners -> {"none", "pending", "held"}],
         NEW c \in Calls, Only(c), NEW n,
         Guard(c, call[c].plan[n]) \in Members \X Owners,
         guards[Guard(c, call[c].plan[n])] = "none",
         guards' = [guards EXCEPT ![Guard(c, call[c].plan[n])] = "pending"],
         call'[c].owner = call[c].owner, call'[c].plan = call[c].plan,
         Guarded(call'[c]) = Guarded(call[c]) \cup {n},
         Pending(call'[c]) = Pending(call[c]) \cup {n}
  PROVE  GuardInv' /\ PendingInv'
<1> DEFINE G(d, j) == <<call[d].plan[j], call[d].owner>>
<1>1. /\ G(c, n) \in Members \X Owners /\ guards[G(c, n)] = "none"
      /\ guards' = [guards EXCEPT ![G(c, n)] = "pending"]
  BY Zenon DEF Guard
<1>2. ASSUME NEW d \in Calls, NEW j \in Guarded(call'[d])
      PROVE  /\ <<call'[d].plan[j], call'[d].owner>> = G(d, j)
             /\ \/ d = c /\ j = n
                \/ j \in Guarded(call[d]) /\ guards[G(d, j)] # "none"
  <2>1. CASE d = c
    BY <2>1, Zenon DEF GuardInv, Guard
  <2>2. CASE d # c
    BY <2>2, Zenon DEF GuardInv, Guard, Only
  <2> QED
    BY <2>1, <2>2, Zenon
<1>3. ASSUME NEW d \in Calls, NEW j \in Pending(call'[d])
      PROVE  /\ <<call'[d].plan[j], call'[d].owner>> = G(d, j)
             /\ \/ d = c /\ j = n
                \/ j \in Pending(call[d]) /\ (DistinctIds => guards[G(d, j)] = "pending")
  <2>1. CASE d = c
    BY <2>1, Zenon DEF PendingInv, Guard
  <2>2. CASE d # c
    BY <2>2, Zenon DEF PendingInv, Guard, Only
  <2> QED
    BY <2>1, <2>2, Zenon
<1>4. /\ guards'[G(c, n)] = "pending"
      /\ \A g : g # G(c, n) => guards'[g] = guards[g]
  <2>1. G(c, n) \in DOMAIN guards
    BY <1>1, Zenon
  <2> QED
    BY <1>1, <2>1
<1> HIDE DEF G
<1>5. ASSUME NEW d \in Calls, NEW j \in Guarded(call'[d])
      PROVE  guards'[<<call'[d].plan[j], call'[d].owner>>] # "none"
  BY <1>2, <1>4, <1>5
<1>6. ASSUME DistinctIds, NEW d \in Calls, NEW j \in Pending(call'[d])
      PROVE  guards'[<<call'[d].plan[j], call'[d].owner>>] = "pending"
  BY <1>3, <1>4, <1>6
<1>7. ASSUME NEW d \in Calls, NEW e \in Calls,
             NEW j \in Guarded(call'[d]), NEW k \in Guarded(call'[e]),
             call'[d].owner = call'[e].owner, call'[d].plan[j] = call'[e].plan[k]
      PROVE  d = e /\ j = k
  <2>1. G(d, j) = G(e, k)
    BY <1>2, <1>7, Zenon
  <2>2. CASE d = c /\ j = n
    BY <1>1, <1>2, <1>7, <2>1, <2>2
  <2>3. CASE e = c /\ k = n
    BY <1>1, <1>2, <1>7, <2>1, <2>3
  <2>4. CASE j \in Guarded(call[d]) /\ k \in Guarded(call[e])
    BY <2>1, <2>4 DEF GuardInv, G
  <2> QED
    BY <1>2, <1>7, <2>2, <2>3, <2>4, Zenon
<1>8. \A d \in Calls : \A j \in Guarded(call'[d]) : guards'[Guard(d, call[d].plan[j])'] # "none"
  BY <1>5, Zenon DEF Guard
<1>9. DistinctIds => \A d \in Calls : \A j \in Pending(call'[d]) :
         guards'[Guard(d, call[d].plan[j])'] = "pending"
  BY <1>6, Zenon DEF Guard
<1>10. \A d, e \in Calls : \A j \in Guarded(call'[d]), k \in Guarded(call'[e]) :
          call'[d].owner = call'[e].owner /\ call'[d].plan[j] = call'[e].plan[k]
             => d = e /\ j = k
  BY <1>7
<1> QED
  BY <1>8, <1>9, <1>10, Zenon DEF GuardInv, PendingInv

\* The count of held guards does not see guards that are not held.
LEMMA CountPending ==
  ASSUME CountInv, NEW g, guards[g] = "none",
         guards' = [guards EXCEPT ![g] = "pending"], activeByDef' = activeByDef
  PROVE  CountInv'
<1>1. \A d \in Defs : HeldOf(d)' = HeldOf(d)
  BY DEF HeldOf
<1> QED
  BY <1>1 DEF CountInv

LEMMA InstallGuardStep ==
  ASSUME CallInv, NEW c \in Calls, InstallGuard(c)
  PROVE  CallInv'
<1> DEFINE n == call[c].i
           g == Guard(c, call[c].plan[n])
<1>1. /\ call[c].pc = "guard" /\ call[c] \in CallType /\ Shape(call[c])
      /\ UNCHANGED <<activeByDef, leases, lost, admission>>
  BY Zenon DEF InstallGuard, CallInv, TypeInv
<1>2. n \in 1..Len(call[c].plan) /\ call[c].plan \in Seq(Members) /\ call[c].owner \in Owners
  BY <1>1, Zenon DEF Shape, CallType
<1>3. call[c].plan[n] \in Members /\ Len(call[c].plan) \in Nat
  BY <1>2
<1>4. g \in Members \X Owners
  BY <1>2, <1>3, Zenon DEF Guard
<1>5. /\ Leased(call[c]) = {} /\ Guarded(call[c]) = Pending(call[c])
      /\ call[c].pc \in Inside /\ call[c].pc \notin Inside \ {"guard"}
      /\ call[c].res = "none" /\ call[c].by = "nobody"
  BY <1>1, Zenon DEF Leased, Guarded, Pending, Inside, Shape
<1>6. CASE /\ Becomes(c, [At(c, "leave", 1) EXCEPT !.res = "reentrant"])
           /\ UNCHANGED guards
  <2> DEFINE r == [At(c, "leave", 1) EXCEPT !.res = "reentrant"]
  <2>1. "leave" \in Stages /\ 1 \in Nat /\ "reentrant" \in Results
    BY DEF Stages, Results
  <2>2. At(c, "leave", 1) \in CallType
    BY <2>1, AtFields, Zenon DEF CallInv
  <2>3. /\ r \in CallType /\ r.pc = "leave" /\ r.i = 1 /\ r.owner = call[c].owner
        /\ r.plan = call[c].plan /\ r.res = "reentrant" /\ r.by = call[c].by
    BY <2>1, <2>2, AtFields, ResFields DEF CallInv
  <2>4. Becomes(c, r) /\ UNCHANGED manager
    BY <1>1, <1>6 DEF manager
  <2> HIDE DEF r
  <2>5. Guarded(r) = {} /\ Pending(r) = {} /\ Leased(r) = {}
    BY <2>3 DEF Guarded, Pending, Leased
  <2>6. Shape(r)
    BY <1>1, <2>3, Zenon DEF Shape
  <2>7. Only(c) /\ call'[c] = r
    BY <2>3, <2>4, OneCall DEF CallInv
  <2>8. AdmissionInv'
    BY <1>1, <1>5, <2>3, <2>7, AdmissionFrame, Zenon DEF CallInv, Inside
  <2>9. inside' \in SUBSET Calls /\ closing' \in BOOLEAN /\ drained' \in BOOLEAN
    BY <1>1 DEF CallInv, TypeInv, admission
  <2> QED
    BY <1>5, <2>3, <2>4, <2>5, <2>6, <2>8, <2>9, Quiet, Zenon
<1>7. CASE /\ guards[g] = "none"
           /\ guards' = [guards EXCEPT ![g] = "pending"]
           /\ Becomes(c, Advance(c, "acquire"))
  <2>1. Only(c) /\ call' \in [Calls -> CallType] /\ Follows(call'[c], call[c], "acquire")
    <3>1. "acquire" \in Stages
      BY DEF Stages
    <3> QED
      BY <1>1, <1>7, <3>1, AdvanceFollows, Zenon
  <2>2. /\ call'[c].owner = call[c].owner /\ call'[c].plan = call[c].plan
        /\ call'[c].res = call[c].res /\ call'[c].by = call[c].by
        /\ call'[c].pc \in {"guard", "acquire"}
    BY <1>1, <2>1, Zenon DEF Follows
  <2>3. /\ Shape(call'[c]) /\ Leased(call'[c]) = {}
        /\ Guarded(call'[c]) = Guarded(call[c]) \cup {n}
        /\ Pending(call'[c]) = Pending(call[c]) \cup {n}
    BY <1>1, <2>1, AfterGuard
  <2>4. TypeInv'
    <3>1. guards' \in [Members \X Owners -> {"none", "pending", "held"}]
      BY <1>7, Zenon DEF CallInv, TypeInv
    <3> QED
      BY <1>1, <2>1, <3>1, Zenon DEF CallInv, TypeInv, admission
  <2>5. \A d \in Calls : Shape(call'[d])
    BY <2>1, <2>3 DEF CallInv, Only
  <2>6. GuardInv' /\ PendingInv'
    <3>1. guards \in [Members \X Owners -> {"none", "pending", "held"}] /\ GuardInv /\ PendingInv
      BY DEF CallInv, TypeInv
    <3> QED
      BY <1>4, <1>7, <2>1, <2>2, <2>3, <3>1, GuardAdded, Zenon
  <2>7. LeaseInv'
    BY <1>1, <1>5, <2>1, <2>3, LeaseFrame, Zenon DEF CallInv
  <2>8. LossInv'
    BY <1>1, <1>5, <2>1, <2>2, <2>3, LossFrame, Zenon DEF CallInv, TypeInv
  <2>9. RefusalInv'
    BY <1>5, <2>1, <2>2, RuntimeAssumption, RefusalFrame, Zenon DEF CallInv
  <2>10. AdmissionInv'
    BY <1>1, <1>5, <2>1, <2>2, AdmissionFrame, Zenon DEF CallInv, Inside
  <2>11. CountInv'
    BY <1>1, <1>7, CountPending, Zenon DEF CallInv
  <2> QED
    BY <2>4, <2>5, <2>6, <2>7, <2>8, <2>9, <2>10, <2>11 DEF CallInv
<1>8. /\ guards[g] \in {"none", "pending", "held"}
  BY <1>4, Zenon DEF CallInv, TypeInv
<1> QED
  BY <1>6, <1>7, Zenon DEF InstallGuard, Current

LEMMA CallbackStep ==
  ASSUME CallInv, NEW c \in Calls, Callback(c)
  PROVE  CallInv'
<1> DEFINE n == Len(call[c].plan)
<1>1. /\ call[c].pc = "run" /\ call[c] \in CallType /\ Shape(call[c])
      /\ UNCHANGED <<manager, admission>>
  BY Zenon DEF Callback, CallInv, TypeInv
<1>2. call[c].plan \in Seq(Members) /\ n \in Nat /\ (call[c].plan = <<>> <=> n = 0)
  BY <1>1 DEF CallType
<1>3. PICK result \in {"nil", "error"} :
         Becomes(c, IF call[c].plan = <<>> THEN [At(c, "leave", 1) EXCEPT !.res = result]
                                           ELSE Unwind(c, n, result))
  BY Zenon DEF Callback
<1>4. result \in Results /\ result # "none" /\ "leave" \in Stages /\ 1 \in Nat
  BY DEF Results, Stages
<1>5. PICK r \in CallType :
         /\ Becomes(c, r) /\ r.owner = call[c].owner /\ r.plan = call[c].plan
         /\ r.res = result /\ r.by = call[c].by
         /\ \/ n = 0 /\ r.pc = "leave"
            \/ n > 0 /\ r.pc = "release" /\ r.i = n
  <2>1. CASE n = 0
    <3>1. At(c, "leave", 1) \in CallType
      BY <1>4, AtFields, Zenon DEF CallInv
    <3> DEFINE r == [At(c, "leave", 1) EXCEPT !.res = result]
    <3>2. /\ r \in CallType /\ r.pc = "leave" /\ r.owner = call[c].owner
          /\ r.plan = call[c].plan /\ r.res = result /\ r.by = call[c].by
      BY <1>4, <3>1, AtFields, ResFields DEF CallInv
    <3>3. Becomes(c, r)
      BY <1>2, <1>3, <2>1
    <3> HIDE DEF r
    <3> QED
      BY <2>1, <3>2, <3>3, Zenon
  <2>2. CASE n # 0
    BY <1>2, <1>3, <1>4, <2>2, UnwindFields DEF CallInv
  <2> QED
    BY <2>1, <2>2, Zenon
<1>6. /\ Guarded(r) = Guarded(call[c]) /\ Pending(r) = {} /\ Leased(r) = Leased(call[c])
  BY <1>1, <1>2, <1>5 DEF Guarded, Pending, Leased
<1>7. Shape(r)
  BY <1>1, <1>2, <1>4, <1>5 DEF Shape
<1>8. Only(c) /\ call'[c] = r
  BY <1>5, OneCall, Zenon DEF CallInv
<1>9. AdmissionInv'
  BY <1>1, <1>5, <1>8, AdmissionFrame, Zenon DEF CallInv, Inside
<1>10. inside' \in SUBSET Calls /\ closing' \in BOOLEAN /\ drained' \in BOOLEAN
  BY <1>1 DEF CallInv, TypeInv, admission
<1>11. call[c].res = "none" /\ r.pc \in Inside \ {"guard", "acquire"}
  BY <1>1, <1>5, Zenon DEF Shape, Inside
<1> QED
  BY <1>1, <1>5, <1>6, <1>7, <1>9, <1>10, <1>11, Quiet, Zenon

LEMMA LeasedIsGuarded ==
  \A r : Leased(r) \subseteq Guarded(r) /\ Pending(r) \subseteq Guarded(r)
  BY DEF Leased, Guarded, Pending

LEMMA GuardUnique ==
  ASSUME CallInv, NEW c \in Calls, NEW d \in Calls, NEW j \in Guarded(call[c]),
         NEW k \in Guarded(call[d]), call[c].owner = call[d].owner,
         call[c].plan[j] = call[d].plan[k]
  PROVE  c = d /\ j = k
  BY DEF CallInv, GuardInv

\* What a leased or guarded position of a plan stands for.
LEMMA PlanFacts ==
  ASSUME CallInv, NEW c \in Calls, NEW j \in Guarded(call[c])
  PROVE  /\ j \in Nat /\ call[c].plan[j] \in Members /\ call[c].owner \in Owners
         /\ Guard(c, call[c].plan[j]) \in Members \X Owners
<1>1. call[c] \in CallType /\ Shape(call[c])
  BY DEF CallInv, TypeInv
<1>2. /\ j \in 1..Len(call[c].plan) /\ call[c].plan \in Seq(Members)
      /\ call[c].pc # "idle"
  BY <1>1, Zenon DEF Guarded, CallType
<1>3. call[c].plan[j] \in Members /\ call[c].owner \in Owners /\ j \in Nat
  BY <1>1, <1>2 DEF Shape
<1> QED
  BY <1>3, Zenon DEF Guard

\* The lease of m is in nobody's hands after the step; a call gives back only
\* a lease that is its own, and knows when it lost one.
Dropped(m) == /\ leases'[m].by \notin Calls
              /\ \A n \in Members \ {m} : leases'[n] = leases[n]
Kept == \A d \in Calls : /\ call'[d].owner = call[d].owner /\ call'[d].plan = call[d].plan
                         /\ Leased(call'[d]) \subseteq Leased(call[d])
GivenBack(m) == \A d \in Calls : \A j \in Leased(call[d]) \ Leased(call'[d]) :
                   call[d].plan[j] = m /\ leases[m].by = d
Missing(m) == \A d \in Calls : \A j \in Leased(call'[d]) : call[d].plan[j] = m =>
                 leases'[m].owner # call[d].owner /\ (leases[m].by = d => d \in lost')
LossKnown(m) == /\ lost \subseteq lost' /\ lost' \subseteq Calls
                /\ \A d \in lost' : call'[d].res \in {"none", "nil"} =>
                      \/ d \in lost /\ call[d].res \in {"none", "nil"}
                      \/ \E j \in Leased(call'[d]) : call[d].plan[j] = m



LEMMA LeaseDropped ==
  ASSUME CallInv, NEW m \in Members, Dropped(m), Kept, GivenBack(m), Missing(m), LossKnown(m)
  PROVE  LeaseInv' /\ LossInv'
<1>1. LeaseInv /\ LossInv
  BY DEF CallInv
<1>2. ASSUME NEW d \in Calls, NEW j \in Leased(call'[d])
      PROVE  /\ j \in Leased(call[d]) /\ call[d].plan[j] \in Members
             /\ call'[d].plan[j] = call[d].plan[j] /\ call'[d].owner = call[d].owner
  <2>1. /\ j \in Leased(call[d]) /\ call'[d].plan[j] = call[d].plan[j]
        /\ call'[d].owner = call[d].owner
    BY Zenon DEF Kept
  <2> QED
    BY <2>1, LeasedIsGuarded, PlanFacts, Zenon
<1>3. ASSUME NEW n \in Members, leases'[n].by \in Calls
      PROVE  /\ leases'[n].owner = call'[leases'[n].by].owner
             /\ \E j \in Leased(call'[leases'[n].by]) : call'[leases'[n].by].plan[j] = n
  <2>1. n # m /\ leases'[n] = leases[n]
    BY <1>3 DEF Dropped
  <2>2. PICK d \in Calls : d = leases[n].by
    BY <1>3, <2>1
  <2>3. leases[n].owner = call[d].owner
    BY <1>1, <2>2, Zenon DEF LeaseInv
  <2>4. PICK j \in Leased(call[d]) : call[d].plan[j] = n
    BY <1>1, <2>2, Zenon DEF LeaseInv
  <2>5. /\ j \in Leased(call'[d]) /\ call'[d].plan[j] = n /\ call'[d].owner = call[d].owner
    BY <2>1, <2>4 DEF GivenBack, Kept
  <2> QED
    BY <2>1, <2>2, <2>3, <2>5, Zenon
<1>4. ASSUME NEW d \in Calls, NEW j \in Leased(call'[d]),
             leases'[call'[d].plan[j]].owner = call'[d].owner
      PROVE  leases'[call'[d].plan[j]].by = d
  <2>1. call[d].plan[j] # m
    BY <1>2, <1>4 DEF Missing
  <2>2. leases'[call[d].plan[j]] = leases[call[d].plan[j]]
    BY <1>2, <2>1, Zenon DEF Dropped
  <2>3. /\ j \in Leased(call[d]) /\ leases[call[d].plan[j]].owner = call[d].owner
        /\ call'[d].plan[j] = call[d].plan[j]
    BY <1>2, <1>4, <2>2, Zenon
  <2>4. leases[call[d].plan[j]].by = d
    BY <1>1, <2>3, Zenon DEF LeaseInv
  <2> QED
    BY <2>2, <2>3, <2>4, Zenon
<1>5. ASSUME NEW d \in Calls, d \notin lost', NEW j \in Leased(call'[d])
      PROVE  leases'[call'[d].plan[j]].by = d
  <2>1. leases[call[d].plan[j]].by = d
    BY <1>1, <1>2, <1>5, Zenon DEF LossInv, LossKnown
  <2>2. call[d].plan[j] # m
    BY <1>5, <2>1, Zenon DEF Missing
  <2> QED
    BY <1>2, <2>1, <2>2, Zenon DEF Dropped
<1>6. ASSUME NEW d \in lost', call'[d].res \in {"none", "nil"}
      PROVE  \E j \in Leased(call'[d]) : leases'[call'[d].plan[j]].by # d
  <2>1. d \in Calls
    BY DEF LossKnown
  <2>2. CASE \E j \in Leased(call'[d]) : call[d].plan[j] = m
    BY <1>2, <2>1, <2>2 DEF Dropped
  <2>3. CASE d \in lost /\ call[d].res \in {"none", "nil"}
    <3>1. PICK j \in Leased(call[d]) : leases[call[d].plan[j]].by # d
      BY <1>1, <2>3, Zenon DEF LossInv
    <3>2. j \in Leased(call'[d])
      BY <2>1, <3>1, Zenon DEF GivenBack
    <3>3. leases'[call[d].plan[j]].by # d
      BY <1>2, <2>1, <3>1, <3>2, Zenon DEF Dropped
    <3> QED
      BY <1>2, <2>1, <3>2, <3>3, Zenon
  <2> QED
    BY <1>6, <2>2, <2>3, Zenon DEF LossKnown
<1> QED
  BY <1>3, <1>4, <1>5, <1>6, Zenon DEF LeaseInv, LossInv

LEMMA RefusalAdded ==
  ASSUME RefusalInv, NEW c \in Calls, Only(c), call'[c].plan = call[c].plan,
         call'[c].pc \in Inside \ {"guard", "acquire"},
         \A b \in Calls : call'[c].by = b =>
            call'[b].pc \in Inside \ {"guard"} /\ \E p, q \in Nat : InTheWay(c, b, p, q)'
  PROVE  RefusalInv'
<1> SUFFICES ASSUME NEW a \in Calls, NEW b \in Calls, call'[a].by = b, a # c
             PROVE  /\ call'[b].pc \in Inside \ {"guard"}
                    /\ \E p, q \in Nat : InTheWay(a, b, p, q)'
  BY Zenon DEF RefusalInv
<1>1. call[a].by = b /\ call'[a] = call[a]
  BY Zenon DEF Only
<1>2. call[b].pc \in Inside \ {"guard"}
  BY <1>1, Zenon DEF RefusalInv
<1>3. PICK p \in Nat, q \in Nat : InTheWay(a, b, p, q)
  BY <1>1, Zenon DEF RefusalInv
<1>4. /\ call'[b].pc \in Inside \ {"guard"} /\ call'[b].plan = call[b].plan
      /\ call'[b].pc = "acquire" => call'[b] = call[b]
  BY <1>2, Zenon DEF Only
<1>5. InTheWay(a, b, p, q)'
  BY <1>1, <1>3, <1>4, Zenon DEF InTheWay
<1> QED
  BY <1>4, <1>5, Zenon

\* A lease that changes, and one whose release will fail.
LEMMA LeaseReplaced ==
  ASSUME NEW L \in [Members -> Lease], NEW m \in Members, NEW v \in Lease
  PROVE  /\ [L EXCEPT ![m] = v] \in [Members -> Lease] /\ [L EXCEPT ![m] = v][m] = v
         /\ \A k \in Members \ {m} : [L EXCEPT ![m] = v][k] = L[k]
  OBVIOUS

LEMMA LeaseLeft ==
  ASSUME NEW L \in [Members -> Lease], NEW m \in Members,
         NEW b \in Calls \cup {"nobody", "other"}
  PROVE  /\ [L EXCEPT ![m].by = b] \in [Members -> Lease]
         /\ [L EXCEPT ![m].by = b][m].by = b
         /\ [L EXCEPT ![m].by = b][m].owner = L[m].owner
         /\ \A k \in Members \ {m} : [L EXCEPT ![m].by = b][k] = L[k]
  BY DEF Lease

LEMMA LeaseValues ==
  /\ Free \in Lease /\ Free.by = "nobody" /\ Free.owner = "none"
  /\ [by |-> "other", owner |-> "other"] \in Lease
  /\ \A b \in Calls \cup {"nobody"}, o \in Owners : [by |-> b, owner |-> o] \in Lease
  BY DEF Free, Lease

LEMMA LeaseFreed ==
  ASSUME TypeInv, NEW m \in Members, leases' = [leases EXCEPT ![m] = Free]
  PROVE  Dropped(m) /\ leases'[m].owner \notin Owners /\ leases' \in [Members -> Lease]
<1>1. leases \in [Members -> Lease]
  BY DEF TypeInv
<1>2. /\ leases' \in [Members -> Lease] /\ leases'[m] = Free
      /\ \A k \in Members \ {m} : leases'[k] = leases[k]
  BY <1>1, LeaseValues, LeaseReplaced
<1> QED
  BY <1>2, LeaseValues, RuntimeAssumption, Zenon DEF Dropped

\* c acquires the lease of the n-th member of its plan.
LEMMA LeaseTaken ==
  ASSUME CallInv, NEW c \in Calls, Only(c), NEW n \in Guarded(call[c]), n \notin Leased(call[c]),
         NEW m \in Members, call[c].plan[n] = m, leases[m].by \notin Calls,
         leases'[m].by = c, leases'[m].owner = call[c].owner,
         \A k \in Members \ {m} : leases'[k] = leases[k], lost' = lost,
         call'[c].owner = call[c].owner, call'[c].plan = call[c].plan,
         call'[c].res = call[c].res, Leased(call'[c]) = Leased(call[c]) \cup {n}
  PROVE  LeaseInv' /\ LossInv'
<1>1. LeaseInv /\ LossInv /\ GuardInv /\ lost \subseteq Calls
  BY Zenon DEF CallInv, TypeInv
<1>2. ASSUME NEW d \in Calls, NEW j \in Leased(call[d])
      PROVE  /\ call[d].plan[j] \in Members
             /\ d = c => call[d].plan[j] # m
             /\ call[d].plan[j] = m => call[d].owner # call[c].owner
  <2>1. call[d].plan[j] \in Members /\ j \in Guarded(call[d])
    BY LeasedIsGuarded, PlanFacts, Zenon
  <2> QED
    BY <1>1, <2>1 DEF GuardInv
<1>3. \A d \in Calls : /\ call'[d].owner = call[d].owner /\ call'[d].plan = call[d].plan
                       /\ call'[d].res = call[d].res
                       /\ Leased(call[d]) \subseteq Leased(call'[d])
                       /\ \A j \in Leased(call'[d]) \ Leased(call[d]) : d = c /\ j = n
  BY Zenon DEF Only
<1>4. ASSUME NEW k \in Members, leases'[k].by \in Calls
      PROVE  /\ leases'[k].owner = call'[leases'[k].by].owner
             /\ \E j \in Leased(call'[leases'[k].by]) : call'[leases'[k].by].plan[j] = k
  <2>1. CASE k = m
    BY <1>3, <2>1, Zenon
  <2>2. CASE k # m
    <3>1. leases'[k] = leases[k]
      BY <2>2, Zenon
    <3>2. PICK d \in Calls : d = leases[k].by
      BY <1>4, <3>1, Zenon
    <3>3. leases[k].owner = call[d].owner
      BY <1>1, <3>2, Zenon DEF LeaseInv
    <3>4. PICK j \in Leased(call[d]) : call[d].plan[j] = k
      BY <1>1, <3>2, Zenon DEF LeaseInv
    <3>5. /\ call'[d].owner = call[d].owner /\ call'[d].plan = call[d].plan
          /\ j \in Leased(call'[d])
      BY <1>3, <3>4, Zenon
    <3> QED
      BY <3>1, <3>2, <3>3, <3>4, <3>5, Zenon
  <2> QED
    BY <2>1, <2>2, Zenon
<1>5. ASSUME NEW d \in Calls, NEW j \in Leased(call'[d])
      PROVE  /\ call'[d].plan[j] = call[d].plan[j] /\ call'[d].owner = call[d].owner
             /\ \/ d = c /\ call[d].plan[j] = m
                \/ j \in Leased(call[d]) /\ call[d].plan[j] \in Members
  BY <1>2, <1>3, Zenon
<1>6. ASSUME NEW d \in Calls, NEW j \in Leased(call'[d]),
             leases'[call'[d].plan[j]].owner = call'[d].owner
      PROVE  leases'[call'[d].plan[j]].by = d
  <2>1. CASE d = c /\ call[d].plan[j] = m
    BY <1>5, <2>1, Zenon
  <2>2. CASE j \in Leased(call[d]) /\ call[d].plan[j] \in Members
    <3>0. leases'[call[d].plan[j]].owner = call[d].owner
      BY <1>5, <1>6, Zenon
    <3>1. call[d].plan[j] # m
      <4>1. call[d].plan[j] = m => call[d].owner # call[c].owner
        BY <1>2, <2>2, Zenon
      <4> QED
        BY <3>0, <4>1, Zenon
    <3>2. leases'[call[d].plan[j]] = leases[call[d].plan[j]]
      BY <2>2, <3>1, Zenon
    <3>3. leases[call[d].plan[j]].by = d
      <4>1. leases[call[d].plan[j]].owner = call[d].owner
        BY <3>0, <3>2, Zenon
      <4>2. \A i \in Leased(call[d]) : leases[call[d].plan[i]].owner = call[d].owner =>
               leases[call[d].plan[i]].by = d
        BY <1>1, Zenon DEF LeaseInv
      <4> QED
        BY <2>2, <4>1, <4>2, Zenon
    <3> QED
      BY <1>5, <3>2, <3>3, Zenon
  <2> QED
    BY <1>5, <2>1, <2>2, Zenon
<1>7. ASSUME NEW d \in Calls, d \notin lost', NEW j \in Leased(call'[d])
      PROVE  leases'[call'[d].plan[j]].by = d
  <2>1. CASE d = c /\ call[d].plan[j] = m
    BY <1>5, <2>1, Zenon
  <2>2. CASE j \in Leased(call[d]) /\ call[d].plan[j] \in Members
    <3>1. leases[call[d].plan[j]].by = d
      BY <1>1, <1>7, <2>2, Zenon DEF LossInv
    <3>2. call[d].plan[j] # m
      BY <3>1, Zenon
    <3>3. leases'[call[d].plan[j]] = leases[call[d].plan[j]]
      BY <2>2, <3>2, Zenon
    <3> QED
      BY <1>5, <3>1, <3>3, Zenon
  <2> QED
    BY <1>5, <2>1, <2>2, Zenon
<1>8. ASSUME NEW d \in lost', call'[d].res \in {"none", "nil"}
      PROVE  \E j \in Leased(call'[d]) : leases'[call'[d].plan[j]].by # d
  <2>1. d \in Calls /\ d \in lost /\ call[d].res \in {"none", "nil"}
    BY <1>1, <1>3, <1>8, Zenon
  <2>2. PICK j \in Leased(call[d]) : leases[call[d].plan[j]].by # d
    BY <1>1, <2>1, Zenon DEF LossInv
  <2>3. leases'[call[d].plan[j]].by # d
    <3>1. call[d].plan[j] \in Members /\ (d = c => call[d].plan[j] # m)
      BY <1>2, <2>1, <2>2, Zenon
    <3>2. CASE call[d].plan[j] = m
      BY <3>1, <3>2, Zenon
    <3>3. CASE call[d].plan[j] # m
      BY <2>2, <3>1, <3>3, Zenon
    <3> QED
      BY <3>2, <3>3, Zenon
  <2>4. j \in Leased(call'[d]) /\ call'[d].plan = call[d].plan
    BY <1>3, <2>1, <2>2, Zenon
  <2> QED
    BY <2>3, <2>4, Zenon
<1> QED
  BY <1>4, <1>6, <1>7, <1>8, Zenon DEF LeaseInv, LossInv

LEMMA OneMore ==
  ASSUME Library, NEW S, IsFiniteSet(S), NEW x, x \notin S
  PROVE  IsFiniteSet(S \cup {x}) /\ Cardinality(S \cup {x}) = Cardinality(S) + 1
  BY Zenon DEF Library, Counting

LEMMA OneLess ==
  ASSUME Library, NEW S, IsFiniteSet(S), NEW x, x \in S
  PROVE  IsFiniteSet(S \ {x}) /\ Cardinality(S \ {x}) = Cardinality(S) - 1
  BY Zenon DEF Library, Counting

LEMMA CountIsNatural == ASSUME Library, NEW S, IsFiniteSet(S) PROVE Cardinality(S) \in Nat
  BY Zenon DEF Library, Counting

\* One guard changes; one definition counts one more.
OneGuard(g, state) == guards'[g] = state /\ \A h : h # g => guards'[h] = guards[h]
OneCount(def) == \A d \in Defs : activeByDef'[d] = IF d = def THEN activeByDef[d] + 1
                                                              ELSE activeByDef[d]

\* A guard says "held" from now on, and the definition counts one more.
LEMMA GuardHeld ==
  ASSUME Library, CallInv, NEW c \in Calls, Only(c), NEW n \in Pending(call[c]), NEW k \in Guarded(call[c]),
         DistinctIds => call[c].plan[k] = call[c].plan[n],
         NEW g \in Members \X Owners, g = <<call[c].plan[k], call[c].owner>>,
         OneGuard(g, "held"), OneCount(call[c].plan[n].def),
         call'[c].owner = call[c].owner, call'[c].plan = call[c].plan,
         Guarded(call'[c]) = Guarded(call[c]), Pending(call'[c]) = Pending(call[c]) \ {n}
  PROVE  GuardInv' /\ PendingInv' /\ CountInv'
<1> DEFINE G(d, j) == <<call[d].plan[j], call[d].owner>>
<1>1. GuardInv /\ PendingInv /\ CountInv
  BY Zenon DEF CallInv
<1>2. \A d \in Calls : /\ call'[d].owner = call[d].owner /\ call'[d].plan = call[d].plan
                       /\ Guarded(call'[d]) = Guarded(call[d])
                       /\ Pending(call'[d]) \subseteq Pending(call[d])
                       /\ d = c => n \notin Pending(call'[d])
  BY Zenon DEF Only
<1>3. GuardInv'
  <2>1. ASSUME NEW d \in Calls, NEW j \in Guarded(call'[d])
        PROVE  guards'[G(d, j)] # "none"
    <3>1. guards[G(d, j)] # "none"
      BY <1>1, <1>2, Zenon DEF GuardInv, Guard
    <3> HIDE DEF G
    <3> QED
      BY <3>1, Zenon DEF OneGuard
  <2>2. \A d \in Calls : \A j \in Guarded(call'[d]) : guards'[Guard(d, call[d].plan[j])'] # "none"
    BY <1>2, <2>1 DEF Guard
  <2>3. \A d, e \in Calls : \A i \in Guarded(call'[d]), j \in Guarded(call'[e]) :
           call'[d].owner = call'[e].owner /\ call'[d].plan[i] = call'[e].plan[j]
              => d = e /\ i = j
    BY <1>1, <1>2 DEF GuardInv
  <2> QED
    BY <2>2, <2>3, Zenon DEF GuardInv
<1>4. PendingInv'
  <2>1. ASSUME DistinctIds, NEW d \in Calls, NEW j \in Pending(call'[d])
        PROVE  guards'[G(d, j)] = "pending"
    <3>1. j \in Pending(call[d]) /\ ~(d = c /\ j = n)
      BY <1>2, <2>1, Zenon
    <3>2. guards[G(d, j)] = "pending"
      BY <1>1, <2>1, <3>1, Zenon DEF PendingInv, Guard
    <3>3. j \in Guarded(call[d]) /\ n \in Guarded(call[c])
      BY <3>1, LeasedIsGuarded, Zenon
    <3>4. G(d, j) # G(c, n)
      BY <1>1, <3>1, <3>3 DEF GuardInv
    <3>5. g = G(c, n)
      BY <2>1, Zenon
    <3> HIDE DEF G
    <3> QED
      BY <3>2, <3>4, <3>5, Zenon DEF OneGuard
  <2>2. DistinctIds => \A d \in Calls : \A j \in Pending(call'[d]) :
                          guards'[Guard(d, call[d].plan[j])'] = "pending"
    BY <1>2, <2>1 DEF Guard
  <2> QED
    BY <2>2, Zenon DEF PendingInv
<1>5. CountInv'
  <2> SUFFICES ASSUME DistinctIds, NEW d \in Defs
               PROVE  /\ IsFiniteSet(HeldOf(d)')
                      /\ activeByDef'[d] = Cardinality(HeldOf(d)')
    BY Zenon DEF CountInv
  <2>1. /\ IsFiniteSet(HeldOf(d)) /\ activeByDef[d] = Cardinality(HeldOf(d))
        /\ Cardinality(HeldOf(d)) \in Nat
    BY <1>1, CountIsNatural, Zenon DEF CountInv
  <2>2. g = G(c, n) /\ g[1] = call[c].plan[n]
    BY Zenon
  <2>3. guards[g] = "pending"
    BY <1>1, <2>2, Zenon DEF PendingInv, Guard
  <2>4. HeldOf(d)' = {h \in Members \X Owners : h[1].def = d /\ guards'[h] = "held"}
    BY Zenon DEF HeldOf
  <2>5. CASE g[1].def = d
    <3>1. HeldOf(d)' = HeldOf(d) \cup {g} /\ g \notin HeldOf(d)
      BY <2>3, <2>4, <2>5, Zenon DEF HeldOf, OneGuard
    <3>2. activeByDef'[d] = activeByDef[d] + 1
      BY <2>2, <2>5, Zenon DEF OneCount
    <3>3. IsFiniteSet(HeldOf(d) \cup {g}) /\ Cardinality(HeldOf(d) \cup {g}) = Cardinality(HeldOf(d)) + 1
      BY <2>1, <3>1, OneMore, Zenon
    <3> QED
      BY <2>1, <3>1, <3>2, <3>3, Zenon
  <2>6. CASE g[1].def # d
    <3>1. HeldOf(d)' = HeldOf(d)
      BY <2>3, <2>4, <2>6, Zenon DEF HeldOf, OneGuard
    <3>2. activeByDef'[d] = activeByDef[d]
      BY <2>2, <2>6, Zenon DEF OneCount
    <3> QED
      BY <2>1, <3>1, <3>2, Zenon
  <2> QED
    BY <2>5, <2>6, Zenon
<1> QED
  BY <1>3, <1>4, <1>5, Zenon

LEMMA GuardIndexFacts ==
  ASSUME Library, CallInv, NEW c \in Calls, call[c].pc = "acquire"
  PROVE  /\ guardIndex(c) \in 1..Len(call[c].plan)
         /\ DistinctIds => call[c].plan[guardIndex(c)] = Current(c)
<1> DEFINE n == call[c].i
           P == {j \in DOMAIN call[c].plan : call[c].plan[j].joined = Current(c).joined}
           K == Cardinality(P)
           f == Increasing(P)
<1>1. call[c] \in CallType /\ Shape(call[c])
  BY DEF CallInv, TypeInv
<1>2. n \in 1..Len(call[c].plan) /\ call[c].plan \in Seq(Members) /\ Current(c) = call[c].plan[n]
  BY <1>1, Zenon DEF Shape, CallType, Current
<1>3. /\ Len(call[c].plan) \in Nat /\ DOMAIN call[c].plan = 1..Len(call[c].plan)
      /\ \A j \in 1..Len(call[c].plan) : call[c].plan[j] \in Members
  BY <1>2
<1>4. CASE call[c].op # "composite"
  BY <1>2, <1>4, Zenon DEF guardIndex
<1>5. CASE call[c].op = "composite"
  <2>1. P \in SUBSET (1..Len(call[c].plan)) /\ P # {}
    BY <1>2, <1>3, Zenon
  <2>2. K \in Nat /\ f \in [1..K -> P] /\ K > 0
    BY <1>3, <2>1, Zenon DEF Library, Positions
  <2>3. guardIndex(c) = f[Len(f)]
    BY <1>5 DEF guardIndex
  <2> HIDE DEF f, K
  <2>4. Len(f) = K /\ f[K] \in P
    BY <2>2
  <2> QED
    BY <1>2, <1>3, <2>3, <2>4, Zenon DEF DistinctIds
<1> QED
  BY <1>4, <1>5, Zenon

\* What the acquire stage has at hand.
LEMMA AcquireFacts ==
  ASSUME CallInv, NEW c \in Calls, call[c].pc = "acquire"
  PROVE  /\ call[c] \in CallType /\ Shape(call[c])
         /\ call[c].i \in 1..Len(call[c].plan) /\ Len(call[c].plan) \in Nat
         /\ call[c].i \in Nat /\ call[c].i > 0
         /\ Current(c) = call[c].plan[call[c].i] /\ Current(c) \in Members
         /\ call[c].i \in Pending(call[c]) /\ call[c].i \in Guarded(call[c])
         /\ call[c].i \notin Leased(call[c])
         /\ Guarded(call[c]) = 1..Len(call[c].plan)
         /\ call[c].res = "none" /\ call[c].by = "nobody"
<1>1. call[c] \in CallType /\ Shape(call[c])
  BY DEF CallInv, TypeInv
<1>2. call[c].i \in 1..Len(call[c].plan) /\ call[c].plan \in Seq(Members)
  BY <1>1, Zenon DEF Shape, CallType
<1>3. /\ Len(call[c].plan) \in Nat /\ call[c].i \in Nat /\ call[c].i > 0
      /\ call[c].plan[call[c].i] \in Members
  BY <1>2
<1>4. /\ call[c].i \in Pending(call[c]) /\ call[c].i \in Guarded(call[c])
      /\ call[c].i \notin Leased(call[c])
      /\ Guarded(call[c]) = 1..Len(call[c].plan)
  BY <1>2, <1>3 DEF Pending, Guarded, Leased
<1> QED
  BY <1>1, <1>2, <1>3, <1>4, Zenon DEF Current, Shape

\* The two outcomes of acquireLease.
Granted(c) ==
    /\ leases[Current(c)] = Free
    /\ leases' = [leases EXCEPT ![Current(c)] = [by |-> c, owner |-> call[c].owner]]
    /\ guards' = [guards EXCEPT ![Guard(c, call[c].plan[guardIndex(c)])] = "held"]
    /\ activeByDef' = [activeByDef EXCEPT ![Current(c).def] = @ + 1]
    /\ Becomes(c, Advance(c, "run"))

NotGranted(c) ==
    /\ \E result \in {"busy", "error"} : Refused(c, result)
    /\ UNCHANGED <<guards, activeByDef>>
    /\ \/ leases' = leases
       \/ /\ leases[Current(c)] = Free
          /\ leases' = [leases EXCEPT ![Current(c)] = [by |-> "nobody", owner |-> call[c].owner]]

LEMMA GrantedStep ==
  ASSUME Library, CallInv, NEW c \in Calls, call[c].pc = "acquire", Granted(c), UNCHANGED <<lost, admission>>
  PROVE  CallInv'
<1> DEFINE n == call[c].i
           m == Current(c)
           k == guardIndex(c)
           g == <<call[c].plan[k], call[c].owner>>
<1>1. Only(c) /\ call' \in [Calls -> CallType] /\ Follows(call'[c], call[c], "run")
  <2>1. "run" \in Stages /\ Becomes(c, Advance(c, "run"))
    BY Zenon DEF Stages, Granted
  <2> QED
    BY <2>1, AdvanceFollows
<1>2. /\ call'[c].owner = call[c].owner /\ call'[c].plan = call[c].plan
      /\ call'[c].res = call[c].res /\ call'[c].by = call[c].by
      /\ call'[c].pc \in {"acquire", "run"} /\ (call'[c].pc = "acquire" => call'[c].i = n + 1)
  BY <1>1, Zenon DEF Follows
<1>3. /\ call[c] \in CallType /\ Shape(call[c]) /\ n \in Nat /\ n \in Pending(call[c])
      /\ n \in Guarded(call[c]) /\ n \notin Leased(call[c])
      /\ m = call[c].plan[n] /\ m \in Members /\ call[c].by = "nobody"
  BY AcquireFacts, Zenon
<1>4. /\ Shape(call'[c]) /\ Leased(call'[c]) = Leased(call[c]) \cup {n}
      /\ Guarded(call'[c]) = Guarded(call[c]) /\ Pending(call'[c]) = Pending(call[c]) \ {n}
  BY <1>1, <1>3, AfterAcquire, Zenon
<1>5. k \in Guarded(call[c]) /\ (DistinctIds => call[c].plan[k] = m)
  BY AcquireFacts, GuardIndexFacts, Zenon
<1>6. g \in Members \X Owners /\ call[c].owner \in Owners
  BY <1>5, PlanFacts, Zenon DEF Guard
<1>7. TypeInv
  BY DEF CallInv
<1> HIDE DEF m, k
<1>8. /\ leases[m] = Free /\ leases' = [leases EXCEPT ![m] = [by |-> c, owner |-> call[c].owner]]
      /\ guards' = [guards EXCEPT ![g] = "held"]
      /\ activeByDef' = [activeByDef EXCEPT ![m.def] = @ + 1]
  BY Zenon DEF Granted, Guard, m, k
<1> HIDE DEF g, n
<1>9. /\ leases[m].by \notin Calls /\ leases'[m].by = c /\ leases'[m].owner = call[c].owner
      /\ \A q \in Members \ {m} : leases'[q] = leases[q]
      /\ leases' \in [Members -> Lease]
  <2> DEFINE v == [by |-> c, owner |-> call[c].owner]
  <2>1. leases \in [Members -> Lease] /\ v \in Lease /\ v.by = c /\ v.owner = call[c].owner
    BY <1>6, <1>7, LeaseValues, Zenon DEF TypeInv
  <2> HIDE DEF v
  <2>2. leases' = [leases EXCEPT ![m] = v]
    BY <1>8 DEF v
  <2>3. leases[m].by \notin Calls
    BY <1>8, LeaseValues, RuntimeAssumption, Zenon
  <2> QED
    BY <1>3, <2>1, <2>2, <2>3, LeaseReplaced
<1>10. OneGuard(g, "held") /\ guards' \in [Members \X Owners -> {"none", "pending", "held"}]
  BY <1>6, <1>7, <1>8 DEF TypeInv, OneGuard
<1>11. activeByDef' \in [Defs -> Int] /\ OneCount(m.def)
  <2>1. activeByDef \in [Defs -> Int] /\ m.def \in Defs
    BY <1>3, <1>7, Zenon DEF TypeInv, Defs
  <2> QED
    BY <1>8, <2>1 DEF OneCount
<1>12. TypeInv'
  BY <1>1, <1>7, <1>9, <1>10, <1>11, Zenon DEF TypeInv, admission
<1>13. \A d \in Calls : Shape(call'[d])
  BY <1>1, <1>4 DEF CallInv, Only
<1>14. GuardInv' /\ PendingInv' /\ CountInv'
  <2>1. g = <<call[c].plan[k], call[c].owner>> /\ (DistinctIds => call[c].plan[k] = call[c].plan[n])
    BY <1>3, <1>5, Zenon DEF g
  <2>2. OneCount(call[c].plan[n].def)
    BY <1>3, <1>11, Zenon
  <2> QED
    BY <1>1, <1>2, <1>3, <1>4, <1>5, <1>6, <1>10, <2>1, <2>2, GuardHeld, Zenon
<1>15. LeaseInv' /\ LossInv'
  BY <1>1, <1>2, <1>3, <1>4, <1>9, LeaseTaken
<1>16. RefusalInv'
  <2>1. call'[c].pc \in Inside \ {"guard"} /\ "nobody" \notin Calls /\ RefusalInv
    BY <1>2, RuntimeAssumption, Zenon DEF Inside, CallInv
  <2>2. call'[c].pc = "acquire" => \A q \in Nat : q < call[c].i => q < call'[c].i
    BY <1>2, <1>3 DEF n
  <2> QED
    BY <1>1, <1>2, <1>3, <2>1, <2>2, RefusalFrame, Zenon
<1>17. AdmissionInv'
  BY <1>1, <1>2, AdmissionFrame, Zenon DEF CallInv, Inside
<1> QED
  BY <1>12, <1>13, <1>14, <1>15, <1>16, <1>17 DEF CallInv

-----------------------------------------------------------------------------
\* A refused acquire: what has been leased so far is what will be released.
LEMMA RefusedStep ==
  ASSUME CallInv, NEW c \in Calls, call[c].pc = "acquire", NotGranted(c),
         UNCHANGED <<lost, admission>>
  PROVE  CallInv'
<1> DEFINE n == call[c].i
           m == Current(c)
<1>1. PICK result \in {"busy", "error"} : Refused(c, result)
  BY DEF NotGranted
<1>2. /\ call[c] \in CallType /\ Shape(call[c]) /\ n \in Nat /\ n > 0
      /\ n \in Guarded(call[c]) /\ n \notin Leased(call[c]) /\ n \in 1..Len(call[c].plan)
      /\ m = call[c].plan[n] /\ m \in Members /\ call[c].res = "none" /\ TypeInv
      /\ call[c].owner \in Owners
  BY AcquireFacts, PositionFacts, Zenon DEF CallInv
<1> DEFINE by == IF result = "busy" /\ leases[m].by \in Calls
                 THEN IF Holding(leases[m].by, m) THEN leases[m].by ELSE "nobody"
                 ELSE "nobody"
           u == Unwind(c, n - 1, result)
           r == [u EXCEPT !.by = by]
<1>3. by \in Calls \cup {"nobody"} /\ (by \in Calls => by = leases[m].by /\ Holding(by, m))
  BY RuntimeAssumption, Zenon
<1>4. Becomes(c, r)
  BY <1>1, Zenon DEF Refused
<1> HIDE DEF by
<1>5. Unwound(r, call[c], n - 1) /\ r.by = by /\ r.res = result
  <2>1. n - 1 \in Nat /\ result \in Results /\ result # "none"
    BY <1>2 DEF Results
  <2>2. /\ u \in CallType /\ u.owner = call[c].owner /\ u.plan = call[c].plan /\ u.res = result
        /\ IF n - 1 = 0 THEN u.pc = "unguard" /\ u.i = 1 ELSE u.pc = "release" /\ u.i = n - 1
    BY <1>2, <2>1, UnwindFields
  <2> HIDE DEF u
  <2>3. /\ r \in CallType /\ r.owner = u.owner /\ r.plan = u.plan /\ r.res = u.res /\ r.by = by
        /\ r.pc = u.pc /\ r.i = u.i
    BY <1>3, <2>2, Zenon DEF CallType
  <2> HIDE DEF r
  <2> QED
    BY <2>1, <2>2, <2>3, Zenon DEF Unwound
<1> HIDE DEF r, u
<1>6. Only(c) /\ call'[c] = r /\ call' \in [Calls -> CallType]
  BY <1>2, <1>4, <1>5, OneCall, Zenon DEF Unwound
<1>7. /\ call'[c].owner = call[c].owner /\ call'[c].plan = call[c].plan
      /\ call'[c].res \notin {"none", "nil"} /\ call'[c].pc \in Inside \ {"guard", "acquire"}
  BY <1>5, <1>6, Zenon DEF Unwound, Inside
<1>8. /\ Shape(call'[c]) /\ Guarded(call'[c]) = Guarded(call[c]) /\ Pending(call'[c]) = {}
      /\ Leased(call'[c]) = Leased(call[c]) /\ \A j \in Leased(call'[c]) : j < n
  <2>1. Unwound(call'[c], call[c], call[c].i - 1)
    BY <1>5, <1>6
  <2>2. /\ Shape(call'[c]) /\ Guarded(call'[c]) = Guarded(call[c]) /\ Pending(call'[c]) = {}
        /\ Leased(call'[c]) = Leased(call[c]) \ {n} /\ \A j \in Leased(call'[c]) : j < n
    BY <1>2, <2>1, AfterUnwinding, Zenon
  <2> QED
    BY <1>2, <2>2, Zenon
<1>9. UNCHANGED <<guards, activeByDef>>
  BY DEF NotGranted
<1>10. \/ leases' = leases
       \/ /\ leases[m] = Free
          /\ leases' = [leases EXCEPT ![m] = [by |-> "nobody", owner |-> call[c].owner]]
  BY DEF NotGranted
<1> HIDE DEF m, n
<1>11. TypeInv'
  <2>1. leases' \in [Members -> Lease]
    <3> DEFINE v == [by |-> "nobody", owner |-> call[c].owner]
    <3>1. leases \in [Members -> Lease] /\ v \in Lease
      BY <1>2, LeaseValues, Zenon DEF TypeInv
    <3>2. leases' = leases \/ leases' = [leases EXCEPT ![m] = v]
      BY <1>10
    <3> HIDE DEF v
    <3> QED
      BY <1>2, <3>1, <3>2, LeaseReplaced
  <2> QED
    BY <1>2, <1>6, <1>9, <2>1, Zenon DEF TypeInv, admission
<1>12. \A d \in Calls : Shape(call'[d])
  BY <1>6, <1>8 DEF CallInv, Only
<1>13. GuardInv' /\ PendingInv' /\ CountInv'
  <2>1. GuardInv /\ PendingInv /\ CountInv
    BY DEF CallInv
  <2>2. GuardInv'
    BY <1>6, <1>7, <1>8, <1>9, <2>1, GuardFrame, Zenon
  <2>3. PendingInv'
    BY <1>6, <1>8, <1>9, <2>1, PendingFrame, Zenon
  <2> QED
    BY <1>9, <2>1, <2>2, <2>3, CountFrame
<1>14. lost' = lost /\ lost \subseteq Calls /\ LeaseInv /\ LossInv
  BY <1>2, Zenon DEF CallInv, TypeInv
<1>15. ASSUME leases' = leases
       PROVE  LeaseInv' /\ LossInv'
  <2>1. LeaseInv'
    BY <1>6, <1>7, <1>8, <1>14, <1>15, LeaseFrame, Zenon
  <2>2. LossInv'
    BY <1>6, <1>7, <1>8, <1>14, <1>15, LossFrame, Zenon
  <2> QED
    BY <2>1, <2>2
<1>16. ASSUME leases[m] = Free,
              leases' = [leases EXCEPT ![m] = [by |-> "nobody", owner |-> call[c].owner]]
       PROVE  LeaseInv' /\ LossInv'
  <2>1. Dropped(m) /\ leases'[m].owner = call[c].owner /\ leases[m].by \notin Calls
    <3> DEFINE v == [by |-> "nobody", owner |-> call[c].owner]
    <3>1. leases \in [Members -> Lease] /\ v \in Lease /\ v.by = "nobody" /\ v.owner = call[c].owner
      BY <1>2, LeaseValues, Zenon DEF TypeInv
    <3> HIDE DEF v
    <3>2. leases' = [leases EXCEPT ![m] = v]
      BY <1>16 DEF v
    <3>3. "nobody" \notin Calls /\ leases[m].by = "nobody"
      BY <1>16, LeaseValues, RuntimeAssumption, Zenon
    <3> QED
      BY <1>2, <3>1, <3>2, <3>3, LeaseReplaced DEF Dropped
  <2>2. \A d \in Calls : /\ call'[d].owner = call[d].owner /\ call'[d].plan = call[d].plan
                         /\ Leased(call'[d]) = Leased(call[d])
    BY <1>6, <1>7, <1>8, Zenon DEF Only
  <2>3. ASSUME NEW d \in Calls, NEW j \in Leased(call'[d]), call[d].plan[j] = m
        PROVE  call[d].owner # call[c].owner
    <3>1. j \in Guarded(call[d]) /\ j \in Leased(call[d])
      BY <2>2, <2>3, LeasedIsGuarded, Zenon
    <3>2. call[d].plan[j] = call[c].plan[n] /\ n \in Guarded(call[c]) /\ n \notin Leased(call[c])
      BY <1>2, <2>3, Zenon
    <3> QED
      BY <3>1, <3>2, GuardUnique, ZenonT(60)
  <2>4. ASSUME NEW d \in lost', call'[d].res \in {"none", "nil"}
        PROVE  d \in lost /\ call[d].res \in {"none", "nil"}
    BY <1>6, <1>7, <1>14, <2>4, Zenon DEF Only
  <2>5. Kept /\ GivenBack(m)
    BY <2>2, Zenon DEF Kept, GivenBack
  <2>6. Missing(m)
    BY <2>1, <2>3, Zenon DEF Missing
  <2>7. LossKnown(m)
    BY <1>14, <2>4, Zenon DEF LossKnown
  <2> QED
    BY <1>2, <2>1, <2>5, <2>6, <2>7, LeaseDropped, Zenon
<1>17. RefusalInv'
  <2>1. ASSUME NEW b \in Calls, call'[c].by = b
        PROVE  call'[b].pc \in Inside \ {"guard"} /\ \E p, q \in Nat : InTheWay(c, b, p, q)'
    <3>1. Holding(b, m)
      BY <1>3, <1>5, <1>6, <2>1
    <3>2. PICK q \in DOMAIN call[b].plan :
             /\ call[b].plan[q] = m
             /\ \/ call[b].pc = "acquire" /\ q < call[b].i
                \/ call[b].pc = "run"
                \/ call[b].pc = "release" /\ q <= call[b].i
      BY <3>1, Zenon DEF Holding
    <3>3. q \in 1..Len(call[b].plan) /\ q \in Nat
      <4>1. call[b].plan \in Seq(Members)
        BY <1>2, Zenon DEF TypeInv, CallType
      <4> QED
        BY <4>1
    <3>4. q \in Leased(call[b]) /\ call[b].pc \in Inside \ {"guard"}
      BY <3>2, <3>3, Zenon DEF Leased, Inside
    <3>5. b # c
      <4>1. q \in Guarded(call[b])
        BY <3>4, LeasedIsGuarded
      <4> QED
        BY <1>2, <3>2, <3>4, <4>1, GuardUnique
    <3>6. call'[b] = call[b]
      BY <1>6, <3>5 DEF Only
    <3>10. PICK p \in Nat : p = n
      BY <1>2, Zenon
    <3>7. p \in 1..Len(call'[c].plan) /\ call'[c].plan[p] = call'[b].plan[q]
      BY <1>2, <1>7, <3>2, <3>6, <3>10, Zenon
    <3>8. q \in 1..Len(call'[b].plan) /\ (call'[b].pc = "acquire" => q < call'[b].i)
      BY <3>2, <3>3, <3>6, Zenon
    <3>9. InTheWay(c, b, p, q)'
      BY <1>8, <3>7, <3>8, <3>10, Zenon DEF InTheWay
    <3> QED
      BY <3>3, <3>4, <3>6, <3>9, Zenon
  <2>2. RefusalInv
    BY DEF CallInv
  <2> QED
    BY <1>6, <1>7, <2>1, <2>2, RefusalAdded, Zenon
<1>18. AdmissionInv'
  BY <1>6, <1>7, AdmissionFrame, Zenon DEF CallInv, Inside
<1> QED
  BY <1>10, <1>11, <1>12, <1>13, <1>15, <1>16, <1>17, <1>18, Zenon DEF CallInv

LEMMA AcquireStep ==
  ASSUME Library, CallInv, NEW c \in Calls, AcquireLease(c)
  PROVE  CallInv'
<1>1. call[c].pc = "acquire" /\ UNCHANGED <<lost, admission>>
  BY Zenon DEF AcquireLease
<1>2. Granted(c) \/ NotGranted(c)
  BY Zenon DEF AcquireLease, Granted, NotGranted
<1> QED
  BY <1>1, <1>2, GrantedStep, RefusedStep

\* What a release leaves alone, whatever the driver answers.
LEMMA ReleaseFrame ==
  ASSUME CallInv, NEW c \in Calls, call[c].pc = "release", NEW r, Becomes(c, r),
         Unwound(r, call[c], call[c].i - 1), r.by = call[c].by,
         UNCHANGED <<guards, activeByDef, admission>>
  PROVE  /\ Only(c) /\ call'[c] = r /\ call' \in [Calls -> CallType]
         /\ \A d \in Calls : Shape(call'[d])
         /\ GuardInv' /\ PendingInv' /\ CountInv' /\ RefusalInv' /\ AdmissionInv'
         /\ Leased(call'[c]) = Leased(call[c]) \ {call[c].i}
         /\ Kept /\ call[c].i \in Guarded(call[c]) /\ call[c].i \in Leased(call[c])
<1>1. /\ TypeInv /\ GuardInv /\ PendingInv /\ CountInv /\ RefusalInv /\ AdmissionInv
      /\ call[c] \in CallType /\ Shape(call[c])
  BY PositionFacts, Zenon DEF CallInv
<1>2. Only(c) /\ call'[c] = r /\ call' \in [Calls -> CallType]
  BY <1>1, OneCall, Zenon DEF Unwound
<1>3. /\ call'[c].owner = call[c].owner /\ call'[c].plan = call[c].plan
      /\ call'[c].pc \in Inside \ {"guard", "acquire"}
  BY <1>2, Zenon DEF Unwound, Inside
<1>4. /\ Shape(r) /\ Guarded(r) = Guarded(call[c]) /\ Pending(r) = {}
      /\ Leased(r) = Leased(call[c]) \ {call[c].i}
      /\ call[c].i \in Guarded(call[c]) /\ call[c].i \in Leased(call[c])
  BY <1>1, AfterUnwinding, Zenon
<1>5. \A d \in Calls : Shape(call'[d])
  BY <1>2, <1>4, Zenon DEF CallInv, Only
<1>6. GuardInv' /\ PendingInv'
  <2>1. GuardInv'
    BY <1>1, <1>2, <1>3, <1>4, GuardFrame, Zenon
  <2>2. PendingInv'
    BY <1>1, <1>2, <1>4, PendingFrame, Zenon
  <2> QED
    BY <2>1, <2>2
<1>7. CountInv'
  BY <1>1, CountFrame
<1>8. RefusalInv'
  BY <1>1, <1>2, <1>3, <1>4, RuntimeAssumption, RefusalFrame, Zenon
<1>9. AdmissionInv'
  BY <1>1, <1>2, <1>3, AdmissionFrame, Zenon DEF Inside
<1>10. Kept
  BY <1>2, <1>3, <1>4, Zenon DEF Only, Kept
<1> QED
  BY <1>2, <1>4, <1>5, <1>6, <1>7, <1>8, <1>9, <1>10, Zenon

\* The position of a lease that remains is not the one that is released.
LEMMA Remaining ==
  ASSUME CallInv, NEW c \in Calls, call[c].pc = "release", Kept,
         Leased(call'[c]) = Leased(call[c]) \ {call[c].i}, call[c].i \in Guarded(call[c]),
         NEW d \in Calls, NEW j \in Leased(call'[d])
  PROVE  /\ call[d].plan[j] \in Members /\ call[d].owner \in Owners
         /\ j \in Leased(call[d]) /\ call'[d].plan[j] = call[d].plan[j]
         /\ call'[d].owner = call[d].owner
         /\ call[d].plan[j] = Current(c) => d # c
<1>1. /\ j \in Leased(call[d]) /\ (d = c => j # call[c].i)
      /\ call'[d].plan[j] = call[d].plan[j] /\ call'[d].owner = call[d].owner
  BY Zenon DEF Kept
<1>2. j \in Guarded(call[d])
  BY <1>1, LeasedIsGuarded, Zenon
<1>3. call[d].plan[j] \in Members /\ call[d].owner \in Owners
  BY <1>2, PlanFacts, Zenon
<1>4. ASSUME d = c, call[d].plan[j] = Current(c) PROVE FALSE
  BY <1>1, <1>2, <1>4, GuardUnique DEF Current
<1> QED
  BY <1>1, <1>3, <1>4, Zenon

LEMMA ReleasedStep ==
  ASSUME CallInv, NEW c \in Calls, call[c].pc = "release", NEW m \in Members, m = Current(c),
         NEW r, Becomes(c, r), Unwound(r, call[c], call[c].i - 1), r.by = call[c].by,
         r.res = call[c].res, leases[m].by = c,
         Dropped(m), leases'[m].owner \notin Owners, leases' \in [Members -> Lease],
         UNCHANGED <<guards, activeByDef, lost, admission>>
  PROVE  CallInv'
<1>1. /\ Only(c) /\ call'[c] = r /\ call' \in [Calls -> CallType]
      /\ \A d \in Calls : Shape(call'[d])
      /\ GuardInv' /\ PendingInv' /\ CountInv' /\ RefusalInv' /\ AdmissionInv' /\ Kept
      /\ Leased(call'[c]) = Leased(call[c]) \ {call[c].i}
      /\ call[c].i \in Guarded(call[c]) /\ call[c].i \in Leased(call[c])
  BY ReleaseFrame, Zenon
<1>2. TypeInv /\ lost \subseteq Calls
  BY Zenon DEF CallInv, TypeInv
<1>4. TypeInv'
  BY <1>1, <1>2, Zenon DEF TypeInv, admission
<1>5. GivenBack(m)
  BY <1>1, Zenon DEF Only, GivenBack, Current
<1>6. Missing(m)
  BY <1>1, Remaining DEF Missing
<1>7. \A d \in Calls : call'[d].res = call[d].res
  BY <1>1, Zenon DEF Only
<1>8. LossKnown(m)
  BY <1>2, <1>7, Zenon DEF LossKnown
<1>9. LeaseInv' /\ LossInv'
  BY <1>1, <1>5, <1>6, <1>8, LeaseDropped, Zenon
<1> QED
  BY <1>1, <1>4, <1>9, Zenon DEF CallInv

\* The lease that a failed release leaves behind is nobody's to release.
LeftBehind(c, m) ==
    /\ leases' \in [Members -> Lease] /\ leases'[m].owner = leases[m].owner
    /\ leases'[m].by = IF leases[m].by = c THEN "nobody" ELSE leases[m].by
    /\ \A k \in Members \ {m} : leases'[k] = leases[k]

LEMMA LeavesBehind ==
  ASSUME TypeInv, NEW c \in Calls, NEW m \in Members,
         NEW b, b = IF leases[m].by = c THEN "nobody" ELSE leases[m].by,
         leases' = [leases EXCEPT ![m].by = b]
  PROVE  LeftBehind(c, m)
<1>1. leases \in [Members -> Lease]
  BY DEF TypeInv
<1>2. b \in Calls \cup {"nobody", "other"}
  BY <1>1 DEF Lease
<1>3. /\ leases'[m].owner = leases[m].owner /\ leases'[m].by = b
      /\ \A k \in Members \ {m} : leases'[k] = leases[k]
      /\ leases' \in [Members -> Lease]
  BY <1>1, <1>2, LeaseLeft
<1> QED
  BY <1>3 DEF LeftBehind

LEMMA ReleaseFails ==
  ASSUME CallInv, NEW c \in Calls, call[c].pc = "release", NEW m \in Members, m = Current(c),
         NEW r, Becomes(c, r), Unwound(r, call[c], call[c].i - 1), r.by = call[c].by,
         r.res # "nil", LeftBehind(c, m),
         UNCHANGED <<guards, activeByDef, lost, admission>>
  PROVE  CallInv'
<1>1. /\ Only(c) /\ call'[c] = r /\ call' \in [Calls -> CallType]
      /\ \A d \in Calls : Shape(call'[d])
      /\ GuardInv' /\ PendingInv' /\ CountInv' /\ RefusalInv' /\ AdmissionInv' /\ Kept
      /\ Leased(call'[c]) = Leased(call[c]) \ {call[c].i} /\ call[c].i \in Guarded(call[c])
  BY ReleaseFrame, Zenon
<1>2. TypeInv /\ LeaseInv /\ LossInv /\ lost \subseteq Calls /\ "nobody" \notin Calls
  BY RuntimeAssumption, Zenon DEF CallInv, TypeInv
<1>3. /\ leases'[m].owner = leases[m].owner
      /\ leases'[m].by = IF leases[m].by = c THEN "nobody" ELSE leases[m].by
      /\ \A k \in Members \ {m} : leases'[k] = leases[k]
      /\ leases' \in [Members -> Lease]
  BY Zenon DEF LeftBehind
<1>4. TypeInv'
  BY <1>1, <1>2, <1>3, Zenon DEF TypeInv, admission
<1>5. ASSUME NEW k \in Members, leases'[k].by \in Calls
      PROVE  /\ leases'[k].owner = call'[leases'[k].by].owner
             /\ \E j \in Leased(call'[leases'[k].by]) : call'[leases'[k].by].plan[j] = k
  <2>1. /\ leases'[k].by = leases[k].by /\ leases'[k].owner = leases[k].owner
        /\ k = m => leases[k].by # c
    BY <1>2, <1>3, <1>5, Zenon
  <2>2. PICK d \in Calls : d = leases[k].by
    BY <1>5, <2>1, Zenon
  <2>3. leases[k].owner = call[d].owner
    BY <1>2, <2>2, Zenon DEF LeaseInv
  <2>4. PICK j \in Leased(call[d]) : call[d].plan[j] = k
    BY <1>2, <2>2, Zenon DEF LeaseInv
  <2>5. call'[d].owner = call[d].owner /\ call'[d].plan = call[d].plan
    BY <1>1, Zenon DEF Kept
  <2>6. j \in Leased(call'[d])
    <3>1. CASE d = c
      BY <1>1, <2>1, <2>2, <2>4, <3>1, Zenon DEF Current
    <3>2. CASE d # c
      BY <1>1, <2>4, <3>2, Zenon DEF Only
    <3> QED
      BY <3>1, <3>2
  <2> QED
    BY <2>1, <2>2, <2>3, <2>4, <2>5, <2>6, Zenon
<1>6. ASSUME NEW d \in Calls, NEW j \in Leased(call'[d])
      PROVE  /\ call[d].plan[j] \in Members /\ j \in Leased(call[d])
             /\ call'[d].plan[j] = call[d].plan[j] /\ call'[d].owner = call[d].owner
             /\ leases'[call[d].plan[j]].owner = leases[call[d].plan[j]].owner
             /\ leases[call[d].plan[j]].by = d <=> leases'[call[d].plan[j]].by = d
  <2>1. /\ call[d].plan[j] \in Members /\ j \in Leased(call[d])
        /\ call'[d].plan[j] = call[d].plan[j] /\ call'[d].owner = call[d].owner
        /\ call[d].plan[j] = m => d # c
    BY <1>1, Remaining
  <2> QED
    BY <1>2, <1>3, <2>1, Zenon
<1>7. ASSUME NEW d \in Calls, NEW j \in Leased(call'[d]),
             leases'[call'[d].plan[j]].owner = call'[d].owner
      PROVE  leases'[call'[d].plan[j]].by = d
  <2>1. /\ j \in Leased(call[d]) /\ call'[d].plan[j] = call[d].plan[j]
        /\ call'[d].owner = call[d].owner
        /\ leases'[call[d].plan[j]].owner = leases[call[d].plan[j]].owner
        /\ leases[call[d].plan[j]].by = d <=> leases'[call[d].plan[j]].by = d
    BY <1>6, Zenon
  <2>2. leases[call[d].plan[j]].owner = call[d].owner
    BY <1>7, <2>1, Zenon
  <2>3. leases[call[d].plan[j]].by = d
    BY <1>2, <2>1, <2>2, Zenon DEF LeaseInv
  <2> QED
    BY <2>1, <2>3, Zenon
<1>8. ASSUME NEW d \in Calls, d \notin lost', NEW j \in Leased(call'[d])
      PROVE  leases'[call'[d].plan[j]].by = d
  <2>1. /\ j \in Leased(call[d]) /\ call'[d].plan[j] = call[d].plan[j]
        /\ leases[call[d].plan[j]].by = d <=> leases'[call[d].plan[j]].by = d
    BY <1>6, Zenon
  <2>2. leases[call[d].plan[j]].by = d
    BY <1>2, <1>8, <2>1, Zenon DEF LossInv
  <2> QED
    BY <2>1, <2>2, Zenon
<1>9. ASSUME NEW d \in lost', call'[d].res \in {"none", "nil"}
      PROVE  \E j \in Leased(call'[d]) : leases'[call'[d].plan[j]].by # d
  <2>1. d \in Calls /\ d \in lost /\ d # c
    BY <1>1, <1>2, <1>9, Zenon DEF Unwound
  <2>2. call'[d] = call[d]
    BY <1>1, <2>1, Zenon DEF Only
  <2>3. PICK j \in Leased(call[d]) : leases[call[d].plan[j]].by # d
    BY <1>2, <1>9, <2>1, <2>2, Zenon DEF LossInv
  <2>4. leases'[call'[d].plan[j]].by # d
    <3>1. j \in Leased(call'[d])
      BY <2>2, <2>3, Zenon
    <3>2. leases[call[d].plan[j]].by = d <=> leases'[call[d].plan[j]].by = d
      BY <1>6, <2>1, <3>1, Zenon
    <3> QED
      BY <2>2, <2>3, <3>2, Zenon
  <2> QED
    BY <2>2, <2>3, <2>4, Zenon
<1>10. LeaseInv' /\ LossInv'
  BY <1>5, <1>7, <1>8, <1>9, Zenon DEF LeaseInv, LossInv
<1> QED
  BY <1>1, <1>4, <1>10, Zenon DEF CallInv

LEMMA ReleaseStep ==
  ASSUME CallInv, NEW c \in Calls, ReleaseLease(c)
  PROVE  CallInv'
<1> DEFINE n == call[c].i
           m == Current(c)
           mine == IF m.def \in StrictDefs THEN leases[m].by = c
                                           ELSE leases[m].owner = call[c].owner
           next == IF n = 1 THEN At(c, "unguard", 1) ELSE At(c, "release", n - 1)
           failed == [next EXCEPT !.res = Join(next.res)]
<1>1. call[c].pc = "release" /\ UNCHANGED <<guards, activeByDef, lost, admission>>
  BY Zenon DEF ReleaseLease
<1>2. /\ call[c] \in CallType /\ Shape(call[c]) /\ n \in Nat /\ n > 0
      /\ m = call[c].plan[n] /\ m \in Members /\ call[c].owner \in Owners
  BY <1>1, PositionFacts, Zenon
<1>3. TypeInv /\ LeaseInv /\ LossInv
  BY DEF CallInv
<1>4. /\ call[c].res # "none" /\ call[c].res \in Results
  BY <1>1, <1>2, Zenon DEF Shape, CallType
<1>5. /\ next \in CallType /\ next.owner = call[c].owner /\ next.plan = call[c].plan
      /\ next.res = call[c].res /\ next.by = call[c].by
      /\ IF n - 1 = 0 THEN next.pc = "unguard" /\ next.i = 1
                      ELSE next.pc = "release" /\ next.i = n - 1
  <2>1. {"unguard", "release"} \subseteq Stages /\ 1 \in Nat /\ n - 1 \in Nat
    BY <1>2 DEF Stages
  <2>2. CASE n = 1
    BY <1>3, <2>1, <2>2, AtFields
  <2>3. CASE n # 1
    <3>1. n - 1 # 0 /\ next = At(c, "release", n - 1)
      BY <1>2, <2>3
    <3> QED
      BY <1>3, <2>1, <3>1, AtFields
  <2> QED
    BY <2>2, <2>3, Zenon
<1>6. \/ mine /\ leases' = [leases EXCEPT ![m] = Free] /\ Becomes(c, next)
      \/ /\ Becomes(c, failed)
         /\ leases' = [leases EXCEPT ![m].by = IF @ = c THEN "nobody" ELSE @]
  BY Zenon DEF ReleaseLease
<1> HIDE DEF next, m
<1>7. CASE mine /\ leases' = [leases EXCEPT ![m] = Free] /\ Becomes(c, next)
  <2>1. Unwound(next, call[c], n - 1)
    BY <1>4, <1>5, Zenon DEF Unwound
  <2>2. n \in Leased(call[c])
    BY <1>1, <2>1, <1>2, AfterUnwinding, Zenon
  <2>3. leases[m].by = c
    <3>1. leases[m].owner = call[c].owner => leases[m].by = c
      BY <1>2, <1>3, <2>2, Zenon DEF LeaseInv
    <3> QED
      BY <1>7, <3>1
  <2>4. Dropped(m) /\ leases'[m].owner \notin Owners /\ leases' \in [Members -> Lease]
    <3> HIDE DEF mine
    <3> QED
      BY <1>2, <1>3, <1>7, LeaseFreed, Zenon
  <2>5. Becomes(c, next) /\ m = Current(c)
    BY <1>7 DEF m
  <2> HIDE DEF mine
  <2> QED
    BY <1>1, <1>2, <1>5, <2>1, <2>3, <2>4, <2>5, ReleasedStep, Zenon
<1>8. CASE /\ Becomes(c, failed)
           /\ leases' = [leases EXCEPT ![m].by = IF @ = c THEN "nobody" ELSE @]
  <2>1. Join(call[c].res) \in Results /\ Join(call[c].res) \notin {"none", "nil"}
    BY <1>4, Zenon DEF Join, Results
  <2>2. /\ failed \in CallType /\ failed.owner = call[c].owner /\ failed.plan = call[c].plan
        /\ failed.res \notin {"none", "nil"} /\ failed.by = call[c].by
        /\ failed.pc = next.pc /\ failed.i = next.i
    BY <1>5, <2>1, ResFields
  <2> HIDE DEF failed
  <2>3. Unwound(failed, call[c], n - 1)
    BY <1>5, <2>2, Zenon DEF Unwound
  <2>4. LeftBehind(c, m)
    <3>1. PICK b : /\ b = IF leases[m].by = c THEN "nobody" ELSE leases[m].by
                   /\ leases' = [leases EXCEPT ![m].by = b]
      BY <1>8, Zenon
    <3> QED
      BY <1>2, <1>3, <3>1, LeavesBehind, Zenon
  <2>5. Becomes(c, failed) /\ m = Current(c) /\ failed.res # "nil"
    BY <1>8, <2>2, Zenon DEF m
  <2> QED
    BY <1>1, <1>2, <2>2, <2>3, <2>4, <2>5, ReleaseFails, Zenon
<1> QED
  BY <1>6, <1>7, <1>8, Zenon

LEMMA RemoveGuardStep ==
  ASSUME Library, CallInv, NEW c \in Calls, RemoveGuard(c)
  PROVE  CallInv'
<1> DEFINE n == call[c].i
           m == Current(c)
           g == <<m, call[c].owner>>
           G(d, j) == <<call[d].plan[j], call[d].owner>>
<1>1. call[c].pc = "unguard" /\ UNCHANGED <<leases, lost, admission>>
  BY DEF RemoveGuard
<1>2. /\ activeByDef' = IF guards[g] = "held"
                        THEN [activeByDef EXCEPT ![m.def] = @ - 1] ELSE activeByDef
      /\ guards' = [guards EXCEPT ![g] = "none"]
      /\ Becomes(c, Advance(c, "leave"))
  BY Zenon DEF RemoveGuard, Guard
<1>3. /\ call[c] \in CallType /\ Shape(call[c]) /\ n \in Nat
      /\ m = call[c].plan[n] /\ m \in Members /\ call[c].owner \in Owners
  BY <1>1, PositionFacts, Zenon
<1>4. /\ TypeInv /\ GuardInv /\ LeaseInv /\ LossInv /\ RefusalInv /\ AdmissionInv
      /\ PendingInv /\ CountInv
  BY DEF CallInv
<1>5. Only(c) /\ call' \in [Calls -> CallType] /\ Follows(call'[c], call[c], "leave")
  <2>1. "leave" \in Stages
    BY DEF Stages
  <2> QED
    BY <1>1, <1>2, <2>1, AdvanceFollows, Zenon
<1>6. /\ call'[c].owner = call[c].owner /\ call'[c].plan = call[c].plan
      /\ call'[c].res = call[c].res /\ call'[c].by = call[c].by
      /\ call'[c].pc \in Inside \ {"guard", "acquire"}
  BY <1>1, <1>5, Zenon DEF Follows, Inside
<1>7. /\ Shape(call'[c]) /\ Leased(call'[c]) = {} /\ Leased(call[c]) = {}
      /\ Pending(call'[c]) = {} /\ Guarded(call'[c]) = Guarded(call[c]) \ {n}
      /\ n \in Guarded(call[c])
  BY <1>1, <1>3, <1>5, AfterUnguard, Zenon
<1> HIDE DEF m
<1>8. g \in Members \X Owners /\ g[1] = m
  BY <1>3, Zenon
<1>9. TypeInv'
  <2>1. guards' \in [Members \X Owners -> {"none", "pending", "held"}]
    BY <1>2, <1>4, Zenon DEF TypeInv
  <2>2. activeByDef' \in [Defs -> Int]
    <3>1. activeByDef \in [Defs -> Int] /\ m.def \in Defs
      BY <1>3, <1>4, Zenon DEF TypeInv, Defs
    <3>2. activeByDef[m.def] - 1 \in Int
      BY <3>1
    <3> QED
      BY <1>2, <3>1, <3>2, Zenon
  <2> QED
    BY <1>1, <1>4, <1>5, <2>1, <2>2, Zenon DEF TypeInv, admission
<1>10. \A d \in Calls : Shape(call'[d])
  BY <1>5, <1>7 DEF CallInv, Only
<1>11. OneGuard(g, "none")
  <2>1. g \in DOMAIN guards
    BY <1>4, <1>8 DEF TypeInv
  <2> HIDE DEF g
  <2> QED
    BY <1>2, <2>1 DEF OneGuard
<1>12. \A d \in Calls : /\ call'[d].owner = call[d].owner /\ call'[d].plan = call[d].plan
                        /\ Guarded(call'[d]) \subseteq Guarded(call[d])
                        /\ Pending(call'[d]) \subseteq Pending(call[d])
                        /\ d = c => n \notin Guarded(call'[d])
  BY <1>5, <1>6, <1>7, Zenon DEF Only
<1>13. ASSUME NEW d \in Calls, NEW j \in Guarded(call'[d])
       PROVE  guards'[G(d, j)] = guards[G(d, j)]
  <2>1. j \in Guarded(call[d]) /\ ~(d = c /\ j = n)
    BY <1>12
  <2>2. call[d].owner = call[c].owner /\ call[d].plan[j] = call[c].plan[n] => d = c /\ j = n
    <3>1. n \in Guarded(call[c])
      BY <1>7, Zenon
    <3>2. ASSUME call[d].owner = call[c].owner, call[d].plan[j] = call[c].plan[n]
          PROVE  d = c /\ j = n
      BY <2>1, <3>1, <3>2, GuardUnique, ZenonT(60)
    <3> QED
      BY <3>2, Zenon
  <2>3. G(d, j) # g
    BY <1>3, <2>1, <2>2, Zenon
  <2> HIDE DEF G, g
  <2> QED
    BY <1>11, <2>3 DEF OneGuard
<1>14. GuardInv'
  <2>1. \A d \in Calls : \A j \in Guarded(call'[d]) : guards'[Guard(d, call[d].plan[j])'] # "none"
    BY <1>4, <1>12, <1>13 DEF GuardInv, Guard
  <2>2. \A d, e \in Calls : \A i \in Guarded(call'[d]), j \in Guarded(call'[e]) :
           call'[d].owner = call'[e].owner /\ call'[d].plan[i] = call'[e].plan[j]
              => d = e /\ i = j
    BY <1>4, <1>12 DEF GuardInv
  <2> QED
    BY <2>1, <2>2, Zenon DEF GuardInv
<1>15. PendingInv'
  <2>1. ASSUME DistinctIds, NEW d \in Calls, NEW j \in Pending(call'[d])
        PROVE  guards'[G(d, j)] = "pending"
    <3>1. j \in Pending(call[d]) /\ j \in Guarded(call'[d])
      BY <1>12, LeasedIsGuarded
    <3>2. guards[G(d, j)] = "pending"
      BY <1>4, <2>1, <3>1, Zenon DEF PendingInv, Guard
    <3> QED
      BY <1>13, <3>1, <3>2, Zenon
  <2>2. DistinctIds => \A d \in Calls : \A j \in Pending(call'[d]) :
                          guards'[Guard(d, call[d].plan[j])'] = "pending"
    BY <1>12, <2>1 DEF Guard
  <2> QED
    BY <2>2, Zenon DEF PendingInv
<1>16. LeaseInv' /\ LossInv'
  <2>1. LeaseInv'
    BY <1>1, <1>4, <1>5, <1>7, LeaseFrame, Zenon
  <2>2. LossInv'
    BY <1>1, <1>4, <1>5, <1>6, <1>7, LossFrame, Zenon DEF TypeInv
  <2> QED
    BY <2>1, <2>2
<1>17. RefusalInv'
  BY <1>4, <1>5, <1>6, <1>7, RuntimeAssumption, RefusalFrame, Zenon
<1>18. AdmissionInv'
  BY <1>1, <1>4, <1>5, <1>6, AdmissionFrame, Zenon DEF Inside
<1>19. CountInv'
  <2> SUFFICES ASSUME DistinctIds, NEW d \in Defs
               PROVE  /\ IsFiniteSet(HeldOf(d)')
                      /\ activeByDef'[d] = Cardinality(HeldOf(d)')
    BY DEF CountInv
  <2>1. /\ IsFiniteSet(HeldOf(d)) /\ activeByDef[d] = Cardinality(HeldOf(d))
        /\ Cardinality(HeldOf(d)) \in Nat
    BY <1>4, CountIsNatural DEF CountInv
  <2>2. HeldOf(d)' = {h \in Members \X Owners : h[1].def = d /\ guards'[h] = "held"}
    BY DEF HeldOf
  <2>3. activeByDef \in [Defs -> Int]
    BY <1>4 DEF TypeInv
  <2> HIDE DEF g
  <2>4. CASE m.def = d /\ guards[g] = "held"
    <3>1. HeldOf(d)' = HeldOf(d) \ {g} /\ g \in HeldOf(d)
      BY <1>8, <1>11, <2>2, <2>4 DEF HeldOf, OneGuard
    <3>2. activeByDef'[d] = activeByDef[d] - 1
      BY <1>2, <2>3, <2>4
    <3>3. IsFiniteSet(HeldOf(d) \ {g}) /\ Cardinality(HeldOf(d) \ {g}) = Cardinality(HeldOf(d)) - 1
      BY <2>1, <3>1, OneLess, Zenon
    <3> QED
      BY <2>1, <3>1, <3>2, <3>3
  <2>5. CASE ~(m.def = d /\ guards[g] = "held")
    <3>1. HeldOf(d)' = HeldOf(d)
      BY <1>8, <1>11, <2>2, <2>5 DEF HeldOf, OneGuard
    <3>2. activeByDef'[d] = activeByDef[d]
      BY <1>2, <2>3, <2>5
    <3> QED
      BY <2>1, <3>1, <3>2
  <2> QED
    BY <2>4, <2>5
<1> QED
  BY <1>9, <1>10, <1>14, <1>15, <1>16, <1>17, <1>18, <1>19 DEF CallInv

\* c leaves, and nobody is refused because of it any more.
LEMMA LeaveStep ==
  ASSUME CallInv, NEW c \in Calls, Leave(c)
  PROVE  CallInv'
<1>1. /\ call[c].pc = "leave" /\ TypeInv /\ lost' = lost \ {c} /\ c \in inside
      /\ inside' = inside \ {c} /\ UNCHANGED <<guards, activeByDef, leases, closing, drained>>
      /\ call' = [d \in Calls |->
                     IF d = c THEN Idle
                     ELSE IF call[d].by = c THEN [call[d] EXCEPT !.by = "nobody"]
                     ELSE call[d]]
  BY DEF CallInv, Leave, Admission!Leave
<1>2. ASSUME NEW d \in Calls
      PROVE  /\ call'[d] \in CallType
             /\ d = c => call'[d] = Idle
             /\ d # c => /\ call'[d].pc = call[d].pc /\ call'[d].owner = call[d].owner
                         /\ call'[d].plan = call[d].plan /\ call'[d].i = call[d].i
                         /\ call'[d].res = call[d].res
                         /\ call'[d].by = IF call[d].by = c THEN "nobody" ELSE call[d].by
  <2>1. call[d] \in CallType
    BY <1>1 DEF TypeInv
  <2>2. CASE d = c
    BY <1>1, <2>2, IdleFacts
  <2>3. CASE d # c /\ call[d].by = c
    <3>1. call'[d] = [call[d] EXCEPT !.by = "nobody"]
      BY <1>1, <2>3, Zenon
    <3> QED
      BY <2>1, <2>3, <3>1, Zenon DEF CallType
  <2>4. CASE d # c /\ call[d].by # c
    BY <1>1, <2>1, <2>4
  <2> QED
    BY <2>2, <2>3, <2>4, Zenon
<1>3. /\ Guarded(call[c]) = {} /\ Pending(call[c]) = {} /\ Leased(call[c]) = {}
  BY <1>1 DEF Guarded, Pending, Leased
<1>4. ASSUME NEW d \in Calls
      PROVE  /\ Guarded(call'[d]) = Guarded(call[d]) /\ Pending(call'[d]) = Pending(call[d])
             /\ Leased(call'[d]) = Leased(call[d])
             /\ \A j \in Guarded(call[d]) : call'[d].owner = call[d].owner
                                            /\ call'[d].plan[j] = call[d].plan[j]
  <2>1. CASE d = c
    BY <1>2, <1>3, <2>1, IdleFacts, Zenon
  <2>2. CASE d # c
    BY <1>2, <2>2, Zenon DEF Guarded, Pending, Leased
  <2> QED
    BY <2>1, <2>2, Zenon
<1>4a. ASSUME NEW d \in Calls, NEW j \in Leased(call[d])
       PROVE  /\ j \in Leased(call'[d]) /\ call'[d].owner = call[d].owner
              /\ call'[d].plan[j] = call[d].plan[j]
  BY <1>4, LeasedIsGuarded, Zenon
<1>4b. LeaseInv /\ LossInv /\ leases' = leases
  BY <1>1, Zenon DEF CallInv
<1>5. TypeInv'
  <2>1. call' \in [Calls -> CallType]
    BY <1>1, <1>2, Zenon
  <2> QED
    BY <1>1, <2>1, Zenon DEF TypeInv
<1>6. \A d \in Calls : Shape(call'[d])
  <2> SUFFICES ASSUME NEW d \in Calls PROVE Shape(call'[d])
    OBVIOUS
  <2>1. CASE d = c
    BY <1>2, <2>1, IdleFacts, Zenon
  <2>2. CASE d # c
    <3>1. Shape(call[d])
      BY DEF CallInv
    <3> QED
      BY <1>2, <2>2, <3>1, Zenon DEF Shape
  <2> QED
    BY <2>1, <2>2
<1>7. GuardInv' /\ PendingInv'
  <2>1. ASSUME NEW d \in Calls, NEW j \in Guarded(call'[d])
        PROVE  guards'[Guard(d, call[d].plan[j])'] # "none"
    <3>1. j \in Guarded(call[d]) /\ Guard(d, call[d].plan[j])' = Guard(d, call[d].plan[j])
      BY <1>4, <2>1, Zenon DEF Guard
    <3> QED
      BY <1>1, <3>1 DEF CallInv, GuardInv
  <2>2. \A d, e \in Calls : \A i \in Guarded(call'[d]), j \in Guarded(call'[e]) :
           call'[d].owner = call'[e].owner /\ call'[d].plan[i] = call'[e].plan[j]
              => d = e /\ i = j
    BY <1>4 DEF CallInv, GuardInv
  <2>3. DistinctIds => \A d \in Calls : \A j \in Pending(call'[d]) :
                          guards'[Guard(d, call[d].plan[j])'] = "pending"
    <3> SUFFICES ASSUME DistinctIds, NEW d \in Calls, NEW j \in Pending(call'[d])
                 PROVE  guards'[Guard(d, call[d].plan[j])'] = "pending"
      BY Zenon
    <3>1. j \in Pending(call[d]) /\ j \in Guarded(call[d])
      BY <1>4, LeasedIsGuarded, Zenon
    <3>2. Guard(d, call[d].plan[j])' = Guard(d, call[d].plan[j])
      BY <1>4, <3>1, Zenon DEF Guard
    <3> QED
      BY <1>1, <3>1, <3>2, Zenon DEF CallInv, PendingInv
  <2> QED
    BY <2>1, <2>2, <2>3, Zenon DEF GuardInv, PendingInv
<1>8. LeaseInv'
  <2>1. ASSUME NEW m \in Members, leases'[m].by \in Calls
        PROVE  /\ leases'[m].owner = call'[leases'[m].by].owner
               /\ \E j \in Leased(call'[leases'[m].by]) : call'[leases'[m].by].plan[j] = m
    <3>1. PICK d \in Calls : d = leases[m].by
      BY <1>4b, <2>1, Zenon
    <3>2. leases[m].owner = call[d].owner
      BY <1>4b, <3>1, Zenon DEF LeaseInv
    <3>3. PICK j \in Leased(call[d]) : call[d].plan[j] = m
      BY <1>4b, <3>1, Zenon DEF LeaseInv
    <3>4. /\ j \in Leased(call'[d]) /\ call'[d].owner = call[d].owner /\ call'[d].plan[j] = m
      BY <1>4a, <3>3, Zenon
    <3> QED
      BY <1>4b, <3>1, <3>2, <3>4, Zenon
  <2>2. ASSUME NEW d \in Calls, NEW j \in Leased(call'[d]),
               leases'[call'[d].plan[j]].owner = call'[d].owner
        PROVE  leases'[call'[d].plan[j]].by = d
    <3>1. /\ j \in Leased(call[d]) /\ call'[d].owner = call[d].owner
          /\ call'[d].plan[j] = call[d].plan[j]
      BY <1>4, <1>4a, Zenon
    <3>2. leases[call[d].plan[j]].owner = call[d].owner
      BY <1>4b, <2>2, <3>1, Zenon
    <3>3. leases[call[d].plan[j]].by = d
      BY <1>4b, <3>1, <3>2, Zenon DEF LeaseInv
    <3> QED
      BY <1>4b, <3>1, <3>3, Zenon
  <2> QED
    BY <2>1, <2>2, Zenon DEF LeaseInv
<1>9. LossInv'
  <2>1. ASSUME NEW d \in Calls, d \notin lost', NEW j \in Leased(call'[d])
        PROVE  leases'[call'[d].plan[j]].by = d
    <3>1. d # c /\ d \notin lost
      BY <1>1, <1>3, <1>4, <2>1, Zenon
    <3> QED
      <4>1. j \in Leased(call[d]) /\ call'[d].plan[j] = call[d].plan[j]
        BY <1>4, <1>4a, <2>1, Zenon
      <4>2. leases[call[d].plan[j]].by = d
        BY <1>4b, <3>1, <4>1, Zenon DEF LossInv
      <4> QED
        BY <1>4b, <4>1, <4>2, Zenon
  <2>2. ASSUME NEW d \in lost', call'[d].res \in {"none", "nil"}
        PROVE  \E j \in Leased(call'[d]) : leases'[call'[d].plan[j]].by # d
    <3>1. d \in Calls /\ d # c /\ d \in lost /\ call[d].res \in {"none", "nil"}
      BY <1>1, <1>2, <2>2, Zenon DEF TypeInv
    <3> QED
      <4>1. PICK j \in Leased(call[d]) : leases[call[d].plan[j]].by # d
        BY <1>4b, <3>1, Zenon DEF LossInv
      <4> QED
        BY <1>4a, <1>4b, <3>1, <4>1, Zenon
  <2> QED
    BY <2>1, <2>2, Zenon DEF LossInv
<1>10. RefusalInv'
  <2> SUFFICES ASSUME NEW a \in Calls, NEW b \in Calls, call'[a].by = b
               PROVE  /\ call'[b].pc \in Inside \ {"guard"}
                      /\ \E p, q \in Nat : InTheWay(a, b, p, q)'
    BY DEF RefusalInv
  <2>1. a # c /\ b # c /\ call[a].by = b
    BY <1>2, IdleFacts, RuntimeAssumption
  <2>2. PICK p \in Nat, q \in Nat : InTheWay(a, b, p, q)
    BY <2>1 DEF CallInv, RefusalInv
  <2>3. InTheWay(a, b, p, q)'
    BY <1>2, <1>4, <2>1, <2>2, Zenon DEF InTheWay
  <2> QED
    BY <1>2, <2>1, <2>3 DEF CallInv, RefusalInv
<1>11. AdmissionInv'
  BY <1>1, <1>2, IdleFacts, Zenon DEF CallInv, AdmissionInv, Inside
<1>12. CountInv'
  BY <1>1, CountFrame DEF CallInv
<1> QED
  BY <1>5, <1>6, <1>7, <1>8, <1>9, <1>10, <1>11, <1>12 DEF CallInv

\* What neither calls nor guards see: only the leases change.
LEMMA Elsewhere ==
  ASSUME CallInv, UNCHANGED <<guards, activeByDef, call>>, LeaseInv', LossInv', AdmissionInv',
         TypeInv'
  PROVE  CallInv'
<1>1. \A c \in Calls : Shape(call'[c])
  BY DEF CallInv
<1>2. GuardInv'
  BY DEF CallInv, GuardInv, Guard
<1>3. PendingInv'
  BY Zenon DEF CallInv, PendingInv, Guard
<1>4. CountInv'
  BY CountFrame DEF CallInv
<1>5. RefusalInv'
  BY Zenon DEF CallInv, RefusalInv, InTheWay
<1> QED
  BY <1>1, <1>2, <1>3, <1>4, <1>5 DEF CallInv

LEMMA LapseStep ==
  ASSUME CallInv, NEW m \in Members, Lapse(m)
  PROVE  CallInv'
<1>1. /\ leases' = [leases EXCEPT ![m] = Free]
      /\ lost' = lost \cup {c \in Calls : Holding(c, m)}
      /\ UNCHANGED <<guards, activeByDef, call, admission>>
  BY DEF Lapse
<1>2. TypeInv /\ AdmissionInv
  BY DEF CallInv
<1>3. Dropped(m) /\ leases'[m].owner \notin Owners /\ leases' \in [Members -> Lease]
  BY <1>1, <1>2, LeaseFreed, Zenon
<1>4. ASSUME NEW c \in Calls
      PROVE  Holding(c, m) <=> leases[m].by = c /\ \E j \in Leased(call[c]) : call[c].plan[j] = m
  <2>1. call[c].plan \in Seq(Members)
    BY <1>2, Zenon DEF TypeInv, CallType
  <2>2. DOMAIN call[c].plan = 1..Len(call[c].plan)
    BY <2>1
  <2> QED
    BY <2>2, Zenon DEF Holding, Leased
<1>5. \A c \in Calls : \A j \in Leased(call[c]) : call[c].owner \in Owners
  BY LeasedIsGuarded, PlanFacts, Zenon
<1>6. Kept /\ GivenBack(m)
  BY <1>1 DEF Kept, GivenBack
<1>7. Missing(m)
  BY <1>1, <1>3, <1>4, <1>5, Zenon DEF Missing
<1>8. lost' \subseteq Calls
  BY <1>1, <1>2 DEF TypeInv
<1>9. LossKnown(m)
  BY <1>1, <1>4, <1>8, Zenon DEF LossKnown
<1>10. LeaseInv' /\ LossInv'
  BY <1>3, <1>6, <1>7, <1>9, LeaseDropped
<1>11. TypeInv' /\ AdmissionInv'
  BY <1>1, <1>2, <1>3, <1>8, Zenon DEF TypeInv, AdmissionInv, admission
<1> QED
  BY <1>1, <1>10, <1>11, Elsewhere

LEMMA OtherStep ==
  ASSUME CallInv, NEW m \in Members, OtherAcquires(m)
  PROVE  CallInv'
<1> DEFINE v == [by |-> "other", owner |-> "other"]
<1>1. /\ leases' = [leases EXCEPT ![m] = v] /\ leases[m] = Free
      /\ UNCHANGED <<guards, activeByDef, lost, call, admission>>
  BY DEF OtherAcquires
<1>2. TypeInv /\ AdmissionInv
  BY DEF CallInv
<1>3. v \in Lease /\ v.by \notin Calls /\ v.owner \notin Owners /\ leases[m].by \notin Calls
  BY <1>1, LeaseValues, RuntimeAssumption, Zenon
<1> HIDE DEF v
<1>4. /\ leases' \in [Members -> Lease] /\ leases'[m] = v
      /\ \A k \in Members \ {m} : leases'[k] = leases[k]
  BY <1>1, <1>2, <1>3, LeaseReplaced DEF TypeInv
<1>5. \A c \in Calls : \A j \in Leased(call[c]) : call[c].owner \in Owners
  BY LeasedIsGuarded, PlanFacts, Zenon
<1>6. Dropped(m) /\ Kept /\ GivenBack(m)
  BY <1>1, <1>3, <1>4 DEF Dropped, Kept, GivenBack
<1>7. Missing(m)
  BY <1>1, <1>3, <1>4, <1>5 DEF Missing
<1>8. LossKnown(m)
  BY <1>1, <1>2, Zenon DEF LossKnown, TypeInv
<1>9. LeaseInv' /\ LossInv'
  BY <1>6, <1>7, <1>8, LeaseDropped
<1>10. TypeInv' /\ AdmissionInv'
  BY <1>1, <1>2, <1>4, Zenon DEF TypeInv, AdmissionInv, admission
<1> QED
  BY <1>1, <1>9, <1>10, Elsewhere

\* The leases are about calls and about themselves only.
LEMMA SameLeases ==
  ASSUME LeaseInv, LossInv, UNCHANGED <<leases, lost, call>>
  PROVE  LeaseInv' /\ LossInv'
<1>0. leases' = leases /\ lost' = lost /\ call' = call
  OBVIOUS
<1>1. ASSUME NEW m \in Members, leases'[m].by \in Calls
      PROVE  /\ leases'[m].owner = call'[leases'[m].by].owner
             /\ \E j \in Leased(call'[leases'[m].by]) : call'[leases'[m].by].plan[j] = m
  <2>1. leases[m].by \in Calls
    BY <1>0, <1>1, Zenon
  <2>2. /\ leases[m].owner = call[leases[m].by].owner
        /\ \E j \in Leased(call[leases[m].by]) : call[leases[m].by].plan[j] = m
    BY <2>1, Zenon DEF LeaseInv
  <2> QED
    BY <1>0, <2>2
<1>2. ASSUME NEW d \in Calls, NEW j \in Leased(call'[d]),
             leases'[call'[d].plan[j]].owner = call'[d].owner
      PROVE  leases'[call'[d].plan[j]].by = d
  <2>1. j \in Leased(call[d]) /\ leases[call[d].plan[j]].owner = call[d].owner
    BY <1>0, <1>2, Zenon
  <2>2. leases[call[d].plan[j]].by = d
    BY <2>1, Zenon DEF LeaseInv
  <2> QED
    BY <1>0, <2>2, Zenon
<1>3. ASSUME NEW d \in Calls \ lost', NEW j \in Leased(call'[d])
      PROVE  leases'[call'[d].plan[j]].by = d
  BY <1>0, <1>3, Zenon DEF LossInv
<1>4. ASSUME NEW d \in lost', call'[d].res \in {"none", "nil"}
      PROVE  \E j \in Leased(call'[d]) : leases'[call'[d].plan[j]].by # d
  BY <1>0, <1>4, Zenon DEF LossInv
<1> QED
  BY <1>1, <1>2, <1>3, <1>4, Zenon DEF LeaseInv, LossInv

LEMMA ShutdownStep ==
  ASSUME CallInv, Shutdown
  PROVE  CallInv'
<1>1. /\ UNCHANGED <<guards, activeByDef, leases, lost, call, inside>>
      /\ closing' \in BOOLEAN /\ drained' \in BOOLEAN
      /\ drained' => closing' /\ inside' = {}
  <2>1. TypeInv /\ AdmissionInv /\ UNCHANGED <<manager, call>>
    BY DEF CallInv, Shutdown
  <2>2. CASE Admission!Close
    <3>1. ~closing /\ closing' = TRUE /\ UNCHANGED <<inside, drained>>
      BY <2>2 DEF Admission!Close
    <3>2. ~drained
      BY <2>1, <3>1 DEF AdmissionInv
    <3> QED
      BY <2>1, <3>1, <3>2 DEF TypeInv, manager
  <2>3. CASE Admission!Announce
    <3>1. closing /\ inside = {} /\ drained' = TRUE /\ UNCHANGED <<closing, inside>>
      BY <2>3 DEF Admission!Announce
    <3> QED
      BY <2>1, <3>1 DEF TypeInv, manager
  <2> QED
    BY <2>2, <2>3 DEF Shutdown
<1>2. TypeInv'
  BY <1>1 DEF CallInv, TypeInv
<1>3. LeaseInv' /\ LossInv'
  BY <1>1, SameLeases, Zenon DEF CallInv
<1>4. AdmissionInv'
  BY <1>1 DEF CallInv, AdmissionInv
<1> QED
  BY <1>1, <1>2, <1>3, <1>4, Elsewhere

-----------------------------------------------------------------------------
(***************************************************************************)
(* What the three operations make of a request.                            *)
(***************************************************************************)
LEMMA ExclusiveStarts ==
  ASSUME CallInv, NEW c \in Calls, NEW r \in Requests, Len(r) = 1,
         Start(c, "exclusive", <<>>, r)
  PROVE  CallInv'
<1>1. r \in Seq(Members) /\ <<>> \in Seq(Members)
  BY RuntimeAssumption
<1>2. Ordered(r)
  BY DEF Ordered
<1> QED
  BY <1>1, <1>2, StartStep, Zenon

LEMMA MultipleStarts ==
  ASSUME Library, CallInv, NEW c \in Calls, NEW r \in Requests,
         Start(c, "multiple", <<>>, CanonicalizeMembers(r))
  PROVE  CallInv'
<1> DEFINE plan == CanonicalizeMembers(r)
<1>1. plan \in Seq(Members) /\ Ordered(plan) /\ <<>> \in Seq(Members)
  BY DEF Library, Plans
<1> QED
  BY <1>1, StartStep, Zenon

LEMMA CompositeStarts ==
  ASSUME Library, CallInv, NEW c \in Calls, NEW r \in Requests,
         Start(c, "composite", ChecksOf(r), PlanOf(r))
  PROVE  CallInv'
<1>1. ChecksOf(r) \in Seq(Members) /\ PlanOf(r) \in Seq(Members) /\ Ordered(PlanOf(r))
  BY DEF Library, Plans
<1> QED
  BY <1>1, StartStep, Zenon

LEMMA BodyStep ==
  ASSUME Library, CallInv, NEW c \in Calls, Body(c)
  PROVE  CallInv'
  BY PrecheckStep, AdmitStep, InstallGuardStep, AcquireStep, CallbackStep, ReleaseStep,
     RemoveGuardStep, LeaveStep DEF Body

LEMMA CallStep == ASSUME Library PROVE CallInv /\ [Next]_vars => CallInv'
<1> SUFFICES ASSUME CallInv, [Next]_vars PROVE CallInv'
  OBVIOUS
<1>1. ASSUME NEW c \in Calls, Execute(c) PROVE CallInv'
  <2>1. CASE ExecuteExclusive(c)
    BY <2>1, BodyStep, ExclusiveStarts DEF ExecuteExclusive
  <2>2. CASE ExecuteMultipleExclusive(c)
    BY <2>2, BodyStep, MultipleStarts DEF ExecuteMultipleExclusive
  <2>3. CASE ExecuteCompositeExclusive(c)
    BY <2>3, BodyStep, CompositeStarts, Zenon DEF ExecuteCompositeExclusive, ChecksOf, Checked, PlanOf
  <2> QED
    BY <1>1, <2>1, <2>2, <2>3 DEF Execute
<1>2. ASSUME NEW m \in Members, Lapse(m) \/ OtherAcquires(m) PROVE CallInv'
  BY <1>2, LapseStep, OtherStep
<1>3. CASE Shutdown
  BY <1>3, ShutdownStep
<1>4. CASE UNCHANGED vars
  <2>1. UNCHANGED <<guards, activeByDef, leases, lost, call, admission>>
    BY <1>4 DEF vars, manager
  <2>2. LeaseInv' /\ LossInv'
    BY <2>1, SameLeases, Zenon DEF CallInv
  <2>3. TypeInv' /\ AdmissionInv'
    BY <2>1, Zenon DEF CallInv, TypeInv, AdmissionInv, admission
  <2> QED
    BY <2>1, <2>2, <2>3, Elsewhere
<1> QED
  BY <1>1, <1>2, <1>3, <1>4 DEF Next

-----------------------------------------------------------------------------
(***************************************************************************)
(* What the invariant says of the properties.                              *)
(***************************************************************************)
LEMMA EverythingHeld == CallInv => AllOrNothing
<1> SUFFICES ASSUME CallInv PROVE AllOrNothing
  OBVIOUS
<1>1. ASSUME NEW c \in Calls
      PROVE  DOMAIN call[c].plan = 1..Len(call[c].plan)
  <2>1. call[c].plan \in Seq(Members)
    BY Zenon DEF CallInv, TypeInv, CallType
  <2> QED
    BY <2>1
<1>2. \A c \in Calls : call[c].pc = "run" /\ c \notin lost =>
         \A i \in DOMAIN call[c].plan : leases[call[c].plan[i]].by = c
  <2> SUFFICES ASSUME NEW c \in Calls, call[c].pc = "run", c \notin lost,
                      NEW i \in DOMAIN call[c].plan
               PROVE  leases[call[c].plan[i]].by = c
    BY Zenon
  <2>1. i \in Leased(call[c])
    BY <1>1, Zenon DEF Leased
  <2> QED
    BY <2>1, Zenon DEF CallInv, LossInv
<1>3. \A m \in Members : leases[m].by \in Calls => Holding(leases[m].by, m)
  <2> SUFFICES ASSUME NEW m \in Members, NEW c \in Calls, c = leases[m].by
               PROVE  Holding(c, m)
    BY Zenon
  <2>1. PICK j \in Leased(call[c]) : call[c].plan[j] = m
    BY Zenon DEF CallInv, LeaseInv
  <2> QED
    BY <1>1, <2>1, Zenon DEF Leased, Holding
<1> QED
  BY <1>2, <1>3, Zenon DEF AllOrNothing

LEMMA NilHeld == CallInv => NilMeansHeld
  BY DEF CallInv, LossInv, Leased, NilMeansHeld

LEMMA GuardsExclude == CallInv => GuardsProtect
<1> SUFFICES ASSUME CallInv, NEW c \in Calls, NEW m \in Members, Owns(c, m)
             PROVE  /\ guards[Guard(c, m)] # "none"
                    /\ \A d \in Calls : d # c /\ Owns(d, m) => call[d].owner # call[c].owner
  BY DEF GuardsProtect
<1>1. ASSUME NEW d \in Calls, Owns(d, m)
      PROVE  \E j \in Guarded(call[d]) : call[d].plan[j] = m
  <2>1. call[d].plan \in Seq(Members)
    BY Zenon DEF CallInv, TypeInv, CallType
  <2>2. DOMAIN call[d].plan = 1..Len(call[d].plan)
    BY <2>1
  <2> QED
    BY <1>1, <2>2, Zenon DEF Owns, Guarded
<1> QED
  BY <1>1 DEF CallInv, GuardInv

LEMMA DrainedReleased == CallInv => DrainedMeansReleased
<1> SUFFICES ASSUME CallInv, drained, NEW m \in Members, leases[m].by \in Calls
             PROVE  FALSE
  BY DEF DrainedMeansReleased
<1>1. \E j \in Leased(call[leases[m].by]) : TRUE
  BY Zenon DEF CallInv, LeaseInv
<1>2. call[leases[m].by].pc \in Inside
  BY <1>1, Zenon DEF Leased, Inside
<1> QED
  BY <1>2, Zenon DEF CallInv, AdmissionInv

LEMMA CountExact == ASSUME DistinctIds PROVE CallInv => ActiveCountExact
  BY DEF CallInv, CountInv, ActiveCountExact

\* Only an acquire that finds the member taken names a call that is in the way.
LEMMA NewRefusals ==
  ASSUME CallInv, [Next]_vars, NEW c \in Calls, call'[c].by \in Calls
  PROVE  \/ call'[c].by = call[c].by
         \/ call[c].pc = "acquire" /\ Holding(call'[c].by, Current(c))
<1> DEFINE Goal == \/ call'[c].by = call[c].by
                   \/ call[c].pc = "acquire" /\ Holding(call'[c].by, Current(c))
<1>1. TypeInv /\ "nobody" \notin Calls /\ call[c] \in CallType
  BY RuntimeAssumption, Zenon DEF CallInv, TypeInv
<1>2. ASSUME NEW d \in Calls, NEW r, Becomes(d, r), r.by \in {"nobody", call[d].by}
      PROVE  Goal
  <2>1. call'[d] = r /\ (c # d => call'[c] = call[c])
    BY <1>1, <1>2 DEF Becomes, TypeInv
  <2> QED
    BY <1>1, <1>2, <2>1
<1>3. ASSUME NEW d \in Calls, NEW op, NEW checks, NEW plan, Start(d, op, checks, plan)
      PROVE  Goal
  <2>1. PICK o \in Owners :
           Becomes(d, [Idle EXCEPT !.op = op, !.owner = o, !.pc = "check",
                                   !.checks = checks, !.plan = plan])
    BY <1>3, Zenon DEF Start
  <2>2. [Idle EXCEPT !.op = op, !.owner = o, !.pc = "check", !.checks = checks,
                     !.plan = plan].by = "nobody"
    BY DEF Idle
  <2> QED
    BY <1>2, <2>1, <2>2, Zenon
<1>4. ASSUME NEW d \in Calls, Body(d) PROVE Goal
  <2>1. call[d] \in CallType /\ call[d].i \in Nat /\ Len(call[d].plan) \in Nat
    BY <1>1 DEF TypeInv, CallType
  <2>2. \A stage \in Stages, i \in Nat :
           At(d, stage, i) \in CallType /\ At(d, stage, i).by = call[d].by
    BY <1>1, AtFields
  <2>3. /\ Stages = {"idle", "check", "admit", "guard", "acquire", "run", "release",
                      "unguard", "leave"}
        /\ Results = {"none", "nil", "error", "busy", "reentrant"}
        /\ call[d].pc \in Stages
    BY <2>1, Zenon DEF Stages, Results, CallType
  <2>4. \A r \in CallType, result \in Results : [r EXCEPT !.res = result].by = r.by
    BY ResFields
  <2>5. \A n \in Nat, result \in Results : /\ Unwind(d, n, result) \in CallType
                                           /\ Unwind(d, n, result).by = call[d].by
    BY <1>1, UnwindFields
  <2>6. \A stage \in Stages : Advance(d, stage).by = call[d].by
    BY <2>1, <2>2, <2>3 DEF Advance
  <2>7. CASE Precheck(d)
    <3>1. [call[d] EXCEPT !.checks = Tail(@)].by = call[d].by
      BY <2>1, Zenon DEF CallType
    <3> QED
      BY <1>2, <2>2, <2>3, <2>7, <3>1, IdleFacts, Zenon DEF Precheck, Return
  <2>8. CASE Admit(d)
    BY <1>2, <2>2, <2>3, <2>8, IdleFacts, Zenon DEF Admit, Return
  <2>9. CASE InstallGuard(d)
    <3>1. [At(d, "leave", 1) EXCEPT !.res = "reentrant"].by = call[d].by
      BY <2>2, <2>3, <2>4
    <3> QED
      BY <1>2, <2>3, <2>6, <2>9, <3>1, Zenon DEF InstallGuard
  <2>10. CASE AcquireLease(d)
    <3>1. CASE Becomes(d, Advance(d, "run"))
      BY <1>2, <2>3, <2>6, <3>1, Zenon
    <3>2. ASSUME NEW result \in {"busy", "error"}, Refused(d, result) PROVE Goal
      <4> DEFINE m == Current(d)
                 holder == leases[m].by
                 by == IF result = "busy" /\ holder \in Calls
                       THEN IF Holding(holder, m) THEN holder ELSE "nobody"
                       ELSE "nobody"
                 u == Unwind(d, call[d].i - 1, result)
      <4>1. call[d].pc = "acquire" /\ call[d].i - 1 \in Nat
        BY <2>1, <2>10 DEF AcquireLease, CallInv, Shape
      <4>2. u \in CallType
        BY <2>3, <2>5, <4>1, Zenon
      <4>3. Becomes(d, [u EXCEPT !.by = by])
        BY <3>2, Zenon DEF Refused
      <4> HIDE DEF u
      <4>4. [u EXCEPT !.by = by].by = by
        BY <4>2 DEF CallType
      <4>5. by = "nobody" \/ Holding(by, m)
        OBVIOUS
      <4>6. call'[d].by = by /\ (c # d => call'[c] = call[c])
        BY <1>1, <4>3, <4>4, Zenon DEF Becomes, TypeInv
      <4> HIDE DEF by
      <4> QED
        BY <1>1, <4>1, <4>5, <4>6, ZenonT(60)
    <3> QED
      BY <2>10, <3>1, <3>2, Zenon DEF AcquireLease
  <2>11. CASE Callback(d)
    <3>1. PICK result \in {"nil", "error"} :
             Becomes(d, IF call[d].plan = <<>>
                        THEN [At(d, "leave", 1) EXCEPT !.res = result]
                        ELSE Unwind(d, Len(call[d].plan), result))
      BY <2>11, Zenon DEF Callback
    <3>2. /\ [At(d, "leave", 1) EXCEPT !.res = result].by = call[d].by
          /\ Unwind(d, Len(call[d].plan), result).by = call[d].by
      BY <2>1, <2>2, <2>3, <2>4, <2>5
    <3> QED
      BY <1>2, <3>1, <3>2, Zenon
  <2>12. CASE ReleaseLease(d)
    <3> DEFINE next == IF call[d].i = 1 THEN At(d, "unguard", 1)
                                        ELSE At(d, "release", call[d].i - 1)
    <3>1. Becomes(d, next) \/ Becomes(d, [next EXCEPT !.res = Join(@)])
      BY <2>12, Zenon DEF ReleaseLease
    <3>2. call[d].i - 1 \in Nat
      BY <2>1, <2>12 DEF ReleaseLease, CallInv, Shape
    <3>3. next \in CallType /\ next.by = call[d].by
      BY <2>2, <2>3, <3>2, Zenon
    <3> HIDE DEF next
    <3>4. [next EXCEPT !.res = Join(@)].by = call[d].by
      BY <3>3 DEF CallType
    <3> QED
      BY <1>2, <3>1, <3>3, <3>4, Zenon
  <2>13. CASE RemoveGuard(d)
    BY <1>2, <2>3, <2>6, <2>13, Zenon DEF RemoveGuard
  <2>14. CASE Leave(d)
    <3>1. call'[c] = IF c = d THEN Idle
                     ELSE IF call[c].by = d THEN [call[c] EXCEPT !.by = "nobody"]
                     ELSE call[c]
      BY <2>14 DEF Leave
    <3>2. [call[c] EXCEPT !.by = "nobody"].by = "nobody"
      BY <1>1 DEF CallType
    <3> QED
      BY <1>1, <3>1, <3>2, IdleFacts, Zenon
  <2> QED
    BY <1>4, <2>7, <2>8, <2>9, <2>10, <2>11, <2>12, <2>13, <2>14, ZenonT(60) DEF Body
<1>5. CASE call' = call
  BY <1>5
<1>6. CASE \E d \in Calls : Execute(d)
  BY <1>3, <1>4, <1>6, Zenon DEF Execute, ExecuteExclusive, ExecuteMultipleExclusive,
                          ExecuteCompositeExclusive
<1> QED
  BY <1>5, <1>6, Zenon DEF Next, Lapse, OtherAcquires, Shutdown, vars

LEMMA NoMutualStep ==
  ASSUME \A m, n \in Members : m # n => Precedes(m, n) \/ Precedes(n, m),
         CallInv, CallInv', NoMutualRefusal, [Next]_vars
  PROVE  NoMutualRefusal'
<1> SUFFICES ASSUME NEW c \in Calls, NEW d \in Calls, call'[c].by = d, call'[d].by = c
             PROVE  FALSE
  BY DEF NoMutualRefusal
\* What x waited for when it was refused lies before what it asks for now.
<1>1. ASSUME NEW x \in Calls, NEW y \in Calls, call'[x].by = y, call'[y].by = x,
             call[x].pc = "acquire", Holding(y, Current(x))
      PROVE  FALSE
  <2>1. /\ call[x].plan \in Seq(Members) /\ call[y].plan \in Seq(Members)
        /\ call[x].i \in 1..Len(call[x].plan)
        /\ Ordered(call[x].plan) /\ Ordered(call[y].plan)
    BY <1>1, Zenon DEF CallInv, TypeInv, CallType, Shape
  <2>2. \A a \in 1..Len(call[x].plan) : a \in Guarded(call[x])
    BY <1>1 DEF Guarded
  <2>3. \A a, b \in 1..Len(call[x].plan) : call[x].plan[a] = call[x].plan[b] => a = b
    BY <2>2 DEF CallInv, GuardInv
  <2>4. PICK j \in Leased(call[y]) : call[y].plan[j] = call[x].plan[call[x].i]
    <3>1. DOMAIN call[y].plan = 1..Len(call[y].plan)
      BY <2>1
    <3> QED
      BY <1>1, <3>1 DEF Holding, Current, Leased
  <2>5. \E p \in 1..Len(call[y].plan), q \in 1..Len(call[x].plan) :
           call[y].plan[p] = call[x].plan[q] /\ j < p /\ q < call[x].i
    <3>1. CASE call[y].by = x
      <4>1. PICK p \in Nat, q \in Nat : InTheWay(y, x, p, q)
        BY <3>1 DEF CallInv, RefusalInv
      <4> QED
        BY <1>1, <2>4, <4>1 DEF InTheWay
    <3>2. CASE call[y].pc = "acquire" /\ Holding(x, Current(y))
      <4>1. call[y].i \in 1..Len(call[y].plan) /\ DOMAIN call[x].plan = 1..Len(call[x].plan)
        BY <2>1, <3>2 DEF CallInv, Shape
      <4>2. PICK q \in 1..Len(call[x].plan) : call[x].plan[q] = Current(y) /\ q < call[x].i
        BY <1>1, <3>2, <4>1 DEF Holding
      <4>3. j < call[y].i
        BY <2>4, <3>2 DEF Leased
      <4> QED
        BY <4>1, <4>2, <4>3 DEF Current
    <3> QED
      BY <1>1, <3>1, <3>2, NewRefusals
  <2>6. PICK p \in 1..Len(call[y].plan), q \in 1..Len(call[x].plan) :
           call[y].plan[p] = call[x].plan[q] /\ j < p /\ q < call[x].i
    BY <2>5
  <2>7. /\ j \in 1..Len(call[y].plan)
        /\ call[x].plan[q] \in Members /\ call[x].plan[call[x].i] \in Members
    BY <2>1, <2>4, <2>6 DEF Leased
  <2>8. /\ ~Precedes(call[x].plan[q], call[x].plan[call[x].i])
        /\ ~Precedes(call[x].plan[call[x].i], call[x].plan[q])
    BY <2>1, <2>4, <2>6, <2>7 DEF Ordered
  <2> QED
    BY <2>1, <2>3, <2>6, <2>7, <2>8
<1>2. CASE call[c].by = d /\ call[d].by = c
  BY <1>2 DEF NoMutualRefusal
<1> QED
  BY <1>1, <1>2, NewRefusals


-----------------------------------------------------------------------------
(***************************************************************************)
(* Library, from the theorems on finite sets and on Policies.              *)
(***************************************************************************)
INSTANCE PoliciesProofs

LEMMA CountingHolds == Counting /\ Positions
<1>1. Counting
  BY FS_EmptySet, FS_CardinalityType, FS_AddElement, FS_RemoveElement DEF Counting
<1>2. Positions
  BY IncreasingExists, ZenonT(60) DEF Positions
<1> QED
  BY <1>1, <1>2

LEMMA CanonicalPlan ==
  ASSUME NEW r \in Requests
  PROVE  /\ r \in Seq(Members) /\ CanonicalizeMembers(r) \in Seq(Members)
         /\ \A a, b \in DOMAIN CanonicalizeMembers(r) : a < b =>
               ~Precedes(CanonicalizeMembers(r)[b], CanonicalizeMembers(r)[a])
         /\ \A a \in DOMAIN CanonicalizeMembers(r) :
               \E i \in DOMAIN r : CanonicalizeMembers(r)[a] = r[i]
<1>1. r \in Seq(Members) /\ \A m \in Members : m.rank \in Nat /\ m.resource \in Nat /\ m.key \in Nat
  BY RuntimeAssumption
<1>2. /\ Comparable(r) /\ CanonicalizeMembers(r) \in Seq(Members)
      /\ Len(CanonicalizeMembers(r)) = Len(r)
  BY <1>1, CanonicalType
<1>3. DOMAIN CanonicalizeMembers(r) = DOMAIN r
  BY <1>1, <1>2
<1>4. \A a, b \in DOMAIN r : a < b =>
         ~Precedes(CanonicalizeMembers(r)[b], CanonicalizeMembers(r)[a])
  BY <1>2, CanonicalIsOrdered
<1>5. PICK f \in Bijection(DOMAIN r, DOMAIN r) :
         CanonicalizeMembers(r) = [n \in DOMAIN r |-> r[f[n]]]
  BY <1>2, CanonicalIsPermutation
<1>6. \A a \in DOMAIN r : CanonicalizeMembers(r)[a] = r[f[a]] /\ f[a] \in DOMAIN r
  BY <1>5 DEF Bijection, Injection, Surjection, IsInjective
<1> QED
  BY <1>1, <1>2, <1>3, <1>4, <1>6

LEMMA CompositePlan ==
  ASSUME NEW r \in Requests
  PROVE  ChecksOf(r) \in Seq(Members) /\ PlanOf(r) \in Seq(Members) /\ Ordered(PlanOf(r))
<1> DEFINE all == CanonicalizeMembers(r)
           checked == MembersOf(all, FailIfHeld)
           checks == [i \in DOMAIN checked |-> LastOf(r, checked[i].def)]
           plan == MembersOf(all, Defs \ FailIfHeld)
<1>1. /\ r \in Seq(Members) /\ all \in Seq(Members)
      /\ \A a, b \in DOMAIN all : a < b => ~Precedes(all[b], all[a])
      /\ \A a \in DOMAIN all : \E i \in DOMAIN r : all[a] = r[i]
  BY CanonicalPlan
<1> HIDE DEF all
<1>9. ASSUME NEW D
      PROVE  /\ MembersOf(all, D) \in Seq(Members)
             /\ \A a \in DOMAIN MembersOf(all, D) :
                   \E i \in DOMAIN all : MembersOf(all, D)[a] = all[i]
             /\ \A a, b \in DOMAIN MembersOf(all, D) : a < b =>
                   \E i, j \in DOMAIN all : /\ i < j /\ MembersOf(all, D)[a] = all[i]
                                           /\ MembersOf(all, D)[b] = all[j]
  BY <1>1, MembersOfOrder
<1>2. /\ checked \in Seq(Members)
      /\ \A a \in DOMAIN checked : \E i \in DOMAIN all : checked[a] = all[i]
  BY <1>9
<1>8. /\ plan \in Seq(Members)
      /\ \A a, b \in DOMAIN plan : a < b =>
            \E i, j \in DOMAIN all : i < j /\ plan[a] = all[i] /\ plan[b] = all[j]
  BY <1>9, Zenon
<1> HIDE DEF plan
<1>3. \A a, b \in DOMAIN plan : a < b => ~Precedes(plan[b], plan[a])
  BY <1>1, <1>8
<1>4. Ordered(plan)
  <2>1. DOMAIN plan = 1..Len(plan)
    BY <1>8
  <2> QED
    BY <1>3, <2>1 DEF Ordered
<1>5. ASSUME NEW i \in DOMAIN checked
      PROVE  LastOf(r, checked[i].def) \in Members
  <2>1. \E k \in DOMAIN all : checked[i] = all[k]
    BY <1>2, <1>5
  <2>2. PICK j \in DOMAIN r : checked[i] = r[j]
    BY <1>1, <2>1
  <2> DEFINE ms == MembersOf(r, {checked[i].def})
  <2>3. ms \in Seq(Members)
    BY <1>1, MembersOfOrder
  <2>4. Len(ms) \in DOMAIN ms
    BY <1>1, <2>2, MembersOfSome, Zenon
  <2> HIDE DEF ms
  <2>5. ms[Len(ms)] \in Members
    BY <2>3, <2>4
  <2> QED
    BY <2>5 DEF LastOf, ms
<1>6. checks \in Seq(Members)
  <2> HIDE DEF checked
  <2>1. DOMAIN checked = 1..Len(checked) /\ Len(checked) \in Nat
    BY <1>2
  <2>2. checks \in [1..Len(checked) -> Members]
    BY <1>5, <2>1
  <2> QED
    BY <2>1, <2>2
<1> QED
  BY <1>8, <1>4, <1>6 DEF ChecksOf, Checked, PlanOf, all, plan

LEMMA LibraryHolds == Library
<1>1. ASSUME NEW r \in Requests
      PROVE  CanonicalizeMembers(r) \in Seq(Members) /\ Ordered(CanonicalizeMembers(r))
  <2>1. CanonicalizeMembers(r) \in Seq(Members)
    BY CanonicalPlan
  <2>2. DOMAIN CanonicalizeMembers(r) = 1..Len(CanonicalizeMembers(r))
    BY <2>1
  <2> QED
    BY <2>1, <2>2, CanonicalPlan DEF Ordered
<1> QED
  BY <1>1, CountingHolds, CompositePlan DEF Library, Plans

-----------------------------------------------------------------------------
(***************************************************************************)
(* The theorems.                                                           *)
(***************************************************************************)
\* CallInv holds in every reachable state: of guards, leases, counters and
\* in-flight admission at every stage of the three Execute methods.
THEOREM CallInvariant == Spec => []CallInv
<1>1. Init => CallInv
  BY LibraryHolds, CallInit
<1>2. CallInv /\ [Next]_vars => CallInv'
  BY LibraryHolds, CallStep
<1> QED
  BY <1>1, <1>2, PTL DEF Spec

\* All or nothing, for requests of any length: a callback runs with every
\* lease of its plan, and a lease of a call that has returned is nobody's.
THEOREM RunsWithEverything == Spec => []AllOrNothing
  BY EverythingHeld, CallInvariant, PTL

\* A call that returns nil lost no lease while its callback ran, although
\* nothing renews leases and the driver compares only owners.
THEOREM NilIsHeld == Spec => []NilMeansHeld
  BY NilHeld, CallInvariant, PTL

\* A reentrancy guard stays until its own call removes it.
THEOREM GuardsAreExclusive == Spec => []GuardsProtect
  BY GuardsExclude, CallInvariant, PTL

\* Shutdown returns nil only after every lease of every call was given back.
THEOREM DrainedIsReleased == Spec => []DrainedMeansReleased
  BY DrainedReleased, CallInvariant, PTL

\* When no two members have the same joined string, the active-lock count of
\* every definition is the number of its held guards.
THEOREM ActiveCountIsExact ==
  ASSUME DistinctIds
  PROVE  Spec => []ActiveCountExact
  BY CountExact, CallInvariant, PTL

\* Members are acquired in one order, whatever the requests: two calls never
\* refuse each other, when the ranks, resources and keys tell members apart.
THEOREM NeverMutual ==
  ASSUME \A m, n \in Members : m # n => Precedes(m, n) \/ Precedes(n, m)
  PROVE  Spec => []NoMutualRefusal
<1>1. Init => NoMutualRefusal
  BY RuntimeAssumption DEF Init, Idle, NoMutualRefusal
<1>2. ASSUME CallInv, CallInv', NoMutualRefusal, [Next]_vars PROVE NoMutualRefusal'
  BY <1>2, NoMutualStep
<1> QED
  BY <1>1, <1>2, CallInvariant, PTL DEF Spec
=============================================================================

