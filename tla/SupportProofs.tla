--------------------------- MODULE SupportProofs ----------------------------
(***************************************************************************)
(* Proofs about two parts the managers are built on, which share no state: *)
(* Drain, for any finite number of Execute* calls and any number of        *)
(* Shutdown calls; and Stores: both idempotency stores implement the       *)
(* processing slot, for any keys, callers and TTLs, any number of ticks in *)
(* a millisecond, and however long the clock runs.                         *)
(***************************************************************************)
EXTENDS Drain, Stores, FiniteSetTheorems, TLAPS

\* Shutdown has stored the flag before anything else.
FlagFirst == \A c \in Closers : cpc[c] # "new" => shuttingDown

\* The counter is the size of a finite set, so it is a number; and it is zero
\* exactly when nobody is counted (the test releaseInFlightExecution and
\* Shutdown make).
LEMMA CountedFinite ==
    ASSUME TypeOK, InFlightExact
    PROVE  /\ IsFiniteSet(Counted)
           /\ Cardinality(Counted) \in Nat
           /\ Drained <=> Counted = {}
           /\ Inside \subseteq Counted
<1>1. Counted \subseteq Execs  BY DEF Counted
<1>2. IsFiniteSet(Counted)  BY <1>1, DrainAssumption, FS_Subset
<1>3. Cardinality(Counted) \in Nat  BY <1>2, FS_CardinalityType
<1>4. Cardinality(Counted) = 0 <=> Counted = {}  BY <1>2, FS_EmptySet
<1>5. Inside \subseteq Counted  BY DEF Inside, Counted
<1> QED  BY <1>2, <1>3, <1>4, <1>5 DEF InFlightExact, Drained

\* A step that moves call e out of the counted states shrinks the set by one
\* element, a step that moves it in adds one, any other leaves it alone.
LEMMA CountedStep ==
    ASSUME TypeOK, InFlightExact, NEW e \in Execs, NEW s \in ExecStates,
           epc' = [epc EXCEPT ![e] = s]
    PROVE  LET In == {"counted", "running", "leaving", "bouncing"} IN
           /\ (epc[e] \notin In /\ s \in In)
                 => Cardinality(Counted') = Cardinality(Counted) + 1
           /\ (epc[e] \in In /\ s \notin In)
                 => Cardinality(Counted') = Cardinality(Counted) - 1
           /\ (epc[e] \in In <=> s \in In) => Counted' = Counted
<1> DEFINE In == {"counted", "running", "leaving", "bouncing"}
<1>1. IsFiniteSet(Counted) /\ Cardinality(Counted) \in Nat  BY CountedFinite
<1>2. e \in Counted <=> epc[e] \in In  BY DEF Counted
<1>3. ASSUME epc[e] \notin In, s \in In
      PROVE  Cardinality(Counted') = Cardinality(Counted) + 1
  <2>1. Counted' = Counted \cup {e}  BY <1>3 DEF Counted, TypeOK
  <2> QED  BY <1>1, <1>2, <1>3, <2>1, FS_AddElement, Zenon
<1>4. ASSUME epc[e] \in In, s \notin In
      PROVE  Cardinality(Counted') = Cardinality(Counted) - 1
  <2>1. Counted' = Counted \ {e}  BY <1>4 DEF Counted, TypeOK
  <2> QED  BY <1>1, <1>2, <1>4, <2>1, FS_RemoveElement, Zenon
<1>5. (epc[e] \in In <=> s \in In) => Counted' = Counted  BY DEF Counted, TypeOK
<1> QED  BY <1>3, <1>4, <1>5

-----------------------------------------------------------------------------
\* What the counter and the flag need to stay right: the types, the exact
\* count, and the flag before everything else.
CountInv == TypeOK /\ InFlightExact /\ FlagFirst

LEMMA CountInvInit == Init => CountInv
<1> SUFFICES ASSUME Init PROVE CountInv  OBVIOUS
<1>1. Counted = {}  BY DEF Init, Counted
<1>2. InFlightExact  BY <1>1, FS_EmptySet DEF Init, InFlightExact
<1> QED  BY <1>2, DrainAssumption, Zenon DEF Init, CountInv, TypeOK, FlagFirst, ExecStates, CloserStates

\* Steps that leave the counter and every call's place alone keep the count.
LEMMA CountKept ==
    ASSUME InFlightExact, UNCHANGED execVars
    PROVE  InFlightExact' /\ Counted' = Counted /\ Inside' = Inside
BY DEF InFlightExact, Counted, Inside, execVars

LEMMA CountInvNext == CountInv /\ [Next]_vars => CountInv'
<1> SUFFICES ASSUME CountInv, [Next]_vars PROVE CountInv'  OBVIOUS
<1> USE DEF CountInv
<1> USE DrainAssumption
<1>1. ASSUME NEW e \in Execs, Check(e) PROVE CountInv'
  <2>1. Counted' = Counted  BY <1>1, CountedStep, Zenon DEF Check, ExecStates
  <2>2. InFlightExact'  BY <1>1, <2>1 DEF InFlightExact, Check
  <2> QED  BY <1>1, <2>2 DEF Check, TypeOK, FlagFirst, ExecStates, closerVars
<1>2. ASSUME NEW e \in Execs, Count(e) PROVE CountInv'
  <2>1. Cardinality(Counted') = Cardinality(Counted) + 1
    BY <1>2, CountedStep, Zenon DEF Count, ExecStates
  <2>2. InFlightExact'  BY <1>2, <2>1 DEF InFlightExact, Count
  <2> QED  BY <1>2, <2>2 DEF Count, TypeOK, FlagFirst, ExecStates, closerVars
<1>3. ASSUME NEW e \in Execs, Recheck(e) PROVE CountInv'
  <2> DEFINE s == IF shuttingDown THEN "bouncing" ELSE "running"
  <2>1. s \in ExecStates /\ s \in {"counted", "running", "leaving", "bouncing"}
    BY DEF ExecStates
  <2>2. Counted' = Counted  BY <1>3, <2>1, CountedStep, Zenon DEF Recheck
  <2>3. InFlightExact'  BY <1>3, <2>2 DEF InFlightExact, Recheck
  <2> QED  BY <1>3, <2>3 DEF Recheck, TypeOK, FlagFirst, ExecStates, closerVars
<1>4. ASSUME NEW e \in Execs, Finish(e) PROVE CountInv'
  <2>1. Counted' = Counted  BY <1>4, CountedStep, Zenon DEF Finish, ExecStates
  <2>2. InFlightExact'  BY <1>4, <2>1 DEF InFlightExact, Finish
  <2> QED  BY <1>4, <2>2 DEF Finish, TypeOK, FlagFirst, ExecStates, closerVars
<1>5. ASSUME NEW e \in Execs, Decrement(e) PROVE CountInv'
  <2> DEFINE s == IF inFlight = 1 THEN "signal" ELSE "idle"
  <2>1. s \in ExecStates /\ s \notin {"counted", "running", "leaving", "bouncing"}
    BY DEF ExecStates
  <2>2. Cardinality(Counted') = Cardinality(Counted) - 1
    BY <1>5, <2>1, CountedStep, Zenon DEF Decrement
  <2>3. InFlightExact'  BY <1>5, <2>2 DEF InFlightExact, Decrement
  <2>4. e \in Counted  BY <1>5 DEF Counted, Decrement
  <2>5. inFlight # 0  BY <2>4, CountedFinite DEF Drained
  <2>6. inFlight' \in Nat  BY <1>5, <2>5 DEF Decrement, TypeOK
  <2> QED  BY <1>5, <2>3, <2>6, Zenon DEF Decrement, TypeOK, FlagFirst, ExecStates, closerVars
<1>6. ASSUME NEW e \in Execs, Signal(e) PROVE CountInv'
  <2>1. Counted' = Counted  BY <1>6, CountedStep, Zenon DEF Signal, ExecStates
  <2>2. InFlightExact'  BY <1>6, <2>1 DEF InFlightExact, Signal
  <2> QED  BY <1>6, <2>2 DEF Signal, TypeOK, FlagFirst, ExecStates, closerVars
<1>7. ASSUME NEW c \in Closers, Begin(c) \/ CloserStep(c) PROVE CountInv'
  <2>1. UNCHANGED execVars
    BY <1>7, Zenon DEF Begin, CloserStep, Lock, Loop, Return, Enter, Test, Park, Wake, Woken
  <2>2. InFlightExact'  BY <2>1, CountKept
  <2>3. TypeOK'
    BY ZenonT(60), <1>7, <2>1 DEF TypeOK, execVars, CloserStates, Begin, CloserStep, Lock, Loop,
                      Return, Enter, Test, Park, Wake, Woken
  <2>4. FlagFirst'
    BY <1>7, Zenon DEF TypeOK, FlagFirst, CloserStates, Begin, CloserStep, Lock, Loop,
                Return, Enter, Test, Park, Wake, Woken
  <2> QED  BY <2>2, <2>3, <2>4
<1>8. ASSUME NEW c \in Closers, Expire(c) \/ WatcherStep(c) PROVE CountInv'
  <2>1. UNCHANGED execVars  BY <1>8 DEF Expire, WatcherStep, Fire, Broadcast
  <2>2. InFlightExact'  BY <2>1, CountKept
  <2> QED  BY <1>8, <2>1, <2>2, Zenon DEF TypeOK, FlagFirst, execVars, Expire, WatcherStep,
                                   Fire, Broadcast
<1>9. ASSUME UNCHANGED vars PROVE CountInv'
  <2>1. InFlightExact'  BY <1>9, CountKept DEF vars, execVars
  <2> QED  BY <1>9, <2>1 DEF vars, TypeOK, FlagFirst
<1> QED  BY <1>1, <1>2, <1>3, <1>4, <1>5, <1>6, <1>7, <1>8, <1>9
         DEF Next, ExecStep, Terminated

\* Type correctness of the drain protocol.
THEOREM TypeCorrect == Spec => []TypeOK
<1>1. CountInv => TypeOK  BY DEF CountInv
<1> QED  BY CountInvInit, CountInvNext, <1>1, PTL DEF Spec

\* The counter polled by Shutdown is exact, whatever the number of calls
\* racing through tryAdmitInFlightExecution and releaseInFlightExecution.
THEOREM CounterExact == Spec => []InFlightExact
<1>1. CountInv => InFlightExact  BY DEF CountInv
<1> QED  BY CountInvInit, CountInvNext, <1>1, PTL DEF Spec

-----------------------------------------------------------------------------
\* Nobody enters once the flag is set: the second load refuses them.
LEMMA InsideStep ==
    ASSUME CountInv, [Next]_vars, shuttingDown
    PROVE  Inside' \subseteq Inside
<1>1. ASSUME NEW e \in Execs, ExecStep(e) \/ Finish(e) PROVE Inside' \subseteq Inside
  BY <1>1, Zenon DEF CountInv, TypeOK, Inside, ExecStep, Check, Count, Recheck, Finish, Decrement, Signal
<1>2. ASSUME NEW c \in Closers, Begin(c) \/ CloserStep(c) \/ Expire(c) \/ WatcherStep(c)
      PROVE  Inside' \subseteq Inside
  BY <1>2, Zenon DEF Inside, execVars, Begin, CloserStep, Lock, Loop, Return, Enter, Test,
              Park, Wake, Woken, Expire, WatcherStep, Fire, Broadcast
<1>3. ASSUME UNCHANGED vars PROVE Inside' \subseteq Inside  BY <1>3 DEF vars, Inside
<1> QED  BY <1>1, <1>2, <1>3 DEF Next, Terminated

\* A Shutdown call returns nil only from the head of its loop, on a zero
\* counter.
LEMMA OkStep ==
    ASSUME CountInv, [Next]_vars, NEW c \in Closers, cpc'[c] = "ok", cpc[c] # "ok"
    PROVE  Loop(c) /\ Drained
<1>1. ASSUME NEW e \in Execs, ExecStep(e) \/ Finish(e) PROVE cpc' = cpc
  BY <1>1, Zenon DEF closerVars, ExecStep, Check, Count, Recheck, Finish, Decrement, Signal
<1>2. ASSUME NEW d \in Closers, Begin(d) \/ CloserStep(d) \/ Expire(d) \/ WatcherStep(d)
      PROVE  Loop(c) /\ Drained
  BY <1>2, Zenon DEF CountInv, TypeOK, Begin, CloserStep, Lock, Loop, Return, Enter, Test,
              Park, Wake, Woken, Expire, WatcherStep, Fire, Broadcast
<1>3. ASSUME UNCHANGED vars PROVE cpc' = cpc  BY <1>3 DEF vars
<1> QED  BY <1>1, <1>2, <1>3 DEF Next, Terminated

\* After a Shutdown call returned nil there is no callback and no deferred
\* release left, and there never will be.
THEOREM DrainSafe == Spec => []NoWorkAfterDrain
<1> DEFINE IInv == CountInv /\ NoWorkAfterDrain
<1>1. Init => IInv  BY CountInvInit DEF Init, NoWorkAfterDrain
<1>2. IInv /\ [Next]_vars => IInv'
  <2> SUFFICES ASSUME IInv, [Next]_vars,
                      NEW c \in Closers, cpc'[c] = "ok"
               PROVE  shuttingDown' /\ Inside' = {}
    BY CountInvNext DEF NoWorkAfterDrain
  <2>1. shuttingDown'  BY CountInvNext DEF CountInv, FlagFirst
  <2>2. CASE cpc[c] = "ok"
    <3>1. shuttingDown /\ Inside = {}  BY <2>2 DEF NoWorkAfterDrain
    <3> QED  BY <2>1, <3>1, InsideStep
  <2>3. CASE cpc[c] # "ok"
    <3>1. Loop(c) /\ Drained  BY <2>3, OkStep
    <3>2. Inside = {}  BY <3>1, CountedFinite DEF CountInv
    <3>3. shuttingDown  BY <3>1 DEF CountInv, FlagFirst, Loop
    <3> QED  BY <2>1, <3>2, <3>3, InsideStep
  <2> QED  BY <2>2, <2>3
<1>3. IInv => NoWorkAfterDrain  OBVIOUS
<1> QED  BY <1>1, <1>2, <1>3, PTL DEF Spec

-----------------------------------------------------------------------------
\* The drain protocol implements Quiescence: every step of a call, of a
\* Shutdown call or of a watcher is a step of the promise or leaves it alone.
THEOREM DrainRefines == Spec => ImplementsQuiescence
<1> DEFINE isOk == \E c \in Closers : cpc[c] = "ok"
<1>1. Init => Promise!Init  BY DEF Init, Promise!Init, Inside
<1>2. CountInv /\ [Next]_vars => [Promise!Next]_(Promise!vars)
  <2> SUFFICES ASSUME CountInv, [Next]_vars PROVE [Promise!Next]_(Promise!vars)
    OBVIOUS
  <2> USE DEF Promise!Next, Promise!vars
  <2>1. ASSUME NEW e \in Execs, Recheck(e), ~shuttingDown PROVE Promise!Admit(e)
    BY <2>1 DEF Promise!Admit, Recheck, Inside, CountInv, TypeOK, closerVars
  <2>2. ASSUME NEW e \in Execs, Decrement(e), epc[e] = "leaving" PROVE Promise!Leave(e)
    BY <2>2 DEF Promise!Leave, Decrement, Inside, CountInv, TypeOK, closerVars
  <2>3. ASSUME NEW e \in Execs,
               \/ Check(e) \/ Count(e) \/ Finish(e) \/ Signal(e)
               \/ Recheck(e) /\ shuttingDown
               \/ Decrement(e) /\ epc[e] # "leaving"
        PROVE  UNCHANGED <<shuttingDown, Inside, isOk>>
    BY <2>3, Zenon DEF Check, Count, Recheck, Finish, Decrement, Signal, Inside, CountInv,
                TypeOK, closerVars
  <2>4. ASSUME NEW c \in Closers, Begin(c)
        PROVE  Promise!Close \/ UNCHANGED <<shuttingDown, Inside, isOk>>
    <3>1. UNCHANGED <<Inside, isOk>>  BY <2>4 DEF Begin, Inside, execVars, CountInv, TypeOK
    <3> QED  BY <2>4, <3>1, Zenon DEF Begin, Promise!Close, CountInv, TypeOK
  <2>5. ASSUME NEW c \in Closers, Loop(c), Drained PROVE Promise!Announce
    <3>1. Inside = {}  BY <2>5, CountedFinite DEF CountInv
    <3>2. shuttingDown  BY <2>5 DEF CountInv, FlagFirst, Loop
    <3>3. UNCHANGED <<shuttingDown, Inside>> /\ isOk'
      BY <2>5 DEF Loop, Return, Inside, execVars, CountInv, TypeOK
    <3> QED  BY <3>1, <3>2, <3>3 DEF Promise!Announce
  <2>6. ASSUME NEW c \in Closers,
               CloserStep(c) \/ Expire(c) \/ WatcherStep(c), ~(Loop(c) /\ Drained)
        PROVE  UNCHANGED <<shuttingDown, Inside, isOk>>
    BY <2>6, Zenon DEF CloserStep, Lock, Loop, Return, Enter, Test, Park, Wake, Woken, Expire,
                WatcherStep, Fire, Broadcast, Inside, execVars, CountInv, TypeOK
  <2>7. ASSUME UNCHANGED vars PROVE UNCHANGED <<shuttingDown, Inside, isOk>>
    BY <2>7 DEF vars, Inside
  <2> QED  BY <2>1, <2>2, <2>3, <2>4, <2>5, <2>6, <2>7, Zenon DEF Next, ExecStep, Terminated
<1> QED  BY <1>1, <1>2, CountInvInit, CountInvNext, PTL
         DEF Spec, ImplementsQuiescence, Promise!Spec

-----------------------------------------------------------------------------
\* Why no wake-up is lost: a Shutdown call between its test and its Wait holds
\* drainMu, so the broadcast that must follow the decrement to zero is still
\* to come; and the watcher of a call whose context runs is armed.
Holding == {"loop", "enter", "test", "park", "woken"}

WillBeSignalled == Counted # {} \/ \E e \in Execs : epc[e] = "signal"

Watched(c) == c \in WithDeadline => watcher[c] \in {"armed", "fired"} \/ Inside = {}

SleeperInv ==
    \A c \in Closers :
        /\ cpc[c] \in Holding => drainMu = {c}
        /\ cpc[c] = "park" \/ c \in waiters => WillBeSignalled
        /\ cpc[c] \in {"test", "park"} \/ c \in waiters => Watched(c)
        /\ (c \in WithDeadline \ ctxDone /\ cpc[c] \in {"test", "park", "wait", "woken"})
              => watcher[c] = "armed"
        /\ watcher[c] = "fired" => c \in ctxDone
        /\ c \in waiters => cpc[c] = "wait"

\* A call that is counted or owes a broadcast keeps the sleepers covered,
\* except for the broadcast itself.
LEMMA SignalKept ==
    ASSUME CountInv, WillBeSignalled, NEW e \in Execs,
           Check(e) \/ Count(e) \/ Recheck(e) \/ Finish(e) \/ Decrement(e)
    PROVE  WillBeSignalled'
<1>1. CASE Check(e) \/ Count(e) \/ Recheck(e) \/ Finish(e)
  BY <1>1, Zenon DEF WillBeSignalled, Counted, CountInv, TypeOK, Check, Count, Recheck, Finish
<1>2. CASE Decrement(e)
  <2>1. CASE inFlight = 1
    <3>1. epc'[e] = "signal"  BY <1>2, <2>1 DEF Decrement, CountInv, TypeOK
    <3> QED  BY <3>1 DEF WillBeSignalled
  <2>2. CASE inFlight # 1
    <3>1. CountInv'  BY <1>2, CountInvNext DEF Next, ExecStep
    <3>2. e \in Counted  BY <1>2 DEF Counted, Decrement
    <3>3. inFlight # 0  BY <3>2, CountedFinite DEF Drained, CountInv
    <3>4. inFlight' # 0  BY <1>2, <2>2, <3>3 DEF Decrement, CountInv, TypeOK
    <3>5. Cardinality(Counted)' # 0  BY <3>1, <3>4 DEF CountInv, InFlightExact
    <3>6. Counted' # {}  BY <3>5, FS_EmptySet
    <3> QED  BY <3>6 DEF WillBeSignalled
  <2> QED  BY <2>1, <2>2
<1> QED  BY <1>1, <1>2

\* Once some call has begun to shut down, nobody new gets inside; so a sleeper
\* that is covered stays covered as long as its watcher is left alone.
LEMMA WatchedKept ==
    ASSUME CountInv, [Next]_vars, NEW c \in Closers, cpc[c] # "new", Watched(c),
           watcher'[c] = watcher[c]
    PROVE  Watched(c)'
<1>1. shuttingDown  BY DEF CountInv, FlagFirst
<1>2. Inside' \subseteq Inside  BY <1>1, InsideStep
<1> QED  BY <1>2 DEF Watched

LEMMA SleeperNext == CountInv /\ SleeperInv /\ [Next]_vars => SleeperInv'
<1> SUFFICES ASSUME CountInv, SleeperInv, [Next]_vars, NEW c \in Closers
             PROVE  SleeperInv!(c)'
  BY Zenon DEF SleeperInv
<1>0. SleeperInv!(c)  BY DEF SleeperInv
<1>t. TypeOK  BY DEF CountInv
<1> USE DEF Holding
<1>1. ASSUME NEW e \in Execs,
             Check(e) \/ Count(e) \/ Recheck(e) \/ Finish(e) \/ Decrement(e)
      PROVE  SleeperInv!(c)'
  <2>1. UNCHANGED <<drainMu, waiters, cpc, watcher, ctxDone>>
    BY <1>1, Zenon DEF closerVars, Check, Count, Recheck, Finish, Decrement
  <2>2. WillBeSignalled => WillBeSignalled'  BY <1>1, SignalKept
  <2>3. cpc[c] # "new" /\ Watched(c) => Watched(c)'  BY <2>1, WatchedKept
  <2> QED  BY <1>0, <2>1, <2>2, <2>3, Zenon
<1>2. ASSUME NEW e \in Execs, Signal(e) PROVE SleeperInv!(c)'
  <2>1. UNCHANGED <<drainMu, cpc, watcher, ctxDone>> /\ waiters' = {} /\ drainMu = {}
    BY <1>2 DEF closerVars, Signal
  <2> QED  BY <1>0, <2>1
<1>3. ASSUME NEW d \in Closers, Begin(d) \/ CloserStep(d) PROVE SleeperInv!(c)'
  <2>1. Counted' = Counted /\ epc' = epc /\ Inside' = Inside
    BY <1>3, Zenon DEF Begin, CloserStep, Lock, Loop, Return, Enter, Test, Park, Wake, Woken,
                execVars, Counted, Inside
  <2>2. WillBeSignalled' = WillBeSignalled  BY <2>1 DEF WillBeSignalled
  <2>3. SleeperInv!(d)  BY DEF SleeperInv
  <2>4. Drained <=> Counted = {}  BY CountedFinite DEF CountInv
  <2>5. Drained => Inside = {}  BY CountedFinite DEF CountInv
  <2>6. CASE Begin(d) \/ Lock(d)
    BY <1>0, <1>t, <2>1, <2>2, <2>6, Zenon DEF Begin, Lock, Watched, TypeOK
  <2>7. CASE Loop(d)
    BY <1>0, <1>t, <2>1, <2>2, <2>3, <2>7 DEF Loop, Return, Watched, TypeOK
  <2>8. CASE Enter(d)
    BY <1>0, <1>t, <2>1, <2>2, <2>3, <2>8, Zenon DEF Enter, Watched, TypeOK
  <2>9. CASE Test(d)
    BY <1>0, <1>t, <2>1, <2>2, <2>3, <2>4, <2>9, Zenon
       DEF Test, Watched, WillBeSignalled, TypeOK
  <2>10. CASE Park(d)
    BY <1>0, <1>t, <2>1, <2>2, <2>3, <2>10, Zenon DEF Park, Watched, TypeOK
  <2>11. CASE Wake(d)
    BY <1>0, <1>t, <2>1, <2>2, <2>3, <2>11, Zenon DEF Wake, Watched, TypeOK
  <2>12. CASE Woken(d)
    BY <1>0, <1>t, <2>1, <2>2, <2>3, <2>5, <2>12 DEF Woken, Return, Watched, TypeOK
  <2> QED  BY <1>3, <2>6, <2>7, <2>8, <2>9, <2>10, <2>11, <2>12, Zenon DEF CloserStep
<1>4. ASSUME NEW d \in Closers, Expire(d) \/ WatcherStep(d) PROVE SleeperInv!(c)'
  <2>1. Counted' = Counted /\ epc' = epc /\ Inside' = Inside
    BY <1>4 DEF Expire, WatcherStep, Fire, Broadcast, execVars, Counted, Inside
  <2>2. WillBeSignalled' = WillBeSignalled  BY <2>1 DEF WillBeSignalled
  <2> QED  BY <1>0, <1>t, <1>4, <2>1, <2>2, Zenon
           DEF Expire, WatcherStep, Fire, Broadcast, Watched, TypeOK
<1>5. ASSUME UNCHANGED vars PROVE SleeperInv!(c)'
  <2>1. UNCHANGED <<Counted, Inside>>  BY <1>5 DEF vars, Counted, Inside
  <2> QED  BY <1>0, <1>5, <2>1, Zenon DEF vars, WillBeSignalled, Watched
<1> QED  BY <1>1, <1>2, <1>3, <1>4, <1>5, Zenon DEF Next, ExecStep, Terminated

\* No Shutdown call sleeps through the broadcast it waits for.
THEOREM NoSleeperForgotten == Spec => []NoLostWakeup
<1>1. Init => SleeperInv  BY DEF Init, SleeperInv, Holding
<1>2. CountInv /\ SleeperInv => NoLostWakeup
  BY DEF CountInv, TypeOK, SleeperInv, NoLostWakeup, WillBeSignalled, Watched
<1> QED  BY <1>1, <1>2, CountInvInit, CountInvNext, SleeperNext, PTL DEF Spec

-----------------------------------------------------------------------------
(***************************************************************************)
(* Stores.                                                                 *)
(***************************************************************************)

Statuses == {"in_progress", "completed", "failed"}

-----------------------------------------------------------------------------
(***************************************************************************)
(* The memory store.  Seen through Slots, an entry that has expired is     *)
(* gone, whether or not it is still in the map.                            *)
(***************************************************************************)
MemoryInv ==
    /\ now \in Nat
    /\ records \in [Keys -> [status : Statuses \cup {"missing"}, by : Callers \cup {"nobody"},
                             expiresAt : Int]]
    /\ \A k \in Keys : records[k].status = "missing" => records[k] = Memory!Absent

LEMMA MemoryLive ==
  ASSUME MemoryInv, NEW k \in Keys
  PROVE  /\ Memory!Slots[k].status = "missing" <=> Memory!Live(k) = Memory!Absent
         /\ Memory!Live(k) = Memory!Absent => Memory!Slots[k] = Memory!Slot!Missing
         /\ Memory!Live(k) # Memory!Absent => Memory!Live(k) = records[k]
  BY DEF MemoryInv, Memory!Slots, Memory!Live, Memory!isExpired, Memory!Absent,
         Memory!Slot!Missing

\* A call that writes one record changes one slot.
LEMMA MemoryWrite ==
  ASSUME MemoryInv, NEW k \in Keys, NEW status \in Statuses, NEW by \in Callers \cup {"nobody"},
         NEW ttl \in Int, ttl > 0, now' = now,
         records' = [records EXCEPT ![k] = [status |-> status, by |-> by,
                                            expiresAt |-> now + ttl]]
  PROVE  Memory!Slot!Record(k, status, by, ttl) /\ MemoryInv'
<1>1. MemoryInv'
  BY DEF MemoryInv, Statuses
<1>2. \A j \in Keys \ {k} : Memory!Live(j)' = Memory!Live(j)
  BY DEF MemoryInv, Memory!Live, Memory!isExpired
<1>3. Memory!Live(k)' = [status |-> status, by |-> by, expiresAt |-> now + ttl]
  BY DEF MemoryInv, Memory!Live, Memory!isExpired
<1>4. \A j \in Keys \ {k} : Memory!Slots'[j] = Memory!Slots[j]
  BY <1>2 DEF Memory!Slots
<1>5. Memory!Slots'[k] = [status |-> status, by |-> by, until |-> now + ttl]
  BY <1>3 DEF Memory!Slots
<1>6. /\ Memory!Slots = [j \in Keys |-> Memory!Slots[j]]
      /\ Memory!Slots' = [j \in Keys |-> Memory!Slots'[j]]
  BY DEF Memory!Slots
<1>7. Memory!Slots'[k].until >= now + ttl
  BY <1>5 DEF MemoryInv
<1>8. Memory!Slots'[k] = [status |-> status, by |-> by, until |-> Memory!Slots'[k].until]
  BY <1>5
<1>9. Memory!Slots' = [Memory!Slots EXCEPT ![k] = Memory!Slots'[k]]
  BY <1>4, <1>6
<1> QED
  BY <1>1, <1>7, <1>8, <1>9, Zenon DEF Memory!Slot!Record

LEMMA MemoryInit == Memory!Init => MemoryInv /\ Memory!Slot!Init
  BY DEF Memory!Init, MemoryInv, Memory!Slot!Init, Memory!Slots, Memory!Live,
         Memory!isExpired, Memory!Absent, Memory!Answer, Memory!Slot!Missing,
         Memory!Slot!Told

LEMMA MemoryGet ==
  ASSUME MemoryInv, NEW k \in Keys, Memory!Get(k)
  PROVE  MemoryInv' /\ Memory!Slot!Look(k, "nobody")
<1>1. MemoryInv'
  BY DEF MemoryInv, Memory!Get, Memory!Live, Memory!Absent
<1>2. \A j \in Keys : Memory!Live(j)' = Memory!Live(j)
  BY Zenon DEF MemoryInv, Memory!Get, Memory!Live, Memory!isExpired, Memory!Absent
<1>3. Memory!Slots' = Memory!Slots
  BY <1>2 DEF Memory!Slots
<1>4. memoryAnswer' = Memory!Slot!Told("nobody", FALSE, Memory!Slots[k])
  BY Zenon DEF Memory!Get, Memory!Answer, Memory!Slot!Told, Memory!Slots
<1> QED
  BY <1>1, <1>3, <1>4, Zenon DEF Memory!Slot!Look, Memory!Get

LEMMA MemoryBegin ==
  ASSUME MemoryInv, NEW k \in Keys, NEW c \in Callers, NEW ttl \in TTLs, Memory!Begin(k, c, ttl)
  PROVE  MemoryInv' /\ (Memory!Slot!Look(k, c) \/ Memory!Slot!Grant(k, c, ttl))
<1>1. ttl \in Int /\ ttl > 0 /\ now' = now /\ now \in Nat
  BY StoresAssumption DEF Memory!Begin, MemoryInv
<1>2. CASE Memory!Live(k) # Memory!Absent
  <2>1. records' = records /\ memoryAnswer' = Memory!Answer(c, FALSE, records[k])
    BY <1>2, Zenon DEF Memory!Begin
  <2>2. Memory!Slots' = Memory!Slots
    BY <1>1, <2>1 DEF Memory!Slots, Memory!Live, Memory!isExpired
  <2>3. Memory!Live(k) = records[k]
    BY <1>2, MemoryLive
  <2>4. memoryAnswer' = Memory!Slot!Told(c, FALSE, Memory!Slots[k])
    BY <2>1, <2>3, Zenon DEF Memory!Answer, Memory!Slot!Told, Memory!Slots
  <2> QED
    BY <1>1, <2>1, <2>2, <2>4, Zenon DEF Memory!Slot!Look, MemoryInv
<1>3. CASE Memory!Live(k) = Memory!Absent
  <2>1. /\ records' = [records EXCEPT ![k] = [status |-> "in_progress", by |-> c,
                                              expiresAt |-> now + ttl]]
        /\ memoryAnswer' = [to |-> c, acquired |-> TRUE, status |-> "in_progress", by |-> c]
    BY <1>3 DEF Memory!Begin, Memory!Answer
  <2>2. Memory!Slot!Record(k, "in_progress", c, ttl) /\ MemoryInv'
    BY <1>1, <2>1, MemoryWrite, Zenon DEF Statuses
  <2>3. Memory!Slots[k].status = "missing"
    BY <1>3, MemoryLive
  <2> QED
    BY <1>1, <2>1, <2>2, <2>3 DEF Memory!Slot!Grant
<1> QED
  BY <1>2, <1>3

LEMMA MemorySettle ==
  ASSUME MemoryInv, NEW k \in Keys, NEW c \in Callers, NEW ttl \in TTLs,
         NEW status \in {"completed", "failed"}, Memory!setTerminalStatus(k, c, ttl, status)
  PROVE  MemoryInv' /\ ttl > 0 /\ Memory!Slot!Settle(k, c, ttl, status)
<1> DEFINE by == IF Memory!Live(k) # Memory!Absent THEN records[k].by ELSE c
<1>1. ttl \in Int /\ ttl > 0 /\ now' = now /\ now \in Nat
  BY StoresAssumption DEF Memory!setTerminalStatus, MemoryInv
<1>2. /\ records' = [records EXCEPT ![k] = [status |-> status, by |-> by,
                                            expiresAt |-> now + ttl]]
      /\ memoryAnswer' = Memory!Answer(c, FALSE, Memory!Absent)
  BY DEF Memory!setTerminalStatus, MemoryInv
<1>3. /\ by \in Callers \cup {"nobody"}
      /\ by = IF Memory!Slots[k].status = "missing" THEN c ELSE Memory!Slots[k].by
  BY MemoryLive, Zenon DEF MemoryInv, Memory!Slots
<1> HIDE DEF by
<1>4. status \in Statuses
  BY DEF Statuses
<1>5. Memory!Slot!Record(k, status, by, ttl) /\ MemoryInv'
  BY <1>1, <1>2, <1>3, <1>4, MemoryWrite, Zenon
<1>6. memoryAnswer' = Memory!Slot!Told(c, FALSE, Memory!Slot!Missing)
  BY <1>2 DEF Memory!Answer, Memory!Absent, Memory!Slot!Told,
              Memory!Slot!Missing
<1> QED
  BY <1>1, <1>3, <1>5, <1>6, Zenon DEF Memory!Slot!Settle

LEMMA MemoryTick ==
  ASSUME MemoryInv, Memory!Tick
  PROVE  MemoryInv' /\ Memory!Slot!Pass
<1>1. now \in Nat /\ now' = now + 1 /\ UNCHANGED <<records, memoryAnswer>>
  BY DEF MemoryInv, Memory!Tick
<1>2. \A k \in Keys : \/ Memory!Slots'[k] = Memory!Slots[k]
                      \/ /\ Memory!Slots'[k] = Memory!Slot!Missing
                         /\ Memory!Slots[k].until <= now'
  BY <1>1 DEF MemoryInv, Memory!Slots, Memory!Live, Memory!isExpired, Memory!Absent,
              Memory!Slot!Missing
<1>3. Memory!Slots' = [k \in Keys |-> Memory!Slots'[k]]
  BY DEF Memory!Slots
<1> QED
  BY <1>1, <1>2, <1>3 DEF MemoryInv, Memory!Slot!Pass

\* One step of the two stores is a step of the slot, or none, as the callers
\* of the memory store see it.
LEMMA MemoryStep ==
  ASSUME MemoryInv, [StoresNext]_storesVars
  PROVE  MemoryInv' /\ [Memory!Slot!Next]_<<now, Memory!Slots, memoryAnswer>>
<1>1. CASE UNCHANGED <<now, records, memoryAnswer>>
  <2>1. Memory!Slots' = Memory!Slots
    BY <1>1 DEF Memory!Slots, Memory!Live, Memory!isExpired
  <2> QED
    BY <1>1, <2>1 DEF MemoryInv
<1>2. ASSUME NEW k \in Keys, Memory!Get(k)
      PROVE  MemoryInv' /\ Memory!Slot!Next
  BY <1>2, MemoryGet DEF Memory!Slot!Next
<1>3. ASSUME NEW k \in Keys, NEW c \in Callers, NEW ttl \in TTLs, Memory!Begin(k, c, ttl)
      PROVE  MemoryInv' /\ Memory!Slot!Next
  <2>1. ttl \in {t \in TTLs : t > 0}
    BY <1>3 DEF Memory!Begin
  <2> QED
    BY <1>3, <2>1, MemoryBegin DEF Memory!Slot!Next
<1>4. ASSUME NEW k \in Keys, NEW c \in Callers, NEW ttl \in TTLs,
             Memory!Complete(k, c, ttl) \/ Memory!Fail(k, c, ttl)
      PROVE  MemoryInv' /\ Memory!Slot!Next
  <2>1. PICK status \in {"completed", "failed"} : Memory!setTerminalStatus(k, c, ttl, status)
    BY <1>4 DEF Memory!Complete, Memory!Fail
  <2>2. MemoryInv' /\ ttl > 0 /\ Memory!Slot!Settle(k, c, ttl, status)
    BY <2>1, MemorySettle
  <2> QED
    BY <2>2 DEF Memory!Slot!Next, Memory!Slot!Terminal
<1>5. ASSUME Memory!Tick
      PROVE  MemoryInv' /\ Memory!Slot!Next
  BY <1>5, MemoryTick DEF Memory!Slot!Next
<1>6. CASE StoresNext
  BY <1>1, <1>2, <1>3, <1>4, <1>5, <1>6, Zenon DEF StoresNext, Redis!Expire
<1> QED
  BY <1>1, <1>6 DEF storesVars

\* The memory store implements the slot: a live record is granted to nobody
\* else, none is forgotten before the TTL it was written with is over, and
\* a settled record keeps the names of the caller who began it.
THEOREM MemoryRefines == StoresSpec => MemoryImplementsSlot
<1>1. StoresInit => MemoryInv /\ Memory!Slot!Init
  BY MemoryInit DEF StoresInit
<1>2. MemoryInv /\ [StoresNext]_storesVars => MemoryInv' /\ [Memory!Slot!Next]_<<now, Memory!Slots, memoryAnswer>>
  BY MemoryStep
<1>3. [Memory!Slot!Next]_<<now, Memory!Slots, memoryAnswer>> => [Memory!Slot!Next]_(Memory!Slot!vars)
  BY DEF Memory!Slot!vars
<1> QED
  BY <1>1, <1>2, <1>3, PTL DEF StoresSpec, MemoryImplementsSlot, Memory!MemoryImplementsSlot, Memory!Slot!Spec

-----------------------------------------------------------------------------
(***************************************************************************)
(* The Redis store.  The deadline of an entry is the TTL rounded up to     *)
(* milliseconds, never down, from the moment the script ran.               *)
(***************************************************************************)
RedisInv ==
    /\ now \in Nat
    /\ entries \in [Keys -> [status : Statuses \cup {"missing"}, by : Callers \cup {"nobody"},
                             deadline : Int]]
    /\ \A k \in Keys : entries[k].status = "missing" => entries[k] = Redis!Absent

LEMMA Division ==
  ASSUME NEW q \in Int, NEW r \in 0..(Millisecond - 1)
  PROVE  (q + (IF r = 0 THEN 0 ELSE 1)) * Millisecond >= Millisecond * q + r
<1>1. CASE r = 0
  BY <1>1, StoresAssumption
<1>2. CASE r # 0
  <2>1. (q + 1) * Millisecond = Millisecond * q + Millisecond
    BY StoresAssumption
  <2> QED
    BY <1>2, <2>1, StoresAssumption
<1> QED
  BY <1>1, <1>2

LEMMA RoundedUp ==
  ASSUME NEW ttl \in Int, ttl > 0
  PROVE  /\ Redis!durationToMillis(ttl) \in Int
         /\ Redis!durationToMillis(ttl) * Millisecond \in Int
         /\ Redis!durationToMillis(ttl) * Millisecond >= ttl
<1>1. ttl \div Millisecond \in Int /\ ttl % Millisecond \in 0..(Millisecond - 1)
  BY StoresAssumption
<1>2. ttl = Millisecond * (ttl \div Millisecond) + (ttl % Millisecond)
  BY StoresAssumption
<1>3. (ttl \div Millisecond + (IF ttl % Millisecond = 0 THEN 0 ELSE 1)) * Millisecond
         >= Millisecond * (ttl \div Millisecond) + (ttl % Millisecond)
  BY <1>1, Division
<1>4. Redis!durationToMillis(ttl) * Millisecond >= ttl
  BY <1>2, <1>3 DEF Redis!durationToMillis
<1>5. Redis!durationToMillis(ttl) \in Int
  BY <1>1 DEF Redis!durationToMillis
<1> QED
  BY <1>4, <1>5, StoresAssumption

LEMMA RedisWrite ==
  ASSUME RedisInv, NEW k \in Keys, NEW status \in Statuses, NEW by \in Callers \cup {"nobody"},
         NEW ttl \in Int, ttl > 0, now' = now,
         Redis!SetEx(k, Redis!durationToMillis(ttl), status, by)
  PROVE  Redis!Slot!Record(k, status, by, ttl) /\ RedisInv'
<1> DEFINE deadline == now + Redis!durationToMillis(ttl) * Millisecond
<1>1. deadline \in Int /\ deadline >= now + ttl
  BY RoundedUp DEF RedisInv
<1>2. entries' = [entries EXCEPT ![k] = [status |-> status, by |-> by, deadline |-> deadline]]
  BY DEF Redis!SetEx
<1> HIDE DEF deadline
<1>3. RedisInv'
  BY <1>1, <1>2, Zenon DEF RedisInv, Statuses
<1>4. \A j \in Keys \ {k} : Redis!Slots'[j] = Redis!Slots[j]
  BY <1>2 DEF RedisInv, Redis!Slots
<1>5. Redis!Slots'[k] = [status |-> status, by |-> by, until |-> deadline]
  BY <1>2 DEF RedisInv, Redis!Slots
<1>6. /\ Redis!Slots = [j \in Keys |-> Redis!Slots[j]]
      /\ Redis!Slots' = [j \in Keys |-> Redis!Slots'[j]]
  BY DEF Redis!Slots
<1>7. Redis!Slots'[k].until >= now + ttl
  BY <1>1, <1>5
<1>8. Redis!Slots'[k] = [status |-> status, by |-> by, until |-> Redis!Slots'[k].until]
  BY <1>5
<1>9. Redis!Slots' = [Redis!Slots EXCEPT ![k] = Redis!Slots'[k]]
  BY <1>4, <1>6
<1> QED
  BY <1>3, <1>7, <1>8, <1>9, Zenon DEF Redis!Slot!Record

LEMMA RedisInit == Redis!Init => RedisInv /\ Redis!Slot!Init
  BY DEF Redis!Init, RedisInv, Redis!Slot!Init, Redis!Slots, Redis!Absent, Redis!Answer,
         Redis!Slot!Missing, Redis!Slot!Told

LEMMA RedisLook ==
  ASSUME RedisInv, NEW k \in Keys, NEW c \in Callers \cup {"nobody"},
         UNCHANGED <<now, entries>>, redisAnswer' = Redis!Answer(c, FALSE, entries[k])
  PROVE  RedisInv' /\ Redis!Slot!Look(k, c)
<1>1. Redis!Slots' = Redis!Slots
  BY DEF Redis!Slots
<1>2. redisAnswer' = Redis!Slot!Told(c, FALSE, Redis!Slots[k])
  BY Zenon DEF Redis!Answer, Redis!Slot!Told, Redis!Slots
<1> QED
  BY <1>1, <1>2, Zenon DEF Redis!Slot!Look, RedisInv

LEMMA RedisBegin ==
  ASSUME RedisInv, NEW k \in Keys, NEW c \in Callers, NEW ttl \in TTLs, Redis!Begin(k, c, ttl)
  PROVE  RedisInv' /\ (Redis!Slot!Look(k, c) \/ Redis!Slot!Grant(k, c, ttl))
<1>1. ttl \in Int /\ ttl > 0 /\ now' = now
  BY StoresAssumption DEF Redis!Begin
<1>2. CASE entries[k] # Redis!Absent
  <2>1. UNCHANGED <<now, entries>> /\ redisAnswer' = Redis!Answer(c, FALSE, entries[k])
    BY <1>1, <1>2, Zenon DEF Redis!Begin, Redis!beginScript
  <2> QED
    BY <2>1, RedisLook, Zenon
<1>3. CASE entries[k] = Redis!Absent
  <2>1. /\ Redis!SetEx(k, Redis!durationToMillis(ttl), "in_progress", c)
        /\ redisAnswer' = Redis!Answer(c, TRUE, entries'[k])
    BY <1>3 DEF Redis!Begin, Redis!beginScript
  <2>2. Redis!Slot!Record(k, "in_progress", c, ttl) /\ RedisInv'
    BY <1>1, <2>1, RedisWrite DEF Statuses
  <2>3. entries'[k].status = "in_progress" /\ entries'[k].by = c
    BY <2>1 DEF Redis!SetEx, RedisInv
  <2>4. redisAnswer' = [to |-> c, acquired |-> TRUE, status |-> "in_progress", by |-> c]
    BY <2>1, <2>3 DEF Redis!Answer
  <2>5. Redis!Slots[k].status = "missing"
    BY <1>3 DEF Redis!Slots, Redis!Absent
  <2> QED
    BY <1>1, <2>2, <2>4, <2>5 DEF Redis!Slot!Grant
<1> QED
  BY <1>2, <1>3

LEMMA RedisSettle ==
  ASSUME RedisInv, NEW k \in Keys, NEW c \in Callers, NEW ttl \in TTLs,
         NEW status \in {"completed", "failed"}, Redis!setTerminalStatus(k, c, ttl, status)
  PROVE  RedisInv' /\ ttl > 0 /\ Redis!Slot!Settle(k, c, ttl, status)
<1> DEFINE by == IF entries[k] # Redis!Absent THEN entries[k].by ELSE c
<1>1. ttl \in Int /\ ttl > 0 /\ now' = now
  BY StoresAssumption DEF Redis!setTerminalStatus
<1>2. /\ Redis!SetEx(k, Redis!durationToMillis(ttl), status, by)
      /\ redisAnswer' = Redis!Answer(c, FALSE, Redis!Absent)
  BY DEF Redis!setTerminalStatus, Redis!terminalScript
<1>3. /\ by \in Callers \cup {"nobody"}
      /\ by = IF Redis!Slots[k].status = "missing" THEN c ELSE Redis!Slots[k].by
  BY DEF RedisInv, Redis!Slots, Redis!Absent
<1> HIDE DEF by
<1>4. status \in Statuses
  BY DEF Statuses
<1>5. Redis!Slot!Record(k, status, by, ttl) /\ RedisInv'
  BY <1>1, <1>2, <1>3, <1>4, RedisWrite, Zenon
<1>6. redisAnswer' = Redis!Slot!Told(c, FALSE, Redis!Slot!Missing)
  BY <1>2 DEF Redis!Answer, Redis!Absent, Redis!Slot!Told,
              Redis!Slot!Missing
<1> QED
  BY <1>1, <1>3, <1>5, <1>6, Zenon DEF Redis!Slot!Settle

LEMMA RedisPass ==
  ASSUME RedisInv, Redis!Tick \/ \E k \in Keys : Redis!Expire(k)
  PROVE  RedisInv' /\ Redis!Slot!Pass
<1>1. now' \in {now, now + 1} /\ now' \in Nat /\ redisAnswer' = redisAnswer
  BY DEF RedisInv, Redis!Tick, Redis!Expire
<1>2. RedisInv'
  BY <1>1 DEF RedisInv, Redis!Tick, Redis!Expire, Redis!Absent
<1>3. \A k \in Keys : \/ Redis!Slots'[k] = Redis!Slots[k]
                      \/ /\ Redis!Slots'[k] = Redis!Slot!Missing
                         /\ Redis!Slots[k].until <= now'
  BY <1>1 DEF RedisInv, Redis!Tick, Redis!Expire, Redis!Slots, Redis!Absent, Redis!Slot!Missing
<1>4. Redis!Slots' = [k \in Keys |-> Redis!Slots'[k]]
  BY DEF Redis!Slots
<1> QED
  BY <1>1, <1>2, <1>3, <1>4 DEF Redis!Slot!Pass

LEMMA RedisStep ==
  ASSUME RedisInv, [StoresNext]_storesVars
  PROVE  RedisInv' /\ [Redis!Slot!Next]_<<now, Redis!Slots, redisAnswer>>
<1>1. CASE UNCHANGED storesVars
  <2>1. Redis!Slots' = Redis!Slots
    BY <1>1 DEF storesVars, Redis!Slots
  <2> QED
    BY <1>1, <2>1 DEF storesVars, RedisInv
<1>2. ASSUME NEW k \in Keys, Redis!Get(k)
      PROVE  RedisInv' /\ Redis!Slot!Next
  <2>1. UNCHANGED <<now, entries>> /\ redisAnswer' = Redis!Answer("nobody", FALSE, entries[k])
    BY <1>2 DEF Redis!Get
  <2> QED
    BY <2>1, RedisLook, Zenon DEF Redis!Slot!Next
<1>3. ASSUME NEW k \in Keys, NEW c \in Callers, NEW ttl \in TTLs, Redis!Begin(k, c, ttl)
      PROVE  RedisInv' /\ Redis!Slot!Next
  <2>1. ttl \in {t \in TTLs : t > 0}
    BY <1>3 DEF Redis!Begin
  <2> QED
    BY <1>3, <2>1, RedisBegin DEF Redis!Slot!Next
<1>4. ASSUME NEW k \in Keys, NEW c \in Callers, NEW ttl \in TTLs,
             Redis!Complete(k, c, ttl) \/ Redis!Fail(k, c, ttl)
      PROVE  RedisInv' /\ Redis!Slot!Next
  <2>1. PICK status \in {"completed", "failed"} : Redis!setTerminalStatus(k, c, ttl, status)
    BY <1>4 DEF Redis!Complete, Redis!Fail
  <2>2. RedisInv' /\ ttl > 0 /\ Redis!Slot!Settle(k, c, ttl, status)
    BY <2>1, RedisSettle
  <2> QED
    BY <2>2 DEF Redis!Slot!Next, Redis!Slot!Terminal
<1>5. ASSUME Redis!Tick \/ \E k \in Keys : Redis!Expire(k)
      PROVE  RedisInv' /\ Redis!Slot!Next
  BY <1>5, RedisPass DEF Redis!Slot!Next
<1>6. CASE StoresNext
  BY <1>2, <1>3, <1>4, <1>5, <1>6 DEF StoresNext
<1> QED
  BY <1>1, <1>6

\* The Redis store implements the slot: whatever the TTL in nanoseconds, the
\* key lives at least as long; a script that runs a second time finds the
\* record of the first; a settled record keeps the names it was begun with.
THEOREM RedisRefines == StoresSpec => RedisImplementsSlot
<1>1. StoresInit => RedisInv /\ Redis!Slot!Init
  BY RedisInit DEF StoresInit
<1>2. RedisInv /\ [StoresNext]_storesVars => RedisInv' /\ [Redis!Slot!Next]_<<now, Redis!Slots, redisAnswer>>
  BY RedisStep
<1>3. [Redis!Slot!Next]_<<now, Redis!Slots, redisAnswer>> => [Redis!Slot!Next]_(Redis!Slot!vars)
  BY DEF Redis!Slot!vars
<1> QED
  BY <1>1, <1>2, <1>3, PTL DEF StoresSpec, RedisImplementsSlot, Redis!RedisImplementsSlot, Redis!Slot!Spec
=============================================================================
