----------------------------- MODULE FencedLock -----------------------------
(***************************************************************************)
(* What backend.StrictDriver promises: at most one live lease per strict   *)
(* boundary, and a fencing token that grows with every new lease.  A lease *)
(* may end at any time (release, expiry), and a renewal that reaches the   *)
(* store before anybody else acquires may keep an ending lease alive.      *)
(***************************************************************************)
EXTENDS Naturals

CONSTANTS Keys, Sessions

VARIABLES live,     \* key -> is there a live lease?
          last      \* key -> the session and token of the last lease

vars == <<live, last>>

Init == /\ live = [k \in Keys |-> FALSE]
        /\ last = [k \in Keys |-> [by |-> "nobody", token |-> 0]]

Grant(s, k) == /\ ~live[k]
               /\ live' = [live EXCEPT ![k] = TRUE]
               /\ last' = [last EXCEPT ![k] = [by |-> s, token |-> @.token + 1]]

Lapse(k) == /\ live[k]
            /\ live' = [live EXCEPT ![k] = FALSE]
            /\ UNCHANGED last

Revive(k) == /\ ~live[k]
             /\ last[k].token # 0
             /\ live' = [live EXCEPT ![k] = TRUE]
             /\ UNCHANGED last

Step(k) == Lapse(k) \/ Revive(k) \/ \E s \in Sessions : Grant(s, k)

\* Time ends leases of several boundaries at once.
LapseSome == /\ \A k \in Keys : live'[k] => live[k]
             /\ live' \in [Keys -> BOOLEAN]
             /\ UNCHANGED last

Next == LapseSome \/ \E k \in Keys : Step(k)

Spec == Init /\ [][Next]_vars
=============================================================================
