--------------------------- MODULE IdempotencySlot --------------------------
(***************************************************************************)
(* What the worker manager relies on when it takes the processing slot of  *)
(* a message in an idempotency store, whichever store it is: Begin grants  *)
(* the slot to one caller and tells every other what is recorded; what was *)
(* recorded with a TTL is not forgotten before the TTL is over; Complete   *)
(* and Fail keep the names of the caller whose slot they settle.           *)
(***************************************************************************)
EXTENDS Naturals

CONSTANTS Keys,         \* idempotency keys
          Callers,      \* what a call says of itself: OwnerID and MessageID
          TTLs          \* the TTLs the callers ask for, in ticks of the clock

VARIABLES now,          \* the clock of the store
          slots,        \* key -> what is recorded, and until when at least
          answer        \* what the last call returned, and to whom

vars == <<now, slots, answer>>

Missing == [status |-> "missing", by |-> "nobody", until |-> 0]
Terminal == {"completed", "failed"}

\* What a caller is told of a record; Get does not say who calls.
Told(c, acquired, r) == [to |-> c, acquired |-> acquired, status |-> r.status, by |-> r.by]

Init == /\ now = 0
        /\ slots = [k \in Keys |-> Missing]
        /\ answer = Told("nobody", FALSE, Missing)

\* A record is written that lasts for the TTL, or longer.
Record(k, status, by, ttl) ==
    /\ slots'[k].until >= now + ttl
    /\ slots' = [slots EXCEPT ![k] = [status |-> status, by |-> by, until |-> slots'[k].until]]

Grant(k, c, ttl) == /\ slots[k].status = "missing"
                    /\ Record(k, "in_progress", c, ttl)
                    /\ answer' = [to |-> c, acquired |-> TRUE, status |-> "in_progress", by |-> c]
                    /\ UNCHANGED now

Look(k, c) == /\ answer' = Told(c, FALSE, slots[k])
              /\ UNCHANGED <<now, slots>>

Settle(k, c, ttl, status) ==
    /\ Record(k, status, IF slots[k].status = "missing" THEN c ELSE slots[k].by, ttl)
    /\ answer' = Told(c, FALSE, Missing)
    /\ UNCHANGED now

\* Time passes and some of the records whose time is over are forgotten.
Pass == /\ now' \in {now, now + 1}
        /\ \A k \in Keys : slots'[k] = slots[k] \/ (slots'[k] = Missing /\ slots[k].until <= now')
        /\ slots' = [k \in Keys |-> slots'[k]]
        /\ UNCHANGED answer

Next == \/ \E k \in Keys, c \in Callers, ttl \in TTLs :
              \/ Grant(k, c, ttl)
              \/ \E status \in Terminal : Settle(k, c, ttl, status)
        \/ \E k \in Keys, c \in Callers \cup {"nobody"} : Look(k, c)
        \/ Pass

Spec == Init /\ [][Next]_vars
=============================================================================
