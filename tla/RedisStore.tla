----------------------------- MODULE RedisStore -----------------------------
(***************************************************************************)
(* idempotency/redis: one key per record.  Begin and the terminal calls    *)
(* are a script each, which the server runs in one step; the expiry is the *)
(* server's.  The times written into the record come from the clock of the *)
(* caller, and nothing reads them.  A TTL is in ticks of time.Duration, a  *)
(* deadline at the server in whole milliseconds from the call.  A call     *)
(* whose answer was lost is sent again by the Redis client: to the server  *)
(* that is one more call of the same caller.                               *)
(***************************************************************************)
EXTENDS Integers

CONSTANTS Keys, Callers,
          TTLs,         \* what a caller passes as TTL, in ticks, 0 and less included
          Millisecond,  \* time.Millisecond, in ticks
          Horizon       \* bound: the clock stops there

VARIABLES now,          \* the clock of the server
          entries,      \* the server: key -> record and deadline
          answer

vars == <<now, entries, answer>>

Absent == [status |-> "missing", by |-> "nobody", deadline |-> 0]
Answer(c, acquired, r) == [to |-> c, acquired |-> acquired, status |-> r.status, by |-> r.by]

Init == /\ now = 0
        /\ entries = [k \in Keys |-> Absent]
        /\ answer = Answer("nobody", FALSE, Absent)

\* Mutant of durationToMillis: the rest of the division is dropped.
durationToMillisDown(ttl) == ttl \div Millisecond

durationToMillis(ttl) == ttl \div Millisecond + (IF ttl % Millisecond = 0 THEN 0 ELSE 1)

\* PSETEX.
SetEx(k, millis, status, by) ==
    entries' = [entries EXCEPT ![k] = [status |-> status, by |-> by,
                                       deadline |-> now + millis * Millisecond]]

Get(k) == /\ answer' = Answer("nobody", FALSE, entries[k])
          /\ UNCHANGED <<now, entries>>

beginScript(k, c, millis) ==
    \/ /\ entries[k] # Absent
       /\ answer' = Answer(c, FALSE, entries[k])
       /\ UNCHANGED entries
    \/ /\ entries[k] = Absent
       /\ SetEx(k, millis, "in_progress", c)
       /\ answer' = Answer(c, TRUE, entries'[k])

Begin(k, c, ttl) == /\ ttl > 0
                    /\ beginScript(k, c, durationToMillis(ttl))
                    /\ UNCHANGED now

terminalScript(k, c, millis, status) ==
    /\ SetEx(k, millis, status, IF entries[k] # Absent THEN entries[k].by ELSE c)
    /\ answer' = Answer(c, FALSE, Absent)

setTerminalStatus(k, c, ttl, status) ==
    /\ ttl > 0
    /\ terminalScript(k, c, durationToMillis(ttl), status)
    /\ UNCHANGED now

Complete(k, c, ttl) == setTerminalStatus(k, c, ttl, "completed")
Fail(k, c, ttl) == setTerminalStatus(k, c, ttl, "failed")

\* The server removes a key when its deadline is over, or some time later.
Expire(k) == /\ entries[k] # Absent
             /\ entries[k].deadline <= now
             /\ entries' = [entries EXCEPT ![k] = Absent]
             /\ UNCHANGED <<now, answer>>

Tick == /\ now < Horizon
        /\ now' = now + 1
        /\ UNCHANGED <<entries, answer>>

Next == \/ \E k \in Keys : Get(k) \/ Expire(k)
        \/ \E k \in Keys, c \in Callers, ttl \in TTLs :
              Begin(k, c, ttl) \/ Complete(k, c, ttl) \/ Fail(k, c, ttl)
        \/ Tick

Spec == Init /\ [][Next]_vars

-----------------------------------------------------------------------------
Slots == [k \in Keys |-> [status |-> entries[k].status, by |-> entries[k].by,
                          until |-> entries[k].deadline]]
Slot == INSTANCE IdempotencySlot WITH slots <- Slots, TTLs <- {t \in TTLs : t > 0}

\* The Redis store keeps the promises of the slot: rounding to milliseconds
\* never shortens a TTL, a Begin that is sent twice is granted once, and a
\* record that is settled keeps the name it was begun with.
RedisImplementsSlot == Slot!Spec
=============================================================================
