----------------------------- MODULE MemoryStore ----------------------------
(***************************************************************************)
(* idempotency/memory: a map of records with an expiry time each, behind a *)
(* mutex per shard; an expired record stays in the map until somebody      *)
(* looks at it.  Every call is one step: nothing it does is visible before *)
(* the mutex is released.  The caller stands for OwnerID and MessageID;    *)
(* ConsumerGroup and Attempt are kept and lost together with them.         *)
(***************************************************************************)
EXTENDS Integers

CONSTANTS Keys, Callers,
          TTLs,         \* what a caller passes as TTL, 0 and less included
          Horizon       \* bound: the clock stops there

VARIABLES now, records, answer

vars == <<now, records, answer>>

Absent == [status |-> "missing", by |-> "nobody", expiresAt |-> 0]
Answer(c, acquired, r) == [to |-> c, acquired |-> acquired, status |-> r.status, by |-> r.by]

Init == /\ now = 0
        /\ records = [k \in Keys |-> Absent]
        /\ answer = Answer("nobody", FALSE, Absent)

isExpired(r) == r.expiresAt <= now

\* The record a call works with: one that has expired is deleted first.
Live(k) == IF isExpired(records[k]) THEN Absent ELSE records[k]

Get(k) == /\ records' = [records EXCEPT ![k] = Live(k)]
          /\ answer' = Answer("nobody", FALSE, Live(k))
          /\ UNCHANGED now

Begin(k, c, ttl) ==
    LET record == [status |-> "in_progress", by |-> c, expiresAt |-> now + ttl] IN
    /\ ttl > 0
    /\ \/ /\ Live(k) # Absent
          /\ answer' = Answer(c, FALSE, records[k])
          /\ UNCHANGED records
       \/ /\ Live(k) = Absent
          /\ records' = [records EXCEPT ![k] = record]
          /\ answer' = Answer(c, TRUE, record)
    /\ UNCHANGED now

\* Mutant of setTerminalStatus: the existing record is kept although it has
\* expired.
setTerminalStatusStale(k, c, ttl, status) ==
    /\ ttl > 0
    /\ records' = [records EXCEPT ![k] =
                      [status |-> status, by |-> IF @ # Absent THEN @.by ELSE c,
                       expiresAt |-> now + ttl]]
    /\ answer' = Answer(c, FALSE, Absent)
    /\ UNCHANGED now

setTerminalStatus(k, c, ttl, status) ==
    /\ ttl > 0
    /\ records' = [records EXCEPT ![k] =
                      [status |-> status, by |-> IF Live(k) # Absent THEN @.by ELSE c,
                       expiresAt |-> now + ttl]]
    /\ answer' = Answer(c, FALSE, Absent)
    /\ UNCHANGED now

Complete(k, c, ttl) == setTerminalStatus(k, c, ttl, "completed")
Fail(k, c, ttl) == setTerminalStatus(k, c, ttl, "failed")

Tick == /\ now < Horizon
        /\ now' = now + 1
        /\ UNCHANGED <<records, answer>>

Next == \/ \E k \in Keys : Get(k)
        \/ \E k \in Keys, c \in Callers, ttl \in TTLs :
              Begin(k, c, ttl) \/ Complete(k, c, ttl) \/ Fail(k, c, ttl)
        \/ Tick

Spec == Init /\ [][Next]_vars

-----------------------------------------------------------------------------
\* What the callers see of the map: an expired record is no record.
Slots == [k \in Keys |-> [status |-> Live(k).status, by |-> Live(k).by,
                          until |-> Live(k).expiresAt]]
Slot == INSTANCE IdempotencySlot WITH slots <- Slots, TTLs <- {t \in TTLs : t > 0}

\* The memory store keeps the promises of the slot: it grants a key once as
\* long as its record lives, forgets nothing before its TTL is over, and
\* settles a live record in the name of its owner, an expired one in the name
\* of the caller.
MemoryImplementsSlot == Slot!Spec
=============================================================================
