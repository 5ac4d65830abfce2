------------------------------- MODULE Stores --------------------------------
(***************************************************************************)
(* The two idempotency stores side by side, under the same calls and one   *)
(* clock: an application may exchange one for the other.                   *)
(***************************************************************************)
EXTENDS Integers

CONSTANTS Keys, Callers, TTLs, Millisecond, Horizon

ASSUME StoresAssumption == TTLs \subseteq Int /\ Millisecond \in Nat \ {0}

VARIABLES now, records, memoryAnswer, entries, redisAnswer

Memory == INSTANCE MemoryStore WITH answer <- memoryAnswer
Redis == INSTANCE RedisStore WITH answer <- redisAnswer

storesVars == <<now, records, memoryAnswer, entries, redisAnswer>>

StoresInit == Memory!Init /\ Redis!Init

StoresNext ==
    \/ \E k \in Keys : Memory!Get(k) /\ Redis!Get(k)
    \/ \E k \in Keys, c \in Callers, ttl \in TTLs :
          \/ Memory!Begin(k, c, ttl) /\ Redis!Begin(k, c, ttl)
          \/ Memory!Complete(k, c, ttl) /\ Redis!Complete(k, c, ttl)
          \/ Memory!Fail(k, c, ttl) /\ Redis!Fail(k, c, ttl)
    \/ \E k \in Keys : Redis!Expire(k) /\ UNCHANGED <<records, memoryAnswer>>
    \/ Memory!Tick /\ Redis!Tick

StoresSpec == StoresInit /\ [][StoresNext]_storesVars

\* Each store keeps the promises of the slot the worker manager relies on.
MemoryImplementsSlot == Memory!MemoryImplementsSlot
RedisImplementsSlot == Redis!RedisImplementsSlot
=============================================================================
