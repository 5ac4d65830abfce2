---------------------------- MODULE GuardedWrite ----------------------------
(***************************************************************************)
(* Strict leases protecting rows of a database: the callbacks of a strict  *)
(* use case write through a guarded UPDATE and classify its result with    *)
(* guard/postgres.  Leases come from FencedLock; a callback keeps its      *)
(* fencing token when its lease has ended, so late writes are possible.    *)
(*                                                                         *)
(* The statement is the one of the repository's example and integration    *)
(* test, under READ COMMITTED: its "target" part reads the snapshot taken  *)
(* when the statement starts, its UPDATE waits for concurrent writers and  *)
(* tests the row as they left it.                                          *)
(***************************************************************************)
EXTENDS FencedLock

CONSTANT Absent         \* the id of a row that does not exist

ASSUME GuardAssumption == /\ Absent \notin Keys
                          /\ "nobody" \notin Sessions

VARIABLES ticket,       \* session -> the boundary and token of its lease
          row,          \* boundary -> last_fencing_token of its row
          stmt,         \* session -> the statement it has started, if any
          outcome,      \* session -> the classification of its last statement
          writers       \* history: boundary -> sessions whose write was applied

guardVars == <<live, last, ticket, row, stmt, outcome, writers>>

NoTicket == [key |-> Absent, token |-> 0]
NoStmt == [row |-> Absent, seen |-> 0, open |-> FALSE]

GuardInit == /\ Init
             /\ ticket = [s \in Sessions |-> NoTicket]
             /\ row = [k \in Keys |-> 0]
             /\ stmt = [s \in Sessions |-> NoStmt]
             /\ outcome = [s \in Sessions |-> "none"]
             /\ writers = [k \in Keys |-> {}]

\* A strict acquire hands the callback its token (FromLeaseContext).
Obtain(s, k) == /\ ticket[s] = NoTicket
                /\ Grant(s, k)
                /\ ticket' = [ticket EXCEPT ![s] = [key |-> k, token |-> last[k].token + 1]]
                /\ UNCHANGED <<row, stmt, outcome, writers>>

End(k) == /\ Lapse(k) \/ Revive(k)
          /\ UNCHANGED <<ticket, row, stmt, outcome, writers>>

\* The statement starts: the repository names a row, its own or, by mistake,
\* another one or one that is not there.
Start(s, r) == /\ ticket[s] # NoTicket
               /\ ~stmt[s].open
               /\ stmt' = [stmt EXCEPT ![s] = [row |-> r, open |-> TRUE,
                                               seen |-> IF r = Absent THEN 0 ELSE row[r]]]
               /\ UNCHANGED <<live, last, ticket, row, outcome, writers>>

Classify(s, applied) ==
    CASE stmt[s].row = Absent           -> "row_not_found"
      [] applied                        -> "applied"
      [] stmt[s].row \notin {Absent, ticket[s].key} /\ ~applied -> "boundary_mismatch"
      [] stmt[s].row = ticket[s].key /\ ~applied /\ stmt[s].seen >= ticket[s].token
                                        -> "stale_rejected"
      [] OTHER                          -> "inconsistent"

\* Mutants of Commit: no last_fencing_token in the WHERE clause; no
\* resource_key and strict_lock_id.
CommitBlind(s) ==
    LET r == stmt[s].row
        applied == r = ticket[s].key IN
    /\ stmt[s].open
    /\ row' = IF applied THEN [row EXCEPT ![r] = ticket[s].token] ELSE row
    /\ writers' = IF applied THEN [writers EXCEPT ![r] = @ \cup {s}] ELSE writers
    /\ outcome' = [outcome EXCEPT ![s] = Classify(s, applied)]
    /\ stmt' = [stmt EXCEPT ![s] = NoStmt]
    /\ UNCHANGED <<live, last, ticket>>
CommitUnbound(s) ==
    LET r == stmt[s].row
        applied == r # Absent /\ row[r] < ticket[s].token IN
    /\ stmt[s].open
    /\ row' = IF applied THEN [row EXCEPT ![r] = ticket[s].token] ELSE row
    /\ writers' = IF applied THEN [writers EXCEPT ![r] = @ \cup {s}] ELSE writers
    /\ outcome' = [outcome EXCEPT ![s] = Classify(s, applied)]
    /\ stmt' = [stmt EXCEPT ![s] = NoStmt]
    /\ UNCHANGED <<live, last, ticket>>

\* The UPDATE takes effect and the statement returns.
Commit(s) ==
    LET r == stmt[s].row
        applied == r = ticket[s].key /\ row[r] < ticket[s].token IN
    /\ stmt[s].open
    /\ row' = IF applied THEN [row EXCEPT ![r] = ticket[s].token] ELSE row
    /\ writers' = IF applied THEN [writers EXCEPT ![r] = @ \cup {s}] ELSE writers
    /\ outcome' = [outcome EXCEPT ![s] = Classify(s, applied)]
    /\ stmt' = [stmt EXCEPT ![s] = NoStmt]
    /\ UNCHANGED <<live, last, ticket>>

GuardNext == \/ \E k \in Keys : End(k) \/ \E s \in Sessions : Obtain(s, k)
             \/ \E s \in Sessions : Commit(s) \/ \E r \in Keys \cup {Absent} : Start(s, r)

GuardSpec == GuardInit /\ [][GuardNext]_guardVars

-----------------------------------------------------------------------------
Tickets == [key : Keys \cup {Absent}, token : Nat]

TypeOK == /\ live \in [Keys -> BOOLEAN]
          /\ last \in [Keys -> [by : Sessions \cup {"nobody"}, token : Nat]]
          /\ ticket \in [Sessions -> Tickets]
          /\ row \in [Keys -> Nat]
          /\ stmt \in [Sessions -> [row : Keys \cup {Absent}, seen : Nat, open : BOOLEAN]]
          /\ outcome \in [Sessions -> {"none", "row_not_found", "applied",
                             "boundary_mismatch", "stale_rejected", "inconsistent"}]
          /\ writers \in [Keys -> SUBSET Sessions]

\* Writes reach a row in the order in which the leases were granted: when a
\* write is applied, every write applied before it belongs to an older lease,
\* however long the statements or the callbacks were delayed.
WritesInLeaseOrder ==
    [][\A k \in Keys : \A s \in writers'[k] \ writers[k], t \in writers[k] :
          ticket[t].token < ticket[s].token]_guardVars

\* A write is rejected as stale only if the row really has been written by a
\* newer lease of the same boundary, or by this very lease (an equal token is
\* stale too): the guard never turns away a holder that nobody superseded.
RejectedOnlyIfSuperseded ==
    \A s \in Sessions : outcome[s] = "stale_rejected" =>
        \E t \in writers[ticket[s].key] : /\ ticket[t].key = ticket[s].key
                                         /\ ticket[t].token >= ticket[s].token
=============================================================================
