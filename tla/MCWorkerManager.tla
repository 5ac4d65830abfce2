--------------------------- MODULE MCWorkerManager --------------------------
(***************************************************************************)
(* Instances of WorkerManager for TLC: a message that locks an account and *)
(* a ledger, and a delivery without an idempotency key for the ledger.     *)
(***************************************************************************)
EXTENDS WorkerManager, TLC

ledger == [def |-> "ledger", rank |-> 1, resource |-> 1, key |-> 1]
account == [def |-> "account", rank |-> 2, resource |-> 1, key |-> 1]

BothMembers == {ledger, account}
TwoDeliveries == {[msg |-> "transfer", members |-> <<account, ledger>>],
                  [msg |-> "none", members |-> <<ledger>>]}

Symmetry == Permutations(Claims) \cup Permutations(Procs)
=============================================================================
