-------------------------- MODULE MCRuntimeManager --------------------------
(***************************************************************************)
(* Instances of RuntimeManager for TLC: an account definition with two     *)
(* keys, a ledger definition before it in canonical order, and a           *)
(* maintenance flag that is only checked.                                  *)
(***************************************************************************)
EXTENDS RuntimeManager, TLC

ledger == [def |-> "ledger", rank |-> 1, resource |-> 1, key |-> 1, joined |-> "ledger1"]
acct1 == [def |-> "account", rank |-> 2, resource |-> 1, key |-> 1, joined |-> "account1"]
acct2 == [def |-> "account", rank |-> 2, resource |-> 1, key |-> 2, joined |-> "account2"]
flag == [def |-> "flag", rank |-> 2, resource |-> 2, key |-> 1, joined |-> "flag1"]

TwoAccounts == {acct1, acct2}
TransferMembers == {ledger, acct1, flag}

PairRequests == {<<acct1, acct2>>, <<acct2, acct1>>, <<acct1>>}
TransferRequests == {<<acct1, ledger>>, <<flag, ledger, acct1>>, <<ledger>>}

Symmetry == Permutations(Calls) \cup Permutations(Owners)
=============================================================================
