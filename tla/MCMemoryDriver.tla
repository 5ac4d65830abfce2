--------------------------- MODULE MCMemoryDriver ---------------------------
(***************************************************************************)
(* Instances of MemoryDriver for TLC: a lineage chain of three levels with *)
(* a plain key and a strict one beside it.  Two of the callers share an    *)
(* OwnerID for the strict key; the third takes that key, and the root of   *)
(* the chain, the way RunMultiple and Hold do, and so does the second with *)
(* the leaf of the chain.                                                  *)
(***************************************************************************)
EXTENDS MemoryDriver, TLC

CONSTANTS order, item, sku, user, pay, s1, s2, s3

\* order <- item <- sku, and user and pay beside them.
Chain == [k \in Keys |-> CASE k = item -> {order}
                           [] k = sku -> {order, item}
                           [] OTHER -> {}]

OwnIdentity == [s \in Sessions |-> [k \in Keys |-> IF k = pay /\ s = s2 THEN s1 ELSE s]]

Callers == [s \in Sessions |-> [k \in Keys |->
    CASE k = user \/ <<s, k>> \in {<<s2, sku>>, <<s3, order>>, <<s3, pay>>} -> "plain"
      [] k = pay /\ s # s3 -> "strict"
      [] OTHER -> "lineage"]]
=============================================================================
