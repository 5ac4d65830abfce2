---------------------------- MODULE MCRedisDriver ---------------------------
(***************************************************************************)
(* Instances of RedisDriver for TLC: a lineage chain of three levels with  *)
(* a strict key beside it.  Two callers share an OwnerID for the strict    *)
(* key and take the middle of the chain the way RunMultiple and Hold do;   *)
(* the third, whose clock is ahead, does that with the leaf of the chain   *)
(* and with the strict key, and takes the middle by its lineage.           *)
(***************************************************************************)
EXTENDS RedisDriver, TLC

CONSTANTS order, item, sku, pay, s1, s2, s3, team

\* order <- item <- sku, and pay beside them.
Chain == [k \in Keys |-> CASE k = item -> {order}
                           [] k = sku -> {order, item}
                           [] OTHER -> {}]

Identity == [s \in Sessions |-> [k \in Keys |-> IF k = pay /\ s # s3 THEN team ELSE s]]
OneAhead == [s \in Sessions |-> IF s = s3 THEN 1 ELSE 0]

Callers == [s \in Sessions |-> [k \in Keys |->
    CASE (IF s = s3 THEN k \in {sku, pay} ELSE k = item) -> "plain"
      [] k = pay /\ s # s3 -> "strict"
      [] OTHER -> "lineage"]]

Work == [s \in Sessions |-> IF s = s3 THEN Keys \ {order} ELSE Keys]

Symmetry == Permutations({s1, s2})
=============================================================================
