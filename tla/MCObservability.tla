--------------------------- MODULE MCObservability --------------------------
(* Instances of Observability for TLC. *)
EXTENDS Observability, TLC

CONSTANTS r1, k1, k2, c1, c2, a, o

\* One resource and the identity of one client.
OneResource == [e \in Execs |-> a]
OneOwner == [e \in Execs |-> o]

\* The claims are interchangeable.
Symmetry == Permutations({k1, k2})
=============================================================================
