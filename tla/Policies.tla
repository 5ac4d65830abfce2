------------------------------ MODULE Policies ------------------------------
(***************************************************************************)
(* lockkit/internal/policy: the decisions the managers share.  A member is *)
(* a record with fields def, rank, resource and key; ranks, resources and  *)
(* keys are numbers, ordered as the integers and strings of the code are.  *)
(* An error is the set of the sentinels it wraps; {} is nil.               *)
(***************************************************************************)
EXTENDS Naturals, Sequences, FiniteSets

\* The comparison of CanonicalizeMembers.
Precedes(l, r) ==
    \/ l.rank < r.rank
    \/ l.rank = r.rank /\ l.resource < r.resource
    \/ l.rank = r.rank /\ l.resource = r.resource /\ l.key < r.key

\* Where a stable sort puts the i-th member.
Place(ms, i) ==
    1 + Cardinality({j \in DOMAIN ms : \/ Precedes(ms[j], ms[i])
                                       \/ j < i /\ ~Precedes(ms[i], ms[j])})

\* Mutant of CanonicalizeMembers: members stay in the order of the request.
CanonicalizeNothing(ms) == ms

CanonicalizeMembers(ms) ==
    [n \in DOMAIN ms |-> ms[CHOOSE i \in DOMAIN ms : Place(ms, i) = n]]

\* The positions of a set in increasing order, and the members of the
\* definitions D in the order they have in ms.
Increasing(P) == CHOOSE f \in [1..Cardinality(P) -> P] :
                     \A a, b \in 1..Cardinality(P) : a < b => f[a] < f[b]
MembersOf(ms, D) == LET f == Increasing({i \in DOMAIN ms : ms[i].def \in D})
                    IN  [n \in DOMAIN f |-> ms[f[n]]]

\* Mutant of OutcomeFromError: every error but a DLQ one is acknowledged, as
\* if the default were OutcomeAck.
OutcomeAcknowledging(err) == IF "dlq" \in err THEN "dlq" ELSE "ack"

OutcomeFromError(err) ==
    CASE err = {} -> "ack"
      [] "dlq" \in err -> "dlq"
      [] "dlq" \notin err /\ "duplicate" \in err -> "ack"
      [] err \cap {"dlq", "duplicate"} = {} /\ err \cap {"invalid", "policy", "invariant"} # {}
            -> "drop"
      [] OTHER -> "retry"
=============================================================================
