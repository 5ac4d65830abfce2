------------------------------ MODULE Registry ------------------------------
(***************************************************************************)
(* lockkit/registry and what the managers derive from it: registration,    *)
(* validation, the snapshot NewManager takes, the acquire plans of         *)
(* lockkit/internal/lineage and the overlap check of composites.           *)
(*                                                                         *)
(* NewManager validates the registry and then reads it again; the registry *)
(* has a mutex, and another goroutine may register in between and after.   *)
(*                                                                         *)
(* A definition is a record [id, kind, ref, mode, fenced, overlap,         *)
(* builder].  fenced says that it has what strict mode asks for.  ref      *)
(* is ParentRef: [to, pad], where pad says that there is white space       *)
(* around the name, and to = "none" that there is nothing else.  builder   *)
(* is [template, fields, view]: a template is a sequence of literals and   *)
(* placeholders, and view says whether TemplateMetadata knows it.  A key   *)
(* is a template with its fields replaced, as a sequence of characters and *)
(* literals.                                                               *)
(***************************************************************************)
EXTENDS Naturals, Sequences, FiniteSets

CONSTANTS Placeholders,     \* the placeholders of the templates
          Values,           \* what a field may hold: sequences of characters
          Definitions,      \* the definitions the program may register
          Composites        \* and the composites: [id, members, supported, max]

NoRef == [to |-> "none", pad |-> FALSE]
Tokens(b) == {b.template[i] : i \in DOMAIN b.template}

\* NewTemplateKeyBuilder refuses a field without a placeholder.
ASSUME RegistryAssumption ==
    /\ \A d \in Definitions : d.builder.fields \subseteq Placeholders \cap Tokens(d.builder)
    /\ \A d \in Definitions : d.id # "none"

VARIABLES definitions, composites,   \* Registry
          made,                      \* how far NewManager is
          validated,                 \* the copy that Validate looked at
          cached                     \* Manager.cachedDefsByID

registryVars == <<definitions, composites, made, validated, cached>>

RegistryInit ==
    /\ definitions = {} /\ composites = {}
    /\ made = "no"
    /\ validated = [defs |-> {}, composites |-> {}]
    /\ cached = {}

Known(defs, id) == \E d \in defs : d.id = id
Get(defs, id) == CHOOSE d \in defs : d.id = id

(***************************************************************************)
(* Registration.                                                           *)
(***************************************************************************)
Register(d) ==
    /\ ~Known(definitions, d.id) /\ ~Known(composites, d.id)
    /\ definitions' = definitions \cup {d}
    /\ UNCHANGED <<composites, made, validated, cached>>

RegisterComposite(c) ==
    /\ ~Known(composites, c.id) /\ ~Known(definitions, c.id)
    /\ composites' = composites \cup {c}
    /\ UNCHANGED <<definitions, made, validated, cached>>

(***************************************************************************)
(* Validation.                                                             *)
(***************************************************************************)
\* strings.HasPrefix, on keys and on templates.
HasPrefix(s, prefix) == Len(prefix) <= Len(s) /\ SubSeq(s, 1, Len(prefix)) = prefix

IDs(defs) == {d.id : d \in defs}

ValidateLineageChain(d, defs) ==
    LET chain[e \in defs, visited \in SUBSET IDs(defs)] ==
            e.ref.to # "none" =>
                /\ e.id \notin visited
                /\ Known(defs, e.ref.to)
                /\ LET parent == Get(defs, e.ref.to) IN
                   /\ e.mode = "standard" /\ parent.mode = "standard"
                   /\ e.overlap = "reject"
                   /\ chain[parent, visited \cup {e.id}]
                   /\ e.builder.view /\ parent.builder.view
                   /\ HasPrefix(e.builder.template, parent.builder.template)
                   /\ parent.builder.fields \subseteq e.builder.fields
    IN  chain[d, {}]

\* FencingRequired, fail_closed, and idempotency where it runs in workers.
ValidateDefinition(d) == d.mode = "strict" => d.fenced

\* Mutant of ValidateDefinitionAgainstRegistry: the parent must exist, and
\* nothing else is asked of the chain.
ValidateParentOnly(d, defs) == d.kind = "child" => d.ref.to # "none" /\ Known(defs, d.ref.to)

ValidateDefinitionAgainstRegistry(d, defs) ==
    d.kind = "child" => d.ref.to # "none" /\ ValidateLineageChain(d, defs)

\* supported: all policies are the ones of phase 2.
ValidateCompositeDefinition(c, defs) ==
    /\ c.members # <<>> /\ c.supported
    /\ c.max > 0 /\ Len(c.members) <= c.max
    /\ \A i \in DOMAIN c.members :
          Known(defs, c.members[i]) /\ Get(defs, c.members[i]).mode # "strict"

ValidRegistry(defs, comps) ==
    /\ \A d \in defs : ValidateDefinition(d) /\ ValidateDefinitionAgainstRegistry(d, defs)
    /\ \A c \in comps : ValidateCompositeDefinition(c, defs)

(***************************************************************************)
(* NewManager; it returns an error when a check fails.                     *)
(***************************************************************************)
Validate ==
    /\ made = "no"
    /\ ValidRegistry(definitions, composites)
    /\ validated' = [defs |-> definitions, composites |-> composites]
    /\ made' = "validated"
    /\ UNCHANGED <<definitions, composites, cached>>

Snapshot ==
    /\ made = "validated"
    /\ cached' = definitions
    /\ made' = "ready"
    /\ UNCHANGED <<definitions, composites, validated>>

(***************************************************************************)
(* The plan of an acquisition.  A request holds values for some fields.    *)
(***************************************************************************)
Inputs == UNION {[F -> Values] : F \in SUBSET Placeholders}

Builds(b, input) == b.fields \subseteq DOMAIN input
Build(b, input) ==
    LET token(i) == IF b.template[i] \in b.fields THEN input[b.template[i]] ELSE <<b.template[i]>>
        key[i \in 0..Len(b.template)] == IF i = 0 THEN <<>> ELSE key[i - 1] \o token(i)
    IN  key[Len(b.template)]

\* lineageDefs, as NewManager computes it; ParentRef is not trimmed.
LineageDefs == {d.id : d \in {e \in cached :
                   e.ref # NoRef \/ \E f \in cached : f.ref = [to |-> e.id, pad |-> FALSE]}}

Failed == [ok |-> FALSE, ancestors |-> <<>>]

\* The loop of resolveAncestors; root first, as after its final reversal.
Climb(d, input) ==
    LET above[e \in cached, visited \in SUBSET IDs(cached)] ==
            IF e.ref = NoRef THEN [ok |-> TRUE, ancestors |-> <<>>]
            ELSE IF e.ref.pad \/ e.ref.to \in visited \/ ~Known(cached, e.ref.to) THEN Failed
            ELSE LET parent == Get(cached, e.ref.to)
                     rest == above[parent, visited \cup {e.ref.to}]
                     link == [def |-> parent.id, key |-> Build(parent.builder, input)]
                 IN  IF ~Builds(parent.builder, input) \/ ~rest.ok THEN Failed
                     ELSE [ok |-> TRUE, ancestors |-> Append(rest.ancestors, link)]
    IN  above[d, {d.id}]

ResolveAncestors(d, input) ==
    IF (d.ref # NoRef) # (d.kind = "child") THEN Failed ELSE Climb(d, input)

ResolveAcquirePlan(d, input) ==
    IF Builds(d.builder, input) THEN ResolveAncestors(d, input) ELSE Failed

\* buildAcquirePlan and buildClaimAcquirePlan.
AcquirePlan(d, input) ==
    IF d.id \in LineageDefs THEN ResolveAcquirePlan(d, input)
    ELSE [ok |-> Builds(d.builder, input), ancestors |-> <<>>]

\* Mutant of RejectOverlap: the separator is forgotten.
RejectAnyPrefix(parent, child, parentKey, childKey) ==
    /\ parent.kind = "parent" /\ child.kind = "child"
    /\ child.ref = [to |-> parent.id, pad |-> FALSE]
    /\ HasPrefix(childKey, parentKey)

RejectOverlap(parent, child, parentKey, childKey) ==
    /\ parent.kind = "parent" /\ child.kind = "child"
    /\ child.ref = [to |-> parent.id, pad |-> FALSE]
    /\ childKey = parentKey \/ HasPrefix(childKey, Append(parentKey, ":"))

RegistryNext == \/ \E d \in Definitions : Register(d)
                \/ \E c \in Composites : RegisterComposite(c)
                \/ Validate
                \/ Snapshot

RegistrySpec == RegistryInit /\ [][RegistryNext]_registryVars

(***************************************************************************)
(* Properties.                                                             *)
(***************************************************************************)
\* What Validate does not ask for and the acquire plans rely on: no white
\* space around ParentRef, and no placeholder in a template that is not one
\* of its fields.
Tidy(d) == ~d.ref.pad /\ Tokens(d.builder) \cap Placeholders = d.builder.fields

\* ParentRef exactly where Kind is child; Validate asks it of children only.
Typed(d) == (d.ref # NoRef) = (d.kind = "child")

Planned == IF made = "ready" /\ \A d \in validated.defs : Tidy(d)
           THEN {d \in validated.defs : Typed(d)} ELSE {}

\* A validated definition can be acquired with any request that fills its own
\* fields: resolveAncestors never meets a cycle, a missing parent or a missing
\* field, and returns the chain from the root down, each key a prefix of the
\* next and the last one a prefix of the key of the definition.
Resolvable ==
    \A d \in Planned : \A input \in Inputs : Builds(d.builder, input) =>
        LET plan == AcquirePlan(d, input)
            line == Append(plan.ancestors, [def |-> d.id, key |-> Build(d.builder, input)])
        IN  /\ plan.ok
            /\ Get(validated.defs, line[1].def).ref = NoRef
            /\ \A i \in 1..(Len(line) - 1) :
                  /\ Get(validated.defs, line[i + 1].def).ref.to = line[i].def
                  /\ HasPrefix(line[i + 1].key, line[i].key)

\* The key builders put values into keys as they are, separators included.
Separable(input) == \A f \in DOMAIN input : \A i \in DOMAIN input[f] : input[f][i] # ":"

\* The overlap check of composites compares keys, the driver compares the
\* ancestors of the plan.  For a root parent and a child right below it, whose
\* template goes on with a separator, the check misses nothing that the driver
\* would refuse, whatever the values; and it refuses nothing else as long as no
\* value has a separator in it (order '1' and an item of order '1:x' count as
\* an overlap).  A parent that is a child itself the check never refuses.
OverlapAgrees ==
    \A p, c \in Planned :
        /\ p.kind = "parent" /\ c.ref.to = p.id
        /\ \/ c.builder.template = p.builder.template
           \/ HasPrefix(c.builder.template, Append(p.builder.template, ":"))
        => \A x, y \in Inputs : Builds(p.builder, x) /\ Builds(c.builder, y) =>
               LET above == AcquirePlan(c, y).ancestors
                   refused == \E i \in DOMAIN above :
                                 above[i] = [def |-> p.id, key |-> Build(p.builder, x)]
                   rejects == RejectOverlap(p, c, Build(p.builder, x), Build(c.builder, y))
               IN  /\ refused => rejects
                   /\ Separable(x) /\ Separable(y) /\ rejects => refused
=============================================================================
