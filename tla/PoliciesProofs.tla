--------------------------- MODULE PoliciesProofs ---------------------------
(***************************************************************************)
(* What CanonicalizeMembers returns, for any request: the same members, in *)
(* canonical order.  The managers' proofs rest on it.                      *)
(***************************************************************************)
EXTENDS Policies, FiniteSetTheorems, TLAPS

\* The fields that the comparison of CanonicalizeMembers reads are numbers.
Comparable(ms) == /\ ms \in Seq({ms[i] : i \in DOMAIN ms})
                  /\ \A i \in DOMAIN ms :
                        ms[i].rank \in Nat /\ ms[i].resource \in Nat /\ ms[i].key \in Nat

\* The order of a stable sort on the positions of a request.
Before(ms, i, j) == \/ Precedes(ms[i], ms[j])
                    \/ i < j /\ ~Precedes(ms[j], ms[i])

Earlier(ms, i) == {j \in DOMAIN ms : Before(ms, j, i)}

\* Precedes is a strict weak order on members.
LEMMA PrecedesOrder ==
  ASSUME NEW a, NEW b, NEW c,
         a.rank \in Nat, a.resource \in Nat, a.key \in Nat,
         b.rank \in Nat, b.resource \in Nat, b.key \in Nat,
         c.rank \in Nat, c.resource \in Nat, c.key \in Nat
  PROVE  /\ ~Precedes(a, a)
         /\ Precedes(a, b) /\ Precedes(b, c) => Precedes(a, c)
         /\ Precedes(a, b) => Precedes(a, c) \/ Precedes(c, b)
<1>1. ~Precedes(a, a)
  BY DEF Precedes
<1>2. Precedes(a, b) /\ Precedes(b, c) => Precedes(a, c)
  BY DEF Precedes
<1>3. Precedes(a, b) => Precedes(a, c) \/ Precedes(c, b)
  BY DEF Precedes
<1> QED
  BY <1>1, <1>2, <1>3

\* A stable sort orders the positions of a request totally.
LEMMA BeforeOrder ==
  ASSUME NEW ms, Comparable(ms),
         NEW i \in DOMAIN ms, NEW j \in DOMAIN ms, NEW k \in DOMAIN ms
  PROVE  /\ ~Before(ms, i, i)
         /\ i # j => Before(ms, i, j) \/ Before(ms, j, i)
         /\ Before(ms, i, j) /\ Before(ms, j, k) => Before(ms, i, k)
<1>1. i \in Nat /\ j \in Nat /\ k \in Nat
  BY DEF Comparable
<1>2. /\ ms[i].rank \in Nat /\ ms[i].resource \in Nat /\ ms[i].key \in Nat
      /\ ms[j].rank \in Nat /\ ms[j].resource \in Nat /\ ms[j].key \in Nat
      /\ ms[k].rank \in Nat /\ ms[k].resource \in Nat /\ ms[k].key \in Nat
  BY Zenon DEF Comparable
<1>3. /\ ~Precedes(ms[i], ms[i])
      /\ Precedes(ms[i], ms[j]) /\ Precedes(ms[j], ms[k]) => Precedes(ms[i], ms[k])
      /\ Precedes(ms[i], ms[j]) => Precedes(ms[i], ms[k]) \/ Precedes(ms[k], ms[j])
      /\ Precedes(ms[j], ms[k]) => Precedes(ms[j], ms[i]) \/ Precedes(ms[i], ms[k])
      /\ Precedes(ms[k], ms[i]) => Precedes(ms[k], ms[j]) \/ Precedes(ms[j], ms[i])
  BY <1>2, PrecedesOrder, Zenon
<1>4. /\ ~Before(ms, i, i)
      /\ i # j => Before(ms, i, j) \/ Before(ms, j, i)
  BY <1>1, <1>3 DEF Before
<1>5. Before(ms, i, j) /\ Before(ms, j, k) => Before(ms, i, k)
  BY <1>1, <1>3 DEF Before
<1> QED
  BY <1>4, <1>5

\* Positions that come earlier have fewer positions before them.
LEMMA PlaceInRange ==
  ASSUME NEW ms, Comparable(ms), NEW i \in DOMAIN ms
  PROVE  /\ IsFiniteSet(Earlier(ms, i))
         /\ Place(ms, i) = 1 + Cardinality(Earlier(ms, i))
         /\ Place(ms, i) \in DOMAIN ms
<1>1. PICK n \in Nat : DOMAIN ms = 1..n
  BY DEF Comparable
<1>2. IsFiniteSet(1..n) /\ Cardinality(1..n) = n
  <2>1. IsFiniteSet(1..n) /\ Cardinality(1..n) = IF 1 > n THEN 0 ELSE n - 1 + 1
    BY <1>1, FS_Interval
  <2> QED
    BY <1>1, <2>1
<1>3. /\ IsFiniteSet((1..n) \ {i})
      /\ Cardinality((1..n) \ {i}) = n - 1
  BY ZenonT(60), <1>1, <1>2, FS_RemoveElement
<1>4. Earlier(ms, i) \in SUBSET ((1..n) \ {i})
  BY <1>1, BeforeOrder DEF Earlier
<1>5. /\ IsFiniteSet(Earlier(ms, i))
      /\ Cardinality(Earlier(ms, i)) <= n - 1
  BY <1>3, <1>4, FS_Subset
<1>6. Cardinality(Earlier(ms, i)) \in Nat
  BY <1>5, FS_CardinalityType
<1>7. Place(ms, i) = 1 + Cardinality(Earlier(ms, i))
  BY DEF Place, Earlier, Before
<1> QED
  BY <1>1, <1>5, <1>6, <1>7

LEMMA PlaceMonotonic ==
  ASSUME NEW ms, Comparable(ms), NEW i \in DOMAIN ms, NEW j \in DOMAIN ms,
         Before(ms, i, j)
  PROVE  Place(ms, i) < Place(ms, j)
<1>1. Earlier(ms, i) \subseteq Earlier(ms, j)
  BY BeforeOrder DEF Earlier
<1>2. i \in Earlier(ms, j) /\ i \notin Earlier(ms, i)
  BY BeforeOrder DEF Earlier
<1>3. Cardinality(Earlier(ms, i)) < Cardinality(Earlier(ms, j))
  <2>1. IsFiniteSet(Earlier(ms, j)) /\ IsFiniteSet(Earlier(ms, i))
    BY PlaceInRange
  <2>2. /\ Cardinality(Earlier(ms, i)) <= Cardinality(Earlier(ms, j))
        /\ Cardinality(Earlier(ms, i)) # Cardinality(Earlier(ms, j))
    BY <1>1, <1>2, <2>1, FS_Subset
  <2>3. Cardinality(Earlier(ms, i)) \in Nat /\ Cardinality(Earlier(ms, j)) \in Nat
    BY <2>1, FS_CardinalityType
  <2> QED
    BY <2>2, <2>3
<1>4. /\ Cardinality(Earlier(ms, i)) \in Nat
      /\ Cardinality(Earlier(ms, j)) \in Nat
  BY PlaceInRange, FS_CardinalityType
<1> QED
  BY <1>3, <1>4, PlaceInRange

\* No two positions get the same place, so every place is taken.
LEMMA PlaceOnto ==
  ASSUME NEW ms, Comparable(ms), NEW n \in DOMAIN ms
  PROVE  \E i \in DOMAIN ms : Place(ms, i) = n
<1> DEFINE f == [i \in DOMAIN ms |-> Place(ms, i)]
<1>1. f \in [DOMAIN ms -> DOMAIN ms]
  BY PlaceInRange
<1>2. \A i, j \in DOMAIN ms : f[i] = f[j] => i = j
  <2> SUFFICES ASSUME NEW i \in DOMAIN ms, NEW j \in DOMAIN ms, i # j
               PROVE  Place(ms, i) # Place(ms, j)
    OBVIOUS
  <2>1. Before(ms, i, j) \/ Before(ms, j, i)
    BY BeforeOrder
  <2>2. Place(ms, i) \in Nat /\ Place(ms, j) \in Nat
    <3>1. \E len \in Nat : DOMAIN ms = 1..len
      BY DEF Comparable
    <3> QED
      BY <3>1, PlaceInRange
  <2>3. Place(ms, i) < Place(ms, j) \/ Place(ms, j) < Place(ms, i)
    BY <2>1, PlaceMonotonic
  <2> QED
    BY <2>2, <2>3
<1>3. f \in Injection(DOMAIN ms, DOMAIN ms)
  <2> HIDE DEF f
  <2> QED
    BY <1>1, <1>2 DEF Injection, IsInjective
<1>4. IsFiniteSet(DOMAIN ms)
  BY FS_Interval DEF Comparable
<1>5. f \in Surjection(DOMAIN ms, DOMAIN ms)
  BY <1>3, <1>4, FS_Injection
<1>6. \A t \in DOMAIN ms : \E s \in DOMAIN ms : f[s] = t
  BY <1>5, Zenon DEF Surjection
<1> QED
  BY <1>6

\* Which position of the request the n-th canonical member comes from.
From(ms, n) == CHOOSE i \in DOMAIN ms : Place(ms, i) = n

LEMMA FromPlace ==
  ASSUME NEW ms, Comparable(ms), NEW n \in DOMAIN ms
  PROVE  /\ From(ms, n) \in DOMAIN ms
         /\ Place(ms, From(ms, n)) = n
         /\ CanonicalizeMembers(ms)[n] = ms[From(ms, n)]
  BY PlaceOnto DEF From, CanonicalizeMembers

\* CanonicalizeMembers loses no member, repeats none and invents none: what it
\* returns is the request, rearranged.
THEOREM CanonicalIsPermutation ==
  ASSUME NEW ms, Comparable(ms)
  PROVE  \E f \in Bijection(DOMAIN ms, DOMAIN ms) :
            CanonicalizeMembers(ms) = [n \in DOMAIN ms |-> ms[f[n]]]
<1> DEFINE f == [n \in DOMAIN ms |-> From(ms, n)]
<1>1. f \in [DOMAIN ms -> DOMAIN ms]
  BY FromPlace
<1>2. \A m, n \in DOMAIN ms : f[m] = f[n] => m = n
  BY FromPlace
<1>3. \A i \in DOMAIN ms : \E n \in DOMAIN ms : f[n] = i
  <2> SUFFICES ASSUME NEW i \in DOMAIN ms
               PROVE  f[Place(ms, i)] = i
    BY PlaceInRange, Zenon
  <2>1. Place(ms, i) \in DOMAIN ms
    BY PlaceInRange
  <2> DEFINE j == From(ms, Place(ms, i))
  <2>2. j \in DOMAIN ms /\ Place(ms, j) = Place(ms, i)
    BY <2>1, FromPlace
  <2>3. i # j => Place(ms, i) < Place(ms, j) \/ Place(ms, j) < Place(ms, i)
    BY <2>2, BeforeOrder, PlaceMonotonic
  <2>4. Place(ms, i) \in Nat
    BY <2>1 DEF Comparable
  <2>5. i = j
    BY <2>2, <2>3, <2>4
  <2> QED
    BY <2>1, <2>5
<1>4. f \in Bijection(DOMAIN ms, DOMAIN ms)
  <2> HIDE DEF f
  <2> QED
    BY <1>1, <1>2, <1>3 DEF Bijection, Injection, Surjection, IsInjective
<1>5. CanonicalizeMembers(ms) = [n \in DOMAIN ms |-> ms[f[n]]]
  BY DEF CanonicalizeMembers, From
<1> QED
  BY <1>4, <1>5

\* CanonicalizeMembers returns its members ordered by rank, resource and key:
\* any two calls that share members meet them in the same order.
THEOREM CanonicalIsOrdered ==
  ASSUME NEW ms, Comparable(ms), NEW m \in DOMAIN ms, NEW n \in DOMAIN ms, m < n
  PROVE  ~Precedes(CanonicalizeMembers(ms)[n], CanonicalizeMembers(ms)[m])
<1> DEFINE i == From(ms, m)
           j == From(ms, n)
<1>1. /\ i \in DOMAIN ms /\ Place(ms, i) = m
      /\ j \in DOMAIN ms /\ Place(ms, j) = n
  BY FromPlace
<1>2. m \in Nat /\ n \in Nat
  BY DEF Comparable
<1>3. ~Before(ms, j, i)
  BY <1>1, <1>2, PlaceMonotonic
<1>4. ~Precedes(ms[j], ms[i])
  BY <1>3 DEF Before
<1> QED
  BY <1>4, FromPlace

\* The position of i in the increasing enumeration of P.
UpTo(P, i) == {j \in P : j <= i}

LEMMA UpToMonotonic ==
  ASSUME NEW n \in Nat, NEW P \in SUBSET (1..n), NEW i \in P, NEW j \in P
  PROVE  /\ IsFiniteSet(P) /\ Cardinality(P) \in Nat
         /\ Cardinality(UpTo(P, i)) \in 1..Cardinality(P)
         /\ i < j => Cardinality(UpTo(P, i)) < Cardinality(UpTo(P, j))
<1>1. IsFiniteSet(P) /\ Cardinality(P) \in Nat
  <2>1. IsFiniteSet(1..n)
    BY FS_Interval
  <2> QED
    BY <2>1, FS_Subset, FS_CardinalityType, Zenon
<1>2. ASSUME NEW k \in P
      PROVE  /\ IsFiniteSet(UpTo(P, k)) /\ Cardinality(UpTo(P, k)) \in Nat
             /\ Cardinality(UpTo(P, k)) <= Cardinality(P)
  <2>1. UpTo(P, k) \in SUBSET P
    BY DEF UpTo
  <2> QED
    BY <1>1, <2>1, FS_Subset, FS_CardinalityType
<1>3. Cardinality(UpTo(P, i)) # 0
  <2>1. i \in UpTo(P, i)
    BY DEF UpTo
  <2> QED
    BY <1>2, <2>1, FS_EmptySet
<1>4. ASSUME i < j
      PROVE  Cardinality(UpTo(P, i)) < Cardinality(UpTo(P, j))
  <2>1. UpTo(P, i) \in SUBSET UpTo(P, j) /\ j \in UpTo(P, j) /\ j \notin UpTo(P, i)
    <3>1. \A k \in P : k \in Int
      OBVIOUS
    <3>2. \A k \in P : k <= i => k <= j
      BY <1>4, <3>1
    <3>3. i \in Int /\ j \in Int /\ j <= j /\ ~(j <= i)
      BY <1>4, <3>1
    <3>4. UpTo(P, i) \subseteq UpTo(P, j)
      BY <3>2, Zenon DEF UpTo
    <3>5. j \in UpTo(P, j) /\ j \notin UpTo(P, i)
      BY <3>3 DEF UpTo
    <3> QED
      BY <3>4, <3>5
  <2>2. /\ Cardinality(UpTo(P, i)) <= Cardinality(UpTo(P, j))
        /\ Cardinality(UpTo(P, i)) # Cardinality(UpTo(P, j))
    BY <1>2, <2>1, FS_Subset
  <2> QED
    BY <1>2, <2>2
<1> QED
  BY <1>1, <1>2, <1>3, <1>4

\* A set of positions has an increasing enumeration.
LEMMA IncreasingExists ==
  ASSUME NEW n \in Nat, NEW P \in SUBSET (1..n)
  PROVE  /\ Cardinality(P) \in Nat
         /\ Increasing(P) \in [1..Cardinality(P) -> P]
         /\ \A a, b \in 1..Cardinality(P) : a < b => Increasing(P)[a] < Increasing(P)[b]
         /\ P # {} => Cardinality(P) > 0
<1>1. IsFiniteSet(P) /\ Cardinality(P) \in Nat
  <2>1. IsFiniteSet(1..n)
    BY FS_Interval
  <2> QED
    BY <2>1, FS_Subset, FS_CardinalityType, Zenon
<1> DEFINE r == [i \in P |-> Cardinality(UpTo(P, i))]
           N == 1..Cardinality(P)
<1>2. r \in [P -> N]
  BY UpToMonotonic, Zenon
<1>3. \A i, j \in P : (i < j => r[i] < r[j]) /\ r[i] \in Nat /\ i \in Nat
  BY UpToMonotonic
<1>4. \A i, j \in P : r[i] = r[j] => i = j
  BY <1>3
<1>5. r \in Injection(P, N)
  <2> HIDE DEF r, N
  <2> QED
    BY <1>2, <1>4 DEF Injection, IsInjective
<1>6. IsFiniteSet(N) /\ Cardinality(N) = Cardinality(P)
  <2>1. /\ IsFiniteSet(N)
        /\ Cardinality(N) = IF 1 > Cardinality(P) THEN 0 ELSE Cardinality(P) - 1 + 1
    BY <1>1, FS_Interval
  <2> QED
    BY <1>1, <2>1
<1>7. \A t \in N : \E s \in P : r[s] = t
  <2> HIDE DEF r, N
  <2>1. r \in Surjection(P, N)
    BY <1>5, <1>6, FS_Injection
  <2> QED
    BY <2>1 DEF Surjection
<1> DEFINE f == [t \in N |-> CHOOSE s \in P : r[s] = t]
<1> HIDE DEF r
<1>8. f \in [N -> P] /\ \A t \in N : r[f[t]] = t
  BY <1>7
<1>9. \A a, b \in N : a < b => f[a] < f[b]
  <2> HIDE DEF f
  <2> SUFFICES ASSUME NEW a \in N, NEW b \in N, a < b PROVE f[a] < f[b]
    OBVIOUS
  <2>1. f[a] \in P /\ f[b] \in P /\ r[f[a]] = a /\ r[f[b]] = b /\ a \in Nat /\ b \in Nat
    BY <1>1, <1>8
  <2>2. f[a] \in Nat /\ f[b] \in Nat
    BY <1>3, <2>1, Zenon
  <2>3. f[b] < f[a] => b < a
    BY <1>3, <2>1, Zenon
  <2>4. f[a] # f[b]
    BY <2>1
  <2> QED
    BY <2>1, <2>2, <2>3, <2>4
<1>10. P # {} => Cardinality(P) > 0
  BY <1>1, FS_EmptySet
<1> HIDE DEF f
<1> QED
  BY <1>1, <1>8, <1>9, <1>10, Zenon DEF Increasing

\* A sequence of members becomes a sequence of members of the same length.
LEMMA CanonicalType ==
  ASSUME NEW S, NEW ms \in Seq(S),
         \A s \in S : s.rank \in Nat /\ s.resource \in Nat /\ s.key \in Nat
  PROVE  /\ Comparable(ms)
         /\ CanonicalizeMembers(ms) \in Seq(S)
         /\ Len(CanonicalizeMembers(ms)) = Len(ms)
<1>1. Comparable(ms)
  BY DEF Comparable
<1>2. /\ DOMAIN CanonicalizeMembers(ms) = 1..Len(ms)
      /\ CanonicalizeMembers(ms) \in [1..Len(ms) -> S]
  <2>1. CanonicalizeMembers(ms) = [n \in DOMAIN ms |-> ms[From(ms, n)]]
    BY DEF CanonicalizeMembers, From
  <2>2. \A n \in DOMAIN ms : ms[From(ms, n)] \in S
    BY <1>1, FromPlace
  <2> QED
    BY <2>1, <2>2
<1> QED
  BY <1>1, <1>2

\* MembersOf picks members of ms, in the order of ms.
LEMMA MembersOfOrder ==
  ASSUME NEW S, NEW ms \in Seq(S), NEW D
  PROVE  /\ MembersOf(ms, D) \in Seq(S)
         /\ \A a \in DOMAIN MembersOf(ms, D) : \E i \in DOMAIN ms : MembersOf(ms, D)[a] = ms[i]
         /\ \A a, b \in DOMAIN MembersOf(ms, D) : a < b =>
               \E i, j \in DOMAIN ms : /\ i < j /\ MembersOf(ms, D)[a] = ms[i]
                                       /\ MembersOf(ms, D)[b] = ms[j]
<1> DEFINE P == {i \in DOMAIN ms : ms[i].def \in D}
           f == Increasing(P)
           n == Cardinality(P)
<1>1. Len(ms) \in Nat /\ P \in SUBSET (1..Len(ms)) /\ DOMAIN ms = 1..Len(ms)
  OBVIOUS
<1>2. /\ n \in Nat /\ f \in [1..n -> P]
      /\ \A a, b \in 1..n : a < b => f[a] < f[b]
  BY <1>1, IncreasingExists, Zenon
<1>3. MembersOf(ms, D) = [k \in 1..n |-> ms[f[k]]]
  BY <1>2, Zenon DEF MembersOf
<1> HIDE DEF f, n
<1>4. \A a \in 1..n : \E i \in DOMAIN ms : MembersOf(ms, D)[a] = ms[i]
  BY <1>1, <1>2, <1>3
<1>5. MembersOf(ms, D) \in [1..n -> S]
  BY <1>1, <1>2, <1>3
<1>6. \A a, b \in 1..n : a < b =>
         \E i, j \in DOMAIN ms : /\ i < j /\ MembersOf(ms, D)[a] = ms[i]
                                 /\ MembersOf(ms, D)[b] = ms[j]
  BY ZenonT(60), <1>1, <1>2, <1>3
<1> HIDE DEF P
<1> DEFINE picked == MembersOf(ms, D)
<1>8. picked \in Seq(S)
  BY <1>2, <1>5
<1>9. DOMAIN picked = 1..n
  BY <1>3
<1> QED
  BY <1>4, <1>6, <1>8, <1>9

LEMMA MembersOfSome ==
  ASSUME NEW S, NEW ms \in Seq(S), NEW D, NEW i \in DOMAIN ms, ms[i].def \in D
  PROVE  Len(MembersOf(ms, D)) \in DOMAIN MembersOf(ms, D)
<1> DEFINE P == {j \in DOMAIN ms : ms[j].def \in D}
           n == Cardinality(P)
<1>1. Len(ms) \in Nat /\ P \in SUBSET (1..Len(ms)) /\ P # {}
  OBVIOUS
<1>2. n \in Nat /\ n > 0 /\ Increasing(P) \in [1..n -> P]
  BY <1>1, IncreasingExists, Zenon
<1>3. MembersOf(ms, D) = [k \in 1..n |-> ms[Increasing(P)[k]]]
  BY <1>2 DEF MembersOf
<1> HIDE DEF n, P
<1>4. MembersOf(ms, D) \in Seq(S) /\ DOMAIN MembersOf(ms, D) = 1..n
  BY <1>3, MembersOfOrder, Zenon
<1>5. Len(MembersOf(ms, D)) = n
  BY <1>2, <1>4
<1> QED
  BY <1>2, <1>4, <1>5
=============================================================================

