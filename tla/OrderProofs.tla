----------------------------- MODULE OrderProofs -----------------------------
(***************************************************************************)
(* Lemmas for the proofs of several components: the least of some naturals *)
(* and induction by it, definitions by recursion, the k-th of some         *)
(* numbers, and lists built in the order of another.                       *)
(***************************************************************************)
EXTENDS Order, FiniteSetsExt, FiniteSetTheorems, SequenceTheorems, WellFoundedInduction, TLAPS

-----------------------------------------------------------------------------
(* The least, and induction *)

\* The order of the naturals has no infinite descent: the library's theorem, with its
\* relation written out.
LEMMA LessIsWellFounded == IsWellFoundedOn({ss \in Nat \X Nat : ss[1] < ss[2]}, Nat)
BY NatLessThanWellFounded DEF OpToRel

\* A set of naturals that is not empty has a least one, which Min finds.
LEMMA MinOfNaturals ==
  ASSUME NEW S, S \subseteq Nat, S # {}
  PROVE  Min(S) \in S /\ \A n \in S : Min(S) <= n
<1> DEFINE Less == {ss \in Nat \X Nat : ss[1] < ss[2]}
<1>1. IsWellFoundedOn(Less, Nat)
  BY LessIsWellFounded
<1>2. \E m \in S : \A n \in S : <<n, m>> \notin Less
  <2> HIDE DEF Less
  <2> QED BY <1>1, WFMin
<1>3. PICK m \in S : \A n \in S : <<n, m>> \notin Less
  BY <1>2
<1>4. \A n \in S : m <= n
  <2>1. SUFFICES ASSUME NEW n \in S, n < m PROVE FALSE
    OBVIOUS
  <2>2. <<n, m>> \in Less
    BY <2>1
  <2> QED BY <1>3, <2>2
<1> QED BY <1>4 DEF Min

\* Induction, for a property given as the set of the numbers that have it.
LEMMA Induction ==
  ASSUME NEW S, 0 \in S, \A n \in Nat : n \in S => n + 1 \in S
  PROVE  \A n \in Nat : n \in S
<1> SUFFICES ASSUME Nat \ S # {} PROVE FALSE
  OBVIOUS
<1>1. PICK n \in Nat \ S : \A m \in Nat \ S : n <= m
  BY MinOfNaturals
<1>2. n - 1 \in Nat /\ n - 1 \notin Nat \ S
  BY <1>1
<1>3. n - 1 + 1 \in S
  BY <1>2
<1> QED BY <1>1, <1>3

\* ... and for one of the numbers up to a bound.
LEMMA InductionUpTo ==
  ASSUME NEW b \in Nat, NEW S, 0 \in S, \A n \in 1..b : n - 1 \in S => n \in S
  PROVE  \A n \in 0..b : n \in S
<1> DEFINE T == S \cup {n \in Nat : n > b}
<1>1. 0 \in T
  OBVIOUS
<1>2. \A n \in Nat : n \in T => n + 1 \in T
  <2> SUFFICES ASSUME NEW n \in Nat, n \in T, n + 1 <= b PROVE n + 1 \in S
    OBVIOUS
  <2>1. n + 1 \in 1..b /\ n + 1 - 1 \in S
    OBVIOUS
  <2> QED BY <2>1
<1>3. \A n \in Nat : n \in T
  <2> HIDE DEF T
  <2> QED BY <1>1, <1>2, Induction
<1> QED BY <1>3

\* What a recursion over the numbers up to a bound says of the value at each: the base
\* at zero, then what the step makes of the value before.
IsRecursion(f, b, base, Step) ==
  f = [n \in 0..b |-> IF n = 0 THEN base ELSE Step[<<n, f[n - 1]>>]]

\* Such a recursion over the values of a set that the step does not leave has a solution.
LEMMA RecursionExists ==
  ASSUME NEW V, NEW b \in Nat, NEW base \in V, NEW Step \in [(1..b) \X V -> V]
  PROVE  \E f \in [0..b -> V] : IsRecursion(f, b, base, Step)
<1> DEFINE Solves(f, n) ==
             f[0] = base /\ \A i \in 1..n : f[i] = Step[<<i, f[i - 1]>>]
           S == {n \in Nat : n > b \/ \E f \in [0..n -> V] : Solves(f, n)}
<1>1. 0 \in S
  <2>1. [i \in 0..0 |-> base] \in [0..0 -> V] /\ Solves([i \in 0..0 |-> base], 0)
    OBVIOUS
  <2> QED BY <2>1
<1>2. ASSUME NEW n \in 1..b, n - 1 \in S PROVE n \in S
  <2>1. PICK f \in [0..(n - 1) -> V] : Solves(f, n - 1)
    BY <1>2
  <2> DEFINE v == Step[<<n, f[n - 1]>>]
             g == [i \in 0..n |-> IF i = n THEN v ELSE f[i]]
  <2>2. v \in V
    OBVIOUS
  <2>3. g \in [0..n -> V]
    <3> HIDE DEF v
    <3> QED BY <2>2
  <2>4. g[0] = base /\ g[n] = v
    BY <2>1
  <2>5. \A i \in 1..n : g[i] = Step[<<i, g[i - 1]>>]
    <3> SUFFICES ASSUME NEW i \in 1..n PROVE g[i] = Step[<<i, g[i - 1]>>]
      OBVIOUS
    <3>1. g[i - 1] = f[i - 1]
      OBVIOUS
    <3>2. i # n => g[i] = f[i] /\ i \in 1..(n - 1)
      OBVIOUS
    <3> QED BY <2>1, <2>4, <3>1, <3>2
  <2> HIDE DEF g
  <2> QED BY <2>3, <2>4, <2>5
<1>3. b \in S
  <2> HIDE DEF S
  <2> QED BY <1>1, <1>2, InductionUpTo
<1>4. PICK f \in [0..b -> V] : Solves(f, b)
  BY <1>3
<1>5. f = [n \in 0..b |-> IF n = 0 THEN base ELSE Step[<<n, f[n - 1]>>]]
  BY <1>4
<1> QED BY <1>5 DEF IsRecursion

\* A recursion whose steps start and stay in a set has its values there.
LEMMA RecursionStays ==
  ASSUME NEW V, NEW b \in Nat, NEW f, f[0] \in V, \A n \in 1..b : f[n - 1] \in V => f[n] \in V
  PROVE  \A n \in 0..b : f[n] \in V
<1> DEFINE S == {n \in 0..b : f[n] \in V}
<1>1. 0 \in S
  OBVIOUS
<1>2. \A n \in 1..b : n - 1 \in S => n \in S
  OBVIOUS
<1>3. \A n \in 0..b : n \in S
  <2> HIDE DEF S
  <2> QED BY <1>1, <1>2, InductionUpTo
<1> QED BY <1>3

IsRecursionOverNat(f, base, Step) ==
  f[0] = base /\ \A n \in Nat \ {0} : f[n] = Step[<<n, f[n - 1]>>]

\* A recursion over all the numbers has a solution too: the value at each is that of the
\* solutions up to any bound beyond it, which agree.
LEMMA RecursionOverNat ==
  ASSUME NEW V, NEW base \in V, NEW Step \in [Nat \X V -> V]
  PROVE  \E f \in [Nat -> V] : IsRecursionOverNat(f, base, Step)
<1> DEFINE Solves(f, n) ==
             f \in [0..n -> V] /\ f[0] = base /\ \A i \in 1..n : f[i] = Step[<<i, f[i - 1]>>]
           F(n) == CHOOSE f : Solves(f, n)
<1>1. ASSUME NEW n \in Nat PROVE \E f : Solves(f, n)
  <2> DEFINE G == [x \in (1..n) \X V |-> Step[x]]
  <2>1. G \in [(1..n) \X V -> V]
    OBVIOUS
  <2>2. PICK f \in [0..n -> V] : IsRecursion(f, n, base, G)
    <3> HIDE DEF G
    <3> QED BY <2>1, RecursionExists
  <2>3. f[0] = base /\ \A i \in 1..n : f[i] = G[<<i, f[i - 1]>>]
    <3> HIDE DEF G
    <3> QED BY <2>2 DEF IsRecursion
  <2>4. \A i \in 1..n : f[i] = Step[<<i, f[i - 1]>>]
    <3> SUFFICES ASSUME NEW i \in 1..n PROVE f[i] = Step[<<i, f[i - 1]>>]
      OBVIOUS
    <3>1. f[i - 1] \in V
      BY <2>2
    <3>2. G[<<i, f[i - 1]>>] = Step[<<i, f[i - 1]>>]
      BY <3>1
    <3> QED BY <2>3, <3>2
  <2> QED BY <2>2, <2>3, <2>4
<1>2. ASSUME NEW n \in Nat PROVE Solves(F(n), n)
  BY <1>1
<1>3. ASSUME NEW n \in Nat, NEW f, NEW g, Solves(f, n), Solves(g, n + 1)
      PROVE  \A i \in 0..n : f[i] = g[i]
  <2> DEFINE S == {i \in 0..n : f[i] = g[i]}
  <2>1. 0 \in S
    BY <1>3
  <2>2. \A i \in 1..n : i - 1 \in S => i \in S
    <3> SUFFICES ASSUME NEW i \in 1..n, f[i - 1] = g[i - 1] PROVE f[i] = g[i]
      OBVIOUS
    <3>1. i \in 1..(n + 1)
      OBVIOUS
    <3> QED BY <1>3, <3>1
  <2>3. \A i \in 0..n : i \in S
    <3> HIDE DEF S
    <3> QED BY <2>1, <2>2, InductionUpTo
  <2> QED BY <2>3
<1> DEFINE h == [n \in Nat |-> F(n)[n]]
<1> HIDE DEF F
<1>4. \A n \in Nat : h[n] \in V
  <2> SUFFICES ASSUME NEW n \in Nat PROVE F(n)[n] \in V
    OBVIOUS
  <2> QED BY <1>2
<1>5. h[0] = base
  BY <1>2
<1>6. ASSUME NEW n \in Nat \ {0} PROVE h[n] = Step[<<n, h[n - 1]>>]
  <2>1. n - 1 \in Nat /\ n - 1 + 1 = n
    OBVIOUS
  <2>2. Solves(F(n - 1), n - 1) /\ Solves(F(n), n)
    BY <2>1, <1>2
  <2>3. \A i \in 0..(n - 1) : F(n - 1)[i] = F(n)[i]
    BY <2>1, <2>2, <1>3
  <2>4. F(n - 1)[n - 1] = F(n)[n - 1]
    BY <2>1, <2>3
  <2>5. F(n)[n] = Step[<<n, F(n)[n - 1]>>]
    BY <2>2
  <2> QED BY <2>1, <2>4, <2>5
<1>7. h \in [Nat -> V]
  <2>1. h = [n \in Nat |-> h[n]]
    OBVIOUS
  <2> HIDE DEF h
  <2> QED BY <1>4, <2>1
<1> QED
  <2> HIDE DEF h
  <2>1. IsRecursionOverNat(h, base, Step)
    BY <1>5, <1>6 DEF IsRecursionOverNat
  <2> QED BY <1>7, <2>1

-----------------------------------------------------------------------------
(* Numbers in order *)

\* A finite set of numbers has a k-th one for each k up to its size: how many come before
\* is an injection into as many numbers, and so onto them.
LEMMA NthIsThere ==
  ASSUME NEW S, S \subseteq Int, IsFiniteSet(S), NEW k \in 1..Cardinality(S)
  PROVE  Nth(S, k) \in S /\ Cardinality({m \in S : m < Nth(S, k)}) = k - 1
<1> DEFINE c == Cardinality(S)
           Below(n) == {m \in S : m < n}
           rank == [n \in S |-> Cardinality(Below(n)) + 1]
<1>0. \A n \in S : n \in Int
  OBVIOUS
<1>1. c \in Nat /\ IsFiniteSet(1..c) /\ Cardinality(1..c) = c
  BY FS_CardinalityType, FS_Interval
<1>2. \A n \in Int : IsFiniteSet(Below(n)) /\ Cardinality(Below(n)) \in Nat
  BY FS_Subset, FS_CardinalityType
<1>3. \A n \in S : Cardinality(Below(n)) < c
  <2> SUFFICES ASSUME NEW n \in S PROVE Cardinality(Below(n)) < c
    OBVIOUS
  <2>1. Below(n) \in SUBSET S /\ Below(n) # S
    OBVIOUS
  <2>2. Cardinality(Below(n)) <= c /\ Cardinality(Below(n)) # c
    <3> HIDE DEF Below
    <3> QED BY <2>1, FS_Subset
  <2> HIDE DEF Below, c
  <2> QED BY <2>2, <1>1, <1>2
<1>4. \A n, m \in S : m < n => Cardinality(Below(m)) < Cardinality(Below(n))
  <2> SUFFICES ASSUME NEW n \in S, NEW m \in S, m < n
               PROVE  Cardinality(Below(m)) < Cardinality(Below(n))
    OBVIOUS
  <2>1. Below(m) \in SUBSET Below(n) /\ Below(m) # Below(n)
    <3>1. m \in Below(n) /\ m \notin Below(m)
      OBVIOUS
    <3>2. Below(m) \subseteq Below(n)
      <4> SUFFICES ASSUME NEW z \in S, z < m PROVE z < n
        OBVIOUS
      <4>1. z \in Int /\ m \in Int /\ n \in Int
        BY <1>0
      <4> QED BY <4>1
    <3> QED BY <3>1, <3>2
  <2>2. IsFiniteSet(Below(n)) /\ Cardinality(Below(n)) \in Nat /\ Cardinality(Below(m)) \in Nat
    BY <1>2
  <2> HIDE DEF Below
  <2>3. Cardinality(Below(m)) <= Cardinality(Below(n)) /\ Cardinality(Below(m)) # Cardinality(Below(n))
    BY <2>1, <2>2, FS_Subset
  <2> QED BY <2>2, <2>3
<1>5. rank \in Injection(S, 1..c)
  <2>1. rank \in [S -> 1..c]
    <3>1. \A n \in S : Cardinality(Below(n)) + 1 \in 1..c
      <4> SUFFICES ASSUME NEW n \in S PROVE Cardinality(Below(n)) + 1 \in 1..c
        OBVIOUS
      <4>1. Cardinality(Below(n)) \in Nat /\ Cardinality(Below(n)) < c
        BY <1>0, <1>2, <1>3
      <4> HIDE DEF Below, c
      <4> QED BY <4>1, <1>1
    <3> HIDE DEF Below, c
    <3> QED BY <3>1
  <2>2. \A n, m \in S : rank[n] = rank[m] => n = m
    <3> SUFFICES ASSUME NEW n \in S, NEW m \in S, rank[n] = rank[m], n # m PROVE FALSE
      OBVIOUS
    <3>1. n < m \/ m < n
      OBVIOUS
    <3> HIDE DEF Below
    <3> QED BY <3>1, <1>2, <1>4
  <2> HIDE DEF rank, c
  <2> QED BY <2>1, <2>2 DEF Injection, IsInjective
<1>6. rank \in Surjection(S, 1..c)
  <2> HIDE DEF rank
  <2> QED BY <1>1, <1>5, FS_Injection
<1>7. \E n \in S : rank[n] = k
  <2> HIDE DEF rank
  <2> QED BY <1>6 DEF Surjection
<1>8. \E n \in S : Cardinality(Below(n)) = k - 1
  <2>1. PICK n \in S : rank[n] = k
    BY <1>7
  <2>2. Cardinality(Below(n)) \in Nat /\ rank[n] = Cardinality(Below(n)) + 1
    BY <1>0, <1>2
  <2> HIDE DEF Below, rank
  <2> QED BY <2>1, <2>2
<1> QED BY <1>8 DEF Nth

\* The numbers at two places differ.
LEMMA NthDiffer ==
  ASSUME NEW S, S \subseteq Int, IsFiniteSet(S),
         NEW k \in 1..Cardinality(S), NEW l \in 1..Cardinality(S), Nth(S, k) = Nth(S, l)
  PROVE  k = l
<1>1. k - 1 = l - 1
  BY NthIsThere
<1>2. Cardinality(S) \in Nat
  BY FS_CardinalityType
<1> QED BY <1>1, <1>2

\* The last one is the greatest.
LEMMA MaxIsThere ==
  ASSUME NEW S, S \subseteq Int, IsFiniteSet(S), S # {}
  PROVE  Max(S) \in S
<1> DEFINE c == Cardinality(S)
           g == Nth(S, c)
           Below == {m \in S : m < g}
<1>1. c \in Nat /\ c # 0
  BY FS_CardinalityType, FS_EmptySet
<1>2. g \in S /\ Cardinality(Below) = c - 1
  <2>1. c \in 1..Cardinality(S)
    BY <1>1
  <2> QED BY <2>1, NthIsThere
<1>3. IsFiniteSet(S \ {g}) /\ Cardinality(S \ {g}) = c - 1
  BY <1>2, FS_RemoveElement
<1>4. Below \in SUBSET (S \ {g})
  <2>1. g \in Int
    BY <1>2
  <2>2. g \notin Below
    BY <2>1
  <2> QED BY <2>2
<1>5. Below = S \ {g}
  <2> HIDE DEF Below
  <2> QED BY <1>2, <1>3, <1>4, FS_Subset
<1>6. \A n \in S : g >= n
  <2> SUFFICES ASSUME NEW n \in S, n # g PROVE g >= n
    BY <1>2
  <2>1. n \in Below
    BY <1>5
  <2>2. n < g /\ n \in Int /\ g \in Int
    BY <2>1, <1>2
  <2> QED BY <2>2
<1> QED BY <1>2, <1>6 DEF Max

\* Each number of a finite set has its place.
LEMMA NthOfAll ==
  ASSUME NEW S, S \subseteq Int, IsFiniteSet(S), NEW n \in S
  PROVE  \E k \in 1..Cardinality(S) : Nth(S, k) = n
<1> DEFINE c == Cardinality(S)
           nth == [k \in 1..c |-> Nth(S, k)]
<1>1. c \in Nat /\ IsFiniteSet(1..c) /\ Cardinality(1..c) = c
  <2>1. c \in Nat
    BY FS_CardinalityType
  <2>2. c \in Int /\ 1 \in Int /\ (c < 1 => c = 0)
    BY <2>1
  <2> HIDE DEF c
  <2> QED BY <2>1, <2>2, FS_Interval
<1>2. \A k \in 1..c : Nth(S, k) \in S
  BY NthIsThere
<1>3. \A k, l \in 1..c : Nth(S, k) = Nth(S, l) => k = l
  BY NthDiffer
<1>4. nth \in Injection(1..c, S)
  <2>1. nth \in [1..c -> S]
    BY <1>2
  <2>2. \A k, l \in 1..c : nth[k] = nth[l] => k = l
    BY <1>3
  <2> HIDE DEF nth, c
  <2> QED BY <2>1, <2>2 DEF Injection, IsInjective
<1>5. nth \in Surjection(1..c, S)
  <2> HIDE DEF nth
  <2>1. Cardinality(1..c) = Cardinality(S)
    BY <1>1
  <2> HIDE DEF c
  <2> QED BY <1>1, <1>4, <2>1, FS_Injection
<1>6. \E k \in 1..c : nth[k] = n
  <2> HIDE DEF nth
  <2> QED BY <1>5 DEF Surjection
<1> QED BY <1>6

\* A number with k - 1 others below it is the k-th, and no other is.
LEMMA NthIs ==
  ASSUME NEW S, S \subseteq Int, IsFiniteSet(S),
         NEW n \in S, NEW B \in SUBSET S, \A m \in S : m \in B <=> m < n,
         NEW k \in Int, Cardinality(B) = k - 1
  PROVE  k \in 1..Cardinality(S) /\ Nth(S, k) = n
<1>1. PICK l \in 1..Cardinality(S) : Nth(S, l) = n
  BY NthOfAll
<1>2. Cardinality({m \in S : m < n}) = l - 1
  BY <1>1, NthIsThere
<1>3. B = {m \in S : m < n}
  OBVIOUS
<1> QED BY <1>1, <1>2, <1>3

\* The places are in order.
LEMMA NthAscends ==
  ASSUME NEW S, S \subseteq Int, IsFiniteSet(S),
         NEW k \in 1..Cardinality(S), NEW l \in 1..Cardinality(S), k < l
  PROVE  Nth(S, k) < Nth(S, l)
<1> DEFINE Below(n) == {m \in S : m < n}
<1>1. /\ Nth(S, k) \in S /\ Cardinality(Below(Nth(S, k))) = k - 1
      /\ Nth(S, l) \in S /\ Cardinality(Below(Nth(S, l))) = l - 1
  BY NthIsThere
<1>2. ASSUME Nth(S, l) <= Nth(S, k) PROVE FALSE
  <2>1. Nth(S, l) \in Int /\ Nth(S, k) \in Int
    BY <1>1
  <2>2. Below(Nth(S, l)) \in SUBSET Below(Nth(S, k))
    <3>1. \A m \in Int : m < Nth(S, l) => m < Nth(S, k)
      BY <1>2, <2>1
    <3> QED BY <3>1
  <2>3. IsFiniteSet(Below(Nth(S, k)))
    <3>1. Below(Nth(S, k)) \in SUBSET S
      OBVIOUS
    <3> HIDE DEF Below
    <3> QED BY <3>1, FS_Subset
  <2>4. Cardinality(Below(Nth(S, l))) <= Cardinality(Below(Nth(S, k)))
    <3> HIDE DEF Below
    <3> QED BY <2>2, <2>3, FS_Subset
  <2>5. l - 1 <= k - 1
    <3> HIDE DEF Below
    <3> QED BY <1>1, <2>4
  <2> QED BY <2>5
<1>3. Nth(S, l) \in Int /\ Nth(S, k) \in Int
  BY <1>1
<1> QED BY <1>2, <1>3

\* A greater number comes last.
LEMMA NthAfterGreatest ==
  ASSUME NEW S, S \subseteq Int, IsFiniteSet(S), NEW n \in Int, \A m \in S : m < n
  PROVE  /\ S \cup {n} \subseteq Int /\ IsFiniteSet(S \cup {n})
         /\ Cardinality(S \cup {n}) = Cardinality(S) + 1
         /\ Nth(S \cup {n}, Cardinality(S) + 1) = n
         /\ \A k \in 1..Cardinality(S) : Nth(S \cup {n}, k) = Nth(S, k)
<1> DEFINE T == S \cup {n}
           c == Cardinality(S)
<1>1. n \notin S
  OBVIOUS
<1>2. T \subseteq Int /\ IsFiniteSet(T) /\ Cardinality(T) = c + 1 /\ c \in Nat
  BY <1>1, FS_AddElement, FS_CardinalityType
<1>3. S \in SUBSET T /\ n \in T /\ \A m \in T : m \in S <=> m < n
  OBVIOUS
<1>4. Nth(T, c + 1) = n
  <2> PICK k : k = c + 1
    OBVIOUS
  <2>1. Cardinality(S) = k - 1 /\ k \in Int
    BY <1>2
  <2> HIDE DEF T, c
  <2>2. Nth(T, k) = n
    BY ONLY <1>2, <1>3, <2>1, NthIs
  <2> QED BY <2>2
<1>5. ASSUME NEW k \in 1..c PROVE Nth(T, k) = Nth(S, k)
  <2> DEFINE x == Nth(S, k)
  <2>1. x \in S /\ Cardinality({m \in S : m < x}) = k - 1
    BY NthIsThere
  <2> HIDE DEF x
  <2> DEFINE B == {m \in S : m < x}
  <2>2. \A m \in T : m \in B <=> m < x
    <3>1. x \in Int /\ x < n /\ ~(n < x)
      BY <2>1
    <3> QED BY <3>1
  <2>3. x \in T /\ B \in SUBSET T /\ Cardinality(B) = k - 1 /\ k \in Int
    BY <2>1
  <2> HIDE DEF T, B
  <2> QED BY <1>2, <2>2, <2>3, NthIs DEF x
<1> QED BY <1>2, <1>4, <1>5

\* When one number goes, those after it move up a place.
LEMMA NthWithout ==
  ASSUME NEW S, S \subseteq Int, IsFiniteSet(S), NEW i \in 1..Cardinality(S)
  PROVE  LET T == S \ {Nth(S, i)}
         IN  /\ T \subseteq Int /\ IsFiniteSet(T) /\ Cardinality(T) = Cardinality(S) - 1
             /\ \A k \in 1..(Cardinality(S) - 1) : Nth(T, k) = Nth(S, IF k < i THEN k ELSE k + 1)
<1> DEFINE c == Cardinality(S)
           n == Nth(S, i)
           T == S \ {n}
<1>1. c \in Nat /\ n \in S /\ n \in Int
  BY NthIsThere, FS_CardinalityType
<1>2. T \subseteq Int /\ IsFiniteSet(T) /\ Cardinality(T) = c - 1
  <2> HIDE DEF n
  <2> QED BY <1>1, FS_RemoveElement
<1>3. ASSUME NEW k \in 1..(c - 1) PROVE Nth(T, k) = Nth(S, IF k < i THEN k ELSE k + 1)
  <2> DEFINE l == IF k < i THEN k ELSE k + 1
             x == Nth(S, l)
             A == {m \in S : m < x}
             B == {m \in T : m < x}
  <2>1. l \in 1..c /\ l # i
    BY <1>1
  <2>2. x \in S /\ x \in Int /\ Cardinality(A) = l - 1
    <3> HIDE DEF l, c
    <3> QED BY <2>1, NthIsThere DEF c
  <2>3. x \in T
    <3>1. x # n
      <4> HIDE DEF l
      <4> QED BY <2>1, NthDiffer
    <3> QED BY <2>2, <3>1
  <2>4. IsFiniteSet(A)
    <3>1. A \in SUBSET S
      OBVIOUS
    <3> HIDE DEF A
    <3> QED BY <3>1, FS_Subset
  <2>5. Cardinality(B) = k - 1
    <3>1. CASE k < i
      <4>1. x < n
        <5> HIDE DEF c
        <5> QED BY <2>1, <3>1, NthAscends DEF c
      <4>2. B = A
        <5> HIDE DEF n, x
        <5> QED BY <1>1, <2>2, <4>1
      <4> HIDE DEF A, B
      <4> QED BY <2>2, <3>1, <4>2
    <3>2. CASE ~(k < i)
      <4>1. n < x
        <5>1. i < l
          BY <3>2
        <5> HIDE DEF c, l
        <5> QED BY <2>1, <5>1, NthAscends DEF c
      <4>2. B = A \ {n} /\ n \in A
        <5> HIDE DEF n, x
        <5> QED BY <1>1, <2>2, <4>1
      <4>3. Cardinality(B) = l - 1 - 1
        <5> HIDE DEF A, B, n, l
        <5> QED BY <2>2, <2>4, <4>2, FS_RemoveElement
      <4> QED BY <3>2, <4>3
    <3> QED BY <3>1, <3>2
  <2>6. B \in SUBSET T /\ \A m \in T : m \in B <=> m < x
    OBVIOUS
  <2>7. Nth(T, k) = x
    <3> HIDE DEF T, x, B, c
    <3>1. k \in Int
      OBVIOUS
    <3> QED BY ONLY <1>2, <2>3, <2>5, <2>6, <3>1, NthIs
  <2> QED BY <2>7 DEF x
<1> QED BY <1>2, <1>3

\* What is taken in order of some numbers is a list, as long as they are many.
LEMMA InOrderIs ==
  ASSUME NEW S, S \subseteq Int, IsFiniteSet(S), NEW V, NEW f, \A n \in S : f[n] \in V
  PROVE  /\ InOrder(f, S) \in Seq(V) /\ Len(InOrder(f, S)) = Cardinality(S)
         /\ Cardinality(S) \in Nat
         /\ \A k \in 1..Cardinality(S) : InOrder(f, S)[k] = f[Nth(S, k)]
<1> DEFINE c == Cardinality(S)
           s == [k \in 1..c |-> f[Nth(S, k)]]
<1>1. c \in Nat
  BY FS_CardinalityType
<1>2. \A k \in 1..c : f[Nth(S, k)] \in V
  BY NthIsThere
<1> HIDE DEF c
<1>3. s \in Seq(V) /\ Len(s) = c
  BY <1>1, <1>2
<1>4. s = InOrder(f, S)
  BY DEF InOrder, c
<1>5. \A k \in 1..c : s[k] = f[Nth(S, k)]
  OBVIOUS
<1> HIDE DEF s
<1> QED BY <1>1, <1>3, <1>4, <1>5 DEF c

\* The order takes no notice of what is elsewhere.
LEMMA InOrderAgrees ==
  ASSUME NEW S, S \subseteq Int, IsFiniteSet(S), NEW f, NEW g, \A n \in S : g[n] = f[n]
  PROVE  InOrder(g, S) = InOrder(f, S)
<1>1. \A k \in 1..Cardinality(S) : g[Nth(S, k)] = f[Nth(S, k)]
  BY NthIsThere
<1> QED BY <1>1 DEF InOrder

\* What comes with a greater number is appended.
LEMMA InOrderAppends ==
  ASSUME NEW S, S \subseteq Int, IsFiniteSet(S), NEW n \in Int, \A m \in S : m < n,
         NEW f, NEW g, \A m \in S : g[m] = f[m]
  PROVE  InOrder(g, S \cup {n}) = Append(InOrder(f, S), g[n])
<1> DEFINE T == S \cup {n}
           V == {g[m] : m \in T}
           c == Cardinality(S)
           s == InOrder(f, S)
           t == InOrder(g, T)
<1>1. /\ T \subseteq Int /\ IsFiniteSet(T) /\ Cardinality(T) = c + 1
      /\ Nth(T, c + 1) = n /\ \A k \in 1..c : Nth(T, k) = Nth(S, k)
  BY NthAfterGreatest
<1>2. (\A m \in T : g[m] \in V) /\ (\A m \in S : f[m] \in V) /\ g[n] \in V
  OBVIOUS
<1> HIDE DEF T, V, c
<1>3. /\ s \in Seq(V) /\ Len(s) = c /\ c \in Nat
      /\ \A k \in 1..c : s[k] = f[Nth(S, k)]
  BY <1>2, InOrderIs DEF c
<1>4. /\ t \in Seq(V) /\ Len(t) = c + 1 /\ \A k \in 1..(c + 1) : t[k] = g[Nth(T, k)]
  <2>1. /\ t \in Seq(V) /\ Len(t) = Cardinality(T)
        /\ \A k \in 1..Cardinality(T) : t[k] = g[Nth(T, k)]
    <3> HIDE DEF t
    <3>1. T \subseteq Int /\ IsFiniteSet(T) /\ \A m \in T : g[m] \in V
      BY <1>1, <1>2
    <3>2. /\ InOrder(g, T) \in Seq(V) /\ Len(InOrder(g, T)) = Cardinality(T)
          /\ \A k \in 1..Cardinality(T) : InOrder(g, T)[k] = g[Nth(T, k)]
      BY ONLY <3>1, InOrderIs
    <3> QED BY <3>2 DEF t
  <2> HIDE DEF t
  <2> QED BY <1>1, <2>1
<1>5. \A k \in 1..c : Nth(S, k) \in S
  BY NthIsThere DEF c
<1> HIDE DEF s, t
<1>6. /\ Append(s, g[n]) \in Seq(V) /\ Len(Append(s, g[n])) = c + 1
      /\ \A k \in 1..c : Append(s, g[n])[k] = s[k]
      /\ Append(s, g[n])[c + 1] = g[n]
  BY <1>2, <1>3, AppendProperties
<1>7. ASSUME NEW k \in 1..(c + 1) PROVE t[k] = Append(s, g[n])[k]
  <2>1. CASE k = c + 1
    BY <1>1, <1>4, <1>6, <2>1
  <2>2. CASE k # c + 1
    <3>1. k \in 1..c
      BY <1>3, <2>2
    <3> QED BY <1>1, <1>3, <1>4, <1>5, <1>6, <3>1
  <2> QED BY <2>1, <2>2
<1>8. t = Append(s, g[n])
  BY <1>4, <1>6, <1>7, SeqEqual
<1> QED BY <1>8 DEF s, t, T

==============================================================================
