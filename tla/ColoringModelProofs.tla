------------------------- MODULE ColoringModelProofs -------------------------
(***************************************************************************)
(* What the replay of ColoringModel computes, when two captures are        *)
(* replayed alike, and which registers do not matter to a replay.          *)
(***************************************************************************)
EXTENDS ColoringModel, NaturalProofs

AreRanks(s, ranks) == \A r \in s.active : ranks[r] \in Int

-----------------------------------------------------------------------------
(***************************************************************************)
(* A set in the order of its ranks.                                        *)
(***************************************************************************)
Earlier(S, ranks, x) == { y \in S : ranks[y] < ranks[x] \/ (ranks[y] = ranks[x] /\ y < x) }

Enumerates(q, S, ranks) ==
  /\ q \in [1 .. Cardinality(S) -> S]
  /\ \A n \in 1 .. Cardinality(S) : Cardinality(Earlier(S, ranks, q[n])) = n - 1
  /\ \A x \in S : /\ Cardinality(Earlier(S, ranks, x)) + 1 \in 1 .. Cardinality(S)
                  /\ q[Cardinality(Earlier(S, ranks, x)) + 1] = x

LEMMA EarlierIsSmaller ==
    ASSUME NEW S, IsFiniteSet(S), S \subseteq Int, NEW ranks, \A r \in S : ranks[r] \in Int,
           NEW x \in S
    PROVE  /\ IsFiniteSet(Earlier(S, ranks, x)) /\ Cardinality(Earlier(S, ranks, x)) \in Nat
           /\ Cardinality(Earlier(S, ranks, x)) < Cardinality(S)
           /\ \A y \in S : y \in Earlier(S, ranks, x) =>
                Cardinality(Earlier(S, ranks, y)) < Cardinality(Earlier(S, ranks, x))
           /\ \A y \in S : x = y \/ x \in Earlier(S, ranks, y) \/ y \in Earlier(S, ranks, x)
           /\ x \notin Earlier(S, ranks, x)
  <1> DEFINE E(y) == Earlier(S, ranks, y)
  <1>1. \A y \in S : E(y) \subseteq S /\ y \notin E(y)
    BY DEF Earlier
  <1>2. \A y \in S : IsFiniteSet(E(y)) /\ Cardinality(E(y)) \in Nat
    BY <1>1, FS_Subset, FS_CardinalityType
  <1>3. Cardinality(S) \in Nat
    BY FS_CardinalityType
  <1>4. ASSUME NEW A, NEW B, IsFiniteSet(B), A \subseteq B, NEW z \in B, z \notin A
        PROVE  Cardinality(A) < Cardinality(B)
    <2>1. /\ IsFiniteSet(A) /\ Cardinality(A) \in Nat /\ Cardinality(B) \in Nat
          /\ Cardinality(A) <= Cardinality(B) /\ Cardinality(A) # Cardinality(B)
      BY <1>4, FS_Subset, FS_CardinalityType
    <2> QED
      BY <2>1
  <1>5. Cardinality(E(x)) < Cardinality(S)
    BY <1>1, <1>4
  <1>6. ASSUME NEW y \in S, y \in E(x) PROVE Cardinality(E(y)) < Cardinality(E(x))
    <2>1. \A z \in E(y) : z \in E(x)
      BY <1>6 DEF Earlier
    <2> QED
      BY <1>1, <1>2, <1>4, <1>6, <2>1
  <1>7. \A y \in S : x = y \/ x \in E(y) \/ y \in E(x)
    BY DEF Earlier
  <1> QED
    BY <1>1, <1>2, <1>5, <1>6, <1>7

LEMMA RankedEnumerates ==
    ASSUME NEW S, IsFiniteSet(S), S \subseteq Int, NEW ranks, \A r \in S : ranks[r] \in Int
    PROVE  /\ Enumerates(Ranked(S, ranks), S, ranks)
           /\ Len(Ranked(S, ranks)) = Cardinality(S) /\ Cardinality(S) \in Nat
           /\ Ranked(S, ranks) \in Seq(S)
  <1> DEFINE N == Cardinality(S)
             at == [x \in S |-> Cardinality(Earlier(S, ranks, x)) + 1]
             q == Ranked(S, ranks)
  <1>1. N \in Nat
    BY FS_CardinalityType
  <1>2. \A x \in S : at[x] \in 1 .. N /\ at[x] = Cardinality(Earlier(S, ranks, x)) + 1
                     /\ Cardinality(Earlier(S, ranks, x)) \in Nat
    <2> TAKE x \in S
    <2>1. /\ Cardinality(Earlier(S, ranks, x)) \in Nat
          /\ Cardinality(Earlier(S, ranks, x)) < N
      BY EarlierIsSmaller
    <2>2. at[x] = Cardinality(Earlier(S, ranks, x)) + 1
      OBVIOUS
    <2> HIDE DEF at, N
    <2> QED
      BY <1>1, <2>1, <2>2
  <1>3. \A x, y \in S : at[x] = at[y] => x = y
    <2> TAKE x, y \in S
    <2>1. /\ x = y \/ x \in Earlier(S, ranks, y) \/ y \in Earlier(S, ranks, x)
          /\ y \in Earlier(S, ranks, x) =>
               Cardinality(Earlier(S, ranks, y)) < Cardinality(Earlier(S, ranks, x))
          /\ x \in Earlier(S, ranks, y) =>
               Cardinality(Earlier(S, ranks, x)) < Cardinality(Earlier(S, ranks, y))
      BY EarlierIsSmaller
    <2> QED
      BY <1>2, <2>1
  <1>4. at \in Injection(S, 1 .. N)
    <2>1. at \in [S -> 1 .. N]
      BY <1>2
    <2> HIDE DEF at
    <2> QED
      BY <1>3, <2>1 DEF Injection, IsInjective
  <1>5. at \in Surjection(S, 1 .. N)
    <2>1. IsFiniteSet(1 .. N) /\ Cardinality(1 .. N) = N
      BY <1>1, FS_Interval
    <2> HIDE DEF at
    <2> QED
      BY <1>4, <2>1, FS_Injection
  <1>6. \A n \in 1 .. N : \E x \in S : at[x] = n
    BY <1>5 DEF Surjection
  <1>7. q = [n \in 1 .. N |-> CHOOSE x \in S : Cardinality(Earlier(S, ranks, x)) = n - 1]
    BY DEF Ranked, Sorted, Earlier
  <1>8. ASSUME NEW n \in 1 .. N
        PROVE  q[n] \in S /\ Cardinality(Earlier(S, ranks, q[n])) = n - 1
    <2>1. \E x \in S : Cardinality(Earlier(S, ranks, x)) = n - 1
      BY <1>2, <1>6
    <2>2. q[n] = CHOOSE x \in S : Cardinality(Earlier(S, ranks, x)) = n - 1
      BY <1>7
    <2> QED
      BY <2>1, <2>2
  <1>9. q \in [1 .. N -> S]
    <2> HIDE DEF q
    <2> QED
      BY <1>7, <1>8
  <1>10. \A x \in S : q[at[x]] = x
    <2> TAKE x \in S
    <2>1. q[at[x]] \in S /\ Cardinality(Earlier(S, ranks, q[at[x]])) = at[x] - 1
      BY <1>2, <1>8
    <2>2. at[q[at[x]]] = at[x]
      BY <1>2, <2>1
    <2> QED
      BY <1>3, <2>1, <2>2
  <1>11. q \in Seq(S) /\ Len(q) = N
    <2> HIDE DEF q, N
    <2> QED
      BY <1>1, <1>9
  <1> HIDE DEF q
  <1>12. Enumerates(q, S, ranks)
    BY <1>2, <1>8, <1>9, <1>10 DEF Enumerates
  <1> QED
    BY <1>1, <1>11, <1>12 DEF q
-----------------------------------------------------------------------------
(***************************************************************************)
(* A sweep.                                                                *)
(***************************************************************************)
Distinct(q) == \A i, j \in 1 .. Len(q) : q[i] = q[j] => i = j

LEMMA AppendedOne ==
    ASSUME NEW S, NEW q \in Seq(S), NEW x \in S
    PROVE  /\ Append(q, x) \in Seq(S) /\ Len(Append(q, x)) = Len(q) + 1
           /\ \A i \in 1 .. Len(q) : Append(q, x)[i] = q[i]
           /\ Append(q, x)[Len(q) + 1] = x
           /\ ToSet(Append(q, x)) = ToSet(q) \cup {x}
           /\ Distinct(q) /\ x \notin ToSet(q) => Distinct(Append(q, x))
  <1> DEFINE a == Append(q, x)
  <1>1. /\ a \in Seq(S) /\ Len(a) = Len(q) + 1 /\ Len(q) \in Nat
        /\ DOMAIN q = 1 .. Len(q) /\ DOMAIN a = 1 .. Len(q) + 1
        /\ \A i \in 1 .. Len(q) : a[i] = q[i]
        /\ a[Len(q) + 1] = x
    OBVIOUS
  <1> HIDE DEF a
  <1>2. ToSet(a) = ToSet(q) \cup {x}
    <2>1. \A i \in 1 .. Len(q) + 1 : i \in 1 .. Len(q) \/ i = Len(q) + 1
      BY <1>1
    <2>2. \A i \in 1 .. Len(q) : i \in 1 .. Len(q) + 1
      BY <1>1
    <2>3. Len(q) + 1 \in 1 .. Len(q) + 1
      BY <1>1
    <2> QED
      BY <1>1, <2>1, <2>2, <2>3 DEF ToSet
  <1>3. ASSUME Distinct(q), x \notin ToSet(q) PROVE Distinct(a)
    <2> SUFFICES ASSUME NEW i \in 1 .. Len(a), NEW j \in 1 .. Len(a), a[i] = a[j] PROVE i = j
      BY DEF Distinct
    <2>1. \A n \in 1 .. Len(q) : q[n] # x
      BY <1>1, <1>3 DEF ToSet
    <2>2. (i \in 1 .. Len(q) \/ i = Len(q) + 1) /\ (j \in 1 .. Len(q) \/ j = Len(q) + 1)
      BY <1>1
    <2> QED
      BY <1>1, <1>3, <2>1, <2>2 DEF Distinct
  <1> QED
    BY <1>1, <1>2, <1>3 DEF a

LEMMA PushedOne ==
    ASSUME NEW S, NEW q \in Seq(S), NEW x \in S
    PROVE  /\ <<x>> \o q \in Seq(S) /\ Len(<<x>> \o q) = Len(q) + 1
           /\ (<<x>> \o q)[1] = x
           /\ \A i \in 1 .. Len(q) : (<<x>> \o q)[i + 1] = q[i]
           /\ \A i \in 2 .. Len(q) + 1 : (<<x>> \o q)[i] = q[i - 1]
           /\ ToSet(<<x>> \o q) = ToSet(q) \cup {x}
  <1> DEFINE a == <<x>> \o q
  <1>1. /\ a \in Seq(S) /\ Len(a) = Len(q) + 1 /\ a[1] = x
        /\ \A i \in 1 .. Len(q) : a[i + 1] = q[i]
        /\ \A i \in 2 .. Len(q) + 1 : a[i] = q[i - 1]
    BY PushedSequence
  <1>2. Len(q) \in Nat /\ DOMAIN q = 1 .. Len(q)
    OBVIOUS
  <1> HIDE DEF a
  <1>3. DOMAIN a = 1 .. Len(q) + 1
    BY <1>1
  <1>4. ToSet(a) = ToSet(q) \cup {x}
    <2>1. \A i \in 1 .. Len(q) + 1 : i = 1 \/ (i \in 2 .. Len(q) + 1 /\ i - 1 \in 1 .. Len(q))
      BY <1>2
    <2>2. \A i \in 1 .. Len(q) : i + 1 \in 1 .. Len(q) + 1
      BY <1>2
    <2>3. 1 \in 1 .. Len(q) + 1
      BY <1>2
    <2> QED
      BY <1>1, <1>2, <1>3, <2>1, <2>2, <2>3 DEF ToSet
  <1> QED
    BY <1>1, <1>4 DEF a

LEMMA DegreeIsNatural ==
    ASSUME NEW s, IsSnapshot(s), NEW order, NEW r \in Nodes(s)
    PROVE  Degree(s, order, r) \in Nat
  <1>1. s.neighbors[r] \subseteq Nodes(s) /\ s.extra[r] \in Nat
    BY DEF IsSnapshot
  <1>2. IsFiniteSet(s.neighbors[r])
    BY <1>1, FS_Subset DEF IsSnapshot
  <1>3. /\ Cardinality(s.neighbors[r]) \in Nat
        /\ Cardinality(s.neighbors[r] \cap ToSet(order)) \in Nat
        /\ Cardinality(s.neighbors[r] \cap ToSet(order)) <= Cardinality(s.neighbors[r])
    BY <1>2, FS_Intersection, FS_CardinalityType
  <1> QED
    BY <1>1, <1>3 DEF Degree

Sweeps(S) == [order : Seq(S), left : Seq(S), changed : BOOLEAN]

Queue(s, ranks, order) == Ranked(s.active \ ToSet(order), ranks)

LEMMA QueueOfTheRest ==
    ASSUME NEW s, IsSnapshot(s), NEW ranks, AreRanks(s, ranks), NEW order
    PROVE  LET S == s.active \ ToSet(order)
               q == Queue(s, ranks, order)
           IN  /\ IsFiniteSet(S) /\ S \subseteq Int /\ \A r \in S : ranks[r] \in Int
               /\ Enumerates(q, S, ranks)
               /\ Len(q) = Cardinality(S) /\ Cardinality(S) \in Nat /\ q \in Seq(S)
  <1> DEFINE S == s.active \ ToSet(order)
  <1>1. S \subseteq Nodes(s) /\ IsFiniteSet(S) /\ S \subseteq Int /\ \A r \in S : ranks[r] \in Int
    BY FS_Subset DEF IsSnapshot, AreRanks
  <1> HIDE DEF S
  <1>2. /\ Enumerates(Ranked(S, ranks), S, ranks)
        /\ Len(Ranked(S, ranks)) = Cardinality(S) /\ Cardinality(S) \in Nat
        /\ Ranked(S, ranks) \in Seq(S)
    BY <1>1, RankedEnumerates
  <1> QED
    BY <1>1, <1>2 DEF S, Queue

SweepRun(g, s, k, ranks, order) ==
  LET q == Queue(s, ranks, order)
  IN  /\ g \in [0 .. Len(q) -> Sweeps(s.active)]
      /\ g[0] = [order |-> order, left |-> <<>>, changed |-> FALSE]
      /\ \A n \in 1 .. Len(q) : g[n] = SweepOne(s, k, g[n - 1], q[n])
      /\ Sweep(s, k, ranks, order) = g[Len(q)]

LEMMA OneIsTyped ==
    ASSUME NEW s, NEW k, NEW x \in Sweeps(s.active), NEW r \in s.active
    PROVE  SweepOne(s, k, x, r) \in Sweeps(s.active)
  <1>1. x.order \in Seq(s.active) /\ x.left \in Seq(s.active)
    BY DEF Sweeps
  <1>2. Append(x.order, r) \in Seq(s.active) /\ <<r>> \o x.left \in Seq(s.active)
    BY <1>1, AppendedOne, PushedOne
  <1> QED
    BY <1>2 DEF SweepOne, Sweeps

LEMMA SweepUnfolds ==
    ASSUME NEW s, IsSnapshot(s), NEW ranks, AreRanks(s, ranks), NEW k,
           NEW order \in Seq(s.active)
    PROVE  \E g : SweepRun(g, s, k, ranks, order)
  <1> DEFINE q == Queue(s, ranks, order)
             N == Len(q)
             R == Sweeps(s.active)
             start == [order |-> order, left |-> <<>>, changed |-> FALSE]
             F == [p \in (1 .. N) \X R |-> SweepOne(s, k, p[2], q[p[1]])]
             Body(g) == [n \in 0 .. N |-> IF n = 0 THEN start ELSE SweepOne(s, k, g[n - 1], q[n])]
             G == CHOOSE g : g = Body(g)
  <1>1. N \in Nat /\ q \in Seq(s.active) /\ \A n \in 1 .. N : q[n] \in s.active
    <2> DEFINE S == s.active \ ToSet(order)
    <2>1. q \in Seq(S) /\ S \subseteq s.active
      BY QueueOfTheRest
    <2> HIDE DEF q, S
    <2> QED
      BY <2>1
  <1> HIDE DEF q
  <1>2. start \in R
    BY EmptySeq DEF Sweeps
  <1>3. F \in [(1 .. N) \X R -> R]
    <2> SUFFICES ASSUME NEW p \in (1 .. N) \X R PROVE SweepOne(s, k, p[2], q[p[1]]) \in R
      OBVIOUS
    <2>1. p[1] \in 1 .. N /\ p[2] \in R
      OBVIOUS
    <2>2. q[p[1]] \in s.active
      BY <1>1, <2>1
    <2> HIDE DEF R
    <2> QED
      BY <2>1, <2>2, OneIsTyped DEF R
  <1>4. \A n \in 1 .. N, x \in R : F[<<n, x>>] = SweepOne(s, k, x, q[n])
    OBVIOUS
  <1> HIDE DEF F, R, start, N
  <1>5. PICK g \in [0 .. N -> R] : g[0] = start /\ \A n \in 1 .. N : g[n] = F[<<n, g[n - 1]>>]
    <2>1. \E g : Recurses(g, start, F, R, N)
      BY <1>1, <1>2, <1>3, BoundedRecursion, Zenon
    <2> QED
      BY <2>1 DEF Recurses
  <1>6. g = Body(g)
    <2>1. ASSUME NEW n \in 1 .. N PROVE g[n] = SweepOne(s, k, g[n - 1], q[n])
      <3>1. n - 1 \in 0 .. N
        BY <1>1
      <3> QED
        BY <1>4, <1>5, <3>1
    <2>2. \A n \in 0 .. N : n = 0 \/ n \in 1 .. N
      BY <1>1
    <2> QED
      BY <1>5, <2>1, <2>2
  <1> HIDE DEF Body
  <1>7. G = Body(G)
    BY <1>6, Zenon
  <1>8. Sweep(s, k, ranks, order) = G[N]
    BY DEF Sweep, Queue, q, N, start, Body
  <1> HIDE DEF G
  <1>9. G[0] = start /\ \A n \in 1 .. N : G[n] = SweepOne(s, k, G[n - 1], q[n])
    <2>1. 0 \in 0 .. N /\ \A n \in 1 .. N : n \in 0 .. N /\ n # 0
      BY <1>1
    <2> QED
      BY <1>7, <2>1 DEF Body
  <1>10. G \in [0 .. N -> R]
    <2> DEFINE P == { n \in Nat : n \in 0 .. N => G[n] \in R }
    <2>1. 0 \in P
      BY <1>2, <1>9
    <2>2. ASSUME NEW n \in Nat, n \in P PROVE n + 1 \in P
      <3> SUFFICES ASSUME n + 1 \in 0 .. N PROVE G[n + 1] \in R
        OBVIOUS
      <3>1. n \in 0 .. N /\ n + 1 \in 1 .. N /\ (n + 1) - 1 = n
        BY <1>1
      <3>2. G[n] \in R /\ q[n + 1] \in s.active
        BY <1>1, <2>2, <3>1
      <3>3. G[n + 1] = SweepOne(s, k, G[n], q[n + 1])
        BY <1>9, <3>1
      <3> QED
        BY <3>2, <3>3, OneIsTyped DEF R
    <2> HIDE DEF P
    <2>3. Nat \subseteq P
      BY <2>1, <2>2, Induction
    <2>4. \A n \in 0 .. N : G[n] \in R
      BY <1>1, <2>3 DEF P
    <2>5. G = [n \in 0 .. N |-> G[n]]
      BY <1>7 DEF Body
    <2> QED
      BY <2>4, <2>5
  <1>11. SweepRun(G, s, k, ranks, order)
    BY <1>8, <1>9, <1>10 DEF SweepRun, N, q, R, start
  <1> QED
    BY <1>11

\* What has been looked at is removed or listed, and only a removal changes the
\* order.
Sorts(s, order, Q, x) ==
  /\ x \in Sweeps(s.active) /\ Distinct(x.order)
  /\ ToSet(x.order) \cup ToSet(x.left) = ToSet(order) \cup Q
  /\ ToSet(x.order) \cap ToSet(x.left) = {}
  /\ ToSet(order) \subseteq ToSet(x.order)
  /\ IF x.changed THEN Len(x.order) > Len(order) ELSE x.order = order

LEMMA OneSorts ==
    ASSUME NEW s, NEW k, NEW order \in Seq(s.active), NEW Q, NEW x, Sorts(s, order, Q, x),
           NEW r \in s.active, r \notin ToSet(order) \cup Q
    PROVE  Sorts(s, order, Q \cup {r}, SweepOne(s, k, x, r))
  <1> DEFINE y == SweepOne(s, k, x, r)
             more == Append(x.order, r)
             rest == <<r>> \o x.left
             S == s.active
  <1>1. /\ x.order \in Seq(S) /\ x.left \in Seq(S) /\ x.changed \in BOOLEAN
        /\ x \in Sweeps(S)
    BY DEF Sorts, Sweeps
  <1>2. y \in Sweeps(S)
    BY <1>1, OneIsTyped
  <1>3. r \in S /\ order \in Seq(S)
    OBVIOUS
  <1>4. \/ y.order = more /\ y.left = x.left /\ y.changed = TRUE
        \/ y.order = x.order /\ y.left = rest /\ y.changed = x.changed
    BY <1>1 DEF SweepOne, Sweeps
  <1> HIDE DEF y, S
  <1>5. /\ more \in Seq(S) /\ Len(more) = Len(x.order) + 1
        /\ ToSet(more) = ToSet(x.order) \cup {r}
        /\ Distinct(x.order) /\ r \notin ToSet(x.order) => Distinct(more)
    BY <1>1, <1>3, AppendedOne
  <1>6. rest \in Seq(S) /\ ToSet(rest) = ToSet(x.left) \cup {r}
    BY <1>1, <1>3, PushedOne
  <1>7. r \notin ToSet(x.order) /\ r \notin ToSet(x.left) /\ r \notin ToSet(order)
    BY DEF Sorts
  <1>8. Len(x.order) \in Nat /\ Len(order) \in Nat
    BY <1>1, <1>3
  <1>9. /\ Distinct(x.order)
        /\ ToSet(x.order) \cup ToSet(x.left) = ToSet(order) \cup Q
        /\ ToSet(x.order) \cap ToSet(x.left) = {}
        /\ ToSet(order) \subseteq ToSet(x.order)
        /\ x.changed => Len(x.order) > Len(order)
        /\ ~x.changed => x.order = order
    BY DEF Sorts
  <1> HIDE DEF more, rest
  <1>10. ASSUME y.order = more /\ y.left = x.left /\ y.changed = TRUE
         PROVE  Sorts(s, order, Q \cup {r}, y)
    <2>1. Len(y.order) > Len(order)
      <3>1. Len(x.order) >= Len(order)
        BY <1>8, <1>9, <1>1
      <3> QED
        BY <1>5, <1>8, <1>10, <3>1
    <2>2. Distinct(y.order)
      BY <1>5, <1>7, <1>9, <1>10
    <2>3. /\ ToSet(y.order) \cup ToSet(y.left) = ToSet(order) \cup (Q \cup {r})
          /\ ToSet(y.order) \cap ToSet(y.left) = {}
          /\ ToSet(order) \subseteq ToSet(y.order)
      BY <1>5, <1>7, <1>9, <1>10
    <2> QED
      BY <1>2, <1>10, <2>1, <2>2, <2>3 DEF Sorts, S
  <1>11. ASSUME y.order = x.order /\ y.left = rest /\ y.changed = x.changed
         PROVE  Sorts(s, order, Q \cup {r}, y)
    <2>1. /\ ToSet(y.order) \cup ToSet(y.left) = ToSet(order) \cup (Q \cup {r})
          /\ ToSet(y.order) \cap ToSet(y.left) = {}
          /\ ToSet(order) \subseteq ToSet(y.order)
      BY <1>6, <1>7, <1>9, <1>11
    <2>2. IF y.changed THEN Len(y.order) > Len(order) ELSE y.order = order
      BY <1>9, <1>11
    <2>3. Distinct(y.order)
      BY <1>9, <1>11
    <2> QED
      BY <1>2, <2>1, <2>2, <2>3 DEF Sorts, S
  <1> QED
    BY <1>4, <1>10, <1>11 DEF y

LEMMA SweepSorts ==
    ASSUME NEW s, IsSnapshot(s), NEW ranks, AreRanks(s, ranks), NEW k,
           NEW order \in Seq(s.active), Distinct(order),
           NEW g, SweepRun(g, s, k, ranks, order),
           NEW n \in 0 .. Len(Queue(s, ranks, order))
    PROVE  Sorts(s, order, { Queue(s, ranks, order)[i] : i \in 1 .. n }, g[n])
  <1> DEFINE q == Queue(s, ranks, order)
             N == Len(q)
             S == s.active \ ToSet(order)
             P == { m \in Nat : m <= N => Sorts(s, order, { q[i] : i \in 1 .. m }, g[m]) }
  <1>1. N \in Nat /\ q \in [1 .. N -> S] /\ Enumerates(q, S, ranks) /\ N = Cardinality(S)
    <2>1. Enumerates(q, S, ranks) /\ N = Cardinality(S) /\ Cardinality(S) \in Nat
      BY QueueOfTheRest
    <2> HIDE DEF q, S
    <2> QED
      BY <2>1 DEF Enumerates
  <1>2. /\ g \in [0 .. N -> Sweeps(s.active)]
        /\ g[0] = [order |-> order, left |-> <<>>, changed |-> FALSE]
        /\ \A m \in 1 .. N : g[m] = SweepOne(s, k, g[m - 1], q[m])
    BY DEF SweepRun
  <1>3. 0 \in P
    <2>1. g[0] \in Sweeps(s.active)
      <3> HIDE DEF q
      <3>1. 0 \in 0 .. N
        BY <1>1
      <3> QED
        BY <1>2, <3>1
    <2>2. g[0].order = order /\ g[0].left = <<>> /\ g[0].changed = FALSE
      BY <1>2
    <2>3. ToSet(g[0].left) = {} /\ { q[i] : i \in 1 .. 0 } = {}
      BY <2>2 DEF ToSet
    <2> HIDE DEF q
    <2>4. Sorts(s, order, { q[i] : i \in 1 .. 0 }, g[0])
      BY <2>1, <2>2, <2>3 DEF Sorts
    <2> QED
      BY <2>4
  <1>4. ASSUME NEW m \in Nat, m \in P PROVE m + 1 \in P
    <2> SUFFICES ASSUME m + 1 <= N PROVE Sorts(s, order, { q[i] : i \in 1 .. m + 1 }, g[m + 1])
      OBVIOUS
    <2> HIDE DEF q
    <2>1. m <= N /\ m + 1 \in 1 .. N /\ (m + 1) - 1 = m
      BY <1>1
    <2>2. Sorts(s, order, { q[i] : i \in 1 .. m }, g[m])
      BY <1>4, <2>1
    <2>3. q[m + 1] \in S
      BY <1>1, <2>1
    <2>4. \A i \in 1 .. m : q[i] # q[m + 1]
      <3> TAKE i \in 1 .. m
      <3>1. i \in 1 .. N /\ i - 1 # (m + 1) - 1
        BY <1>1, <2>1
      <3>2. /\ Cardinality(Earlier(S, ranks, q[i])) = i - 1
            /\ Cardinality(Earlier(S, ranks, q[m + 1])) = (m + 1) - 1
        BY <1>1, <2>1, <3>1 DEF Enumerates
      <3> QED
        BY <3>1, <3>2
    <2>5. { q[i] : i \in 1 .. m + 1 } = { q[i] : i \in 1 .. m } \cup {q[m + 1]}
      <3>1. \A i \in 1 .. m + 1 : i \in 1 .. m \/ i = m + 1
        OBVIOUS
      <3>2. \A i \in 1 .. m : i \in 1 .. m + 1
        OBVIOUS
      <3>3. m + 1 \in 1 .. m + 1
        OBVIOUS
      <3> QED
        BY <3>1, <3>2, <3>3
    <2>6. g[m + 1] = SweepOne(s, k, g[m], q[m + 1])
      BY <1>2, <2>1
    <2>7. Sorts(s, order, { q[i] : i \in 1 .. m } \cup {q[m + 1]}, SweepOne(s, k, g[m], q[m + 1]))
      BY <2>2, <2>3, <2>4, OneSorts
    <2> QED
      BY <2>5, <2>6, <2>7
  <1> HIDE DEF P
  <1>5. n \in P
    BY <1>1, <1>3, <1>4, Induction
  <1> QED
    BY <1>1, <1>5 DEF P

\* A sweep sorts all registers of the graph.
RankSorted(s, x) ==
  /\ x \in Sweeps(s.active) /\ Distinct(x.order)
  /\ ToSet(x.order) \cup ToSet(x.left) = s.active
  /\ ToSet(x.order) \cap ToSet(x.left) = {}

LEMMA SweepIsSorted ==
    ASSUME NEW s, IsSnapshot(s), NEW ranks, AreRanks(s, ranks), NEW k,
           NEW order \in Seq(s.active), Distinct(order)
    PROVE  /\ RankSorted(s, Sweep(s, k, ranks, order))
           /\ ToSet(order) \subseteq ToSet(Sweep(s, k, ranks, order).order)
           /\ IF Sweep(s, k, ranks, order).changed
              THEN Len(Sweep(s, k, ranks, order).order) > Len(order)
              ELSE Sweep(s, k, ranks, order).order = order
  <1> DEFINE q == Queue(s, ranks, order)
             N == Len(q)
             S == s.active \ ToSet(order)
             x == Sweep(s, k, ranks, order)
  <1>1. PICK g : SweepRun(g, s, k, ranks, order)
    BY SweepUnfolds
  <1>2. N \in Nat /\ q \in [1 .. N -> S] /\ Enumerates(q, S, ranks) /\ N = Cardinality(S)
    <2>1. Enumerates(q, S, ranks) /\ N = Cardinality(S) /\ Cardinality(S) \in Nat
      BY QueueOfTheRest
    <2> HIDE DEF q, S
    <2> QED
      BY <2>1 DEF Enumerates
  <1>3. N \in 0 .. N
    BY <1>2
  <1>4. Sorts(s, order, { q[i] : i \in 1 .. N }, g[N])
    BY <1>1, <1>3, SweepSorts
  <1>5. { q[i] : i \in 1 .. N } = S
    <2> HIDE DEF q, S, N
    <2>1. \A r \in S : \E i \in 1 .. N : q[i] = r
      BY <1>2 DEF Enumerates
    <2> QED
      BY <1>2, <2>1
  <1>6. g[N] = x
    BY <1>1 DEF SweepRun
  <1>7. ToSet(order) \subseteq s.active
    BY DEF ToSet
  <1> HIDE DEF q, N, x
  <1> QED
    BY <1>4, <1>5, <1>6, <1>7 DEF Sorts, RankSorted, x
-----------------------------------------------------------------------------
(***************************************************************************)
(* The spill candidate.                                                    *)
(***************************************************************************)
LEMMA ProductsCompare ==
    ASSUME NEW a \in Nat, NEW b \in Nat, NEW n \in Nat
    PROVE  /\ a <= b => a * n <= b * n
           /\ n # 0 /\ a < b => a * n < b * n
  <1>1. ASSUME a <= b PROVE a * n <= b * n
    <2>1. PICK d \in Nat : b = a + d
      <3>1. b - a \in Nat /\ b = a + (b - a)
        BY <1>1
      <3> QED
        BY <3>1
    <2>2. (a + d) * n = a * n + d * n /\ d * n \in Nat /\ a * n \in Nat
      OBVIOUS
    <2> QED
      BY <2>1, <2>2
  <1>2. ASSUME n # 0, a < b PROVE a * n < b * n
    <2>1. PICK d \in Nat : b = a + d /\ d # 0
      <3>1. b - a \in Nat /\ b = a + (b - a) /\ b - a # 0
        BY <1>2
      <3> QED
        BY <3>1
    <2>2. (a + d) * n = a * n + d * n /\ d * n \in Nat /\ a * n \in Nat
      OBVIOUS
    <2>3. d * n # 0
      BY <1>2, <2>1
    <2> QED
      BY <2>1, <2>2, <2>3
  <1> QED
    BY <1>1, <1>2

LEMMA RatiosCompare ==
    ASSUME NEW cx \in Nat, NEW dx \in Nat, NEW ci \in Nat, NEW di \in Nat, NEW cj \in Nat, NEW dj \in Nat,
           di # 0, dj # 0, cx * di < ci * dx, ci * dj <= cj * di
    PROVE  cx * dj < cj * dx
  <1> DEFINE a == cx * dj
             b == cj * dx
             u == cx * di
             v == ci * dx
             w == ci * dj
             x == cj * di
  <1>1. a \in Nat /\ b \in Nat /\ u \in Nat /\ v \in Nat /\ w \in Nat /\ x \in Nat
    OBVIOUS
  <1>2. u * dj = a * di /\ v * dj = w * dx /\ x * dx = b * di
    OBVIOUS
  <1>3. u < v /\ w <= x
    OBVIOUS
  <1> HIDE DEF a, b, u, v, w, x
  <1>4. u * dj < v * dj /\ w * dx <= x * dx
    BY <1>1, <1>3, ProductsCompare
  <1>5. u * dj \in Nat /\ v * dj \in Nat /\ w * dx \in Nat /\ x * dx \in Nat /\ a * di \in Nat /\ b * di \in Nat
    BY <1>1
  <1>6. a * di < b * di
    BY <1>2, <1>4, <1>5
  <1>7. b <= a => b * di <= a * di
    BY <1>1, ProductsCompare
  <1>8. a < b
    BY <1>1, <1>5, <1>6, <1>7
  <1> QED
    BY <1>8 DEF a, b

LEMMA ScoresAreOrdered ==
    ASSUME NEW s, IsSnapshot(s), NEW order, NEW x \in s.active, NEW i \in s.active, NEW j \in s.active
    PROVE  /\ ~Scores(s, order, x, x)
           /\ Scores(s, order, x, i) => ~Scores(s, order, i, x)
           /\ Scores(s, order, x, i) /\ ~Scores(s, order, j, i) => Scores(s, order, x, j)
  <1> DEFINE d(r) == Degree(s, order, r)
             c(r) == s.cost[r]
             N == {x, i, j}
  <1>1. \A r \in N : d(r) \in Nat /\ c(r) \in Nat
    <2>1. \A r \in N : r \in Nodes(s)
      BY DEF IsSnapshot
    <2> QED
      BY <2>1, DegreeIsNatural DEF IsSnapshot
  <1>2. \A a, b \in N : Scores(s, order, a, b) <=> d(a) # 0 /\ (d(b) = 0 \/ c(a) * d(b) < c(b) * d(a))
    BY DEF Scores
  <1>3. \A a, b \in N : c(a) * d(b) \in Nat
    BY <1>1
  <1>4. ~Scores(s, order, x, x)
    BY <1>2, <1>3
  <1>5. Scores(s, order, x, i) => ~Scores(s, order, i, x)
    <2> HIDE DEF d, c
    <2> QED
      BY <1>2, <1>3
  <1>6. ASSUME Scores(s, order, x, i), ~Scores(s, order, j, i) PROVE Scores(s, order, x, j)
    <2>1. d(x) # 0 /\ (d(i) = 0 \/ c(x) * d(i) < c(i) * d(x))
      BY <1>2, <1>6
    <2>2. d(j) = 0 \/ (d(i) # 0 /\ ~(c(j) * d(i) < c(i) * d(j)))
      BY <1>2, <1>6
    <2> HIDE DEF d, c
    <2>3. CASE d(j) = 0
      BY <1>2, <2>1, <2>3
    <2>4. CASE d(j) # 0
      <3>1. d(i) # 0 /\ c(x) * d(i) < c(i) * d(x)
        BY <2>1, <2>2, <2>4
      <3>2. c(j) * d(i) \in Nat /\ c(i) * d(j) \in Nat
        BY <1>3
      <3>3. c(i) * d(j) <= c(j) * d(i)
        BY <2>2, <2>4, <3>2
      <3>4. /\ c(x) \in Nat /\ d(x) \in Nat /\ c(i) \in Nat /\ d(i) \in Nat
            /\ c(j) \in Nat /\ d(j) \in Nat
        BY <1>1
      <3>5. c(x) * d(j) < c(j) * d(x)
        BY <2>4, <3>1, <3>3, <3>4, RatiosCompare
      <3> QED
        BY <1>2, <2>1, <3>5
    <2> QED
      BY <2>3, <2>4
  <1> QED
    BY <1>4, <1>5, <1>6

IsFirst(s, x, i) ==
  /\ i \in DOMAIN x.left
  /\ \A j \in DOMAIN x.left : ~Scores(s, x.order, x.left[j], x.left[i])
  /\ \A j \in 1 .. i - 1 : Scores(s, x.order, x.left[i], x.left[j])

LEMMA OneIsFirst ==
    ASSUME NEW s, IsSnapshot(s), NEW x \in Sweeps(s.active), x.left # <<>>
    PROVE  \E i \in DOMAIN x.left : IsFirst(s, x, i)
  <1> DEFINE q == x.left
             N == Len(q)
             B(a, b) == Scores(s, x.order, a, b)
             First(n, i) == /\ i \in 1 .. n
                            /\ \A j \in 1 .. n : ~B(q[j], q[i])
                            /\ \A j \in 1 .. i - 1 : B(q[i], q[j])
             P == { n \in Nat : n + 1 <= N => \E i \in Nat : First(n + 1, i) }
  <1>1. q \in Seq(s.active)
    BY DEF Sweeps
  <1>2. N \in Nat /\ DOMAIN q = 1 .. N /\ N # 0 /\ \A i \in 1 .. N : q[i] \in s.active
    <2> HIDE DEF q
    <2> QED
      BY <1>1 DEF q
  <1>3. \A a, b, c \in s.active : /\ ~B(a, a) /\ (B(a, b) => ~B(b, a))
                                  /\ B(a, b) /\ ~B(c, b) => B(a, c)
    BY ScoresAreOrdered
  <1> HIDE DEF B, q, N
  <1>4. 0 \in P
    <2> SUFFICES ASSUME 1 <= N PROVE First(1, 1)
      OBVIOUS
    <2>1. q[1] \in s.active
      BY <1>2
    <2> QED
      BY <1>3, <2>1
  <1>5. ASSUME NEW n \in Nat, n \in P PROVE n + 1 \in P
    <2> SUFFICES ASSUME (n + 1) + 1 <= N PROVE \E i \in Nat : First((n + 1) + 1, i)
      OBVIOUS
    <2>1. n + 1 <= N
      BY <1>2
    <2>2. PICK i \in Nat : First(n + 1, i)
      BY <1>5, <2>1
    <2> DEFINE m == (n + 1) + 1
    <2>3. m \in 1 .. N /\ m \in Nat /\ \A j \in 1 .. m : j \in 1 .. n + 1 \/ j = m
      BY <1>2
    <2>4. i \in 1 .. n + 1 /\ i \in 1 .. N /\ i \in 1 .. m
      BY <1>2, <2>2
    <2>5. q[m] \in s.active /\ q[i] \in s.active /\ \A j \in 1 .. n + 1 : q[j] \in s.active
      <3>1. \A j \in 1 .. n + 1 : j \in 1 .. N
        BY <1>2, <2>1
      <3> QED
        BY <1>2, <2>3, <2>4, <3>1
    <2>6. CASE ~B(q[m], q[i])
      <3>1. \A j \in 1 .. m : ~B(q[j], q[i])
        BY <2>2, <2>3, <2>6
      <3>2. First(m, i)
        BY <2>2, <2>4, <3>1
      <3> QED
        BY <3>2
    <2>7. CASE B(q[m], q[i])
      <3>1. ASSUME NEW j \in 1 .. n + 1 PROVE B(q[m], q[j]) /\ ~B(q[j], q[m])
        <4>1. ~B(q[j], q[i])
          BY <2>2
        <4> QED
          BY <1>3, <2>5, <2>7, <4>1
      <3>2. ~B(q[m], q[m])
        BY <1>3, <2>5
      <3>3. \A j \in 1 .. m - 1 : j \in 1 .. n + 1
        OBVIOUS
      <3>4. \A j \in 1 .. m : ~B(q[j], q[m])
        BY <2>3, <3>1, <3>2
      <3>5. \A j \in 1 .. m - 1 : B(q[m], q[j])
        BY <3>1, <3>3
      <3>6. m \in 1 .. m
        OBVIOUS
      <3> HIDE DEF m
      <3>7. First(m, m)
        BY <3>4, <3>5, <3>6
      <3> QED
        BY <2>3, <3>7 DEF m
    <2> QED
      BY <2>6, <2>7
  <1>6. N - 1 \in P
    <2> HIDE DEF P
    <2>1. N - 1 \in Nat
      BY <1>2
    <2> QED
      BY <1>4, <1>5, <2>1, Induction
  <1>7. PICK i \in Nat : First(N, i)
    <2>1. (N - 1) + 1 = N
      BY <1>2
    <2> QED
      BY <1>2, <1>6, <2>1
  <1>8. IsFirst(s, x, i)
    BY <1>2, <1>7 DEF IsFirst, B, q
  <1> QED
    BY <1>8 DEF IsFirst

LEMMA CandidateIsFirst ==
    ASSUME NEW s, IsSnapshot(s), NEW x \in Sweeps(s.active), x.left # <<>>
    PROVE  /\ Candidate(s, x) \in ToSet(x.left) /\ Candidate(s, x) \in s.active
           /\ \A i \in DOMAIN x.left : IsFirst(s, x, i) => Candidate(s, x) = x.left[i]
  <1> DEFINE at == CHOOSE i \in DOMAIN x.left : IsFirst(s, x, i)
  <1>1. Candidate(s, x) = x.left[at]
    BY DEF Candidate, IsFirst
  <1>2. at \in DOMAIN x.left /\ IsFirst(s, x, at)
    BY OneIsFirst
  <1> HIDE DEF at
  <1>3. x.left \in Seq(s.active)
    BY DEF Sweeps
  <1>4. x.left[at] \in ToSet(x.left) /\ ToSet(x.left) \subseteq s.active
    BY <1>2, <1>3 DEF ToSet
  <1>5. ASSUME NEW i \in DOMAIN x.left, IsFirst(s, x, i) PROVE i = at
    <2>1. i \in Nat /\ at \in Nat /\ DOMAIN x.left = 1 .. Len(x.left) /\ Len(x.left) \in Nat
      BY <1>2, <1>3
    <2>2. ~(i < at)
      <3> SUFFICES ASSUME i < at PROVE FALSE
        OBVIOUS
      <3>1. i \in 1 .. at - 1
        BY <2>1
      <3> QED
        BY <1>2, <1>5, <3>1 DEF IsFirst
    <2>3. ~(at < i)
      <3> SUFFICES ASSUME at < i PROVE FALSE
        OBVIOUS
      <3>1. at \in 1 .. i - 1
        BY <1>2, <2>1
      <3> QED
        BY <1>2, <1>5, <3>1 DEF IsFirst
    <2> QED
      BY <2>1, <2>2, <2>3
  <1> QED
    BY <1>1, <1>2, <1>4, <1>5
-----------------------------------------------------------------------------
(***************************************************************************)
(* The sweeps of a replay.                                                 *)
(***************************************************************************)
NextSweep(s, k, ranks, x) ==
  IF x.changed THEN Sweep(s, k, ranks, x.order)
  ELSE IF x.left = <<>> THEN x
  ELSE Sweep(s, k, ranks, Append(x.order, Candidate(s, x)))

\* What a replay is at between two sweeps.
Sorting(s) == { x \in Sweeps(s.active) : RankSorted(s, x) }

Replays(f, s, k, ranks) ==
  /\ f \in [Nat -> Sorting(s)] /\ f[0] = Sweep(s, k, ranks, <<>>)
  /\ \A n \in Nat : f[n + 1] = NextSweep(s, k, ranks, f[n])
  /\ RemovalOrder(s, k, ranks) = f[2 * Cardinality(s.active) + 1].order

\* An order that a sweep may start from.
IsOrder(s, o) == o \in Seq(s.active) /\ Distinct(o)

LEMMA SweepIsSorting ==
    ASSUME NEW s, IsSnapshot(s), NEW ranks, AreRanks(s, ranks), NEW k, NEW o, IsOrder(s, o)
    PROVE  Sweep(s, k, ranks, o) \in Sorting(s)
  <1>1. o \in Seq(s.active) /\ Distinct(o)
    BY DEF IsOrder
  <1>2. RankSorted(s, Sweep(s, k, ranks, o))
    BY <1>1, SweepIsSorted
  <1> QED
    BY <1>2 DEF Sorting, RankSorted

LEMMA OrderWithCandidate ==
    ASSUME NEW s, IsSnapshot(s), NEW x \in Sorting(s), x.left # <<>>
    PROVE  /\ IsOrder(s, Append(x.order, Candidate(s, x)))
           /\ Len(Append(x.order, Candidate(s, x))) = Len(x.order) + 1
  <1> DEFINE c == Candidate(s, x)
             S == s.active
  <1>1. x \in Sweeps(S) /\ x.order \in Seq(S) /\ Distinct(x.order)
        /\ ToSet(x.order) \cap ToSet(x.left) = {}
    BY DEF Sorting, RankSorted, Sweeps
  <1>2. c \in ToSet(x.left) /\ c \in S
    BY <1>1, CandidateIsFirst
  <1> HIDE DEF c, S
  <1>3. c \notin ToSet(x.order)
    BY <1>1, <1>2
  <1>4. Append(x.order, c) \in Seq(S) /\ Distinct(Append(x.order, c))
        /\ Len(Append(x.order, c)) = Len(x.order) + 1
    BY <1>1, <1>2, <1>3, AppendedOne
  <1> QED
    BY <1>4 DEF IsOrder, c, S

LEMMA EmptyOrder == ASSUME NEW s PROVE IsOrder(s, <<>>) /\ Len(<<>>) = 0
  BY EmptySeq DEF IsOrder, Distinct

LEMMA NextIsSorting ==
    ASSUME NEW s, IsSnapshot(s), NEW ranks, AreRanks(s, ranks), NEW k, NEW x \in Sorting(s)
    PROVE  NextSweep(s, k, ranks, x) \in Sorting(s)
  <1>1. IsOrder(s, x.order)
    BY DEF Sorting, RankSorted, IsOrder, Sweeps
  <1>2. CASE x.changed
    BY <1>1, <1>2, SweepIsSorting DEF NextSweep
  <1>3. CASE ~x.changed /\ x.left = <<>>
    BY <1>3 DEF NextSweep
  <1>4. CASE ~x.changed /\ x.left # <<>>
    <2>1. IsOrder(s, Append(x.order, Candidate(s, x)))
      BY <1>4, OrderWithCandidate
    <2>2. Sweep(s, k, ranks, Append(x.order, Candidate(s, x))) \in Sorting(s)
      BY <2>1, SweepIsSorting
    <2> QED
      BY <1>4, <2>2 DEF NextSweep
  <1> QED
    BY <1>2, <1>3, <1>4

LEMMA ReplayUnfolds ==
    ASSUME NEW s, IsSnapshot(s), NEW ranks, AreRanks(s, ranks), NEW k
    PROVE  \E f : Replays(f, s, k, ranks)
  <1> DEFINE R == Sorting(s)
             start == Sweep(s, k, ranks, <<>>)
             F == [p \in Nat \X R |-> NextSweep(s, k, ranks, p[2])]
             Body(g) == [n \in Nat |->
                           IF n = 0 THEN start
                           ELSE IF g[n - 1].changed THEN Sweep(s, k, ranks, g[n - 1].order)
                           ELSE IF g[n - 1].left = <<>> THEN g[n - 1]
                           ELSE Sweep(s, k, ranks, Append(g[n - 1].order, Candidate(s, g[n - 1])))]
             G == CHOOSE g : g = Body(g)
  <1>1. start \in R
    BY EmptyOrder, SweepIsSorting
  <1>2. F \in [Nat \X R -> R]
    <2> SUFFICES ASSUME NEW p \in Nat \X R PROVE NextSweep(s, k, ranks, p[2]) \in R
      OBVIOUS
    <2>1. p[2] \in R
      OBVIOUS
    <2> HIDE DEF R
    <2> QED
      BY <2>1, NextIsSorting DEF R
  <1>3. \A n \in Nat, x \in R : F[<<n, x>>] = NextSweep(s, k, ranks, x)
    OBVIOUS
  <1> HIDE DEF F, R, start
  <1>4. PICK g \in [Nat -> R] : g[0] = start /\ \A n \in Nat : g[n + 1] = F[<<n, g[n]>>]
    <2>1. \E g : Recursion(g, start, F, R)
      BY <1>1, <1>2, RecursionExists, Zenon
    <2> QED
      BY <2>1 DEF Recursion
  <1>5. g = Body(g)
    <2>1. ASSUME NEW n \in Nat, n # 0 PROVE g[n] = NextSweep(s, k, ranks, g[n - 1])
      <3>1. n - 1 \in Nat /\ (n - 1) + 1 = n
        BY <2>1
      <3> QED
        BY <1>3, <1>4, <3>1
    <2>2. \A n \in Nat : g[n] = Body(g)[n]
      BY <1>4, <2>1 DEF NextSweep
    <2> QED
      BY <1>4, <2>2
  <1> HIDE DEF Body
  <1>6. G = Body(G)
    BY <1>5, Zenon
  <1>7. RemovalOrder(s, k, ranks) = G[2 * Cardinality(s.active) + 1].order
    BY DEF RemovalOrder, start, Body
  <1> HIDE DEF G
  <1>8. G[0] = start /\ \A n \in Nat : G[n + 1] = NextSweep(s, k, ranks, G[n])
    <2>1. \A n \in Nat : n + 1 \in Nat /\ n + 1 # 0 /\ (n + 1) - 1 = n
      OBVIOUS
    <2> QED
      BY <1>6, <2>1 DEF Body, NextSweep
  <1>9. G \in [Nat -> R]
    <2> DEFINE P == { n \in Nat : G[n] \in R }
    <2>1. 0 \in P
      BY <1>1, <1>8
    <2>2. ASSUME NEW n \in Nat, n \in P PROVE n + 1 \in P
      BY <1>8, <2>2, NextIsSorting DEF R
    <2> HIDE DEF P
    <2>3. Nat \subseteq P
      BY <2>1, <2>2, Induction
    <2>4. \A n \in Nat : G[n] \in R
      BY <2>3 DEF P
    <2>5. G = [n \in Nat |-> G[n]]
      BY <1>6 DEF Body
    <2> QED
      BY <2>4, <2>5
  <1>10. Replays(G, s, k, ranks)
    BY <1>7, <1>8, <1>9 DEF Replays, R, start
  <1> QED
    BY <1>10

\* A sweep of the replay starts from o.
Reaches(s, k, ranks, o) ==
  /\ IsOrder(s, o)
  /\ \A f : Replays(f, s, k, ranks) => \E m \in 0 .. Len(o) : f[m] = Sweep(s, k, ranks, o)

LEMMA ReachesStart ==
    ASSUME NEW s, NEW ranks, NEW k
    PROVE  Reaches(s, k, ranks, <<>>)
  <1>1. 0 \in 0 .. Len(<<>>)
    BY EmptyOrder
  <1> QED
    BY <1>1, EmptyOrder DEF Reaches, Replays

LEMMA ReachesNext ==
    ASSUME NEW s, IsSnapshot(s), NEW ranks, AreRanks(s, ranks), NEW k, NEW o,
           Reaches(s, k, ranks, o), NEW next, IsOrder(s, next), Len(next) > Len(o),
           NextSweep(s, k, ranks, Sweep(s, k, ranks, o)) = Sweep(s, k, ranks, next)
    PROVE  Reaches(s, k, ranks, next)
  <1> SUFFICES ASSUME NEW f, Replays(f, s, k, ranks)
               PROVE  \E m \in 0 .. Len(next) : f[m] = Sweep(s, k, ranks, next)
    BY DEF Reaches
  <1>1. PICK m \in 0 .. Len(o) : f[m] = Sweep(s, k, ranks, o)
    BY DEF Reaches
  <1>2. Len(o) \in Nat /\ Len(next) \in Nat
    BY DEF Reaches, IsOrder
  <1>3. m \in Nat /\ m + 1 \in 0 .. Len(next)
    BY <1>2
  <1>4. f[m + 1] = Sweep(s, k, ranks, next)
    BY <1>1, <1>3 DEF Replays
  <1> QED
    BY <1>3, <1>4

LEMMA ReachesAfterRemoval ==
    ASSUME NEW s, IsSnapshot(s), NEW ranks, AreRanks(s, ranks), NEW k, NEW o,
           Reaches(s, k, ranks, o), Sweep(s, k, ranks, o).changed
    PROVE  /\ Reaches(s, k, ranks, Sweep(s, k, ranks, o).order)
           /\ Len(Sweep(s, k, ranks, o).order) > Len(o)
  <1> DEFINE x == Sweep(s, k, ranks, o)
  <1>1. IsOrder(s, o) /\ o \in Seq(s.active) /\ Distinct(o)
    BY DEF Reaches, IsOrder
  <1>2. RankSorted(s, x) /\ Len(x.order) > Len(o)
    BY <1>1, SweepIsSorted
  <1>3. IsOrder(s, x.order)
    BY <1>2 DEF RankSorted, IsOrder, Sweeps
  <1>4. NextSweep(s, k, ranks, x) = Sweep(s, k, ranks, x.order)
    BY DEF NextSweep
  <1> QED
    BY <1>2, <1>3, <1>4, ReachesNext

LEMMA ReachesAfterCandidate ==
    ASSUME NEW s, IsSnapshot(s), NEW ranks, AreRanks(s, ranks), NEW k, NEW o,
           Reaches(s, k, ranks, o), ~Sweep(s, k, ranks, o).changed,
           Sweep(s, k, ranks, o).left # <<>>
    PROVE  /\ Reaches(s, k, ranks, Append(o, Candidate(s, Sweep(s, k, ranks, o))))
           /\ Len(Append(o, Candidate(s, Sweep(s, k, ranks, o)))) = Len(o) + 1
  <1> DEFINE x == Sweep(s, k, ranks, o)
             next == Append(o, Candidate(s, x))
  <1>1. IsOrder(s, o) /\ o \in Seq(s.active) /\ Distinct(o)
    BY DEF Reaches, IsOrder
  <1>2. x.order = o
    BY <1>1, SweepIsSorted
  <1>3. x \in Sorting(s)
    BY <1>1, SweepIsSorting
  <1>4. IsOrder(s, next) /\ Len(next) = Len(o) + 1
    BY <1>2, <1>3, OrderWithCandidate
  <1>5. NextSweep(s, k, ranks, x) = Sweep(s, k, ranks, next)
    BY <1>2 DEF NextSweep
  <1>6. Len(o) \in Nat
    BY <1>1
  <1>7. Len(next) > Len(o)
    BY <1>4, <1>6
  <1> HIDE DEF x, next
  <1>8. Reaches(s, k, ranks, next)
    BY <1>4, <1>5, <1>7, ReachesNext DEF x
  <1> QED
    BY <1>4, <1>8 DEF next, x

LEMMA DistinctIsShort ==
    ASSUME NEW S, IsFiniteSet(S), NEW q \in Seq(S), Distinct(q)
    PROVE  Len(q) <= Cardinality(S) /\ Len(q) \in Nat /\ Cardinality(S) \in Nat
  <1> DEFINE N == Len(q)
  <1>1. N \in Nat /\ q \in [1 .. N -> S]
    OBVIOUS
  <1> HIDE DEF N
  <1>2. q \in Injection(1 .. N, S)
    BY <1>1 DEF Distinct, Injection, IsInjective, N
  <1>3. IsFiniteSet(1 .. N) /\ Cardinality(1 .. N) = N
    BY <1>1, FS_Interval
  <1>4. Cardinality(1 .. N) <= Cardinality(S)
    BY <1>2, <1>3, FS_Injection
  <1> QED
    BY <1>1, <1>3, <1>4, FS_CardinalityType DEF N

\* Where a sweep leaves nothing, the replay has ended.
LEMMA ReachesTheEnd ==
    ASSUME NEW s, IsSnapshot(s), NEW ranks, AreRanks(s, ranks), NEW k, NEW o,
           Reaches(s, k, ranks, o), ~Sweep(s, k, ranks, o).changed,
           Sweep(s, k, ranks, o).left = <<>>
    PROVE  RemovalOrder(s, k, ranks) = o /\ ToSet(o) = s.active
  <1> DEFINE x == Sweep(s, k, ranks, o)
             last == 2 * Cardinality(s.active) + 1
  <1>1. PICK f : Replays(f, s, k, ranks)
    BY ReplayUnfolds
  <1>2. PICK m \in 0 .. Len(o) : f[m] = x
    BY <1>1 DEF Reaches
  <1>3. o \in Seq(s.active) /\ Distinct(o) /\ IsFiniteSet(s.active)
    BY FS_Subset DEF Reaches, IsOrder, IsSnapshot
  <1>4. Len(o) <= Cardinality(s.active) /\ Len(o) \in Nat /\ Cardinality(s.active) \in Nat
    BY <1>3, DistinctIsShort
  <1>5. m \in Nat /\ last \in Nat /\ m <= last
    BY <1>4
  <1>6. x.order = o /\ RankSorted(s, x)
    BY <1>3, SweepIsSorted
  <1>7. \A n \in Nat : f[n + 1] = NextSweep(s, k, ranks, f[n])
    BY <1>1 DEF Replays
  <1>8. NextSweep(s, k, ranks, x) = x
    BY DEF NextSweep
  <1> DEFINE P == { n \in Nat : f[m + n] = x }
  <1>9. 0 \in P
    BY <1>2, <1>5
  <1>10. ASSUME NEW n \in Nat, n \in P PROVE n + 1 \in P
    <2>1. m + n \in Nat /\ m + (n + 1) = (m + n) + 1
      BY <1>5
    <2>2. f[m + n] = x
      BY <1>10
    <2>3. f[m + (n + 1)] = NextSweep(s, k, ranks, f[m + n])
      BY <1>7, <2>1
    <2> HIDE DEF x
    <2>4. f[m + (n + 1)] = x
      BY <1>8, <2>2, <2>3
    <2> QED
      BY <2>4
  <1> HIDE DEF P, x, last
  <1>11. last - m \in P
    BY <1>5, <1>9, <1>10, Induction
  <1>12. f[last] = x
    BY <1>5, <1>11 DEF P
  <1>13. RemovalOrder(s, k, ranks) = o
    BY <1>1, <1>6, <1>12 DEF Replays, last
  <1>14. ToSet(o) = s.active
    <2>1. ToSet(x.left) = {}
      BY DEF ToSet, x
    <2> QED
      BY <1>6, <2>1 DEF RankSorted
  <1> QED
    BY <1>13, <1>14
-----------------------------------------------------------------------------
(***************************************************************************)
(* Two snapshots that are replayed alike.                                  *)
(***************************************************************************)
Before(ranks, a, b) == ranks[a] < ranks[b] \/ (ranks[a] = ranks[b] /\ a < b)

Maps(q, A, B) == q \in [A -> B]

\* q gives every register of s its counterpart in t, with the same degree and
\* cost, between the same neighbours and in the same place.
Embeds(q, s, ranks, t, places) ==
  /\ Maps(q, s.active, t.active)
  /\ \A a, b \in s.active : q[a] = q[b] => a = b
  /\ \A c \in t.active : \E a \in s.active : q[a] = c
  /\ \A a \in s.active :
       /\ Cardinality(s.neighbors[a]) + s.extra[a] = Cardinality(t.neighbors[q[a]]) + t.extra[q[a]]
       /\ s.cost[a] = t.cost[q[a]]
  /\ \A a, b \in s.active :
       /\ b \in s.neighbors[a] <=> q[b] \in t.neighbors[q[a]]
       /\ Before(ranks, a, b) <=> Before(places, q[a], q[b])

Image(q, o) == [i \in 1 .. Len(o) |-> q[o[i]]]
All(q, S) == { q[a] : a \in S }

LEMMA ImageOfSequence ==
    ASSUME NEW A, NEW B, NEW q, Maps(q, A, B), NEW o \in Seq(A)
    PROVE  /\ Image(q, o) \in Seq(B) /\ Len(Image(q, o)) = Len(o)
           /\ \A i \in 1 .. Len(o) : Image(q, o)[i] = q[o[i]]
           /\ ToSet(Image(q, o)) = All(q, ToSet(o))
           /\ o # <<>> <=> Image(q, o) # <<>>
  <1> DEFINE p == Image(q, o)
             N == Len(o)
  <1>1. N \in Nat /\ DOMAIN o = 1 .. N /\ \A i \in 1 .. N : o[i] \in A /\ q[o[i]] \in B
    BY DEF Maps
  <1>2. p = [i \in 1 .. N |-> q[o[i]]]
    BY DEF Image
  <1> HIDE DEF p, N
  <1>3. DOMAIN p = 1 .. N /\ \A i \in 1 .. N : p[i] = q[o[i]] /\ q[o[i]] \in B
    BY <1>1, <1>2
  <1>4. p \in Seq(B) /\ Len(p) = N
    BY <1>1, <1>2, <1>3
  <1>5. ToSet(p) = All(q, ToSet(o))
    BY <1>1, <1>3 DEF ToSet, All
  <1>6. o # <<>> <=> p # <<>>
    <2>1. o = <<>> <=> N = 0
      BY <1>1 DEF N
    <2>2. p = <<>> <=> Len(p) = 0
      BY <1>4
    <2> QED
      BY <1>4, <2>1, <2>2
  <1> QED
    BY <1>3, <1>4, <1>5, <1>6 DEF p, N

LEMMA SameSequence ==
    ASSUME NEW S, NEW T, NEW p \in Seq(S), NEW o \in Seq(T), Len(p) = Len(o),
           \A i \in 1 .. Len(p) : p[i] = o[i]
    PROVE  p = o
  <1>1. p \in [1 .. Len(p) -> S] /\ o \in [1 .. Len(o) -> T]
    OBVIOUS
  <1> QED
    BY <1>1

Longer(o, r) == Append(o, r)

LEMMA ImageOfLonger ==
    ASSUME NEW A, NEW B, NEW q, Maps(q, A, B), NEW o \in Seq(A), NEW r \in A
    PROVE  Image(q, Longer(o, r)) = Longer(Image(q, o), q[r])
  <1> DEFINE p == Image(q, o)
             more == Append(o, r)
  <1>1. p \in Seq(B) /\ Len(p) = Len(o) /\ \A i \in 1 .. Len(o) : p[i] = q[o[i]]
    BY ImageOfSequence
  <1>2. Len(o) \in Nat /\ q[r] \in B
    BY DEF Maps
  <1>3. /\ more \in Seq(A) /\ Len(more) = Len(o) + 1
        /\ \A i \in 1 .. Len(o) : more[i] = o[i]
        /\ more[Len(o) + 1] = r
    BY AppendedOne
  <1> HIDE DEF p, more
  <1>4. /\ Image(q, more) \in Seq(B) /\ Len(Image(q, more)) = Len(o) + 1
        /\ \A i \in 1 .. Len(o) + 1 : Image(q, more)[i] = q[more[i]]
    BY <1>3, ImageOfSequence
  <1>5. /\ Append(p, q[r]) \in Seq(B) /\ Len(Append(p, q[r])) = Len(o) + 1
        /\ \A i \in 1 .. Len(o) : Append(p, q[r])[i] = p[i]
        /\ Append(p, q[r])[Len(o) + 1] = q[r]
    BY <1>1, <1>2, AppendedOne
  <1>6. \A i \in 1 .. Len(o) + 1 : Image(q, more)[i] = Append(p, q[r])[i]
    <2> TAKE i \in 1 .. Len(o) + 1
    <2>1. ASSUME i \in 1 .. Len(o) PROVE Image(q, more)[i] = Append(p, q[r])[i]
      BY <1>1, <1>3, <1>4, <1>5, <2>1
    <2>2. ASSUME i = Len(o) + 1 PROVE Image(q, more)[i] = Append(p, q[r])[i]
      BY <1>3, <1>4, <1>5, <2>2
    <2>3. i \in 1 .. Len(o) \/ i = Len(o) + 1
      BY <1>2
    <2> QED
      BY <2>1, <2>2, <2>3
  <1>7. Image(q, more) = Append(p, q[r])
    BY <1>4, <1>5, <1>6, SameSequence
  <1> QED
    BY <1>7 DEF p, more, Longer

LEMMA ImageOfPushed ==
    ASSUME NEW A, NEW B, NEW q, Maps(q, A, B), NEW o \in Seq(A), NEW r \in A
    PROVE  Image(q, <<r>> \o o) = <<q[r]>> \o Image(q, o)
  <1> DEFINE p == Image(q, o)
             rest == <<r>> \o o
             v == <<q[r]>> \o p
  <1>1. p \in Seq(B) /\ Len(p) = Len(o) /\ \A i \in 1 .. Len(o) : p[i] = q[o[i]]
    BY ImageOfSequence
  <1>2. Len(o) \in Nat /\ q[r] \in B
    BY DEF Maps
  <1>3. /\ rest \in Seq(A) /\ Len(rest) = Len(o) + 1 /\ rest[1] = r
        /\ \A i \in 2 .. Len(o) + 1 : rest[i] = o[i - 1]
    BY PushedOne
  <1> HIDE DEF p, rest
  <1>4. /\ Image(q, rest) \in Seq(B) /\ Len(Image(q, rest)) = Len(o) + 1
        /\ \A i \in 1 .. Len(o) + 1 : Image(q, rest)[i] = q[rest[i]]
    BY <1>3, ImageOfSequence
  <1>5. /\ v \in Seq(B) /\ Len(v) = Len(o) + 1 /\ v[1] = q[r]
        /\ \A i \in 2 .. Len(o) + 1 : v[i] = p[i - 1]
    BY <1>1, <1>2, PushedOne
  <1> HIDE DEF v
  <1>6. \A i \in 1 .. Len(o) + 1 : Image(q, rest)[i] = v[i]
    <2> TAKE i \in 1 .. Len(o) + 1
    <2>1. ASSUME i = 1 PROVE Image(q, rest)[i] = v[i]
      BY <1>3, <1>4, <1>5, <2>1
    <2>2. ASSUME i \in 2 .. Len(o) + 1 PROVE Image(q, rest)[i] = v[i]
      <3>1. i - 1 \in 1 .. Len(o)
        BY <1>2, <2>2
      <3> QED
        BY <1>1, <1>3, <1>4, <1>5, <2>2, <3>1
    <2>3. i = 1 \/ i \in 2 .. Len(o) + 1
      BY <1>2
    <2> QED
      BY <2>1, <2>2, <2>3
  <1>7. Image(q, rest) = v
    BY <1>4, <1>5, <1>6, SameSequence
  <1> QED
    BY <1>7 DEF p, rest, v

LEMMA ImageSize ==
    ASSUME NEW A, NEW B, NEW q, Maps(q, A, B), NEW S \in SUBSET A, IsFiniteSet(S),
           \A a, b \in S : q[a] = q[b] => a = b
    PROVE  IsFiniteSet(All(q, S)) /\ Cardinality(All(q, S)) = Cardinality(S)
  <1> DEFINE T == { q[a] : a \in S }
             f == [a \in S |-> q[a]]
  <1>1. f \in [S -> T] /\ \A a \in S : f[a] = q[a]
    BY DEF Maps
  <1>2. \A c \in T : \E a \in S : f[a] = c
    OBVIOUS
  <1> HIDE DEF f, T
  <1>3. f \in Surjection(S, T)
    BY <1>1, <1>2 DEF Surjection
  <1>4. f \in Injection(S, T)
    BY <1>1 DEF Injection, IsInjective
  <1> QED
    BY <1>3, <1>4, FS_Surjection DEF T, All

LEMMA ImageDegree ==
    ASSUME NEW s, IsSnapshot(s), NEW ranks, NEW t, IsSnapshot(t), NEW places, NEW q,
           Embeds(q, s, ranks, t, places), NEW o \in Seq(s.active), NEW a \in s.active
    PROVE  Degree(t, Image(q, o), q[a]) = Degree(s, o, a)
  <1> DEFINE N == s.neighbors[a]
             M == t.neighbors[q[a]]
             R == ToSet(o)
  <1>1. Maps(q, s.active, t.active)
    BY DEF Embeds
  <1>2. R \subseteq s.active /\ IsFiniteSet(s.active)
    BY FS_Subset DEF IsSnapshot, ToSet
  <1>3. ToSet(Image(q, o)) = All(q, R)
    BY <1>1, ImageOfSequence
  <1> HIDE DEF N, M, R
  <1>4. M \cap ToSet(Image(q, o)) = All(q, N \cap R)
    <2>1. \A b \in R : b \in N <=> q[b] \in M
      BY <1>2 DEF Embeds, N, M
    <2> QED
      BY <1>3, <2>1 DEF All
  <1>5. Cardinality(All(q, N \cap R)) = Cardinality(N \cap R)
    <2>1. N \cap R \in SUBSET s.active /\ IsFiniteSet(N \cap R)
      BY <1>2, FS_Subset
    <2>2. \A b, c \in N \cap R : q[b] = q[c] => b = c
      BY <2>1 DEF Embeds
    <2> QED
      BY <1>1, <2>1, <2>2, ImageSize
  <1>6. Cardinality(N) + s.extra[a] = Cardinality(M) + t.extra[q[a]]
    BY DEF Embeds, N, M
  <1>7. Degree(s, o, a) = Cardinality(N) + s.extra[a] - Cardinality(N \cap R)
    BY DEF Degree, N, R
  <1>8. Degree(t, Image(q, o), q[a])
          = Cardinality(M) + t.extra[q[a]] - Cardinality(M \cap ToSet(Image(q, o)))
    BY DEF Degree, M
  <1>9. Cardinality(M \cap ToSet(Image(q, o))) = Cardinality(N \cap R)
    BY <1>4, <1>5
  <1>10. q[a] \in t.active
    BY <1>1 DEF Maps
  <1>11. /\ N \subseteq Nodes(s) /\ M \subseteq Nodes(t)
         /\ s.extra[a] \in Nat /\ t.extra[q[a]] \in Nat
    BY <1>10 DEF IsSnapshot, N, M
  <1>12. /\ Cardinality(N) \in Nat /\ Cardinality(M) \in Nat
         /\ Cardinality(N \cap R) \in Nat
    <2>1. IsFiniteSet(N) /\ IsFiniteSet(M) /\ IsFiniteSet(N \cap R)
      BY <1>11, FS_Subset DEF IsSnapshot
    <2> QED
      BY <2>1, FS_CardinalityType
  <1> DEFINE n == Cardinality(N)
             m == Cardinality(M)
             x == s.extra[a]
             y == t.extra[q[a]]
             g == Cardinality(N \cap R)
  <1>13. /\ Degree(s, o, a) = n + x - g /\ Degree(t, Image(q, o), q[a]) = m + y - g
         /\ n + x = m + y /\ n \in Nat /\ m \in Nat /\ x \in Nat /\ y \in Nat /\ g \in Nat
    BY <1>6, <1>7, <1>8, <1>9, <1>11, <1>12
  <1> HIDE DEF n, m, x, y, g
  <1> QED
    BY <1>13

LEMMA ImageQueue ==
    ASSUME NEW s, IsSnapshot(s), NEW ranks, AreRanks(s, ranks),
           NEW t, IsSnapshot(t), NEW places, AreRanks(t, places), NEW q,
           Embeds(q, s, ranks, t, places), NEW o \in Seq(s.active)
    PROVE  Queue(t, places, Image(q, o)) = Image(q, Queue(s, ranks, o))
  <1> DEFINE S == s.active \ ToSet(o)
             T == t.active \ ToSet(Image(q, o))
             u == Queue(s, ranks, o)
             v == Queue(t, places, Image(q, o))
             N == Cardinality(S)
  <1>1. /\ IsFiniteSet(S) /\ Enumerates(u, S, ranks) /\ Len(u) = N /\ N \in Nat /\ u \in Seq(S)
    BY QueueOfTheRest
  <1>2. /\ IsFiniteSet(T) /\ Enumerates(v, T, places) /\ Len(v) = Cardinality(T) /\ v \in Seq(T)
    BY QueueOfTheRest
  <1>3. Maps(q, s.active, t.active) /\ S \subseteq s.active
    BY DEF Embeds
  <1>4. \A a, b \in s.active : q[a] = q[b] => a = b
    BY DEF Embeds
  <1>5. T = All(q, S)
    <2>1. ToSet(Image(q, o)) = All(q, ToSet(o)) /\ ToSet(o) \subseteq s.active
      BY <1>3, ImageOfSequence DEF ToSet
    <2>2. \A c \in t.active : \E a \in s.active : q[a] = c
      BY DEF Embeds
    <2>3. \A a \in s.active : q[a] \in ToSet(Image(q, o)) <=> a \in ToSet(o)
      BY <1>4, <2>1 DEF All
    <2>4. \A a \in S : q[a] \in T
      BY <1>3, <2>3 DEF Maps
    <2>5. ASSUME NEW c \in T PROVE \E a \in S : q[a] = c
      <3>1. PICK a \in s.active : q[a] = c
        BY <2>2
      <3>2. a \in S
        BY <2>3, <3>1
      <3> QED
        BY <3>1, <3>2
    <2> HIDE DEF S, T
    <2> QED
      BY <2>4, <2>5 DEF All
  <1> HIDE DEF S, T, u, v, N
  <1>6. Cardinality(T) = N
    <2>1. S \in SUBSET s.active /\ \A a, b \in S : q[a] = q[b] => a = b
      BY <1>3, <1>4
    <2> QED
      BY <1>1, <1>3, <1>5, <2>1, ImageSize DEF N
  <1>7. ASSUME NEW a \in S
        PROVE  Cardinality(Earlier(T, places, q[a])) = Cardinality(Earlier(S, ranks, a))
    <2> DEFINE E == Earlier(S, ranks, a)
    <2>1. E \in SUBSET s.active /\ E \subseteq S /\ IsFiniteSet(E)
      <3>1. E \subseteq S
        BY DEF Earlier
      <3> HIDE DEF E
      <3> QED
        BY <1>1, <1>3, <3>1, FS_Subset
    <2>2. Earlier(T, places, q[a]) = All(q, E)
      <3>1. \A b \in S : b \in E <=> Before(ranks, b, a)
        BY DEF Earlier, Before
      <3>2. \A c \in T : c \in Earlier(T, places, q[a]) <=> Before(places, c, q[a])
        BY DEF Earlier, Before
      <3>3. \A b \in S : Before(ranks, b, a) <=> Before(places, q[b], q[a])
        BY <1>3 DEF Embeds
      <3>4. Earlier(T, places, q[a]) \subseteq T
        BY DEF Earlier
      <3> HIDE DEF E
      <3> QED
        BY <1>5, <2>1, <3>1, <3>2, <3>3, <3>4 DEF All
    <2>3. \A b, c \in E : q[b] = q[c] => b = c
      BY <1>4, <2>1
    <2> HIDE DEF E
    <2>4. Cardinality(All(q, E)) = Cardinality(E)
      BY <1>3, <2>1, <2>3, ImageSize
    <2> QED
      BY <2>2, <2>4 DEF E
  <1>8. u \in Seq(s.active) /\ Maps(q, s.active, t.active)
    <2>1. \A i \in 1 .. Len(u) : u[i] \in s.active
      BY <1>1, <1>3
    <2> QED
      BY <1>1, <1>3, <2>1
  <1>9. /\ Image(q, u) \in Seq(t.active) /\ Len(Image(q, u)) = N
        /\ \A i \in 1 .. N : Image(q, u)[i] = q[u[i]]
    BY <1>1, <1>8, ImageOfSequence
  <1>10. ASSUME NEW i \in 1 .. N PROVE v[i] = Image(q, u)[i]
    <2>1. u[i] \in S /\ Cardinality(Earlier(S, ranks, u[i])) = i - 1
      BY <1>1, <1>10 DEF Enumerates, N
    <2>2. q[u[i]] \in T
      BY <1>5, <2>1 DEF All
    <2>3. Cardinality(Earlier(T, places, q[u[i]])) = i - 1
      BY <1>7, <2>1
    <2>4. v[Cardinality(Earlier(T, places, q[u[i]])) + 1] = q[u[i]]
      BY <1>2, <2>2 DEF Enumerates
    <2>5. (i - 1) + 1 = i
      BY <1>1
    <2> QED
      BY <1>9, <2>3, <2>4, <2>5
  <1>11. v = Image(q, u)
    <2>1. Len(v) = N /\ v \in Seq(T)
      BY <1>2, <1>6
    <2> QED
      BY <1>9, <1>10, <2>1, SameSequence
  <1> QED
    BY <1>11 DEF u, v
\* The two snapshots and their ranks.
Alike(q, s, ranks, t, places) ==
  /\ IsSnapshot(s) /\ AreRanks(s, ranks) /\ IsSnapshot(t) /\ AreRanks(t, places)
  /\ Embeds(q, s, ranks, t, places)

ImageOf(q, x) == [order |-> Image(q, x.order), left |-> Image(q, x.left), changed |-> x.changed]

LEMMA ImageIsTyped ==
    ASSUME NEW q, NEW A, NEW B, Maps(q, A, B), NEW x \in Sweeps(A)
    PROVE  ImageOf(q, x) \in Sweeps(B)
  <1>1. x.order \in Seq(A) /\ x.left \in Seq(A) /\ x.changed \in BOOLEAN
    BY DEF Sweeps
  <1>2. Image(q, x.order) \in Seq(B) /\ Image(q, x.left) \in Seq(B)
    BY <1>1, ImageOfSequence
  <1> QED
    BY <1>1, <1>2 DEF ImageOf, Sweeps

LEMMA ImageOne ==
    ASSUME NEW s, NEW ranks, NEW t, NEW places, NEW q, Alike(q, s, ranks, t, places), NEW k,
           NEW x \in Sweeps(s.active), NEW r \in s.active
    PROVE  SweepOne(t, k, ImageOf(q, x), q[r]) = ImageOf(q, SweepOne(s, k, x, r))
  <1> DEFINE A == s.active
             y == ImageOf(q, x)
  <1>1. x.order \in Seq(A) /\ x.left \in Seq(A) /\ x.changed \in BOOLEAN
        /\ x = [order |-> x.order, left |-> x.left, changed |-> x.changed]
    BY DEF Sweeps
  <1>2. Maps(q, A, t.active)
    BY DEF Alike, Embeds
  <1>3. y.order = Image(q, x.order) /\ y.left = Image(q, x.left) /\ y.changed = x.changed
    BY DEF ImageOf
  <1>4. Degree(t, Image(q, x.order), q[r]) = Degree(s, x.order, r)
    BY <1>1, ImageDegree DEF Alike
  <1>5. /\ Image(q, Append(x.order, r)) = Append(Image(q, x.order), q[r])
        /\ Image(q, <<r>> \o x.left) = <<q[r]>> \o Image(q, x.left)
    <2> DEFINE more == x.order
               rest == x.left
    <2>1. r \in A /\ more \in Seq(A) /\ rest \in Seq(A)
      BY <1>1
    <2> HIDE DEF A, more, rest
    <2>2. Image(q, Longer(more, r)) = Longer(Image(q, more), q[r])
      BY <1>2, <2>1, ImageOfLonger
    <2>3. Image(q, <<r>> \o rest) = <<q[r]>> \o Image(q, rest)
      BY <1>2, <2>1, ImageOfPushed
    <2> QED
      BY <2>2, <2>3 DEF more, rest, Longer
  <1>6. CASE Degree(s, x.order, r) < k
    <2>1. SweepOne(s, k, x, r) = [order |-> Append(x.order, r), left |-> x.left, changed |-> TRUE]
      BY <1>1, <1>6 DEF SweepOne
    <2>2. SweepOne(t, k, y, q[r])
            = [order |-> Append(Image(q, x.order), q[r]), left |-> Image(q, x.left), changed |-> TRUE]
      BY <1>3, <1>4, <1>6 DEF SweepOne, ImageOf
    <2>3. ImageOf(q, [order |-> Append(x.order, r), left |-> x.left, changed |-> TRUE])
            = [order |-> Image(q, Append(x.order, r)), left |-> Image(q, x.left), changed |-> TRUE]
      BY DEF ImageOf
    <2> QED
      BY <1>5, <2>1, <2>2, <2>3
  <1>7. CASE ~(Degree(s, x.order, r) < k)
    <2>1. SweepOne(s, k, x, r) = [order |-> x.order, left |-> <<r>> \o x.left, changed |-> x.changed]
      BY <1>1, <1>7 DEF SweepOne
    <2>2. SweepOne(t, k, y, q[r])
            = [order |-> Image(q, x.order), left |-> <<q[r]>> \o Image(q, x.left), changed |-> x.changed]
      BY <1>3, <1>4, <1>7 DEF SweepOne, ImageOf
    <2>3. ImageOf(q, [order |-> x.order, left |-> <<r>> \o x.left, changed |-> x.changed])
            = [order |-> Image(q, x.order), left |-> Image(q, <<r>> \o x.left), changed |-> x.changed]
      BY DEF ImageOf
    <2> QED
      BY <1>5, <2>1, <2>2, <2>3
  <1> QED
    BY <1>6, <1>7

LEMMA ImageSweep ==
    ASSUME NEW s, NEW ranks, NEW t, NEW places, NEW q, Alike(q, s, ranks, t, places), NEW k,
           NEW o \in Seq(s.active)
    PROVE  Sweep(t, k, places, Image(q, o)) = ImageOf(q, Sweep(s, k, ranks, o))
  <1> DEFINE u == Queue(s, ranks, o)
             v == Queue(t, places, Image(q, o))
             N == Len(u)
  <1>1. IsSnapshot(s) /\ IsSnapshot(t) /\ AreRanks(s, ranks) /\ AreRanks(t, places)
        /\ Embeds(q, s, ranks, t, places) /\ Maps(q, s.active, t.active)
    BY DEF Alike, Embeds
  <1>2. Image(q, o) \in Seq(t.active)
    BY <1>1, ImageOfSequence
  <1>3. PICK g : SweepRun(g, s, k, ranks, o)
    BY <1>1, SweepUnfolds
  <1>4. PICK h : SweepRun(h, t, k, places, Image(q, o))
    BY <1>1, <1>2, SweepUnfolds
  <1>5. N \in Nat /\ u \in Seq(s.active)
    <2> DEFINE S == s.active \ ToSet(o)
    <2>1. u \in Seq(S) /\ S \subseteq s.active
      BY <1>1, QueueOfTheRest
    <2> HIDE DEF u, S
    <2> QED
      BY <2>1
  <1>6. v = Image(q, u)
    BY <1>1, ImageQueue
  <1>7. Len(v) = N /\ \A n \in 1 .. N : v[n] = q[u[n]]
    BY <1>1, <1>5, <1>6, ImageOfSequence
  <1>8. /\ g \in [0 .. N -> Sweeps(s.active)]
        /\ g[0] = [order |-> o, left |-> <<>>, changed |-> FALSE]
        /\ \A n \in 1 .. N : g[n] = SweepOne(s, k, g[n - 1], u[n])
        /\ Sweep(s, k, ranks, o) = g[N]
    BY <1>3 DEF SweepRun
  <1>9. /\ h[0] = [order |-> Image(q, o), left |-> <<>>, changed |-> FALSE]
        /\ \A n \in 1 .. N : h[n] = SweepOne(t, k, h[n - 1], v[n])
        /\ Sweep(t, k, places, Image(q, o)) = h[N]
    BY <1>4, <1>7 DEF SweepRun
  <1> HIDE DEF u, v, N
  <1> DEFINE P == { n \in Nat : n <= N => h[n] = ImageOf(q, g[n]) }
  <1>10. 0 \in P
    <2>1. Image(q, <<>>) = <<>>
      BY DEF Image
    <2>2. ImageOf(q, [order |-> o, left |-> <<>>, changed |-> FALSE])
            = [order |-> Image(q, o), left |-> Image(q, <<>>), changed |-> FALSE]
      BY DEF ImageOf
    <2>3. h[0] = ImageOf(q, g[0])
      BY <1>8, <1>9, <2>1, <2>2
    <2> QED
      BY <2>3
  <1>11. ASSUME NEW n \in Nat, n \in P PROVE n + 1 \in P
    <2> SUFFICES ASSUME n + 1 <= N PROVE h[n + 1] = ImageOf(q, g[n + 1])
      OBVIOUS
    <2>1. n <= N /\ n \in 0 .. N /\ n + 1 \in 1 .. N /\ (n + 1) - 1 = n
      BY <1>5
    <2>2. h[n] = ImageOf(q, g[n])
      BY <1>11, <2>1
    <2>3. g[n] \in Sweeps(s.active) /\ u[n + 1] \in s.active
      BY <1>5, <1>8, <2>1 DEF N
    <2>4. g[n + 1] = SweepOne(s, k, g[n], u[n + 1])
      BY <1>8, <2>1
    <2>5. h[n + 1] = SweepOne(t, k, h[n], q[u[n + 1]])
      BY <1>7, <1>9, <2>1
    <2>6. SweepOne(t, k, ImageOf(q, g[n]), q[u[n + 1]]) = ImageOf(q, SweepOne(s, k, g[n], u[n + 1]))
      BY <2>3, ImageOne
    <2> QED
      BY <2>2, <2>4, <2>5, <2>6
  <1> HIDE DEF P
  <1>12. N \in P
    BY <1>5, <1>10, <1>11, Induction
  <1> QED
    BY <1>5, <1>8, <1>9, <1>12 DEF P

LEMMA ImageCandidate ==
    ASSUME NEW s, NEW ranks, NEW t, NEW places, NEW q, Alike(q, s, ranks, t, places),
           NEW x \in Sweeps(s.active), x.left # <<>>
    PROVE  Candidate(t, ImageOf(q, x)) = q[Candidate(s, x)]
  <1> DEFINE y == ImageOf(q, x)
             N == Len(x.left)
             S == s.active
             T == t.active
             from == x.left
  <1>1. /\ IsSnapshot(s) /\ IsSnapshot(t)
        /\ Embeds(q, s, ranks, t, places) /\ Maps(q, S, T)
    BY DEF Alike, Embeds
  <1>2. from \in Seq(S) /\ x.order \in Seq(S) /\ from # <<>>
    BY DEF Sweeps
  <1>3. y.order = Image(q, x.order) /\ y.left = Image(q, from)
    BY DEF ImageOf
  <1>4. y \in Sweeps(T)
    BY <1>1, ImageIsTyped
  <1>5. /\ Image(q, from) \in Seq(T) /\ Len(Image(q, from)) = Len(from)
        /\ \A i \in 1 .. Len(from) : Image(q, from)[i] = q[from[i]]
        /\ Image(q, from) # <<>>
    <2> HIDE DEF from, S, T
    <2> QED
      BY <1>1, <1>2, ImageOfSequence
  <1>6. DOMAIN from = 1 .. N /\ DOMAIN Image(q, from) = 1 .. N /\ \A i \in 1 .. N : from[i] \in S
    <2> HIDE DEF from, S, T
    <2> QED
      BY <1>2, <1>5 DEF from
  <1>7. PICK i \in DOMAIN x.left : IsFirst(s, x, i)
    BY <1>1, OneIsFirst
  <1>8. Candidate(s, x) = from[i]
    BY <1>1, <1>7, CandidateIsFirst
  <1>9. ASSUME NEW a \in S, NEW b \in S
        PROVE  Scores(t, y.order, q[a], q[b]) <=> Scores(s, x.order, a, b)
    <2>1. /\ Degree(t, Image(q, x.order), q[a]) = Degree(s, x.order, a)
          /\ Degree(t, Image(q, x.order), q[b]) = Degree(s, x.order, b)
      BY <1>1, <1>2, ImageDegree
    <2>2. s.cost[a] = t.cost[q[a]] /\ s.cost[b] = t.cost[q[b]]
      BY <1>1 DEF Embeds
    <2> QED
      BY <1>3, <2>1, <2>2 DEF Scores
  <1>10. IsFirst(t, y, i)
    <2>1. i \in 1 .. N
      BY <1>6, <1>7
    <2>2. \A j \in 1 .. N : ~Scores(s, x.order, from[j], from[i])
      BY <1>6, <1>7 DEF IsFirst
    <2>3. \A j \in 1 .. i - 1 : Scores(s, x.order, from[i], from[j]) /\ j \in 1 .. N
      <3>1. \A j \in 1 .. i - 1 : j \in 1 .. N
        BY <2>1
      <3> QED
        BY <1>7, <3>1 DEF IsFirst
    <2> HIDE DEF y, N, S, T, from
    <2>4. \A j \in 1 .. N : ~Scores(t, y.order, y.left[j], y.left[i])
      BY <1>3, <1>5, <1>6, <1>9, <2>1, <2>2 DEF N
    <2>5. \A j \in 1 .. i - 1 : Scores(t, y.order, y.left[i], y.left[j])
      BY <1>3, <1>5, <1>6, <1>9, <2>1, <2>3 DEF N
    <2> QED
      BY <1>3, <1>6, <2>1, <2>4, <2>5 DEF IsFirst
  <1>11. i \in DOMAIN y.left /\ y.left[i] = q[from[i]] /\ y.left # <<>>
    BY <1>3, <1>5, <1>6, <1>7
  <1>12. Candidate(t, y) = y.left[i]
    <2> HIDE DEF y
    <2> QED
      BY <1>1, <1>4, <1>10, <1>11, CandidateIsFirst
  <1> QED
    BY <1>8, <1>11, <1>12

\* Both replays remove the registers in one order.
Together(q, s, ranks, t, places, k, o) ==
  Reaches(s, k, ranks, o) /\ Reaches(t, k, places, Image(q, o))

LEMMA TogetherNext ==
    ASSUME NEW s, NEW ranks, NEW t, NEW places, NEW q, Alike(q, s, ranks, t, places), NEW k,
           NEW o, Together(q, s, ranks, t, places, k, o)
    PROVE  \/ /\ RemovalOrder(s, k, ranks) = o /\ ToSet(o) = s.active
              /\ RemovalOrder(t, k, places) = Image(q, o)
           \/ \E next : Len(next) > Len(o) /\ Together(q, s, ranks, t, places, k, next)
  <1> DEFINE x == Sweep(s, k, ranks, o)
             y == Sweep(t, k, places, Image(q, o))
  <1>1. IsSnapshot(s) /\ IsSnapshot(t) /\ AreRanks(s, ranks) /\ AreRanks(t, places)
        /\ Maps(q, s.active, t.active) /\ Reaches(s, k, ranks, o) /\ Reaches(t, k, places, Image(q, o))
    BY DEF Alike, Embeds, Together
  <1>2. o \in Seq(s.active) /\ Distinct(o) /\ Len(o) \in Nat
    BY <1>1 DEF Reaches, IsOrder
  <1>3. y = ImageOf(q, x)
    BY <1>2, ImageSweep
  <1>4. x \in Sweeps(s.active) /\ (~x.changed => x.order = o)
    BY <1>1, <1>2, SweepIsSorted DEF RankSorted
  <1>5. y.order = Image(q, x.order) /\ y.left = Image(q, x.left) /\ y.changed = x.changed
    BY <1>3 DEF ImageOf
  <1>6. y.left # <<>> <=> x.left # <<>>
    <2>1. x.left \in Seq(s.active)
      BY <1>4 DEF Sweeps
    <2> HIDE DEF x, y
    <2> QED
      BY <1>1, <1>5, <2>1, ImageOfSequence
  <1>7. CASE x.changed
    <2>1. Reaches(s, k, ranks, x.order) /\ Len(x.order) > Len(o)
      BY <1>1, <1>7, ReachesAfterRemoval
    <2>2. Reaches(t, k, places, y.order)
      BY <1>1, <1>5, <1>7, ReachesAfterRemoval
    <2> QED
      BY <1>5, <2>1, <2>2 DEF Together
  <1>8. CASE ~x.changed /\ x.left # <<>>
    <2> DEFINE c == Candidate(s, x)
               next == Append(o, c)
    <2>1. Reaches(s, k, ranks, next) /\ Len(next) = Len(o) + 1
      BY <1>1, <1>8, ReachesAfterCandidate
    <2>2. Reaches(t, k, places, Append(Image(q, o), Candidate(t, y)))
      BY <1>1, <1>5, <1>6, <1>8, ReachesAfterCandidate
    <2>3. Candidate(t, y) = q[c]
      <3> HIDE DEF x, y
      <3> QED
        BY <1>3, <1>4, <1>8, ImageCandidate
    <2>4. c \in s.active
      <3>1. x \in Sweeps(s.active) /\ x.left # <<>> /\ IsSnapshot(s)
        BY <1>1, <1>4, <1>8
      <3> HIDE DEF x
      <3> QED
        BY <3>1, CandidateIsFirst
    <2> HIDE DEF c, x, y
    <2>5. Image(q, next) = Append(Image(q, o), q[c])
      <3>1. Image(q, Longer(o, c)) = Longer(Image(q, o), q[c])
        BY <1>1, <1>2, <2>4, ImageOfLonger
      <3> QED
        BY <3>1 DEF Longer
    <2> HIDE DEF next
    <2>6. Together(q, s, ranks, t, places, k, next) /\ Len(next) > Len(o)
      BY <1>2, <2>1, <2>2, <2>3, <2>5 DEF Together
    <2> QED
      BY <2>6
  <1>9. CASE ~x.changed /\ x.left = <<>>
    <2>1. RemovalOrder(s, k, ranks) = o /\ ToSet(o) = s.active
      BY <1>1, <1>9, ReachesTheEnd
    <2>2. RemovalOrder(t, k, places) = Image(q, o)
      BY <1>1, <1>5, <1>6, <1>9, ReachesTheEnd
    <2> QED
      BY <2>1, <2>2
  <1> QED
    BY <1>7, <1>8, <1>9

\* A register has its counterpart's place in the order of removal.
LEMMA RemovedAlike ==
    ASSUME NEW s, NEW ranks, NEW t, NEW places, NEW q, Alike(q, s, ranks, t, places), NEW k
    PROVE  /\ RemovalOrder(t, k, places) = Image(q, RemovalOrder(s, k, ranks))
           /\ IsOrder(s, RemovalOrder(s, k, ranks))
           /\ ToSet(RemovalOrder(s, k, ranks)) = s.active
  <1> DEFINE Goal == \E o : /\ RemovalOrder(s, k, ranks) = o /\ ToSet(o) = s.active
                            /\ RemovalOrder(t, k, places) = Image(q, o) /\ IsOrder(s, o)
             P == { n \in Nat : Goal \/ \E o : Len(o) >= n /\ Together(q, s, ranks, t, places, k, o) }
             N == Cardinality(s.active)
  <1>1. \A o : Together(q, s, ranks, t, places, k, o) => IsOrder(s, o) /\ Len(o) \in Nat
    BY DEF Together, Reaches, IsOrder
  <1>2. 0 \in P
    <2>1. Image(q, <<>>) = <<>> /\ Len(<<>>) = 0
      BY DEF Image
    <2>2. Together(q, s, ranks, t, places, k, <<>>)
      BY <2>1, ReachesStart DEF Together
    <2> QED
      BY <2>1, <2>2
  <1>3. ASSUME NEW n \in Nat, n \in P PROVE n + 1 \in P
    <2> SUFFICES ASSUME ~Goal
                 PROVE  \E o : Len(o) >= n + 1 /\ Together(q, s, ranks, t, places, k, o)
      OBVIOUS
    <2>1. PICK o : Len(o) >= n /\ Together(q, s, ranks, t, places, k, o)
      BY <1>3
    <2>2. PICK next : Len(next) > Len(o) /\ Together(q, s, ranks, t, places, k, next)
      BY <1>1, <2>1, TogetherNext
    <2>3. Len(next) \in Nat /\ Len(o) \in Nat
      BY <1>1, <2>1, <2>2
    <2>4. Len(next) >= n + 1
      BY <2>1, <2>2, <2>3
    <2> QED
      BY <2>2, <2>4
  <1>4. IsFiniteSet(s.active) /\ N \in Nat
    BY FS_Subset, FS_CardinalityType DEF Alike, IsSnapshot
  <1> HIDE DEF P, N, Goal
  <1>5. N + 1 \in P
    BY <1>2, <1>3, <1>4, Induction
  <1>6. ~\E o : Len(o) >= N + 1 /\ Together(q, s, ranks, t, places, k, o)
    <2> SUFFICES ASSUME NEW o, Len(o) >= N + 1, Together(q, s, ranks, t, places, k, o) PROVE FALSE
      OBVIOUS
    <2>1. o \in Seq(s.active) /\ Distinct(o)
      BY <1>1 DEF IsOrder
    <2>2. Len(o) <= N /\ Len(o) \in Nat
      BY <1>4, <2>1, DistinctIsShort DEF N
    <2> QED
      BY <1>4, <2>2
  <1>7. Goal
    BY <1>5, <1>6 DEF P
  <1> QED
    BY <1>7 DEF Goal
LEMMA RemovalIsAnOrder ==
    ASSUME NEW s, IsSnapshot(s), NEW ranks, AreRanks(s, ranks), NEW k
    PROVE  /\ IsOrder(s, RemovalOrder(s, k, ranks))
           /\ ToSet(RemovalOrder(s, k, ranks)) = s.active
  <1> DEFINE q == [a \in s.active |-> a]
  <1>1. Maps(q, s.active, s.active) /\ \A a \in s.active : q[a] = a
    BY DEF Maps
  <1> HIDE DEF q
  <1>2. Embeds(q, s, ranks, s, ranks)
    BY <1>1 DEF Embeds
  <1>3. Alike(q, s, ranks, s, ranks)
    BY <1>2 DEF Alike
  <1> QED
    BY <1>3, RemovedAlike
-----------------------------------------------------------------------------
(***************************************************************************)
(* Selection.                                                              *)
(***************************************************************************)
Physical == 0 .. FirstVirtual - 1

\* The class begins with physical registers, and claims physical registers.
Classed ==
  /\ FirstVirtual \in Nat /\ FirstSavedColor \in Nat
  /\ InitialColors \subseteq Physical

Colorings(s) == UNION { [D -> Physical \cup {-1}] : D \in SUBSET (Physical \cup s.active) }

Selecting(s) == [mask : SUBSET Physical, colors : Colorings(s)]

SelectRun(h, s, o) ==
  /\ h \in [0 .. Len(o) -> Selecting(s)]
  /\ h[0] = [mask |-> InitialColors, colors |-> [r \in Physical |-> r]]
  /\ \A n \in 1 .. Len(o) : h[n] = SelectColor(s, h[n - 1], o[n])
  /\ Selection(s, o) = h[Len(o)].colors

LEMMA SmallestIsMember ==
    ASSUME NEW S, S \subseteq Nat, S # {}
    PROVE  Smallest(S) \in S
  <1>1. \E x \in S : \A y \in S : x <= y
    BY LeastElement
  <1> QED
    BY <1>1 DEF Smallest

LEMMA GreatestIsMember ==
    ASSUME NEW n \in Nat, NEW S, S \subseteq 0 .. n - 1, S # {}
    PROVE  Greatest(S) \in S /\ \A y \in S : y <= Greatest(S)
  <1> DEFINE T == { n - x : x \in S }
  <1>1. T \subseteq Nat /\ T # {}
    OBVIOUS
  <1>2. PICK m \in T : \A y \in T : m <= y
    BY <1>1, LeastElement
  <1>3. PICK x \in S : m = n - x
    BY <1>2
  <1>4. \A y \in S : y <= x
    <2> TAKE y \in S
    <2>1. n - y \in T
      OBVIOUS
    <2>2. m <= n - y
      BY <1>2, <2>1
    <2> QED
      BY <1>3, <2>2
  <1>5. \E z \in S : \A y \in S : z >= y
    BY <1>3, <1>4
  <1> HIDE DEF T
  <1>6. Greatest(S) \in S /\ \A y \in S : Greatest(S) >= y
    BY <1>5 DEF Greatest
  <1> QED
    BY <1>6

LEMMA ClaimIsPhysical ==
    ASSUME Classed, NEW mask
    PROVE  Claim(mask) \subseteq Physical
  <1> DEFINE free == (FirstSavedColor .. FirstVirtual - 1) \ mask
  <1>1. free \subseteq Physical
    BY DEF Classed, Physical
  <1>2. free # {} => Greatest(free) \in free
    <2> HIDE DEF free
    <2> QED
      BY <1>1, GreatestIsMember DEF Classed, Physical
  <1> HIDE DEF free
  <1>3. Claim(mask) = IF free = {} THEN {} ELSE { Greatest(free) }
    BY DEF Claim, free
  <1> QED
    BY <1>1, <1>2, <1>3

\* The colour that a register gets.
Mask(s, x, r) ==
  IF x.mask \ Blocked(s, x.colors, r) = {} THEN x.mask \cup Claim(x.mask) ELSE x.mask

Shade(s, x, r) ==
  IF Mask(s, x, r) \ Blocked(s, x.colors, r) = {} THEN -1
  ELSE Smallest(Mask(s, x, r) \ Blocked(s, x.colors, r))

LEMMA Shades ==
    ASSUME NEW s, NEW x, NEW r
    PROVE  SelectColor(s, x, r)
             = [mask |-> Mask(s, x, r),
                colors |-> [y \in DOMAIN x.colors \cup {r} |->
                              IF y = r THEN Shade(s, x, r) ELSE x.colors[y]]]
  BY DEF SelectColor, Mask, Shade

LEMMA ShadeIsTyped ==
    ASSUME Classed, NEW s, NEW x \in Selecting(s), NEW r \in s.active
    PROVE  /\ Mask(s, x, r) \subseteq Physical
           /\ Shade(s, x, r) \in Physical \cup {-1}
           /\ SelectColor(s, x, r) \in Selecting(s)
           /\ DOMAIN SelectColor(s, x, r).colors = DOMAIN x.colors \cup {r}
  <1>1. x.mask \subseteq Physical /\ x.colors \in Colorings(s)
    BY DEF Selecting
  <1>2. PICK D \in SUBSET (Physical \cup s.active) : x.colors \in [D -> Physical \cup {-1}]
    BY <1>1 DEF Colorings
  <1>3. Mask(s, x, r) \subseteq Physical
    BY <1>1, ClaimIsPhysical DEF Mask
  <1>4. Shade(s, x, r) \in Physical \cup {-1}
    <2> DEFINE free == Mask(s, x, r) \ Blocked(s, x.colors, r)
    <2>1. free \subseteq Nat /\ free \subseteq Physical
      BY <1>3 DEF Physical
    <2>2. Shade(s, x, r) = IF free = {} THEN -1 ELSE Smallest(free)
      BY DEF Shade
    <2> HIDE DEF free
    <2> QED
      BY <2>1, <2>2, SmallestIsMember
  <1> DEFINE c == [y \in D \cup {r} |-> IF y = r THEN Shade(s, x, r) ELSE x.colors[y]]
  <1>5. c \in [D \cup {r} -> Physical \cup {-1}]
    BY <1>2, <1>4
  <1>6. D \cup {r} \in SUBSET (Physical \cup s.active) /\ DOMAIN x.colors = D
    BY <1>2
  <1>7. SelectColor(s, x, r) = [mask |-> Mask(s, x, r), colors |-> c]
    BY <1>6, Shades
  <1> HIDE DEF c
  <1>8. c \in Colorings(s)
    BY <1>5, <1>6 DEF Colorings
  <1>9. DOMAIN c = D \cup {r}
    BY <1>5
  <1> QED
    BY <1>3, <1>4, <1>6, <1>7, <1>8, <1>9 DEF Selecting

LEMMA SelectionUnfolds ==
    ASSUME Classed, NEW s, NEW o \in Seq(s.active)
    PROVE  \E h : SelectRun(h, s, o)
  <1> DEFINE N == Len(o)
             R == Selecting(s)
             start == [mask |-> InitialColors, colors |-> [r \in 0 .. FirstVirtual - 1 |-> r]]
             F == [p \in (1 .. N) \X R |-> SelectColor(s, p[2], o[p[1]])]
             Body(g) == [n \in 0 .. N |-> IF n = 0 THEN start ELSE SelectColor(s, g[n - 1], o[n])]
             G == CHOOSE g : g = Body(g)
  <1>1. N \in Nat /\ \A n \in 1 .. N : o[n] \in s.active
    OBVIOUS
  <1>2. start \in R
    <2> DEFINE c == [r \in 0 .. FirstVirtual - 1 |-> r]
    <2>1. c \in [Physical -> Physical \cup {-1}]
      BY DEF Physical
    <2>2. Physical \in SUBSET (Physical \cup s.active)
      OBVIOUS
    <2> HIDE DEF c
    <2>3. c \in Colorings(s)
      BY <2>1, <2>2 DEF Colorings
    <2> QED
      BY <2>3 DEF Selecting, Classed, c
  <1>3. F \in [(1 .. N) \X R -> R]
    <2> SUFFICES ASSUME NEW p \in (1 .. N) \X R PROVE SelectColor(s, p[2], o[p[1]]) \in R
      OBVIOUS
    <2>1. p[1] \in 1 .. N /\ p[2] \in R
      OBVIOUS
    <2>2. o[p[1]] \in s.active
      BY <1>1, <2>1
    <2> HIDE DEF R
    <2> QED
      BY <2>1, <2>2, ShadeIsTyped DEF R
  <1>4. \A n \in 1 .. N, x \in R : F[<<n, x>>] = SelectColor(s, x, o[n])
    OBVIOUS
  <1> HIDE DEF F, R, start, N
  <1>5. PICK g \in [0 .. N -> R] : g[0] = start /\ \A n \in 1 .. N : g[n] = F[<<n, g[n - 1]>>]
    <2>1. \E g : Recurses(g, start, F, R, N)
      BY <1>1, <1>2, <1>3, BoundedRecursion, Zenon
    <2> QED
      BY <2>1 DEF Recurses
  <1>6. g = Body(g)
    <2>1. ASSUME NEW n \in 1 .. N PROVE g[n] = SelectColor(s, g[n - 1], o[n])
      <3>1. n - 1 \in 0 .. N
        BY <1>1
      <3> QED
        BY <1>4, <1>5, <3>1
    <2>2. \A n \in 0 .. N : n = 0 \/ n \in 1 .. N
      BY <1>1
    <2> QED
      BY <1>5, <2>1, <2>2
  <1> HIDE DEF Body
  <1>7. G = Body(G)
    BY <1>6, Zenon
  <1>8. Selection(s, o) = G[N].colors
    BY DEF Selection, N, start, Body
  <1> HIDE DEF G
  <1>9. G[0] = start /\ \A n \in 1 .. N : G[n] = SelectColor(s, G[n - 1], o[n])
    <2>1. 0 \in 0 .. N /\ \A n \in 1 .. N : n \in 0 .. N /\ n # 0
      BY <1>1
    <2> QED
      BY <1>7, <2>1 DEF Body
  <1>10. G \in [0 .. N -> R]
    <2> DEFINE P == { n \in Nat : n \in 0 .. N => G[n] \in R }
    <2>1. 0 \in P
      BY <1>2, <1>9
    <2>2. ASSUME NEW n \in Nat, n \in P PROVE n + 1 \in P
      <3> SUFFICES ASSUME n + 1 \in 0 .. N PROVE G[n + 1] \in R
        OBVIOUS
      <3>1. n \in 0 .. N /\ n + 1 \in 1 .. N /\ (n + 1) - 1 = n
        BY <1>1
      <3>2. G[n] \in R /\ o[n + 1] \in s.active
        BY <1>1, <2>2, <3>1
      <3>3. G[n + 1] = SelectColor(s, G[n], o[n + 1])
        BY <1>9, <3>1
      <3> QED
        BY <3>2, <3>3, ShadeIsTyped DEF R
    <2> HIDE DEF P
    <2>3. Nat \subseteq P
      BY <2>1, <2>2, Induction
    <2>4. \A n \in 0 .. N : G[n] \in R
      BY <1>1, <2>3 DEF P
    <2>5. G = [n \in 0 .. N |-> G[n]]
      BY <1>7 DEF Body
    <2> QED
      BY <2>4, <2>5
  <1>11. SelectRun(G, s, o)
    BY <1>8, <1>9, <1>10 DEF SelectRun, N, R, start, Physical
  <1> QED
    BY <1>11
\* The registers whose colours a register must not have.
Roots(s, r) == { Canonical(s, n) : n \in s.neighbors[r] }

SameRoots(q, s, t) ==
  \A a \in s.active :
    /\ \A c \in Physical : c \in Roots(s, a) <=> c \in Roots(t, q[a])
    /\ \A b \in s.active : b \in Roots(s, a) <=> q[b] \in Roots(t, q[a])

\* Two selections that have come equally far.
Agreeing(q, s, t, x, y) ==
  /\ x.mask = y.mask
  /\ \A c \in Physical : /\ c \in DOMAIN x.colors /\ c \in DOMAIN y.colors
                         /\ x.colors[c] = c /\ y.colors[c] = c
  /\ \A a \in s.active : /\ a \in DOMAIN x.colors <=> q[a] \in DOMAIN y.colors
                         /\ a \in DOMAIN x.colors => y.colors[q[a]] = x.colors[a]

Separate(s) == s.active \cap Physical = {}

LEMMA BlockedColors ==
    ASSUME NEW s, NEW colors, NEW r, NEW c
    PROVE  c \in Blocked(s, colors, r) <=>
             \E root \in Roots(s, r) : /\ root \in DOMAIN colors /\ colors[root] >= 0
                                       /\ c = colors[root] % FirstVirtual
  BY DEF Blocked, Roots

LEMMA BlockedAlike ==
    ASSUME NEW s, NEW t, NEW q, Maps(q, s.active, t.active),
           \A c \in t.active : \E a \in s.active : q[a] = c, SameRoots(q, s, t),
           NEW x \in Selecting(s), NEW y \in Selecting(t), Agreeing(q, s, t, x, y), NEW a \in s.active
    PROVE  Blocked(s, x.colors, a) = Blocked(t, y.colors, q[a])
  <1>1. DOMAIN x.colors \subseteq Physical \cup s.active
        /\ DOMAIN y.colors \subseteq Physical \cup t.active
    BY DEF Selecting, Colorings
  <1>2. ASSUME NEW c, c \in Blocked(s, x.colors, a) PROVE c \in Blocked(t, y.colors, q[a])
    <2>1. PICK root \in Roots(s, a) : /\ root \in DOMAIN x.colors /\ x.colors[root] >= 0
                                      /\ c = x.colors[root] % FirstVirtual
      BY <1>2, BlockedColors
    <2>2. CASE root \in Physical
      <3>1. root \in Roots(t, q[a])
        BY <2>2 DEF SameRoots
      <3>2. root \in DOMAIN y.colors /\ y.colors[root] = x.colors[root]
        BY <2>2 DEF Agreeing
      <3> QED
        BY <2>1, <3>1, <3>2, BlockedColors
    <2>3. CASE root \in s.active
      <3>1. q[root] \in Roots(t, q[a])
        BY <2>3 DEF SameRoots
      <3>2. q[root] \in DOMAIN y.colors /\ y.colors[q[root]] = x.colors[root]
        BY <2>1, <2>3 DEF Agreeing
      <3> QED
        BY <2>1, <3>1, <3>2, BlockedColors
    <2> QED
      BY <1>1, <2>1, <2>2, <2>3
  <1>3. ASSUME NEW c, c \in Blocked(t, y.colors, q[a]) PROVE c \in Blocked(s, x.colors, a)
    <2>1. PICK root \in Roots(t, q[a]) : /\ root \in DOMAIN y.colors /\ y.colors[root] >= 0
                                         /\ c = y.colors[root] % FirstVirtual
      BY <1>3, BlockedColors
    <2>2. CASE root \in Physical
      <3>1. root \in Roots(s, a)
        BY <2>2 DEF SameRoots
      <3>2. root \in DOMAIN x.colors /\ y.colors[root] = x.colors[root]
        BY <2>2 DEF Agreeing
      <3> QED
        BY <2>1, <3>1, <3>2, BlockedColors
    <2>3. CASE root \in t.active
      <3>1. PICK b \in s.active : q[b] = root
        BY <2>3
      <3>2. b \in Roots(s, a)
        BY <3>1 DEF SameRoots
      <3>3. b \in DOMAIN x.colors /\ y.colors[root] = x.colors[b]
        BY <2>1, <3>1 DEF Agreeing
      <3> QED
        BY <2>1, <3>2, <3>3, BlockedColors
    <2> QED
      BY <1>1, <2>1, <2>2, <2>3
  <1> QED
    BY <1>2, <1>3

LEMMA SelectAlike ==
    ASSUME Classed, NEW s, NEW t, NEW q, Maps(q, s.active, t.active),
           \A b, c \in s.active : q[b] = q[c] => b = c,
           \A c \in t.active : \E a \in s.active : q[a] = c,
           SameRoots(q, s, t), Separate(s), Separate(t),
           NEW x \in Selecting(s), NEW y \in Selecting(t), Agreeing(q, s, t, x, y), NEW a \in s.active
    PROVE  Agreeing(q, s, t, SelectColor(s, x, a), SelectColor(t, y, q[a]))
  <1> DEFINE u == SelectColor(s, x, a)
             v == SelectColor(t, y, q[a])
  <1>1. Blocked(s, x.colors, a) = Blocked(t, y.colors, q[a])
    BY BlockedAlike
  <1>2. q[a] \in t.active /\ \A b \in s.active : q[b] \in t.active
    BY DEF Maps
  <1>3. Mask(s, x, a) = Mask(t, y, q[a]) /\ Shade(s, x, a) = Shade(t, y, q[a])
    BY <1>1 DEF Agreeing, Mask, Shade
  <1>4. /\ u.mask = Mask(s, x, a) /\ DOMAIN u.colors = DOMAIN x.colors \cup {a}
        /\ \A z \in DOMAIN x.colors \cup {a} :
             u.colors[z] = IF z = a THEN Shade(s, x, a) ELSE x.colors[z]
    BY Shades
  <1>5. /\ v.mask = Mask(t, y, q[a]) /\ DOMAIN v.colors = DOMAIN y.colors \cup {q[a]}
        /\ \A z \in DOMAIN y.colors \cup {q[a]} :
             v.colors[z] = IF z = q[a] THEN Shade(t, y, q[a]) ELSE y.colors[z]
    BY Shades
  <1> HIDE DEF u, v
  <1>6. ASSUME NEW c \in Physical
        PROVE  /\ c \in DOMAIN u.colors /\ c \in DOMAIN v.colors
               /\ u.colors[c] = c /\ v.colors[c] = c
    <2>1. c # a /\ c # q[a]
      BY <1>2 DEF Separate
    <2> QED
      BY <1>4, <1>5, <2>1 DEF Agreeing
  <1>7. ASSUME NEW b \in s.active
        PROVE  /\ b \in DOMAIN u.colors <=> q[b] \in DOMAIN v.colors
               /\ b \in DOMAIN u.colors => v.colors[q[b]] = u.colors[b]
    <2>1. b = a <=> q[b] = q[a]
      OBVIOUS
    <2>2. /\ b \in DOMAIN x.colors <=> q[b] \in DOMAIN y.colors
          /\ b \in DOMAIN x.colors => y.colors[q[b]] = x.colors[b]
      BY DEF Agreeing
    <2> QED
      BY <1>3, <1>4, <1>5, <2>1, <2>2
  <1>8. Agreeing(q, s, t, u, v)
    BY <1>3, <1>4, <1>5, <1>6, <1>7 DEF Agreeing
  <1> QED
    BY <1>8 DEF u, v

\* Selection is the same in one order of the counterparts.
LEMMA SelectedAlike ==
    ASSUME Classed, NEW s, NEW t, NEW q, Maps(q, s.active, t.active),
           \A b, c \in s.active : q[b] = q[c] => b = c,
           \A c \in t.active : \E a \in s.active : q[a] = c,
           SameRoots(q, s, t), Separate(s), Separate(t), NEW o \in Seq(s.active)
    PROVE  \A a \in ToSet(o) : /\ a \in DOMAIN Selection(s, o) /\ q[a] \in DOMAIN Selection(t, Image(q, o))
                               /\ Selection(t, Image(q, o))[q[a]] = Selection(s, o)[a]
  <1> DEFINE p == Image(q, o)
             N == Len(o)
  <1>1. p \in Seq(t.active) /\ Len(p) = N /\ \A i \in 1 .. N : p[i] = q[o[i]]
    BY ImageOfSequence
  <1>2. N \in Nat /\ \A i \in 1 .. N : o[i] \in s.active
    OBVIOUS
  <1> HIDE DEF p
  <1>3. PICK g : SelectRun(g, s, o)
    BY SelectionUnfolds
  <1>4. PICK h : SelectRun(h, t, p)
    BY <1>1, SelectionUnfolds
  <1>5. /\ \A n \in 0 .. N : g[n] \in Selecting(s)
        /\ g[0] = [mask |-> InitialColors, colors |-> [r \in Physical |-> r]]
        /\ \A n \in 1 .. N : g[n] = SelectColor(s, g[n - 1], o[n])
        /\ Selection(s, o) = g[N].colors
    BY <1>3 DEF SelectRun
  <1>6. /\ \A n \in 0 .. N : h[n] \in Selecting(t)
        /\ h[0] = [mask |-> InitialColors, colors |-> [r \in Physical |-> r]]
        /\ \A n \in 1 .. N : h[n] = SelectColor(t, h[n - 1], q[o[n]])
        /\ Selection(t, p) = h[N].colors
    BY <1>1, <1>4 DEF SelectRun
  <1> HIDE DEF N
  <1> DEFINE P == { n \in Nat : n <= N =>
                      /\ Agreeing(q, s, t, g[n], h[n])
                      /\ \A i \in 1 .. n : o[i] \in DOMAIN g[n].colors }
  <1>7. 0 \in P
    <2>1. Agreeing(q, s, t, g[0], h[0])
      <3>1. \A a \in s.active : a \notin Physical /\ q[a] \notin Physical
        BY DEF Separate, Maps
      <3> QED
        BY <1>5, <1>6, <3>1 DEF Agreeing
    <2> QED
      BY <2>1
  <1>8. ASSUME NEW n \in Nat, n \in P PROVE n + 1 \in P
    <2> SUFFICES ASSUME n + 1 <= N
                 PROVE  /\ Agreeing(q, s, t, g[n + 1], h[n + 1])
                        /\ \A i \in 1 .. n + 1 : o[i] \in DOMAIN g[n + 1].colors
      OBVIOUS
    <2>1. n <= N /\ n \in 0 .. N /\ n + 1 \in 1 .. N /\ (n + 1) - 1 = n
      BY <1>2
    <2>2. Agreeing(q, s, t, g[n], h[n]) /\ \A i \in 1 .. n : o[i] \in DOMAIN g[n].colors
      BY <1>8, <2>1
    <2>3. g[n] \in Selecting(s) /\ h[n] \in Selecting(t) /\ o[n + 1] \in s.active
      BY <1>2, <1>5, <1>6, <2>1
    <2>4. g[n + 1] = SelectColor(s, g[n], o[n + 1]) /\ h[n + 1] = SelectColor(t, h[n], q[o[n + 1]])
      BY <1>5, <1>6, <2>1
    <2>5. Agreeing(q, s, t, g[n + 1], h[n + 1])
      BY <2>2, <2>3, <2>4, SelectAlike
    <2>6. DOMAIN g[n + 1].colors = DOMAIN g[n].colors \cup {o[n + 1]}
      BY <2>3, <2>4, ShadeIsTyped
    <2>7. \A i \in 1 .. n + 1 : i \in 1 .. n \/ i = n + 1
      BY <2>1
    <2> QED
      BY <2>2, <2>5, <2>6, <2>7
  <1> HIDE DEF P
  <1>9. N \in P
    BY <1>2, <1>7, <1>8, Induction
  <1>10. Agreeing(q, s, t, g[N], h[N]) /\ \A i \in 1 .. N : o[i] \in DOMAIN g[N].colors
    BY <1>2, <1>9 DEF P
  <1>11. ASSUME NEW a \in ToSet(o)
         PROVE  /\ a \in DOMAIN Selection(s, o) /\ q[a] \in DOMAIN Selection(t, p)
                /\ Selection(t, p)[q[a]] = Selection(s, o)[a]
    <2>1. PICK i \in 1 .. N : a = o[i]
      BY DEF ToSet, N
    <2>2. a \in s.active /\ a \in DOMAIN g[N].colors
      BY <1>2, <1>10, <2>1
    <2> QED
      BY <1>5, <1>6, <1>10, <2>2 DEF Agreeing
  <1> QED
    BY <1>11 DEF p

LEMMA ReverseOfSequence ==
    ASSUME NEW S, NEW o \in Seq(S)
    PROVE  /\ Reverse(o) \in Seq(S) /\ Len(Reverse(o)) = Len(o)
           /\ \A i \in 1 .. Len(o) : Reverse(o)[i] = o[Len(o) - i + 1]
           /\ ToSet(Reverse(o)) = ToSet(o)
  <1> DEFINE p == Reverse(o)
             N == Len(o)
  <1>1. N \in Nat /\ DOMAIN o = 1 .. N /\ \A i \in 1 .. N : o[i] \in S
    OBVIOUS
  <1>2. p = [i \in 1 .. N |-> o[(N - i) + 1]]
    BY DEF Reverse
  <1>3. \A i \in 1 .. N : (N - i) + 1 \in 1 .. N /\ (N - ((N - i) + 1)) + 1 = i /\ N - i + 1 = (N - i) + 1
    BY <1>1
  <1> HIDE DEF p, N
  <1>4. p \in Seq(S) /\ Len(p) = N /\ DOMAIN p = 1 .. N /\ \A i \in 1 .. N : p[i] = o[(N - i) + 1]
    BY <1>1, <1>2, <1>3
  <1>5. \A i \in 1 .. N : p[(N - i) + 1] = o[i]
    BY <1>3, <1>4
  <1>6. ToSet(p) = ToSet(o)
    BY <1>1, <1>3, <1>4, <1>5 DEF ToSet
  <1> QED
    BY <1>3, <1>4, <1>6 DEF p, N

LEMMA ImageOfReverse ==
    ASSUME NEW A, NEW B, NEW q, Maps(q, A, B), NEW o \in Seq(A)
    PROVE  Image(q, Reverse(o)) = Reverse(Image(q, o))
  <1> DEFINE p == Image(q, o)
             w == Reverse(o)
             N == Len(o)
  <1>1. p \in Seq(B) /\ Len(p) = N /\ \A i \in 1 .. N : p[i] = q[o[i]]
    BY ImageOfSequence
  <1>2. w \in Seq(A) /\ Len(w) = N /\ \A i \in 1 .. N : w[i] = o[N - i + 1]
    BY ReverseOfSequence
  <1>3. N \in Nat
    OBVIOUS
  <1> HIDE DEF p, w, N
  <1>4. /\ Image(q, w) \in Seq(B) /\ Len(Image(q, w)) = N
        /\ \A i \in 1 .. N : Image(q, w)[i] = q[w[i]]
    BY <1>2, ImageOfSequence
  <1>5. /\ Reverse(p) \in Seq(B) /\ Len(Reverse(p)) = N
        /\ \A i \in 1 .. N : Reverse(p)[i] = p[N - i + 1]
    BY <1>1, ReverseOfSequence
  <1>6. \A i \in 1 .. N : N - i + 1 \in 1 .. N
    BY <1>3
  <1>7. \A i \in 1 .. N : Image(q, w)[i] = Reverse(p)[i]
    BY <1>1, <1>2, <1>4, <1>5, <1>6
  <1> QED
    BY <1>4, <1>5, <1>7, SameSequence DEF p, w

\* Two snapshots with the same roots are replayed alike.
LEMMA ReplayedAlike ==
    ASSUME Classed, NEW s, NEW ranks, NEW t, NEW places, NEW q, Alike(q, s, ranks, t, places),
           SameRoots(q, s, t), Separate(s), Separate(t), NEW k
    PROVE  \A a \in s.active :
             /\ a \in DOMAIN Replay(s, k, ranks) /\ q[a] \in DOMAIN Replay(t, k, places)
             /\ Replay(t, k, places)[q[a]] = Replay(s, k, ranks)[a]
  <1> DEFINE o == RemovalOrder(s, k, ranks)
             w == Reverse(o)
  <1>1. /\ RemovalOrder(t, k, places) = Image(q, o) /\ IsOrder(s, o) /\ ToSet(o) = s.active
    BY RemovedAlike
  <1>2. o \in Seq(s.active)
    BY <1>1 DEF IsOrder
  <1>3. Maps(q, s.active, t.active) /\ \A b, c \in s.active : q[b] = q[c] => b = c
    BY DEF Alike, Embeds
  <1>4. \A c \in t.active : \E a \in s.active : q[a] = c
    BY DEF Alike, Embeds
  <1> HIDE DEF o
  <1>5. w \in Seq(s.active) /\ ToSet(w) = s.active
    BY <1>1, <1>2, ReverseOfSequence
  <1>6. Reverse(RemovalOrder(t, k, places)) = Image(q, w)
    BY <1>1, <1>2, <1>3, ImageOfReverse
  <1>7. Replay(s, k, ranks) = Selection(s, w) /\ Replay(t, k, places) = Selection(t, Image(q, w))
    BY <1>6 DEF Replay, o
  <1> HIDE DEF w
  <1>8. \A a \in ToSet(w) : /\ a \in DOMAIN Selection(s, w) /\ q[a] \in DOMAIN Selection(t, Image(q, w))
                            /\ Selection(t, Image(q, w))[q[a]] = Selection(s, w)[a]
    BY <1>3, <1>4, <1>5, SelectedAlike
  <1> QED
    BY <1>5, <1>7, <1>8
\* Where a parent is a root, it is the canonical register.
\* The walk up the parents.
Climbs(g, s, r) ==
  /\ g[0] = r /\ \A n \in Nat : g[n] \in Nodes(s) /\ g[n + 1] = s.parent[g[n]]
  /\ Canonical(s, r) = g[Cardinality(Nodes(s))]

LEMMA CanonicalUnfolds ==
    ASSUME NEW s, IsSnapshot(s), NEW r \in Nodes(s)
    PROVE  \E g : Climbs(g, s, r)
  <1> DEFINE R == Nodes(s)
             F == [p \in Nat \X R |-> s.parent[p[2]]]
             Body(g) == [n \in Nat |-> IF n = 0 THEN r ELSE s.parent[g[n - 1]]]
             G == CHOOSE g : g = Body(g)
             N == Cardinality(DOMAIN s.parent)
  <1>1. r \in R /\ \A x \in R : s.parent[x] \in R
    BY DEF IsSnapshot
  <1>2. F \in [Nat \X R -> R]
    <2> SUFFICES ASSUME NEW p \in Nat \X R PROVE s.parent[p[2]] \in R
      OBVIOUS
    <2>1. p[2] \in R
      OBVIOUS
    <2> HIDE DEF R
    <2> QED
      BY <1>1, <2>1
  <1>3. \A n \in Nat, x \in R : F[<<n, x>>] = s.parent[x]
    OBVIOUS
  <1> HIDE DEF F, R
  <1>4. PICK g \in [Nat -> R] : g[0] = r /\ \A n \in Nat : g[n + 1] = F[<<n, g[n]>>]
    <2>1. \E g : Recursion(g, r, F, R)
      BY <1>1, <1>2, RecursionExists, Zenon
    <2> QED
      BY <2>1 DEF Recursion
  <1>5. g = Body(g)
    <2>1. ASSUME NEW n \in Nat, n # 0 PROVE g[n] = s.parent[g[n - 1]]
      <3>1. n - 1 \in Nat /\ (n - 1) + 1 = n
        BY <2>1
      <3> QED
        BY <1>3, <1>4, <3>1
    <2> QED
      BY <1>4, <2>1
  <1> HIDE DEF Body
  <1>6. G = Body(G)
    BY <1>5, Zenon
  <1>7. Canonical(s, r) = G[N]
    BY DEF Canonical, N, Body
  <1> HIDE DEF G
  <1>8. G[0] = r /\ \A n \in Nat : G[n + 1] = s.parent[G[n]]
    <2>1. \A n \in Nat : G[n] = IF n = 0 THEN r ELSE s.parent[G[n - 1]]
      BY <1>6 DEF Body
    <2>2. ASSUME NEW n \in Nat PROVE G[n + 1] = s.parent[G[n]]
      <3>1. n + 1 \in Nat /\ n + 1 # 0 /\ (n + 1) - 1 = n
        OBVIOUS
      <3> QED
        BY <2>1, <3>1
    <2> QED
      BY <2>1, <2>2
  <1>9. \A n \in Nat : G[n] \in R
    <2> DEFINE Q == { n \in Nat : G[n] \in R }
    <2>1. 0 \in Q /\ \A n \in Nat : n \in Q => n + 1 \in Q
      BY <1>1, <1>8
    <2> HIDE DEF Q
    <2>2. Nat \subseteq Q
      BY <2>1, Induction
    <2> QED
      BY <2>2 DEF Q
  <1>10. Climbs(G, s, r)
    BY <1>7, <1>8, <1>9 DEF Climbs, N, R, Nodes
  <1> QED
    BY <1>10

LEMMA CanonicalIsParent ==
    ASSUME NEW s, IsSnapshot(s), \A r \in Nodes(s) : s.parent[s.parent[r]] = s.parent[r],
           NEW r \in Nodes(s)
    PROVE  Canonical(s, r) = s.parent[r]
  <1> DEFINE N == Cardinality(Nodes(s))
  <1>1. PICK G : Climbs(G, s, r)
    BY CanonicalUnfolds
  <1>7. Canonical(s, r) = G[N]
    BY <1>1 DEF Climbs
  <1>8. G[0] = r /\ \A n \in Nat : G[n + 1] = s.parent[G[n]]
    BY <1>1 DEF Climbs
  <1> DEFINE P == { n \in Nat : G[n + 1] = s.parent[r] }
  <1>9. 0 \in P
    BY <1>8
  <1>10. ASSUME NEW n \in Nat, n \in P PROVE n + 1 \in P
    <2>1. G[n + 1] = s.parent[r] /\ n + 1 \in Nat
      BY <1>10
    <2>2. G[(n + 1) + 1] = s.parent[G[n + 1]]
      BY <1>8, <2>1
    <2>3. s.parent[s.parent[r]] = s.parent[r]
      OBVIOUS
    <2>4. G[(n + 1) + 1] = s.parent[r]
      BY <2>1, <2>2, <2>3
    <2>5. n + 1 \in Nat
      OBVIOUS
    <2> QED
      BY <2>4, <2>5
  <1> HIDE DEF P
  <1>11. N \in Nat /\ N # 0
    <2>1. IsFiniteSet(Nodes(s)) /\ r \in Nodes(s)
      BY DEF IsSnapshot
    <2>2. Cardinality(Nodes(s)) \in Nat /\ Cardinality(Nodes(s)) # 0
      BY <2>1, FS_CardinalityType, FS_EmptySet
    <2> QED
      BY <2>2
  <1>12. N - 1 \in Nat /\ (N - 1) + 1 = N
    BY <1>11
  <1> HIDE DEF N
  <1>13. N - 1 \in P
    BY <1>9, <1>10, <1>12, Induction
  <1> QED
    BY <1>7, <1>12, <1>13 DEF P

-----------------------------------------------------------------------------
(***************************************************************************)
(* Two sequences that agree on the members of a set, and what follows of   *)
(* two computations along them.                                            *)
(***************************************************************************)
Woven(o, p, A) ==
  /\ Distinct(o) /\ Distinct(p)
  /\ \A a \in A : a \in ToSet(o) <=> a \in ToSet(p)
  /\ \A i, j \in 1 .. Len(o), k, l \in 1 .. Len(p) :
       o[i] \in A /\ o[j] \in A /\ o[i] = p[k] /\ o[j] = p[l] => (i < j <=> k < l)

LEMMA WovenTurned ==
    ASSUME NEW o, NEW p, NEW A, Woven(o, p, A)
    PROVE  Woven(p, o, A)
  BY DEF Woven

\* Weaves: from a pair of prefixes a step of either sequence alone leads on, if
\* it is not in A, and a step of both, if it is the same.
Weaves(R, o, p, A) ==
  /\ 0 \in R[0]
  /\ \A i \in 0 .. Len(o), j \in 0 .. Len(p) : j \in R[i] =>
       /\ i < Len(o) /\ o[i + 1] \notin A => j \in R[i + 1]
       /\ j < Len(p) /\ p[j + 1] \notin A => j + 1 \in R[i]
       /\ i < Len(o) /\ j < Len(p) /\ o[i + 1] \in A /\ o[i + 1] = p[j + 1] => j + 1 \in R[i + 1]

Fronts(o, p, A, i, j) ==
  \A k \in 1 .. Len(o), l \in 1 .. Len(p) : o[k] \in A /\ o[k] = p[l] => (k <= i <=> l <= j)

LEMMA WovenStep ==
    ASSUME NEW S, NEW o \in Seq(S), NEW p \in Seq(S), NEW A, Woven(o, p, A), NEW R, Weaves(R, o, p, A),
           NEW i \in 0 .. Len(o), NEW j \in 0 .. Len(p), j \in R[i], Fronts(o, p, A, i, j),
           i < Len(o) \/ j < Len(p)
    PROVE  \E m \in 0 .. Len(o), n \in 0 .. Len(p) :
             n \in R[m] /\ Fronts(o, p, A, m, n) /\ m + n > i + j
  <1>1. Len(o) \in Nat /\ Len(p) \in Nat /\ i \in Nat /\ j \in Nat
    OBVIOUS
  <1>2. CASE i < Len(o) /\ o[i + 1] \notin A
    <2>1. i + 1 \in 0 .. Len(o) /\ j \in R[i + 1]
      BY <1>1, <1>2 DEF Weaves
    <2>2. Fronts(o, p, A, i + 1, j)
      <3> SUFFICES ASSUME NEW k \in 1 .. Len(o), NEW l \in 1 .. Len(p), o[k] \in A, o[k] = p[l]
                   PROVE  k <= i + 1 <=> l <= j
        BY DEF Fronts
      <3>1. k # i + 1
        BY <1>2
      <3>2. k <= i <=> l <= j
        BY DEF Fronts
      <3> QED
        BY <1>1, <3>1, <3>2
    <2> QED
      BY <1>1, <2>1, <2>2
  <1>3. CASE j < Len(p) /\ p[j + 1] \notin A
    <2>1. j + 1 \in 0 .. Len(p) /\ j + 1 \in R[i]
      BY <1>1, <1>3 DEF Weaves
    <2>2. Fronts(o, p, A, i, j + 1)
      <3> SUFFICES ASSUME NEW k \in 1 .. Len(o), NEW l \in 1 .. Len(p), o[k] \in A, o[k] = p[l]
                   PROVE  k <= i <=> l <= j + 1
        BY DEF Fronts
      <3>1. l # j + 1
        BY <1>3
      <3>2. k <= i <=> l <= j
        BY DEF Fronts
      <3> QED
        BY <1>1, <3>1, <3>2
    <2> QED
      BY <1>1, <2>1, <2>2
  <1>4. CASE /\ i < Len(o) => o[i + 1] \in A
             /\ j < Len(p) => p[j + 1] \in A
    <2>1. ASSUME i < Len(o)
          PROVE  \E l \in 1 .. Len(p) : l > j /\ p[l] = o[i + 1]
      <3>1. i + 1 \in 1 .. Len(o)
        BY <1>1, <2>1
      <3>2. o[i + 1] \in ToSet(p)
        BY <1>4, <2>1, <3>1 DEF Woven, ToSet
      <3>3. PICK l \in 1 .. Len(p) : p[l] = o[i + 1]
        BY <3>2 DEF ToSet
      <3>4. ~(l <= j)
        BY <1>1, <1>4, <2>1, <3>1, <3>3 DEF Fronts
      <3> QED
        BY <1>1, <3>3, <3>4
    <2>2. ASSUME j < Len(p)
          PROVE  \E k \in 1 .. Len(o) : k > i /\ o[k] = p[j + 1]
      <3>1. j + 1 \in 1 .. Len(p)
        BY <1>1, <2>2
      <3>2. p[j + 1] \in ToSet(o)
        BY <1>4, <2>2, <3>1 DEF Woven, ToSet
      <3>3. PICK k \in 1 .. Len(o) : o[k] = p[j + 1]
        BY <3>2 DEF ToSet
      <3>4. ~(k <= i)
        BY <1>1, <1>4, <2>2, <3>1, <3>3 DEF Fronts
      <3> QED
        BY <1>1, <3>3, <3>4
    <2>3. i < Len(o) /\ j < Len(p)
      BY <1>1, <2>1, <2>2
    <2>4. PICK l \in 1 .. Len(p) : l > j /\ p[l] = o[i + 1]
      BY <2>1, <2>3
    <2>5. PICK k \in 1 .. Len(o) : k > i /\ o[k] = p[j + 1]
      BY <2>2, <2>3
    <2>6. i + 1 \in 1 .. Len(o) /\ j + 1 \in 1 .. Len(p) /\ o[i + 1] \in A /\ p[j + 1] \in A
      BY <1>1, <1>4, <2>3
    <2>7. i + 1 < k <=> l < j + 1
      BY <2>4, <2>5, <2>6 DEF Woven
    <2>8. k = i + 1
      BY <1>1, <2>4, <2>5, <2>7
    <2>9. o[i + 1] = p[j + 1]
      BY <2>5, <2>8
    <2>10. j + 1 \in R[i + 1] /\ i + 1 \in 0 .. Len(o) /\ j + 1 \in 0 .. Len(p)
      BY <1>1, <2>3, <2>6, <2>9 DEF Weaves
    <2>11. Fronts(o, p, A, i + 1, j + 1)
      <3> SUFFICES ASSUME NEW m \in 1 .. Len(o), NEW n \in 1 .. Len(p), o[m] \in A, o[m] = p[n]
                   PROVE  m <= i + 1 <=> n <= j + 1
        BY DEF Fronts
      <3>1. m <= i <=> n <= j
        BY DEF Fronts
      <3>2. m = i + 1 <=> n = j + 1
        BY <2>6, <2>9 DEF Woven, Distinct
      <3> QED
        BY <1>1, <3>1, <3>2
    <2> QED
      BY <1>1, <2>10, <2>11
  <1> QED
    BY <1>2, <1>3, <1>4

LEMMA WovenToTheEnd ==
    ASSUME NEW S, NEW o \in Seq(S), NEW p \in Seq(S), NEW A, Woven(o, p, A), NEW R, Weaves(R, o, p, A)
    PROVE  Len(p) \in R[Len(o)]
  <1> DEFINE M == Len(o)
             N == Len(p)
             Goal == N \in R[M]
             P == { n \in Nat : Goal \/ \E i \in 0 .. M, j \in 0 .. N :
                                          j \in R[i] /\ Fronts(o, p, A, i, j) /\ i + j >= n }
  <1>1. M \in Nat /\ N \in Nat
    OBVIOUS
  <1>2. 0 \in P
    <2>1. 0 \in R[0] /\ 0 \in 0 .. M /\ 0 \in 0 .. N
      BY <1>1 DEF Weaves
    <2>2. Fronts(o, p, A, 0, 0)
      BY DEF Fronts
    <2> QED
      BY <2>1, <2>2
  <1>3. ASSUME NEW n \in Nat, n \in P PROVE n + 1 \in P
    <2> SUFFICES ASSUME ~Goal
                 PROVE  \E i \in 0 .. M, j \in 0 .. N :
                          j \in R[i] /\ Fronts(o, p, A, i, j) /\ i + j >= n + 1
      OBVIOUS
    <2>1. PICK i \in 0 .. M, j \in 0 .. N : j \in R[i] /\ Fronts(o, p, A, i, j) /\ i + j >= n
      BY <1>3
    <2>2. i < M \/ j < N
      <3>1. ~(i = M /\ j = N)
        BY <2>1
      <3> HIDE DEF M, N
      <3> QED
        BY <1>1, <3>1
    <2>3. PICK a \in 0 .. M, b \in 0 .. N : b \in R[a] /\ Fronts(o, p, A, a, b) /\ a + b > i + j
      BY <2>1, <2>2, WovenStep
    <2>4. a + b >= n + 1
      BY <1>1, <2>1, <2>3
    <2> QED
      BY <2>3, <2>4
  <1> HIDE DEF P, Goal, M, N
  <1>4. M + N + 1 \in P
    BY <1>1, <1>2, <1>3, Induction
  <1>5. ~\E i \in 0 .. M, j \in 0 .. N : i + j >= M + N + 1
    BY <1>1
  <1> QED
    BY <1>4, <1>5 DEF P, Goal, M, N

LEMMA WovenApart ==
    ASSUME NEW S, NEW o \in Seq(S), NEW p \in Seq(S), NEW A, Woven(o, p, A),
           NEW x \in S, x \notin A, x \notin ToSet(o)
    PROVE  Woven(Append(o, x), p, A)
  <1> DEFINE q == Append(o, x)
  <1>1. /\ Len(q) = Len(o) + 1 /\ q[Len(o) + 1] = x /\ ToSet(q) = ToSet(o) \cup {x}
        /\ \A i \in 1 .. Len(o) : q[i] = o[i]
        /\ Distinct(o) /\ x \notin ToSet(o) => Distinct(q)
    BY AppendedOne
  <1>2. Len(o) \in Nat
    OBVIOUS
  <1> HIDE DEF q
  <1>3. Distinct(q) /\ Distinct(p) /\ \A a \in A : a \in ToSet(q) <=> a \in ToSet(p)
    BY <1>1 DEF Woven
  <1>4. ASSUME NEW i \in 1 .. Len(q), q[i] \in A PROVE i \in 1 .. Len(o) /\ q[i] = o[i]
    BY <1>1, <1>2, <1>4
  <1> QED
    BY <1>3, <1>4 DEF q, Woven

LEMMA WovenTogether ==
    ASSUME NEW S, NEW o \in Seq(S), NEW p \in Seq(S), NEW A, Woven(o, p, A),
           NEW x \in S, x \notin ToSet(o), x \notin ToSet(p)
    PROVE  Woven(Append(o, x), Append(p, x), A)
  <1> DEFINE q == Append(o, x)
             w == Append(p, x)
  <1>1. /\ Len(q) = Len(o) + 1 /\ q[Len(o) + 1] = x /\ ToSet(q) = ToSet(o) \cup {x}
        /\ \A i \in 1 .. Len(o) : q[i] = o[i]
        /\ Distinct(o) /\ x \notin ToSet(o) => Distinct(q)
    BY AppendedOne
  <1>2. /\ Len(w) = Len(p) + 1 /\ w[Len(p) + 1] = x /\ ToSet(w) = ToSet(p) \cup {x}
        /\ \A i \in 1 .. Len(p) : w[i] = p[i]
        /\ Distinct(p) /\ x \notin ToSet(p) => Distinct(w)
    BY AppendedOne
  <1>3. Len(o) \in Nat /\ Len(p) \in Nat
    OBVIOUS
  <1> HIDE DEF q, w
  <1>4. Distinct(q) /\ Distinct(w) /\ \A a \in A : a \in ToSet(q) <=> a \in ToSet(w)
    BY <1>1, <1>2 DEF Woven
  <1>5. \A i \in 1 .. Len(o) : o[i] # x
    BY DEF ToSet
  <1>6. \A i \in 1 .. Len(p) : p[i] # x
    BY DEF ToSet
  <1>7. ASSUME NEW i \in 1 .. Len(q), NEW k \in 1 .. Len(w), q[i] \in A, q[i] = w[k]
        PROVE  \/ i = Len(o) + 1 /\ k = Len(p) + 1
               \/ i \in 1 .. Len(o) /\ k \in 1 .. Len(p) /\ o[i] = q[i] /\ o[i] = p[k]
    <2>1. i \in 1 .. Len(o) \/ i = Len(o) + 1
      BY <1>1, <1>3
    <2>2. k \in 1 .. Len(p) \/ k = Len(p) + 1
      BY <1>2, <1>3
    <2> QED
      BY <1>1, <1>2, <1>5, <1>6, <1>7, <2>1, <2>2
  <1>8. ASSUME NEW i \in 1 .. Len(q), NEW j \in 1 .. Len(q), NEW k \in 1 .. Len(w), NEW l \in 1 .. Len(w),
               q[i] \in A, q[j] \in A, q[i] = w[k], q[j] = w[l]
        PROVE  i < j <=> k < l
    <2>1. /\ \/ i = Len(o) + 1 /\ k = Len(p) + 1
             \/ i \in 1 .. Len(o) /\ k \in 1 .. Len(p) /\ o[i] = q[i] /\ o[i] = p[k]
          /\ \/ j = Len(o) + 1 /\ l = Len(p) + 1
             \/ j \in 1 .. Len(o) /\ l \in 1 .. Len(p) /\ o[j] = q[j] /\ o[j] = p[l]
      BY <1>7, <1>8
    <2>2. CASE i \in 1 .. Len(o) /\ k \in 1 .. Len(p) /\ o[i] = q[i] /\ o[i] = p[k]
               /\ j \in 1 .. Len(o) /\ l \in 1 .. Len(p) /\ o[j] = q[j] /\ o[j] = p[l]
      BY <1>8, <2>2 DEF Woven
    <2> QED
      BY <1>3, <2>1, <2>2
  <1> QED
    BY <1>4, <1>8 DEF Woven, q, w

LEMMA WovenBackwards ==
    ASSUME NEW S, NEW o \in Seq(S), NEW p \in Seq(S), NEW A, Woven(o, p, A)
    PROVE  Woven(Reverse(o), Reverse(p), A)
  <1> DEFINE q == Reverse(o)
             w == Reverse(p)
             M == Len(o)
             N == Len(p)
  <1>1. q \in Seq(S) /\ Len(q) = M /\ ToSet(q) = ToSet(o) /\ \A i \in 1 .. M : q[i] = o[M - i + 1]
    BY ReverseOfSequence
  <1>2. w \in Seq(S) /\ Len(w) = N /\ ToSet(w) = ToSet(p) /\ \A i \in 1 .. N : w[i] = p[N - i + 1]
    BY ReverseOfSequence
  <1>3. M \in Nat /\ N \in Nat
    OBVIOUS
  <1> HIDE DEF q, w
  <1>4. /\ \A i \in 1 .. M : M - i + 1 \in 1 .. M
        /\ \A i \in 1 .. N : N - i + 1 \in 1 .. N
    BY <1>3
  <1>5. Distinct(q)
    <2> SUFFICES ASSUME NEW i \in 1 .. M, NEW j \in 1 .. M, q[i] = q[j] PROVE i = j
      BY <1>1 DEF Distinct
    <2>1. M - i + 1 = M - j + 1
      BY <1>1, <1>4 DEF Woven, Distinct
    <2> QED
      BY <1>3, <2>1
  <1>6. Distinct(w)
    <2> SUFFICES ASSUME NEW i \in 1 .. N, NEW j \in 1 .. N, w[i] = w[j] PROVE i = j
      BY <1>2 DEF Distinct
    <2>1. N - i + 1 = N - j + 1
      BY <1>2, <1>4 DEF Woven, Distinct
    <2> QED
      BY <1>3, <2>1
  <1>7. ASSUME NEW i \in 1 .. M, NEW j \in 1 .. M, NEW k \in 1 .. N, NEW l \in 1 .. N,
               q[i] \in A, q[j] \in A, q[i] = w[k], q[j] = w[l]
        PROVE  i < j <=> k < l
    <2> HIDE DEF M, N
    <2>1. /\ q[i] = o[M - i + 1] /\ q[j] = o[M - j + 1] /\ w[k] = p[N - k + 1] /\ w[l] = p[N - l + 1]
          /\ M - i + 1 \in 1 .. M /\ M - j + 1 \in 1 .. M /\ N - k + 1 \in 1 .. N /\ N - l + 1 \in 1 .. N
      BY <1>1, <1>2, <1>4
    <2>2. \A a, b \in 1 .. M, c, d \in 1 .. N :
            o[a] \in A /\ o[b] \in A /\ o[a] = p[c] /\ o[b] = p[d] => (a < b <=> c < d)
      BY DEF Woven, M, N
    <2> DEFINE a == M - j + 1
               b == M - i + 1
               c == N - l + 1
               d == N - k + 1
    <2>3. /\ a \in 1 .. M /\ b \in 1 .. M /\ c \in 1 .. N /\ d \in 1 .. N
          /\ o[a] \in A /\ o[b] \in A /\ o[a] = p[c] /\ o[b] = p[d]
      BY <1>7, <2>1
    <2> HIDE DEF a, b, c, d
    <2>4. a < b <=> c < d
      BY <2>2, <2>3
    <2> QED
      BY <1>3, <2>4 DEF a, b, c, d
  <1>8. \A a \in A : a \in ToSet(q) <=> a \in ToSet(w)
    BY <1>1, <1>2 DEF Woven
  <1> QED
    BY <1>1, <1>2, <1>5, <1>6, <1>7, <1>8 DEF Woven, q, w

\* The members of A come in the order of the ranks.
Ordered(B, C, A) == \A a, b \in A : Before(B, a, b) <=> Before(C, a, b)

LEMMA EnumerationIsOrdered ==
    ASSUME NEW S, IsFiniteSet(S), S \subseteq Int, NEW B, \A r \in S : B[r] \in Int,
           NEW q \in Seq(S), Enumerates(q, S, B), Len(q) = Cardinality(S)
    PROVE  /\ Distinct(q) /\ ToSet(q) = S
           /\ \A i, j \in 1 .. Len(q) : i < j <=> Before(B, q[i], q[j])
  <1> DEFINE E(x) == Earlier(S, B, x)
             N == Len(q)
  <1>1. N \in Nat /\ \A i \in 1 .. N : q[i] \in S /\ Cardinality(E(q[i])) = i - 1
    BY DEF Enumerates
  <1>2. ToSet(q) = S
    <2>1. \A x \in S : \E i \in 1 .. N : q[i] = x
      BY DEF Enumerates
    <2>2. ToSet(q) = {q[i] : i \in 1 .. N}
      BY DEF ToSet
    <2> HIDE DEF E, N
    <2> QED
      BY <1>1, <2>1, <2>2
  <1>3. \A i, j \in 1 .. N : q[i] = q[j] => i = j
    <2> HIDE DEF E, N
    <2> TAKE i, j \in 1 .. N
    <2> HAVE q[i] = q[j]
    <2>1. i - 1 = j - 1
      BY <1>1
    <2> QED
      BY <1>1, <2>1
  <1>4. ASSUME NEW i \in 1 .. N, NEW j \in 1 .. N
        PROVE  i < j <=> Before(B, q[i], q[j])
    <2>1. q[i] \in S /\ q[j] \in S
      BY <1>1
    <2>2. /\ q[i] \in E(q[j]) => Cardinality(E(q[i])) < Cardinality(E(q[j]))
          /\ q[j] \in E(q[i]) => Cardinality(E(q[j])) < Cardinality(E(q[i]))
          /\ q[i] = q[j] \/ q[i] \in E(q[j]) \/ q[j] \in E(q[i])
          /\ q[i] \notin E(q[i])
      BY <2>1, EarlierIsSmaller
    <2>3. q[i] \in E(q[j]) <=> Before(B, q[i], q[j])
      BY <2>1 DEF Earlier, Before
    <2> HIDE DEF E, N
    <2>4. q[i] \in E(q[j]) => i - 1 < j - 1
      BY <1>1, <2>2
    <2>5. q[j] \in E(q[i]) => j - 1 < i - 1
      BY <1>1, <2>2
    <2>6. i \in Int /\ j \in Int
      BY <1>1
    <2>7. q[i] = q[j] => i = j
      BY <1>3
    <2> QED
      BY <2>2, <2>3, <2>4, <2>5, <2>6, <2>7
  <1> QED
    BY <1>2, <1>3, <1>4 DEF Distinct

LEMMA EnumerationsAreWoven ==
    ASSUME NEW S, IsFiniteSet(S), S \subseteq Int, NEW B, NEW C,
           \A r \in S : B[r] \in Int /\ C[r] \in Int, NEW A, Ordered(B, C, A)
    PROVE  Woven(Ranked(S, B), Ranked(S, C), A)
  <1> DEFINE q == Ranked(S, B)
             w == Ranked(S, C)
  <1>1. q \in Seq(S) /\ Enumerates(q, S, B) /\ Len(q) = Cardinality(S)
    BY RankedEnumerates
  <1>2. w \in Seq(S) /\ Enumerates(w, S, C) /\ Len(w) = Cardinality(S)
    BY RankedEnumerates
  <1> HIDE DEF q, w
  <1>3. Distinct(q) /\ ToSet(q) = S /\ \A i, j \in 1 .. Len(q) : i < j <=> Before(B, q[i], q[j])
    BY <1>1, EnumerationIsOrdered
  <1>4. Distinct(w) /\ ToSet(w) = S /\ \A i, j \in 1 .. Len(w) : i < j <=> Before(C, w[i], w[j])
    BY <1>2, EnumerationIsOrdered
  <1>5. ASSUME NEW i \in 1 .. Len(q), NEW j \in 1 .. Len(q), NEW k \in 1 .. Len(w), NEW l \in 1 .. Len(w),
               q[i] \in A, q[j] \in A, q[i] = w[k], q[j] = w[l]
        PROVE  i < j <=> k < l
    <2>1. Before(B, q[i], q[j]) <=> Before(C, w[k], w[l])
      BY <1>5 DEF Ordered
    <2> QED
      BY <1>3, <1>4, <2>1
  <1> QED
    BY <1>3, <1>4, <1>5 DEF Woven, q, w

-----------------------------------------------------------------------------
(***************************************************************************)
(* Registers that interfere with nothing: what rank they have does not     *)
(* matter to the others.                                                   *)
(***************************************************************************)
Lone(s, G) ==
  /\ G \subseteq s.active
  /\ \A r \in G : s.neighbors[r] = {} /\ s.extra[r] = 0
  /\ \A r \in s.active : s.neighbors[r] \cap G = {}

LEMMA LoneIsRemoved ==
    ASSUME NEW s, IsSnapshot(s), NEW G, Lone(s, G), NEW k \in Nat, k > 0, NEW x \in Sweeps(s.active),
           NEW r \in G, NEW y, y = SweepOne(s, k, x, r)
    PROVE  y.order = Append(x.order, r) /\ y.left = x.left
  <1>1. s.neighbors[r] = {} /\ s.extra[r] = 0
    BY DEF Lone
  <1>2. Cardinality({}) = 0 /\ {} \cap ToSet(x.order) = {}
    BY FS_EmptySet
  <1>3. Degree(s, x.order, r) = 0
    BY <1>1, <1>2 DEF Degree
  <1> QED
    BY <1>3 DEF SweepOne, Sweeps

LEMMA SameDegree ==
    ASSUME NEW s, IsSnapshot(s), NEW G, Lone(s, G), NEW o \in Seq(s.active), NEW p \in Seq(s.active),
           \A a \in s.active \ G : a \in ToSet(o) <=> a \in ToSet(p), NEW r \in s.active
    PROVE  Degree(s, o, r) = Degree(s, p, r)
  <1>1. ToSet(o) \subseteq s.active /\ ToSet(p) \subseteq s.active
    BY DEF ToSet
  <1>2. s.neighbors[r] \cap G = {}
    BY DEF Lone
  <1>3. s.neighbors[r] \cap ToSet(o) = s.neighbors[r] \cap ToSet(p)
    BY <1>1, <1>2
  <1> QED
    BY <1>3 DEF Degree

Adjoin(s, G, x, y) ==
  /\ x \in Sweeps(s.active) /\ y \in Sweeps(s.active)
  /\ x.left = y.left /\ x.left \in Seq(s.active \ G)
  /\ Woven(x.order, y.order, s.active \ G)

LEMMA AdjoinTurned ==
    ASSUME NEW s, NEW G, NEW x, NEW y, Adjoin(s, G, x, y)
    PROVE  Adjoin(s, G, y, x)
  BY WovenTurned DEF Adjoin

LEMMA LoneAdjoins ==
    ASSUME NEW s, IsSnapshot(s), NEW G, Lone(s, G), NEW k \in Nat, k > 0, NEW x, NEW y, Adjoin(s, G, x, y),
           NEW r \in G, r \notin ToSet(x.order)
    PROVE  Adjoin(s, G, SweepOne(s, k, x, r), y)
  <1> DEFINE z == SweepOne(s, k, x, r)
  <1>1. x \in Sweeps(s.active) /\ x.order \in Seq(s.active) /\ y.order \in Seq(s.active)
        /\ r \in s.active /\ r \notin s.active \ G
    BY DEF Adjoin, Sweeps, Lone
  <1>2. z.order = Append(x.order, r) /\ z.left = x.left
    <2> HIDE DEF z
    <2>1. z = SweepOne(s, k, x, r)
      BY DEF z
    <2> QED
      BY <1>1, <2>1, LoneIsRemoved
  <1>3. z \in Sweeps(s.active)
    BY <1>1, OneIsTyped
  <1> HIDE DEF z
  <1>4. Woven(z.order, y.order, s.active \ G)
    <2> DEFINE A == s.active \ G
    <2>1. Woven(x.order, y.order, A) /\ r \notin A
      BY <1>1 DEF Adjoin
    <2> HIDE DEF A
    <2>2. Woven(Append(x.order, r), y.order, A)
      BY <1>1, <2>1, WovenApart
    <2> QED
      BY <1>2, <2>2 DEF A
  <1>5. Adjoin(s, G, z, y)
    BY <1>2, <1>3, <1>4 DEF Adjoin
  <1> QED
    BY <1>5 DEF z

LEMMA StepsMeet ==
    ASSUME NEW s, IsSnapshot(s), NEW G, Lone(s, G), NEW k, NEW x, NEW y, Adjoin(s, G, x, y),
           NEW r \in s.active \ G, r \notin ToSet(x.order), r \notin ToSet(y.order)
    PROVE  Adjoin(s, G, SweepOne(s, k, x, r), SweepOne(s, k, y, r))
  <1> DEFINE w == SweepOne(s, k, x, r)
             z == SweepOne(s, k, y, r)
             A == s.active \ G
  <1>1. x \in Sweeps(s.active) /\ y \in Sweeps(s.active)
        /\ x.order \in Seq(s.active) /\ y.order \in Seq(s.active)
        /\ x.left = y.left /\ x.left \in Seq(A) /\ Woven(x.order, y.order, A) /\ r \in s.active /\ r \in A
    BY DEF Adjoin, Sweeps
  <1>2. w \in Sweeps(s.active) /\ z \in Sweeps(s.active)
    BY <1>1, OneIsTyped
  <1>3. Degree(s, x.order, r) = Degree(s, y.order, r)
    <2>1. \A a \in s.active \ G : a \in ToSet(x.order) <=> a \in ToSet(y.order)
      BY <1>1 DEF Woven
    <2> HIDE DEF A
    <2> QED
      BY <1>1, <2>1, SameDegree
  <1> HIDE DEF A
  <1>4. CASE Degree(s, x.order, r) < k
    <2>1. w.order = Append(x.order, r) /\ z.order = Append(y.order, r)
          /\ w.left = x.left /\ z.left = y.left
      BY <1>1, <1>3, <1>4 DEF SweepOne, Sweeps
    <2>2. Woven(Append(x.order, r), Append(y.order, r), A)
      BY <1>1, WovenTogether
    <2> HIDE DEF w, z
    <2>3. Adjoin(s, G, w, z)
      BY <1>1, <1>2, <2>1, <2>2 DEF Adjoin, A
    <2> QED
      BY <2>3 DEF w, z
  <1>5. CASE ~(Degree(s, x.order, r) < k)
    <2>1. w.order = x.order /\ z.order = y.order
          /\ w.left = <<r>> \o x.left /\ z.left = <<r>> \o y.left
      BY <1>1, <1>3, <1>5 DEF SweepOne, Sweeps
    <2>2. <<r>> \o x.left \in Seq(A)
      BY <1>1, PushedOne
    <2> HIDE DEF w, z
    <2>3. Adjoin(s, G, w, z)
      BY <1>1, <1>2, <2>1, <2>2 DEF Adjoin, A
    <2> QED
      BY <2>3 DEF w, z
  <1> QED
    BY <1>4, <1>5

Unseen(s, k, g, q, n) ==
  /\ q[n + 1] \notin ToSet(g[n].order) /\ q[n + 1] \in s.active
  /\ g[n + 1] = SweepOne(s, k, g[n], q[n + 1])

LEMMA NextIsUnseen ==
    ASSUME NEW s, IsSnapshot(s), NEW B, AreRanks(s, B), NEW k, NEW o, IsOrder(s, o),
           NEW g, SweepRun(g, s, k, B, o), NEW q, q = Queue(s, B, o), NEW n \in 0 .. Len(q), n < Len(q)
    PROVE  Unseen(s, k, g, q, n)
  <1> DEFINE S == s.active \ ToSet(o)
             r == q[n + 1]
  <1>1. o \in Seq(s.active) /\ Distinct(o)
    BY DEF IsOrder
  <1>2. Sorts(s, o, { q[i] : i \in 1 .. n }, g[n])
    <2>1. n \in 0 .. Len(Queue(s, B, o))
      OBVIOUS
    <2>2. Sorts(s, o, { Queue(s, B, o)[i] : i \in 1 .. n }, g[n])
      BY <1>1, <2>1, SweepSorts
    <2> QED
      BY <2>2, Zenon
  <1>3. /\ IsFiniteSet(S) /\ S \subseteq Int /\ \A a \in S : B[a] \in Int
        /\ Enumerates(q, S, B) /\ Len(q) = Cardinality(S) /\ q \in Seq(S)
    BY QueueOfTheRest
  <1>4. SweepRun(g, s, k, B, o) => g[n + 1] = SweepOne(s, k, g[n], q[n + 1])
    <2>1. Len(q) \in Nat
      BY <1>3
    <2>2. n + 1 \in 1 .. Len(q) /\ (n + 1) - 1 = n
      BY <2>1
    <2> QED
      BY <2>2 DEF SweepRun
  <1> HIDE DEF S
  <1>5. Distinct(q) /\ ToSet(q) = S
    BY <1>3, EnumerationIsOrdered
  <1>6. Len(q) \in Nat /\ n \in Nat /\ n + 1 \in 1 .. Len(q)
    BY <1>3
  <1>7. r \in S
    BY <1>3, <1>6
  <1>8. r \notin { q[i] : i \in 1 .. n }
    <2> SUFFICES ASSUME NEW i \in 1 .. n, q[i] = q[n + 1] PROVE FALSE
      OBVIOUS
    <2>1. i \in 1 .. Len(q) /\ i # n + 1
      BY <1>6
    <2> QED
      BY <1>5, <1>6, <2>1 DEF Distinct
  <1>9. r \in s.active /\ r \notin ToSet(o)
    BY <1>7 DEF S
  <1> HIDE DEF r
  <1>10. r \notin ToSet(g[n].order)
    BY <1>2, <1>8, <1>9 DEF Sorts
  <1> QED
    BY <1>4, <1>9, <1>10 DEF r, Unseen

LEMMA SweepsMeet ==
    ASSUME NEW s, IsSnapshot(s), NEW G, Lone(s, G), NEW k \in Nat, k > 0,
           NEW B, AreRanks(s, B), NEW C, AreRanks(s, C), Ordered(B, C, s.active \ G),
           NEW o, IsOrder(s, o), NEW p, IsOrder(s, p), ToSet(o) = ToSet(p), Woven(o, p, s.active \ G)
    PROVE  Adjoin(s, G, Sweep(s, k, B, o), Sweep(s, k, C, p))
  <1> DEFINE A == s.active \ G
             u == Queue(s, B, o)
             v == Queue(s, C, p)
             M == Len(u)
             N == Len(v)
             S == s.active \ ToSet(o)
  <1>1. PICK g : SweepRun(g, s, k, B, o)
    BY SweepUnfolds DEF IsOrder
  <1>2. PICK h : SweepRun(h, s, k, C, p)
    BY SweepUnfolds DEF IsOrder
  <1>3. IsFiniteSet(S) /\ S \subseteq Int /\ u \in Seq(S) /\ \A r \in S : B[r] \in Int
    BY QueueOfTheRest
  <1>4. S = s.active \ ToSet(p)
    OBVIOUS
  <1>5. v \in Seq(S) /\ \A r \in S : C[r] \in Int
    BY <1>4, QueueOfTheRest
  <1>6. u = Ranked(S, B) /\ v = Ranked(S, C)
    BY <1>4 DEF Queue
  <1> HIDE DEF A, u, v, S
  <1>7. Woven(u, v, A)
    BY <1>3, <1>5, <1>6, EnumerationsAreWoven DEF A
  <1> DEFINE R == [i \in 0 .. M |-> { j \in 0 .. N : Adjoin(s, G, g[i], h[j]) }]
  <1>8. M \in Nat /\ N \in Nat
    BY <1>3, <1>5
  <1>9. g[M] = Sweep(s, k, B, o) /\ h[N] = Sweep(s, k, C, p)
    BY <1>1, <1>2 DEF SweepRun, u, v
  <1>10. Adjoin(s, G, g[0], h[0])
    <2>1. g[0] = [order |-> o, left |-> <<>>, changed |-> FALSE]
          /\ h[0] = [order |-> p, left |-> <<>>, changed |-> FALSE]
      BY <1>1, <1>2 DEF SweepRun
    <2>2. o \in Seq(s.active) /\ p \in Seq(s.active)
      BY DEF IsOrder
    <2>3. g[0] \in Sweeps(s.active) /\ h[0] \in Sweeps(s.active)
      BY <2>1, <2>2, EmptySeq DEF Sweeps
    <2>4. g[0].order = o /\ h[0].order = p /\ g[0].left = <<>> /\ h[0].left = <<>>
      BY <2>1
    <2> QED
      BY <2>3, <2>4, EmptySeq DEF Adjoin
  <1>11. ASSUME NEW i \in 0 .. M, i < M
         PROVE  Unseen(s, k, g, u, i)
    <2>1. u = Queue(s, B, o) /\ i \in 0 .. Len(u) /\ i < Len(u)
      BY <1>11 DEF u
    <2> HIDE DEF M, N, R
    <2> QED
      BY <1>1, <2>1, NextIsUnseen, Zenon
  <1>12. ASSUME NEW j \in 0 .. N, j < N
         PROVE  Unseen(s, k, h, v, j)
    <2>1. v = Queue(s, C, p) /\ j \in 0 .. Len(v) /\ j < Len(v)
      BY <1>12 DEF v
    <2> HIDE DEF M, N, R
    <2> QED
      BY <1>2, <2>1, NextIsUnseen, Zenon
  <1> HIDE DEF M, N
  <1>13. ASSUME NEW i \in 0 .. M, NEW j
         PROVE  j \in R[i] <=> j \in 0 .. N /\ Adjoin(s, G, g[i], h[j])
    OBVIOUS
  <1>14. 0 \in R[0]
    BY <1>8, <1>10, <1>13
  <1> HIDE DEF R
  <1>15. ASSUME NEW i \in 0 .. M, NEW j \in 0 .. N, j \in R[i]
         PROVE  /\ i < M /\ u[i + 1] \notin A => j \in R[i + 1]
                /\ j < N /\ v[j + 1] \notin A => j + 1 \in R[i]
                /\ i < M /\ j < N /\ u[i + 1] \in A /\ u[i + 1] = v[j + 1] => j + 1 \in R[i + 1]
    <2>1. Adjoin(s, G, g[i], h[j])
      BY <1>13, <1>15
    <2>2. ASSUME i < M, u[i + 1] \notin A PROVE j \in R[i + 1]
      <3>1. u[i + 1] \in G /\ i + 1 \in 0 .. M
        BY <1>8, <1>11, <2>2 DEF A, Unseen
      <3>2. Adjoin(s, G, g[i + 1], h[j])
        BY <1>11, <2>1, <2>2, <3>1, LoneAdjoins DEF Unseen
      <3> QED
        BY <1>13, <3>1, <3>2
    <2>3. ASSUME j < N, v[j + 1] \notin A PROVE j + 1 \in R[i]
      <3>1. v[j + 1] \in G /\ j + 1 \in 0 .. N
        BY <1>8, <1>12, <2>3 DEF A, Unseen
      <3>2. Adjoin(s, G, h[j], g[i])
        BY <2>1, AdjoinTurned
      <3>3. Adjoin(s, G, h[j + 1], g[i])
        BY <1>12, <2>3, <3>1, <3>2, LoneAdjoins DEF Unseen
      <3>4. Adjoin(s, G, g[i], h[j + 1])
        BY <3>3, AdjoinTurned
      <3> QED
        BY <1>13, <3>1, <3>4
    <2>4. ASSUME i < M, j < N, u[i + 1] \in A, u[i + 1] = v[j + 1] PROVE j + 1 \in R[i + 1]
      <3>1. i + 1 \in 0 .. M /\ j + 1 \in 0 .. N
        BY <1>8, <2>4
      <3>2. Adjoin(s, G, g[i + 1], h[j + 1])
        BY <1>11, <1>12, <2>1, <2>4, StepsMeet DEF A, Unseen
      <3> QED
        BY <1>13, <3>1, <3>2
    <2> QED
      BY <2>2, <2>3, <2>4
  <1>16. Weaves(R, u, v, A)
    BY <1>14, <1>15 DEF Weaves, M, N
  <1>17. N \in R[M]
    BY <1>3, <1>5, <1>7, <1>16, WovenToTheEnd DEF M, N
  <1>18. M \in 0 .. M
    BY <1>8
  <1> QED
    BY <1>9, <1>13, <1>17, <1>18

LEMMA DistinctIsCounted ==
    ASSUME NEW S, IsFiniteSet(S), NEW q \in Seq(S), Distinct(q)
    PROVE  Cardinality(ToSet(q)) = Len(q)
  <1> DEFINE N == Len(q)
  <1>1. N \in Nat /\ q \in [1 .. N -> S] /\ DOMAIN q = 1 .. N
    OBVIOUS
  <1>2. ToSet(q) = All(q, 1 .. N)
    BY <1>1 DEF ToSet, All
  <1>3. Maps(q, 1 .. N, S) /\ \A i, j \in 1 .. N : q[i] = q[j] => i = j
    BY <1>1 DEF Maps, Distinct
  <1>4. IsFiniteSet(1 .. N) /\ Cardinality(1 .. N) = N /\ 1 .. N \in SUBSET (1 .. N)
    BY <1>1, FS_Interval
  <1>5. Cardinality(All(q, 1 .. N)) = Cardinality(1 .. N)
    <2> DEFINE D == 1 .. N
    <2>1. Maps(q, D, S) /\ D \in SUBSET D /\ IsFiniteSet(D) /\ \A a, b \in D : q[a] = q[b] => a = b
      BY <1>3, <1>4
    <2> HIDE DEF D
    <2>2. Cardinality(All(q, D)) = Cardinality(D)
      BY <2>1, ImageSize
    <2> QED
      BY <2>2 DEF D
  <1> QED
    BY <1>2, <1>4, <1>5 DEF N

Matching(s, G, x, y) ==
  /\ x \in Sorting(s) /\ y \in Sorting(s)
  /\ x.left = y.left /\ x.left \in Seq(s.active \ G)
  /\ x.changed = y.changed
  /\ ToSet(x.order) = ToSet(y.order) /\ Woven(x.order, y.order, s.active \ G)

LEMMA SweepsMatch ==
    ASSUME NEW s, IsSnapshot(s), NEW G, Lone(s, G), NEW k \in Nat, k > 0,
           NEW B, AreRanks(s, B), NEW C, AreRanks(s, C), Ordered(B, C, s.active \ G),
           NEW o, IsOrder(s, o), NEW p, IsOrder(s, p), ToSet(o) = ToSet(p), Woven(o, p, s.active \ G)
    PROVE  Matching(s, G, Sweep(s, k, B, o), Sweep(s, k, C, p))
  <1> DEFINE x == Sweep(s, k, B, o)
             y == Sweep(s, k, C, p)
  <1>1. x \in Sorting(s) /\ y \in Sorting(s)
    BY SweepIsSorting
  <1>2. Adjoin(s, G, x, y)
    BY SweepsMeet
  <1>3. o \in Seq(s.active) /\ Distinct(o) /\ p \in Seq(s.active) /\ Distinct(p)
    BY DEF IsOrder
  <1>4. IF x.changed THEN Len(x.order) > Len(o) ELSE x.order = o
    BY <1>3, SweepIsSorted
  <1>5. IF y.changed THEN Len(y.order) > Len(p) ELSE y.order = p
    BY <1>3, SweepIsSorted
  <1> HIDE DEF x, y
  <1>6. /\ x \in Sweeps(s.active) /\ Distinct(x.order) /\ ToSet(x.order) \cap ToSet(x.left) = {}
        /\ ToSet(x.order) \cup ToSet(x.left) = s.active
        /\ y \in Sweeps(s.active) /\ Distinct(y.order) /\ ToSet(y.order) \cap ToSet(y.left) = {}
        /\ ToSet(y.order) \cup ToSet(y.left) = s.active
    BY <1>1 DEF Sorting, RankSorted
  <1>7. x.left = y.left
    BY <1>2 DEF Adjoin
  <1>8. ToSet(x.order) = ToSet(y.order)
    BY <1>6, <1>7
  <1>9. IsFiniteSet(s.active)
    BY FS_Subset DEF IsSnapshot
  <1>10. /\ x.order \in Seq(s.active) /\ x.changed \in BOOLEAN
         /\ y.order \in Seq(s.active) /\ y.changed \in BOOLEAN
    BY <1>6 DEF Sweeps
  <1>11. Len(x.order) = Len(y.order) /\ Len(o) = Len(p)
    <2>1. Cardinality(ToSet(x.order)) = Len(x.order) /\ Cardinality(ToSet(y.order)) = Len(y.order)
      BY <1>6, <1>9, <1>10, DistinctIsCounted
    <2>2. Cardinality(ToSet(o)) = Len(o) /\ Cardinality(ToSet(p)) = Len(p)
      BY <1>3, <1>9, DistinctIsCounted
    <2> QED
      BY <1>8, <2>1, <2>2
  <1>12. Len(o) \in Nat /\ Len(x.order) \in Nat
    BY <1>3, <1>10
  <1>13. x.changed <=> y.changed
    BY <1>4, <1>5, <1>11, <1>12
  <1>14. Matching(s, G, x, y)
    BY <1>1, <1>2, <1>8, <1>10, <1>13 DEF Matching, Adjoin
  <1> QED
    BY <1>14 DEF x, y

LEMMA CandidatesMatch ==
    ASSUME NEW s, IsSnapshot(s), NEW G, Lone(s, G), NEW x, NEW y, Matching(s, G, x, y), x.left # <<>>
    PROVE  Candidate(s, x) = Candidate(s, y)
  <1>1. /\ x \in Sweeps(s.active) /\ y \in Sweeps(s.active) /\ x.left = y.left
        /\ x.order \in Seq(s.active) /\ y.order \in Seq(s.active) /\ x.left \in Seq(s.active)
        /\ \A a \in s.active \ G : a \in ToSet(x.order) <=> a \in ToSet(y.order)
    BY DEF Matching, Sorting, Sweeps
  <1>2. PICK i \in DOMAIN x.left : IsFirst(s, x, i)
    BY <1>1, OneIsFirst
  <1>3. ASSUME NEW a \in s.active, NEW b \in s.active
        PROVE  Scores(s, y.order, a, b) <=> Scores(s, x.order, a, b)
    <2>1. Degree(s, x.order, a) = Degree(s, y.order, a) /\ Degree(s, x.order, b) = Degree(s, y.order, b)
      BY <1>1, SameDegree
    <2> QED
      BY <2>1 DEF Scores
  <1>4. \A j \in DOMAIN x.left : x.left[j] \in s.active
    BY <1>1
  <1>5. \A j \in 1 .. i - 1 : j \in DOMAIN x.left
    BY <1>1, <1>2
  <1>6. IsFirst(s, y, i)
    BY <1>1, <1>2, <1>3, <1>4, <1>5 DEF IsFirst
  <1>7. Candidate(s, x) = x.left[i]
    BY <1>1, <1>2, CandidateIsFirst
  <1>8. Candidate(s, y) = y.left[i]
    BY <1>1, <1>2, <1>6, CandidateIsFirst
  <1> QED
    BY <1>1, <1>7, <1>8

LEMMA NextMatches ==
    ASSUME NEW s, IsSnapshot(s), NEW G, Lone(s, G), NEW k \in Nat, k > 0,
           NEW B, AreRanks(s, B), NEW C, AreRanks(s, C), Ordered(B, C, s.active \ G),
           NEW x, NEW y, Matching(s, G, x, y)
    PROVE  Matching(s, G, NextSweep(s, k, B, x), NextSweep(s, k, C, y))
  <1>1. /\ x \in Sorting(s) /\ y \in Sorting(s) /\ x.left = y.left /\ x.changed = y.changed
        /\ ToSet(x.order) = ToSet(y.order) /\ Woven(x.order, y.order, s.active \ G)
        /\ x.left \in Seq(s.active \ G)
    BY DEF Matching
  <1>2. /\ IsOrder(s, x.order) /\ IsOrder(s, y.order)
        /\ x.order \in Seq(s.active) /\ y.order \in Seq(s.active)
        /\ ToSet(x.order) \cap ToSet(x.left) = {} /\ x \in Sweeps(s.active)
    BY <1>1 DEF Sorting, RankSorted, IsOrder, Sweeps
  <1>3. CASE x.changed
    <2>1. Matching(s, G, Sweep(s, k, B, x.order), Sweep(s, k, C, y.order))
      BY <1>1, <1>2, SweepsMatch
    <2> QED
      BY <1>1, <1>3, <2>1 DEF NextSweep
  <1>4. CASE ~x.changed /\ x.left = <<>>
    BY <1>1, <1>4 DEF NextSweep
  <1>5. CASE ~x.changed /\ x.left # <<>>
    <2> DEFINE c == Candidate(s, x)
               o == Append(x.order, c)
               p == Append(y.order, c)
               A == s.active \ G
    <2>1. Candidate(s, y) = c
      BY <1>5, CandidatesMatch
    <2>2. IsOrder(s, o)
      BY <1>1, <1>5, OrderWithCandidate
    <2>3. IsOrder(s, p)
      BY <1>1, <1>5, <2>1, OrderWithCandidate
    <2>4. c \in ToSet(x.left) /\ c \in s.active
      BY <1>2, <1>5, CandidateIsFirst
    <2>5. Woven(x.order, y.order, A)
      BY <1>1
    <2> HIDE DEF c, A
    <2>6. c \notin ToSet(x.order) /\ c \notin ToSet(y.order)
      BY <1>1, <1>2, <2>4
    <2>7. Woven(o, p, A)
      BY <1>2, <2>4, <2>5, <2>6, WovenTogether
    <2>8. ToSet(o) = ToSet(x.order) \cup {c} /\ ToSet(p) = ToSet(y.order) \cup {c}
      BY <1>2, <2>4, AppendedOne
    <2> HIDE DEF o, p
    <2>9. Matching(s, G, Sweep(s, k, B, o), Sweep(s, k, C, p))
      BY <1>1, <2>2, <2>3, <2>7, <2>8, SweepsMatch DEF A
    <2> QED
      BY <1>1, <1>5, <2>1, <2>9 DEF NextSweep, o, p, c
  <1> QED
    BY <1>3, <1>4, <1>5

LEMMA RemovalsMatch ==
    ASSUME NEW s, IsSnapshot(s), NEW G, Lone(s, G), NEW k \in Nat, k > 0,
           NEW B, AreRanks(s, B), NEW C, AreRanks(s, C), Ordered(B, C, s.active \ G)
    PROVE  Woven(RemovalOrder(s, k, B), RemovalOrder(s, k, C), s.active \ G)
  <1>1. PICK f : Replays(f, s, k, B)
    BY ReplayUnfolds
  <1>2. PICK h : Replays(h, s, k, C)
    BY ReplayUnfolds
  <1> DEFINE P == { n \in Nat : Matching(s, G, f[n], h[n]) }
             last == 2 * Cardinality(s.active) + 1
  <1>3. 0 \in P
    <2>1. IsOrder(s, <<>>) /\ Woven(<<>>, <<>>, s.active \ G)
      BY EmptyOrder DEF Woven, IsOrder
    <2>2. Matching(s, G, Sweep(s, k, B, <<>>), Sweep(s, k, C, <<>>))
      BY <2>1, SweepsMatch
    <2> QED
      BY <1>1, <1>2, <2>2 DEF Replays
  <1>4. ASSUME NEW n \in Nat, n \in P PROVE n + 1 \in P
    <2>1. f[n + 1] = NextSweep(s, k, B, f[n]) /\ h[n + 1] = NextSweep(s, k, C, h[n])
      BY <1>1, <1>2 DEF Replays
    <2>2. Matching(s, G, NextSweep(s, k, B, f[n]), NextSweep(s, k, C, h[n]))
      BY <1>4, NextMatches
    <2> QED
      BY <2>1, <2>2
  <1>5. last \in Nat
    BY FS_Subset, FS_CardinalityType DEF IsSnapshot
  <1> HIDE DEF P, last
  <1>6. last \in P
    BY <1>3, <1>4, <1>5, Induction
  <1>7. RemovalOrder(s, k, B) = f[last].order /\ RemovalOrder(s, k, C) = h[last].order
    BY <1>1, <1>2 DEF Replays, last
  <1> QED
    BY <1>6, <1>7 DEF P, Matching

\* The class has colours that need no claim, all below the saved ones.
Endowed == InitialColors # {} /\ \A c \in InitialColors : c < FirstSavedColor

Based(mask) == InitialColors \subseteq mask /\ \A c \in mask : c \in InitialColors \/ c >= FirstSavedColor

LEMMA MaskIsBased ==
    ASSUME Classed, NEW s, NEW x \in Selecting(s), Based(x.mask), NEW r
    PROVE  Based(Mask(s, x, r))
  <1> DEFINE free == (FirstSavedColor .. FirstVirtual - 1) \ x.mask
  <1>1. \A c \in Claim(x.mask) : c \in Nat /\ c >= FirstSavedColor
    <2>1. CASE free = {}
      BY <2>1 DEF Claim
    <2>2. CASE free # {}
      <3>1. FirstVirtual \in Nat /\ free \subseteq 0 .. FirstVirtual - 1
        BY DEF Classed
      <3>2. Claim(x.mask) = {Greatest(free)}
        BY <2>2 DEF Claim
      <3> HIDE DEF free
      <3>3. Greatest(free) \in free
        BY <2>2, <3>1, GreatestIsMember
      <3>4. Greatest(free) \in FirstSavedColor .. FirstVirtual - 1
        BY <3>3 DEF free
      <3> QED
        BY <3>2, <3>4 DEF Classed
    <2> QED
      BY <2>1, <2>2
  <1> QED
    BY <1>1 DEF Mask, Based

LEMMA LowestIsInitial ==
    ASSUME Classed, Endowed, NEW mask, Based(mask)
    PROVE  mask # {} /\ Smallest(mask) = Smallest(InitialColors)
  <1>1. InitialColors \subseteq Nat /\ InitialColors \in SUBSET Nat /\ FirstSavedColor \in Nat
    BY DEF Classed, Physical
  <1>2. PICK m \in InitialColors : \A c \in InitialColors : m <= c
    BY <1>1, LeastElement DEF Endowed
  <1>3. m \in Nat /\ m < FirstSavedColor /\ m \in mask
    BY <1>1, <1>2 DEF Endowed, Based
  <1>4. \A c \in mask : m <= c /\ c \in Int
    BY <1>1, <1>2, <1>3 DEF Based
  <1>5. ASSUME NEW T, m \in T, \A c \in T : m <= c /\ c \in Int PROVE Smallest(T) = m
    <2>1. \A x \in T : (\A c \in T : x <= c) => x = m
      BY <1>3, <1>5
    <2>2. \E x \in T : \A c \in T : x <= c
      BY <1>5
    <2>3. Smallest(T) \in T /\ \A c \in T : Smallest(T) <= c
      BY <2>2 DEF Smallest
    <2> QED
      BY <2>1, <2>3
  <1>6. Smallest(mask) = m
    BY <1>3, <1>4, <1>5
  <1>7. Smallest(InitialColors) = m
    <2>1. \A c \in InitialColors : m <= c /\ c \in Int
      BY <1>1, <1>2
    <2> QED
      BY <1>2, <1>5, <2>1
  <1> QED
    BY <1>3, <1>6, <1>7

\* Two selections that agree on all but the lone registers.
Evened(s, G, x, y) ==
  /\ x \in Selecting(s) /\ y \in Selecting(s) /\ x.mask = y.mask /\ Based(x.mask)
  /\ \A r \in Physical \cup (s.active \ G) :
       /\ r \in DOMAIN x.colors <=> r \in DOMAIN y.colors
       /\ r \in DOMAIN x.colors => x.colors[r] = y.colors[r]
  /\ \A r \in G : /\ r \in DOMAIN x.colors => x.colors[r] = Smallest(InitialColors)
                  /\ r \in DOMAIN y.colors => y.colors[r] = Smallest(InitialColors)

LEMMA EvenedTurned ==
    ASSUME NEW s, NEW G, NEW x, NEW y, Evened(s, G, x, y)
    PROVE  Evened(s, G, y, x)
  BY DEF Evened

\* No register has its root among the lone ones.
Rootless(s, G) == \A r \in s.active : Roots(s, r) \cap G = {}

LEMMA LoneShade ==
    ASSUME Classed, Endowed, NEW s, NEW G, Lone(s, G), NEW x \in Selecting(s), Based(x.mask), NEW r \in G
    PROVE  Mask(s, x, r) = x.mask /\ Shade(s, x, r) = Smallest(InitialColors)
  <1>1. Blocked(s, x.colors, r) = {}
    BY DEF Lone, Blocked
  <1>2. x.mask # {} /\ Smallest(x.mask) = Smallest(InitialColors)
    BY LowestIsInitial
  <1>3. x.mask \ {} = x.mask
    OBVIOUS
  <1> QED
    BY <1>1, <1>2, <1>3 DEF Mask, Shade

LEMMA LoneIsEvened ==
    ASSUME Classed, Endowed, NEW s, Separate(s), NEW G, Lone(s, G), NEW x, NEW y, Evened(s, G, x, y), NEW r \in G
    PROVE  Evened(s, G, SelectColor(s, x, r), y)
  <1> DEFINE z == SelectColor(s, x, r)
  <1>1. x \in Selecting(s) /\ y \in Selecting(s) /\ x.mask = y.mask /\ Based(x.mask) /\ r \in s.active
    BY DEF Evened, Lone
  <1>2. Mask(s, x, r) = x.mask /\ Shade(s, x, r) = Smallest(InitialColors)
    BY <1>1, LoneShade
  <1>3. z \in Selecting(s)
    BY <1>1, ShadeIsTyped
  <1>4. /\ z.mask = x.mask /\ DOMAIN z.colors = DOMAIN x.colors \cup {r}
        /\ \A a \in DOMAIN x.colors \cup {r} :
             z.colors[a] = IF a = r THEN Smallest(InitialColors) ELSE x.colors[a]
    BY <1>2, Shades
  <1> HIDE DEF z
  <1>5. r \notin Physical \cup (s.active \ G)
    BY <1>1 DEF Separate
  <1>6. Evened(s, G, z, y)
    BY <1>1, <1>3, <1>4, <1>5 DEF Evened
  <1> QED
    BY <1>6 DEF z

LEMMA SameBlocked ==
    ASSUME NEW s, NEW G, Rootless(s, G), NEW x, NEW y, Evened(s, G, x, y), NEW r \in s.active,
           NEW c, c \in Blocked(s, x.colors, r)
    PROVE  c \in Blocked(s, y.colors, r)
  <1>1. DOMAIN x.colors \subseteq Physical \cup s.active
    BY DEF Evened, Selecting, Colorings
  <1>2. PICK root \in Roots(s, r) : /\ root \in DOMAIN x.colors /\ x.colors[root] >= 0
                                    /\ c = x.colors[root] % FirstVirtual
    BY BlockedColors
  <1>3. root \in Physical \cup (s.active \ G)
    BY <1>1, <1>2 DEF Rootless
  <1>4. root \in DOMAIN y.colors /\ y.colors[root] = x.colors[root]
    BY <1>2, <1>3 DEF Evened
  <1> QED
    BY <1>2, <1>4, BlockedColors

LEMMA StepIsEvened ==
    ASSUME Classed, NEW s, NEW G, Rootless(s, G), NEW x, NEW y, Evened(s, G, x, y),
           NEW r \in s.active \ G
    PROVE  Evened(s, G, SelectColor(s, x, r), SelectColor(s, y, r))
  <1> DEFINE w == SelectColor(s, x, r)
             z == SelectColor(s, y, r)
  <1>1. x \in Selecting(s) /\ y \in Selecting(s) /\ x.mask = y.mask /\ Based(x.mask) /\ r \in s.active
    BY DEF Evened
  <1>2. Evened(s, G, y, x)
    BY EvenedTurned
  <1>3. Blocked(s, x.colors, r) = Blocked(s, y.colors, r)
    <2>1. ASSUME NEW c, c \in Blocked(s, x.colors, r) PROVE c \in Blocked(s, y.colors, r)
      BY <1>1, <2>1, SameBlocked
    <2>2. ASSUME NEW c, c \in Blocked(s, y.colors, r) PROVE c \in Blocked(s, x.colors, r)
      BY <1>1, <1>2, <2>2, SameBlocked
    <2> QED
      BY <2>1, <2>2
  <1>4. Mask(s, x, r) = Mask(s, y, r) /\ Shade(s, x, r) = Shade(s, y, r)
    BY <1>1, <1>3 DEF Mask, Shade
  <1>5. w \in Selecting(s) /\ z \in Selecting(s)
    BY <1>1, ShadeIsTyped
  <1>6. Based(Mask(s, x, r))
    BY <1>1, MaskIsBased
  <1>7. /\ w.mask = Mask(s, x, r) /\ DOMAIN w.colors = DOMAIN x.colors \cup {r}
        /\ \A a \in DOMAIN x.colors \cup {r} :
             w.colors[a] = IF a = r THEN Shade(s, x, r) ELSE x.colors[a]
    BY Shades
  <1>8. /\ z.mask = Mask(s, y, r) /\ DOMAIN z.colors = DOMAIN y.colors \cup {r}
        /\ \A a \in DOMAIN y.colors \cup {r} :
             z.colors[a] = IF a = r THEN Shade(s, y, r) ELSE y.colors[a]
    BY Shades
  <1> HIDE DEF w, z
  <1>9. \A a \in Physical \cup (s.active \ G) :
          /\ a \in DOMAIN w.colors <=> a \in DOMAIN z.colors
          /\ a \in DOMAIN w.colors => w.colors[a] = z.colors[a]
    BY <1>4, <1>7, <1>8 DEF Evened
  <1>10. ASSUME NEW a \in G
         PROVE  /\ a \in DOMAIN w.colors => w.colors[a] = Smallest(InitialColors)
                /\ a \in DOMAIN z.colors => z.colors[a] = Smallest(InitialColors)
    <2>1. a # r
      OBVIOUS
    <2>2. /\ a \in DOMAIN x.colors => x.colors[a] = Smallest(InitialColors)
          /\ a \in DOMAIN y.colors => y.colors[a] = Smallest(InitialColors)
      BY DEF Evened
    <2> QED
      BY <1>7, <1>8, <2>1, <2>2
  <1>11. Evened(s, G, w, z)
    BY <1>4, <1>5, <1>6, <1>7, <1>8, <1>9, <1>10 DEF Evened
  <1> QED
    BY <1>11 DEF w, z

LEMMA SelectionsMatch ==
    ASSUME Classed, Endowed, NEW s, Separate(s), NEW G, Lone(s, G), Rootless(s, G),
           NEW o \in Seq(s.active), NEW p \in Seq(s.active), Woven(o, p, s.active \ G)
    PROVE  \A r \in s.active : r \in DOMAIN Selection(s, o) /\ r \in DOMAIN Selection(s, p) =>
             Selection(s, o)[r] = Selection(s, p)[r]
  <1> DEFINE A == s.active \ G
             M == Len(o)
             N == Len(p)
  <1>1. PICK g : SelectRun(g, s, o)
    BY SelectionUnfolds
  <1>2. PICK h : SelectRun(h, s, p)
    BY SelectionUnfolds
  <1>3. M \in Nat /\ N \in Nat /\ (\A i \in 1 .. M : o[i] \in s.active) /\ \A i \in 1 .. N : p[i] \in s.active
    OBVIOUS
  <1>4. /\ g[0] = [mask |-> InitialColors, colors |-> [r \in Physical |-> r]]
        /\ \A n \in 1 .. M : g[n] = SelectColor(s, g[n - 1], o[n])
        /\ Selection(s, o) = g[M].colors /\ g[0] \in Selecting(s)
    BY <1>1, <1>3 DEF SelectRun
  <1>5. /\ h[0] = [mask |-> InitialColors, colors |-> [r \in Physical |-> r]]
        /\ \A n \in 1 .. N : h[n] = SelectColor(s, h[n - 1], p[n])
        /\ Selection(s, p) = h[N].colors
    BY <1>2 DEF SelectRun
  <1> HIDE DEF A, M, N
  <1> DEFINE R == [i \in 0 .. M |-> { j \in 0 .. N : Evened(s, G, g[i], h[j]) }]
  <1>6. Evened(s, G, g[0], h[0])
    <2>1. g[0].mask = InitialColors /\ g[0] = h[0] /\ DOMAIN g[0].colors = Physical
      BY <1>4, <1>5
    <2>2. Based(InitialColors)
      BY DEF Based
    <2>3. \A r \in G : r \notin Physical
      BY DEF Lone, Separate
    <2> QED
      BY <1>4, <2>1, <2>2, <2>3 DEF Evened
  <1>7. ASSUME NEW i \in 0 .. M, NEW j
        PROVE  j \in R[i] <=> j \in 0 .. N /\ Evened(s, G, g[i], h[j])
    OBVIOUS
  <1>8. 0 \in R[0]
    BY <1>3, <1>6, <1>7
  <1>9. ASSUME NEW i \in 0 .. M, i < M
        PROVE  i + 1 \in 0 .. M /\ g[i + 1] = SelectColor(s, g[i], o[i + 1]) /\ o[i + 1] \in s.active
    <2>1. i + 1 \in 1 .. M /\ (i + 1) - 1 = i /\ i + 1 \in 0 .. M
      BY <1>3, <1>9
    <2> QED
      BY <1>3, <1>4, <2>1
  <1>10. ASSUME NEW j \in 0 .. N, j < N
         PROVE  j + 1 \in 0 .. N /\ h[j + 1] = SelectColor(s, h[j], p[j + 1]) /\ p[j + 1] \in s.active
    <2>1. j + 1 \in 1 .. N /\ (j + 1) - 1 = j /\ j + 1 \in 0 .. N
      BY <1>3, <1>10
    <2> QED
      BY <1>3, <1>5, <2>1
  <1> HIDE DEF R
  <1>11. ASSUME NEW i \in 0 .. M, NEW j \in 0 .. N, j \in R[i]
         PROVE  /\ i < M /\ o[i + 1] \notin A => j \in R[i + 1]
                /\ j < N /\ p[j + 1] \notin A => j + 1 \in R[i]
                /\ i < M /\ j < N /\ o[i + 1] \in A /\ o[i + 1] = p[j + 1] => j + 1 \in R[i + 1]
    <2>1. Evened(s, G, g[i], h[j])
      BY <1>7, <1>11
    <2>2. ASSUME i < M, o[i + 1] \notin A PROVE j \in R[i + 1]
      <3>1. o[i + 1] \in G
        BY <1>9, <2>2 DEF A
      <3>2. Evened(s, G, g[i + 1], h[j])
        BY <1>9, <2>1, <2>2, <3>1, LoneIsEvened
      <3> QED
        BY <1>7, <1>9, <2>2, <3>2
    <2>3. ASSUME j < N, p[j + 1] \notin A PROVE j + 1 \in R[i]
      <3>1. p[j + 1] \in G
        BY <1>10, <2>3 DEF A
      <3>2. Evened(s, G, h[j], g[i])
        BY <2>1, EvenedTurned
      <3>3. Evened(s, G, h[j + 1], g[i])
        BY <1>10, <2>3, <3>1, <3>2, LoneIsEvened
      <3>4. Evened(s, G, g[i], h[j + 1])
        BY <3>3, EvenedTurned
      <3> QED
        BY <1>7, <1>10, <2>3, <3>4
    <2>4. ASSUME i < M, j < N, o[i + 1] \in A, o[i + 1] = p[j + 1] PROVE j + 1 \in R[i + 1]
      <3>1. Evened(s, G, g[i + 1], h[j + 1])
        BY <1>9, <1>10, <2>1, <2>4, StepIsEvened DEF A
      <3> QED
        BY <1>7, <1>9, <1>10, <2>4, <3>1
    <2> QED
      BY <2>2, <2>3, <2>4
  <1>12. Weaves(R, o, p, A)
    BY <1>8, <1>11 DEF Weaves, M, N
  <1>13. N \in R[M]
    <2>1. Woven(o, p, A)
      BY DEF A
    <2> QED
      BY <2>1, <1>12, WovenToTheEnd DEF M, N
  <1>14. Evened(s, G, g[M], h[N])
    BY <1>3, <1>7, <1>13
  <1> QED
    BY <1>4, <1>5, <1>14 DEF Evened

LEMMA ReplaysMatch ==
    ASSUME Classed, Endowed, NEW s, IsSnapshot(s), Separate(s), NEW G, Lone(s, G), Rootless(s, G),
           NEW k \in Nat, k > 0, NEW B, AreRanks(s, B), NEW C, AreRanks(s, C), Ordered(B, C, s.active \ G)
    PROVE  \A r \in s.active : /\ r \in DOMAIN Replay(s, k, B) /\ r \in DOMAIN Replay(s, k, C)
                               /\ Replay(s, k, B)[r] = Replay(s, k, C)[r]
  <1> DEFINE o == RemovalOrder(s, k, B)
             p == RemovalOrder(s, k, C)
             q == [a \in s.active |-> a]
  <1>1. Woven(o, p, s.active \ G)
    BY RemovalsMatch
  <1>2. IsOrder(s, o) /\ IsOrder(s, p)
    BY RemovalIsAnOrder
  <1>3. o \in Seq(s.active) /\ p \in Seq(s.active)
    BY <1>2 DEF IsOrder
  <1>4. Maps(q, s.active, s.active) /\ \A a \in s.active : q[a] = a
    BY DEF Maps
  <1> HIDE DEF q
  <1>5. Alike(q, s, B, s, B) /\ Alike(q, s, C, s, C) /\ SameRoots(q, s, s)
    BY <1>4 DEF Alike, Embeds, SameRoots
  <1>6. \A r \in s.active : r \in DOMAIN Replay(s, k, B)
    BY <1>5, ReplayedAlike
  <1>7. \A r \in s.active : r \in DOMAIN Replay(s, k, C)
    BY <1>5, ReplayedAlike
  <1> HIDE DEF o, p
  <1>8. Reverse(o) \in Seq(s.active) /\ Reverse(p) \in Seq(s.active)
    BY <1>3, ReverseOfSequence
  <1>9. Woven(Reverse(o), Reverse(p), s.active \ G)
    <2> DEFINE A == s.active \ G
    <2> HIDE DEF A
    <2>1. Woven(o, p, A)
      BY <1>1 DEF A
    <2>2. Woven(Reverse(o), Reverse(p), A)
      BY <1>3, <2>1, WovenBackwards
    <2> QED
      BY <2>2 DEF A
  <1>10. Replay(s, k, B) = Selection(s, Reverse(o)) /\ Replay(s, k, C) = Selection(s, Reverse(p))
    BY DEF Replay, o, p
  <1> DEFINE v == Reverse(o)
             w == Reverse(p)
  <1> HIDE DEF v, w
  <1>11. v \in Seq(s.active) /\ w \in Seq(s.active) /\ Woven(v, w, s.active \ G)
         /\ Replay(s, k, B) = Selection(s, v) /\ Replay(s, k, C) = Selection(s, w)
    BY <1>8, <1>9, <1>10 DEF v, w
  <1>12. \A r \in s.active : r \in DOMAIN Selection(s, v) /\ r \in DOMAIN Selection(s, w) =>
           Selection(s, v)[r] = Selection(s, w)[r]
    BY <1>11, SelectionsMatch
  <1> QED
    BY <1>6, <1>7, <1>11, <1>12
=============================================================================
