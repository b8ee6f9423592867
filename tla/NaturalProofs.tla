----------------------------- MODULE NaturalProofs -----------------------------
(***************************************************************************)
(* Facts that the proofs of the components share: minima, induction and    *)
(* recursion over natural numbers, finiteness of sets of them, the shape   *)
(* of pushed sequences.                                                    *)
(***************************************************************************)
EXTENDS Integers, Sequences, FiniteSets, WellFoundedInduction,
        FiniteSetTheorems, SequenceTheorems, TLAPS

(***************************************************************************)
(* A non-empty set of natural numbers has a least element: the form in     *)
(* which the proofs below use induction.                                   *)
(***************************************************************************)
LEMMA LeastElement ==
    ASSUME NEW S \in SUBSET Nat, S # {}
    PROVE  \E m \in S : \A k \in S : m <= k
  <1> DEFINE R == OpToRel(<, Nat)
  <1>1. IsWellFoundedOn(R, Nat)
    BY NatLessThanWellFounded
  <1>2. \A x, y \in Nat : x < y => <<x, y>> \in R
    BY DEF OpToRel
  <1> HIDE DEF R
  <1>3. PICK m \in S : \A k \in S : ~(<<k, m>> \in R)
    BY <1>1, WFMin
  <1>4. ASSUME NEW k \in S PROVE m <= k
    <2>1. k \in Nat /\ m \in Nat
      OBVIOUS
    <2>2. ~(k < m)
      BY <1>2, <1>3, <2>1
    <2>3. QED
      BY <2>1, <2>2
  <1>5. QED
    BY <1>4

\* A property that passes from each number to the next holds of all of them;
\* the property is given as the set of its numbers.
LEMMA Induction ==
    ASSUME NEW P, 0 \in P, \A n \in Nat : n \in P => n + 1 \in P
    PROVE  Nat \subseteq P
  <1> DEFINE S == Nat \ P
  <1>1. CASE S # {}
    <2>1. PICK m \in S : \A k \in S : m <= k
      BY <1>1, LeastElement
    <2>2. m # 0 /\ m - 1 \in Nat /\ m - 1 \notin S
      BY <2>1
    <2> QED
      BY <2>2
  <1> QED
    BY <1>1

\* Likewise for a property that passes from smaller numbers to larger ones.
LEMMA IntervalInduction ==
    ASSUME NEW n \in Nat, NEW P,
           \A r \in 0 .. n-1 : (\A x \in 0 .. n-1 : x < r => x \in P) => r \in P
    PROVE  0 .. n-1 \subseteq P
  <1> DEFINE S == (0 .. n-1) \ P
  <1>1. S \in SUBSET Nat
    OBVIOUS
  <1>2. CASE S # {}
    <2>1. PICK m \in S : \A k \in S : m <= k
      BY <1>1, <1>2, LeastElement
    <2>2. \A x \in 0 .. n-1 : x < m => x \in P
      BY <1>1, <2>1
    <2> QED
      BY <2>1, <2>2
  <1> QED
    BY <1>2

\* Recursion over the natural numbers has a solution: F takes the number and
\* the value before.
Approximations(a, F, S, n) ==
  { h \in [0 .. n -> S] : h[0] = a /\ \A k \in 0 .. n-1 : h[k + 1] = F[<<k, h[k]>>] }

LEMMA ApproximationsExist ==
    ASSUME NEW S, NEW a \in S, NEW F \in [Nat \X S -> S], NEW n \in Nat
    PROVE  Approximations(a, F, S, n) # {}
  <1> DEFINE P == { m \in Nat : Approximations(a, F, S, m) # {} }
  <1>1. 0 \in P
    <2> DEFINE h == [k \in 0 .. 0 |-> a]
    <2>1. h \in [0 .. 0 -> S] /\ h[0] = a /\ \A k \in 0 .. 0-1 : FALSE
      OBVIOUS
    <2>2. h \in Approximations(a, F, S, 0)
      BY <2>1 DEF Approximations
    <2> QED
      BY <2>2
  <1>2. ASSUME NEW m \in Nat, m \in P PROVE m + 1 \in P
    <2>1. PICK h : h \in Approximations(a, F, S, m)
      BY <1>2
    <2>2. /\ h \in [0 .. m -> S] /\ h[0] = a
          /\ \A k \in 0 .. m-1 : h[k + 1] = F[<<k, h[k]>>]
      BY <2>1 DEF Approximations
    <2> DEFINE v == F[<<m, h[m]>>]
               g == [k \in 0 .. m+1 |-> IF k = m + 1 THEN v ELSE h[k]]
    <2>3. h[m] \in S /\ <<m, h[m]>> \in Nat \X S
      BY <2>2
    <2>4. v \in S
      BY <2>3
    <2> HIDE DEF v
    <2>5. \A k \in 0 .. m+1 : g[k] \in S /\ (k <= m => g[k] = h[k]) /\ (k = m + 1 => g[k] = v)
      BY <2>2, <2>4
    <2>6. g \in [0 .. m+1 -> S] /\ g[0] = a
      BY <2>2, <2>5
    <2> HIDE DEF g
    <2>7. ASSUME NEW k \in 0 .. m PROVE g[k + 1] = F[<<k, g[k]>>]
      <3>1. CASE k = m
        BY <2>5, <3>1 DEF v
      <3>2. CASE k # m
        <4>1. k \in 0 .. m-1 /\ k + 1 \in 0 .. m+1 /\ k + 1 <= m
          BY <3>2
        <4>2. g[k + 1] = h[k + 1] /\ g[k] = h[k]
          BY <2>5, <4>1
        <4> QED
          BY <2>2, <4>1, <4>2
      <3> QED
        BY <3>1, <3>2
    <2>8. (m + 1) - 1 = m
      OBVIOUS
    <2>9. g \in Approximations(a, F, S, m + 1)
      BY <2>6, <2>7, <2>8 DEF Approximations
    <2> QED
      BY <2>9
  <1> HIDE DEF P
  <1>3. n \in P
    BY <1>1, <1>2, Induction
  <1> QED
    BY <1>3 DEF P

LEMMA ApproximationsAgree ==
    ASSUME NEW S, NEW a \in S, NEW F \in [Nat \X S -> S], NEW m \in Nat, NEW n \in Nat, m <= n,
           NEW g \in Approximations(a, F, S, m), NEW h \in Approximations(a, F, S, n)
    PROVE  g[m] = h[m]
  <1> DEFINE P == { k \in Nat : k <= m => g[k] = h[k] }
  <1>1. /\ g[0] = a /\ \A k \in 0 .. m-1 : g[k + 1] = F[<<k, g[k]>>]
        /\ h[0] = a /\ \A k \in 0 .. n-1 : h[k + 1] = F[<<k, h[k]>>]
    BY DEF Approximations
  <1>2. 0 \in P
    BY <1>1
  <1>3. ASSUME NEW k \in Nat, k \in P PROVE k + 1 \in P
    <2> SUFFICES ASSUME k + 1 <= m PROVE g[k + 1] = h[k + 1]
      OBVIOUS
    <2>1. k \in 0 .. m-1 /\ k \in 0 .. n-1 /\ g[k] = h[k]
      BY <1>3
    <2> QED
      BY <1>1, <2>1
  <1> HIDE DEF P
  <1>4. m \in P
    BY <1>2, <1>3, Induction
  <1> QED
    BY <1>4 DEF P

Recursion(g, a, F, S) ==
    g \in [Nat -> S] /\ g[0] = a /\ \A k \in Nat : g[k + 1] = F[<<k, g[k]>>]

LEMMA RecursionExists ==
    ASSUME NEW S, NEW a \in S, NEW F \in [Nat \X S -> S]
    PROVE  \E g : Recursion(g, a, F, S)
  <1> DEFINE A(n) == Approximations(a, F, S, n)
             pick(n) == CHOOSE h : h \in A(n)
             g == [n \in Nat |-> pick(n)[n]]
  <1>1. ASSUME NEW n \in Nat PROVE pick(n) \in A(n)
    BY ApproximationsExist
  <1>2. ASSUME NEW n \in Nat
        PROVE  /\ pick(n) \in [0 .. n -> S] /\ pick(n)[0] = a
               /\ \A k \in 0 .. n-1 : pick(n)[k + 1] = F[<<k, pick(n)[k]>>]
    BY <1>1 DEF Approximations
  <1> HIDE DEF pick
  <1>3. \A n \in Nat : g[n] = pick(n)[n]
    OBVIOUS
  <1>4. g \in [Nat -> S]
    BY <1>2
  <1>5. g[0] = a
    BY <1>2
  <1> HIDE DEF g
  <1>6. ASSUME NEW k \in Nat PROVE g[k + 1] = F[<<k, g[k]>>]
    <2>1. k + 1 \in Nat /\ k <= k + 1 /\ k \in 0 .. (k + 1) - 1
      OBVIOUS
    <2>2. pick(k + 1)[k] = pick(k)[k]
      BY <1>1, <2>1, ApproximationsAgree
    <2>3. pick(k + 1)[k + 1] = F[<<k, pick(k + 1)[k]>>]
      BY <1>2, <2>1
    <2> QED
      BY <1>3, <2>1, <2>2, <2>3
  <1>7. Recursion(g, a, F, S)
    BY <1>4, <1>5, <1>6 DEF Recursion
  <1> QED
    BY <1>7

\* Recursion over the first numbers.
Recurses(g, a, F, S, N) ==
  g \in [0 .. N -> S] /\ g[0] = a /\ \A k \in 1 .. N : g[k] = F[<<k, g[k - 1]>>]

LEMMA BoundedRecursion ==
    ASSUME NEW S, NEW a \in S, NEW N \in Nat, NEW F \in [(1 .. N) \X S -> S]
    PROVE  \E g : Recurses(g, a, F, S, N)
  <1> DEFINE H == [p \in Nat \X S |-> IF p[1] + 1 \in 1 .. N THEN F[<<p[1] + 1, p[2]>>] ELSE p[2]]
  <1>1. H \in [Nat \X S -> S]
    <2> SUFFICES ASSUME NEW p \in Nat \X S
                 PROVE  (IF p[1] + 1 \in 1 .. N THEN F[<<p[1] + 1, p[2]>>] ELSE p[2]) \in S
      OBVIOUS
    <2>1. p[1] \in Nat /\ p[2] \in S
      OBVIOUS
    <2>2. p[1] + 1 \in 1 .. N => <<p[1] + 1, p[2]>> \in (1 .. N) \X S
      BY <2>1
    <2> QED
      BY <2>1, <2>2
  <1>2. \A k \in Nat, s \in S : k + 1 \in 1 .. N => H[<<k, s>>] = F[<<k + 1, s>>]
    OBVIOUS
  <1> HIDE DEF H
  <1>3. PICK g : g \in Approximations(a, H, S, N)
    <2>1. Approximations(a, H, S, N) # {}
      BY <1>1, ApproximationsExist
    <2> QED
      BY <2>1
  <1>4. g \in [0 .. N -> S] /\ g[0] = a /\ \A k \in 0 .. N - 1 : g[k + 1] = H[<<k, g[k]>>]
    BY <1>3 DEF Approximations
  <1>5. ASSUME NEW k \in 1 .. N PROVE g[k] = F[<<k, g[k - 1]>>]
    <2>1. k - 1 \in 0 .. N - 1 /\ k - 1 \in 0 .. N /\ k - 1 \in Nat /\ (k - 1) + 1 = k
      OBVIOUS
    <2>2. g[k] = H[<<k - 1, g[k - 1]>>] /\ g[k - 1] \in S
      BY <1>4, <2>1
    <2> QED
      BY <1>2, <2>1, <2>2
  <1>6. Recurses(g, a, F, S, N)
    BY <1>4, <1>5 DEF Recurses
  <1> QED
    BY <1>6

LEMMA NumbersAreFinite ==
    ASSUME NEW n \in Nat, NEW S \in SUBSET (0 .. n-1)
    PROVE  IsFiniteSet(S) /\ Cardinality(S) \in Nat
  <1>1. IsFiniteSet(0 .. n-1)
    BY FS_Interval
  <1>2. IsFiniteSet(S)
    BY <1>1, FS_Subset
  <1> QED
    BY <1>2, FS_CardinalityType

\* A member put in front of a sequence.
LEMMA PushedSequence ==
    ASSUME NEW S, NEW s \in Seq(S), NEW T, S \subseteq T, NEW n \in T
    PROVE  /\ <<n>> \o s \in Seq(T)
           /\ Len(<<n>> \o s) = Len(s) + 1
           /\ (<<n>> \o s)[1] = n
           /\ \A i \in 1 .. Len(s) : (<<n>> \o s)[i + 1] = s[i]
           /\ \A i \in 2 .. Len(s) + 1 : (<<n>> \o s)[i] = s[i - 1]
  <1>1. s \in Seq(T) /\ Len(s) \in Nat
    BY SMT
  <1>2. <<n>> \in Seq(T) /\ Len(<<n>>) = 1 /\ <<n>>[1] = n
    BY SMT
  <1> DEFINE one == <<n>>
  <1> HIDE DEF one
  <1>3. one \in Seq(T) /\ Len(one) = 1 /\ one[1] = n
    BY <1>2 DEF one
  <1>4. /\ one \o s \in Seq(T)
        /\ Len(one \o s) = Len(one) + Len(s)
        /\ \A i \in 1 .. Len(one) + Len(s) : (one \o s)[i] =
              IF i <= Len(one) THEN one[i] ELSE s[i - Len(one)]
    BY <1>1, <1>3, ConcatProperties
  <1>5. \A i \in 1 .. 1 + Len(s) : (one \o s)[i] = IF i <= 1 THEN one[1] ELSE s[i - 1]
    BY <1>1, <1>3, <1>4
  <1>6. /\ (one \o s)[1] = n
        /\ \A i \in 2 .. Len(s) + 1 : (one \o s)[i] = s[i - 1]
    <2>1. 1 \in 1 .. 1 + Len(s)
      BY <1>1
    <2>2. (one \o s)[1] = n
      BY <1>3, <1>5, <2>1
    <2>3. ASSUME NEW i \in 2 .. Len(s) + 1 PROVE (one \o s)[i] = s[i - 1]
      <3>1. i \in 1 .. 1 + Len(s) /\ ~(i <= 1)
        BY <1>1
      <3>2. QED
        BY <1>5, <3>1
    <2>4. QED
      BY <2>2, <2>3
  <1>7. \A i \in 1 .. Len(s) : (one \o s)[i + 1] = s[i]
    <2> SUFFICES ASSUME NEW i \in 1 .. Len(s) PROVE (one \o s)[i + 1] = s[i]
      OBVIOUS
    <2>1. i + 1 \in 2 .. Len(s) + 1 /\ (i + 1) - 1 = i
      BY <1>1
    <2>2. QED
      BY <1>6, <2>1
  <1>8. QED
    BY <1>1, <1>3, <1>4, <1>6, <1>7 DEF one
================================================================================
