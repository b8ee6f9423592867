--------------------------- MODULE LoopMotionProofs ---------------------------
(***************************************************************************)
(* What is proved of loop code motion.  IndexInv says that the index is    *)
(* what its building has reached so far and that a move does not disturb   *)
(* it; IInv adds the walks, the lists of the blocks, the definitions at    *)
(* the cursor and the instructions a pass has refused; WalkInv says what   *)
(* the calls on the stack still have to visit.                             *)
(***************************************************************************)
EXTENDS LoopMotion, NaturalProofs

(* What Chosen returns: the members at the places of T, in their order.    *)
Chooses(g, s, T) ==
    [k \in Nat |-> IF k = 0 THEN <<>>
                   ELSE IF k \in T THEN Append(g[k - 1], s[k]) ELSE g[k - 1]]

Prefixes(g, s, T, S) ==
    /\ g \in [Nat -> Seq(S)] /\ g[0] = <<>>
    /\ \A k \in Nat : g[k + 1] = IF k + 1 \in T THEN Append(g[k], s[k + 1]) ELSE g[k]

LEMMA ChosenUnfolds ==
    ASSUME NEW S, NEW s \in Seq(S), NEW T \in SUBSET (1 .. Len(s))
    PROVE  \E g : Prefixes(g, s, T, S) /\ Chosen(s, T) = g[Len(s)]
  <1> DEFINE F == [p \in Nat \X Seq(S) |->
                     IF p[1] + 1 \in T THEN Append(p[2], s[p[1] + 1]) ELSE p[2]]
             G == CHOOSE g : g = Chooses(g, s, T)
  <1>1. F \in [Nat \X Seq(S) -> Seq(S)]
    <2> SUFFICES ASSUME NEW p \in Nat \X Seq(S)
                 PROVE  (IF p[1] + 1 \in T THEN Append(p[2], s[p[1] + 1]) ELSE p[2]) \in Seq(S)
      OBVIOUS
    <2>1. p[1] \in Nat /\ p[2] \in Seq(S)
      OBVIOUS
    <2>2. p[1] + 1 \in T => s[p[1] + 1] \in S
      BY <2>1
    <2> QED
      BY <2>1, <2>2
  <1>2. PICK empty \in Seq(S) : empty = <<>>
    BY EmptySeq
  <1>3. \A k \in Nat : \A h \in Seq(S) :
          F[<<k, h>>] = IF k + 1 \in T THEN Append(h, s[k + 1]) ELSE h
    OBVIOUS
  <1> HIDE DEF F
  <1>4. PICK f \in [Nat -> Seq(S)] : f[0] = empty /\ \A k \in Nat : f[k + 1] = F[<<k, f[k]>>]
    <2> DEFINE R == Seq(S)
    <2>1. F \in [Nat \X R -> R] /\ empty \in R
      BY <1>1
    <2> HIDE DEF R
    <2>2. \E f : Recursion(f, empty, F, R)
      BY <2>1, RecursionExists, Zenon
    <2> QED
      BY <2>2 DEF R, Recursion
  <1>5. \A k \in Nat : f[k + 1] = IF k + 1 \in T THEN Append(f[k], s[k + 1]) ELSE f[k]
    BY <1>3, <1>4
  <1>6. \A k \in Nat : f[k] = IF k = 0 THEN <<>>
                              ELSE IF k \in T THEN Append(f[k - 1], s[k]) ELSE f[k - 1]
    <2> TAKE k \in Nat
    <2>1. CASE k = 0
      BY <1>2, <1>4, <2>1
    <2>2. CASE k # 0
      <3>1. k - 1 \in Nat /\ (k - 1) + 1 = k
        BY <2>2
      <3> QED
        BY <1>5, <2>2, <3>1
    <2> QED
      BY <2>1, <2>2
  <1>7. f = Chooses(f, s, T)
    BY <1>4, <1>6 DEF Chooses
  <1>8. Chosen(s, T) = G[Len(s)]
    BY DEF Chosen, Chooses
  <1>9. G = Chooses(G, s, T)
    BY <1>7, Zenon
  <1> HIDE DEF G
  <1>10. /\ G[0] = <<>> /\ G = [k \in Nat |-> G[k]]
         /\ \A k \in Nat : G[k + 1] = IF k + 1 \in T THEN Append(G[k], s[k + 1]) ELSE G[k]
    <2>1. \A k \in Nat : G[k] = IF k = 0 THEN <<>>
                                ELSE IF k \in T THEN Append(G[k - 1], s[k]) ELSE G[k - 1]
      BY <1>9 DEF Chooses
    <2>2. G = [k \in Nat |-> G[k]]
      BY <1>9 DEF Chooses
    <2>3. ASSUME NEW k \in Nat
          PROVE  G[k + 1] = IF k + 1 \in T THEN Append(G[k], s[k + 1]) ELSE G[k]
      <3>1. k + 1 \in Nat /\ k + 1 # 0 /\ (k + 1) - 1 = k
        OBVIOUS
      <3> QED
        BY <2>1, <3>1
    <2> QED
      BY <2>1, <2>2, <2>3
  <1>11. \A k \in Nat : G[k] \in Seq(S)
    <2> DEFINE P == { k \in Nat : G[k] \in Seq(S) }
    <2>1. 0 \in P
      BY <1>2, <1>10
    <2>2. ASSUME NEW k \in Nat, k \in P PROVE k + 1 \in P
      <3>1. k + 1 \in T => s[k + 1] \in S
        OBVIOUS
      <3>2. G[k] \in Seq(S)
        BY <2>2
      <3>3. G[k + 1] = IF k + 1 \in T THEN Append(G[k], s[k + 1]) ELSE G[k]
        BY <1>10
      <3>4. \A h \in Seq(S), x \in S : Append(h, x) \in Seq(S)
        OBVIOUS
      <3>5. G[k + 1] \in Seq(S)
        BY <3>1, <3>2, <3>3, <3>4
      <3> QED
        BY <3>5
    <2> HIDE DEF P
    <2>3. Nat \subseteq P
      BY <2>1, <2>2, Induction
    <2> QED
      BY <2>3 DEF P
  <1>12. G \in [Nat -> Seq(S)]
    BY <1>10, <1>11
  <1>13. Prefixes(G, s, T, S)
    BY <1>10, <1>12 DEF Prefixes
  <1> QED
    BY <1>8, <1>13

LEMMA Appended ==
    ASSUME NEW S, NEW q \in Seq(S), NEW x \in S, NEW n, Len(q) = n
    PROVE  /\ Append(q, x) \in Seq(S)
           /\ Len(Append(q, x)) = n + 1 /\ Append(q, x)[n + 1] = x
           /\ \A j \in 1 .. n : Append(q, x)[j] = q[j]
  BY AppendProperties

LEMMA UptoNext ==
    ASSUME NEW T \in SUBSET Nat, NEW k \in Nat
    PROVE  /\ k + 1 \notin T => T \cap (1 .. k + 1) = T \cap (1 .. k)
           /\ k + 1 \in T => /\ T \cap (1 .. k + 1) = (T \cap (1 .. k)) \cup {k + 1}
                             /\ k + 1 \notin T \cap (1 .. k)
  <1>1. ASSUME NEW x \in T PROVE x \in 1 .. k + 1 <=> x \in 1 .. k \/ x = k + 1
    OBVIOUS
  <1>2. k + 1 \notin 1 .. k
    OBVIOUS
  <1> QED
    BY <1>1, <1>2

(* places lists the members of T in increasing order.                      *)
Enumerates(places, T, n) ==
    /\ places \in [1 .. n -> T]
    /\ \A j, k \in 1 .. n : j < k => places[j] < places[k]
    /\ \A t \in T : \E k \in 1 .. n : places[k] = t

LEMMA ChosenPlaces ==
    ASSUME NEW S, NEW s \in Seq(S), NEW T \in SUBSET (1 .. Len(s))
    PROVE  /\ Cardinality(T) \in Nat
           /\ Chosen(s, T) \in Seq(S) /\ Len(Chosen(s, T)) = Cardinality(T)
           /\ \E places : /\ Enumerates(places, T, Cardinality(T))
                          /\ \A k \in 1 .. Cardinality(T) : Chosen(s, T)[k] = s[places[k]]
  <1>0. PICK g : Prefixes(g, s, T, S) /\ Chosen(s, T) = g[Len(s)]
    BY ChosenUnfolds
  <1>1. /\ g \in [Nat -> Seq(S)] /\ g[0] = <<>>
        /\ \A k \in Nat : g[k + 1] = IF k + 1 \in T THEN Append(g[k], s[k + 1]) ELSE g[k]
        /\ Chosen(s, T) = g[Len(s)]
    BY <1>0 DEF Prefixes
  <1> DEFINE Upto(k) == T \cap (1 .. k)
             Right(k, n) == /\ Len(g[k]) = n
                            /\ \E places : /\ Enumerates(places, Upto(k), n)
                                           /\ \A j \in 1 .. n : g[k][j] = s[places[j]]
             P == { k \in Nat : /\ IsFiniteSet(Upto(k)) /\ Cardinality(Upto(k)) \in Nat
                                /\ Right(k, Cardinality(Upto(k))) }
  <1> HIDE DEF Upto, Right, P
  <1>2. 0 \in P
    <2>1. Upto(0) = {}
      BY DEF Upto
    <2>2. IsFiniteSet({}) /\ Cardinality({}) = 0
      BY FS_EmptySet
    <2> DEFINE none == [j \in 1 .. 0 |-> 0]
    <2>3. Enumerates(none, {}, 0)
      BY DEF Enumerates
    <2>4. Len(g[0]) = 0
      BY <1>1
    <2>5. Right(0, 0)
      <3>1. \A j \in 1 .. 0 : g[0][j] = s[none[j]]
        OBVIOUS
      <3> HIDE DEF none
      <3> QED
        BY <2>1, <2>3, <2>4, <3>1 DEF Right
    <2>6. IsFiniteSet(Upto(0)) /\ Cardinality(Upto(0)) = 0
      BY <2>1, <2>2
    <2> QED
      BY <2>5, <2>6 DEF P
  <1>3. ASSUME NEW k \in Nat, k \in P PROVE k + 1 \in P
    <2>1. PICK n \in Nat : n = Cardinality(Upto(k))
      BY <1>3 DEF P
    <2>2. IsFiniteSet(Upto(k)) /\ Right(k, n)
      BY <1>3, <2>1 DEF P
    <2>3. T \in SUBSET Nat
      OBVIOUS
    <2>4. k + 1 \in Nat
      OBVIOUS
    <2>5. CASE k + 1 \notin T
      <3>1. Upto(k + 1) = Upto(k)
        BY <2>3, <2>5, UptoNext DEF Upto
      <3>2. g[k + 1] = g[k]
        BY <1>1, <2>5
      <3>3. Right(k + 1, n)
        BY <2>2, <3>1, <3>2 DEF Right
      <3> QED
        BY <2>1, <2>2, <2>4, <3>1, <3>3 DEF P
    <2>6. CASE k + 1 \in T
      <3>1. Upto(k + 1) = Upto(k) \cup {k + 1} /\ k + 1 \notin Upto(k)
        BY <2>3, <2>6, UptoNext DEF Upto
      <3>2. IsFiniteSet(Upto(k + 1)) /\ Cardinality(Upto(k + 1)) = n + 1
        <4>1. PICK U, V, x : U = Upto(k) /\ V = Upto(k + 1) /\ x = k + 1
          OBVIOUS
        <4>2. IsFiniteSet(U) /\ V = U \cup {x} /\ x \notin U
          BY <2>2, <3>1, <4>1
        <4>3. IsFiniteSet(V) /\ Cardinality(V) = Cardinality(U) + 1
          BY <4>2, FS_AddElement
        <4> QED
          BY <2>1, <4>1, <4>3
      <3>3. PICK x \in S : x = s[k + 1]
        BY <2>6
      <3>4. PICK old \in Seq(S) : old = g[k]
        BY <1>1
      <3>5. g[k + 1] = Append(old, x)
        BY <1>1, <2>6, <3>3, <3>4
      <3>6. PICK places : /\ Enumerates(places, Upto(k), n)
                          /\ \A j \in 1 .. n : old[j] = s[places[j]]
        BY <2>2, <3>4 DEF Right
      <3>7. /\ \A j \in 1 .. n : places[j] \in Upto(k)
            /\ \A i, j \in 1 .. n : i < j => places[i] < places[j]
            /\ \A t \in Upto(k) : \E j \in 1 .. n : places[j] = t
            /\ Len(old) = n
        BY <2>2, <3>4, <3>6 DEF Enumerates, Right
      <3> DEFINE more == [j \in 1 .. n + 1 |-> IF j = n + 1 THEN k + 1 ELSE places[j]]
      <3>8. \A j \in 1 .. n : j \in 1 .. n + 1 /\ j # n + 1
        OBVIOUS
      <3>9. n + 1 \in 1 .. n + 1 /\ \A j \in 1 .. n + 1 : j \in 1 .. n \/ j = n + 1
        OBVIOUS
      <3>10. /\ \A j \in 1 .. n : more[j] = places[j]
             /\ more[n + 1] = k + 1
             /\ more = [j \in 1 .. n + 1 |-> more[j]]
        BY <3>8, <3>9
      <3> HIDE DEF more
      <3>11. \A y \in Upto(k) : y \in Int /\ y < k + 1
        BY DEF Upto
      <3>12. Enumerates(more, Upto(k + 1), n + 1)
        <4>1. more \in [1 .. n + 1 -> Upto(k + 1)]
          <5>1. \A j \in 1 .. n + 1 : more[j] \in Upto(k + 1)
            BY <3>1, <3>7, <3>9, <3>10
          <5> QED
            BY <3>10, <5>1
        <4>2. ASSUME NEW i \in 1 .. n + 1, NEW j \in 1 .. n + 1, i < j
              PROVE  more[i] < more[j]
          <5>1. i \in 1 .. n
            BY <4>2
          <5>2. CASE j = n + 1
            BY <3>7, <3>10, <3>11, <5>1, <5>2
          <5>3. CASE j \in 1 .. n
            BY <3>7, <3>10, <4>2, <5>1, <5>3
          <5> QED
            BY <3>9, <5>2, <5>3
        <4>3. ASSUME NEW t \in Upto(k + 1) PROVE \E j \in 1 .. n + 1 : more[j] = t
          <5>1. CASE t = k + 1
            BY <3>9, <3>10, <5>1
          <5>2. CASE t \in Upto(k)
            BY <3>7, <3>8, <3>10, <5>2
          <5> QED
            BY <3>1, <5>1, <5>2
        <4> QED
          BY <4>1, <4>2, <4>3 DEF Enumerates
      <3>13. /\ Len(g[k + 1]) = n + 1
             /\ \A j \in 1 .. n + 1 : g[k + 1][j] = s[more[j]]
        <4>1. /\ Len(g[k + 1]) = n + 1 /\ g[k + 1][n + 1] = x
              /\ \A j \in 1 .. n : g[k + 1][j] = old[j]
          BY <3>5, <3>7, Appended
        <4> QED
          BY <3>3, <3>6, <3>9, <3>10, <4>1
      <3>14. Right(k + 1, n + 1)
        BY <3>12, <3>13 DEF Right
      <3>15. n + 1 \in Nat
        OBVIOUS
      <3> QED
        BY <2>4, <3>2, <3>14, <3>15 DEF P
    <2> QED
      BY <2>5, <2>6
  <1>4. PICK n \in Nat : n = Len(s)
    OBVIOUS
  <1>5. n \in P
    <2>1. Nat \subseteq P
      BY <1>2, <1>3, Induction
    <2> QED
      BY <2>1
  <1>6. Upto(n) = T
    BY <1>4 DEF Upto
  <1>7. /\ Cardinality(T) \in Nat
        /\ Right(n, Cardinality(T))
    BY <1>5, <1>6 DEF P
  <1>8. Chosen(s, T) \in Seq(S) /\ Chosen(s, T) = g[n]
    BY <1>1, <1>4
  <1> QED
    BY <1>6, <1>7, <1>8 DEF Right

--------------------------------------------------------------------------------
(* A reverse list without repetition.                                      *)
Lists(q, A) ==
    /\ q \in Seq(Nat)
    /\ \A j, k \in 1 .. Len(q) : q[j] = q[k] => j = k
    /\ \A x : x \in A <=> \E k \in 1 .. Len(q) : q[k] = x

LEMMA ListLength ==
    ASSUME NEW q, NEW A, Lists(q, A)
    PROVE  Len(q) = Cardinality(A) /\ SeqExt!ToSet(q) = A
  <1>1. PICK n \in Nat : n = Len(q)
    BY DEF Lists
  <1>2. /\ q \in [1 .. n -> Nat] /\ DOMAIN q = 1 .. n
        /\ \A j, k \in 1 .. n : q[j] = q[k] => j = k
        /\ \A x : x \in A <=> \E k \in 1 .. n : q[k] = x
    BY <1>1 DEF Lists
  <1>3. q \in [1 .. n -> A]
    BY <1>2
  <1>4. q \in Bijection(1 .. n, A)
    BY <1>2, <1>3 DEF Bijection, Injection, Surjection, IsInjective
  <1>5. ExistsBijection(1 .. n, A)
    BY <1>4 DEF ExistsBijection
  <1>6. Cardinality(A) = n
    BY <1>5, FS_CountingElements
  <1>7. SeqExt!ToSet(q) = A
    BY <1>2 DEF SeqExt!ToSet
  <1> QED
    BY <1>1, <1>6, <1>7

LEMMA EmptyList == Lists(<<>>, {})
  BY EmptySeq DEF Lists

(* Two lists of different members, one in front of the other.              *)
LEMMA JoinedList ==
    ASSUME NEW p, NEW A, Lists(p, A), NEW q, NEW B, Lists(q, B), A \cap B = {}
    PROVE  Lists(p \o q, A \cup B)
  <1>1. PICK m \in Nat, n \in Nat : m = Len(p) /\ n = Len(q)
    BY DEF Lists
  <1>2. /\ p \in Seq(Nat) /\ q \in Seq(Nat)
        /\ \A j, k \in 1 .. m : p[j] = p[k] => j = k
        /\ \A j, k \in 1 .. n : q[j] = q[k] => j = k
        /\ \A x : x \in A <=> \E k \in 1 .. m : p[k] = x
        /\ \A x : x \in B <=> \E k \in 1 .. n : q[k] = x
    BY <1>1 DEF Lists
  <1> DEFINE r == p \o q
  <1>3. /\ r \in Seq(Nat) /\ Len(r) = m + n
        /\ \A k \in 1 .. m + n : r[k] = IF k <= m THEN p[k] ELSE q[k - m]
    BY <1>1, <1>2, ConcatProperties
  <1> HIDE DEF r
  <1>4. /\ \A k \in 1 .. m : k \in 1 .. m + n /\ r[k] = p[k] /\ p[k] \in A
        /\ \A k \in 1 .. n : k + m \in 1 .. m + n /\ r[k + m] = q[k] /\ q[k] \in B
        /\ \A k \in 1 .. m + n : k \in 1 .. m \/ (k - m \in 1 .. n /\ (k - m) + m = k)
    <2>1. \A k \in 1 .. m : k \in 1 .. m + n /\ k <= m
      OBVIOUS
    <2>2. \A k \in 1 .. n : k + m \in 1 .. m + n /\ ~(k + m <= m) /\ (k + m) - m = k
      OBVIOUS
    <2>3. \A k \in 1 .. m + n : k \in 1 .. m \/ (k - m \in 1 .. n /\ (k - m) + m = k)
      OBVIOUS
    <2> QED
      BY <1>2, <1>3, <2>1, <2>2, <2>3
  <1>5. ASSUME NEW j \in 1 .. m + n, NEW k \in 1 .. m + n, r[j] = r[k] PROVE j = k
    <2>1. CASE j \in 1 .. m /\ k \in 1 .. m
      BY <1>2, <1>4, <1>5, <2>1
    <2>2. CASE j \notin 1 .. m /\ k \notin 1 .. m
      <3>1. /\ j - m \in 1 .. n /\ (j - m) + m = j /\ k - m \in 1 .. n /\ (k - m) + m = k
        BY <1>4, <2>2
      <3>2. q[j - m] = q[k - m]
        BY <1>4, <1>5, <3>1
      <3>3. j - m = k - m
        BY <1>2, <3>1, <3>2
      <3> QED
        BY <3>1, <3>3
    <2>3. CASE j \in 1 .. m /\ k \notin 1 .. m
      BY <1>4, <1>5, <2>3
    <2>4. CASE j \notin 1 .. m /\ k \in 1 .. m
      BY <1>4, <1>5, <2>4
    <2> QED
      BY <2>1, <2>2, <2>3, <2>4
  <1>6. ASSUME NEW x PROVE x \in A \cup B <=> \E k \in 1 .. m + n : r[k] = x
    <2>1. ASSUME x \in A PROVE \E k \in 1 .. m + n : r[k] = x
      <3>1. PICK k \in 1 .. m : p[k] = x
        BY <1>2, <2>1
      <3> QED
        BY <1>4, <3>1
    <2>2. ASSUME x \in B PROVE \E k \in 1 .. m + n : r[k] = x
      <3>1. PICK k \in 1 .. n : q[k] = x
        BY <1>2, <2>2
      <3>2. k + m \in 1 .. m + n /\ r[k + m] = x
        BY <1>4, <3>1
      <3> QED
        BY <3>2
    <2>3. ASSUME NEW k \in 1 .. m + n, r[k] = x PROVE x \in A \cup B
      BY <1>4, <2>3
    <2> QED
      BY <2>1, <2>2, <2>3
  <1>7. Lists(r, A \cup B)
    BY <1>3, <1>5, <1>6 DEF Lists
  <1> QED
    BY <1>7 DEF r

LEMMA ReversedList ==
    ASSUME NEW q, NEW A, Lists(q, A)
    PROVE  Lists(SeqExt!Reverse(q), A)
  <1>1. PICK n \in Nat : n = Len(q)
    BY DEF Lists
  <1>2. /\ q \in [1 .. n -> Nat]
        /\ \A j, k \in 1 .. n : q[j] = q[k] => j = k
        /\ \A x : x \in A <=> \E k \in 1 .. n : q[k] = x
    BY <1>1 DEF Lists
  <1> DEFINE r == [k \in 1 .. n |-> q[(n - k) + 1]]
  <1>3. SeqExt!Reverse(q) = r
    BY <1>1 DEF SeqExt!Reverse
  <1>4. \A k \in 1 .. n : (n - k) + 1 \in 1 .. n /\ (n - ((n - k) + 1)) + 1 = k
    OBVIOUS
  <1>5. \A k \in 1 .. n : r[k] = q[(n - k) + 1] /\ r[k] \in Nat
    BY <1>2, <1>4
  <1>6. r \in Seq(Nat) /\ Len(r) = n
    <2>1. r \in [1 .. n -> Nat]
      BY <1>5
    <2> HIDE DEF r
    <2> QED
      BY <2>1, SeqDef, LenProperties
  <1> HIDE DEF r
  <1>7. ASSUME NEW j \in 1 .. n, NEW k \in 1 .. n, r[j] = r[k] PROVE j = k
    <2>1. (n - j) + 1 = (n - k) + 1
      BY <1>2, <1>4, <1>5, <1>7
    <2> QED
      BY <2>1
  <1>8. ASSUME NEW x PROVE x \in A <=> \E k \in 1 .. n : r[k] = x
    BY <1>2, <1>4, <1>5
  <1>9. Lists(r, A)
    BY <1>6, <1>7, <1>8 DEF Lists
  <1> QED
    BY <1>3, <1>9

(* The numbers from a first one on, of the places in T.                    *)
LEMMA NumberedList ==
    ASSUME NEW from \in Nat, NEW n \in Nat, NEW T \in SUBSET (1 .. n)
    PROVE  Lists(Chosen([k \in 1 .. n |-> from + k - 1], T), { from + k - 1 : k \in T })
  <1> DEFINE s == [k \in 1 .. n |-> from + k - 1]
             q == Chosen(s, T)
             m == Cardinality(T)
             A == { from + k - 1 : k \in T }
  <1>1. /\ \A k \in 1 .. n : s[k] = from + k - 1 /\ s[k] \in Nat
        /\ s \in [1 .. n -> Nat]
    OBVIOUS
  <1> HIDE DEF s
  <1>2. s \in Seq(Nat) /\ Len(s) = n
    BY <1>1, SeqDef, LenProperties
  <1>3. /\ m \in Nat /\ q \in Seq(Nat) /\ Len(q) = m
        /\ \E places : /\ Enumerates(places, T, m)
                       /\ \A k \in 1 .. m : q[k] = s[places[k]]
    BY <1>2, ChosenPlaces
  <1> HIDE DEF m, q
  <1>4. PICK places : Enumerates(places, T, m) /\ \A k \in 1 .. m : q[k] = s[places[k]]
    BY <1>3
  <1>5. /\ \A k \in 1 .. m : places[k] \in T /\ places[k] \in 1 .. n
        /\ \A j, k \in 1 .. m : j < k => places[j] < places[k]
        /\ \A t \in T : \E k \in 1 .. m : places[k] = t
    BY <1>4 DEF Enumerates
  <1>6. \A k \in 1 .. m : q[k] = from + places[k] - 1
    BY <1>1, <1>4, <1>5
  <1>7. ASSUME NEW j \in 1 .. m, NEW k \in 1 .. m, q[j] = q[k] PROVE j = k
    <2>1. places[j] = places[k] /\ places[j] \in Int
      BY <1>5, <1>6, <1>7
    <2>2. ~(j < k) /\ ~(k < j)
      BY <1>5, <2>1
    <2> QED
      BY <1>3, <2>2
  <1>8. ASSUME NEW x PROVE x \in A <=> \E k \in 1 .. m : q[k] = x
    BY <1>5, <1>6
  <1> HIDE DEF A
  <1>9. Lists(q, A)
    BY <1>3, <1>7, <1>8 DEF Lists
  <1> QED
    BY <1>9 DEF q, A, s

(* The new entries of a role are linked in front of the old ones.          *)
LEMMA LinkedInFront ==
    ASSUME NEW from \in Nat, NEW n \in Nat, NEW T \in SUBSET (1 .. n),
           NEW q, NEW A, Lists(q, A), \A k \in T : from + k - 1 \notin A
    PROVE  Lists(SeqExt!Reverse(Chosen([k \in 1 .. n |-> from + k - 1], T)) \o q,
                 { from + k - 1 : k \in T } \cup A)
  <1> DEFINE p == Chosen([k \in 1 .. n |-> from + k - 1], T)
             B == { from + k - 1 : k \in T }
  <1>1. Lists(p, B)
    BY NumberedList
  <1>2. B \cap A = {}
    OBVIOUS
  <1> HIDE DEF p, B
  <1>3. Lists(SeqExt!Reverse(p), B)
    BY <1>1, ReversedList
  <1>4. Lists(SeqExt!Reverse(p) \o q, B \cup A)
    BY <1>2, <1>3, JoinedList
  <1> QED
    BY <1>4 DEF p, B
--------------------------------------------------------------------------------
(* The walk down the tree towards an object.                               *)
Side == {"left", "right"}
Ended(t, o, p) == p \notin DOMAIN t \/ t[p] = o
Step(t, o, p) ==
    IF p \notin DOMAIN t \/ t[p] = o THEN p ELSE Append(p, IF o < t[p] THEN "left" ELSE "right")
Descends(g, t, o) ==
    g \in [Nat -> Seq(Side)] /\ g[0] = <<>> /\ \A d \in Nat : g[d + 1] = Step(t, o, g[d])
Descent(g, t, o) ==
    [d \in Nat |-> IF d = 0 THEN <<>>
                   ELSE LET p == g[d - 1]
                        IN  IF p \notin DOMAIN t \/ t[p] = o THEN p
                            ELSE Append(p, IF o < t[p] THEN "left" ELSE "right")]

LEMMA StepDescends ==
    ASSUME NEW t, NEW o, NEW p \in Seq(Side)
    PROVE  /\ Step(t, o, p) \in Seq(Side)
           /\ ~Ended(t, o, p) => Len(Step(t, o, p)) = Len(p) + 1
           /\ Ended(t, o, p) => Step(t, o, p) = p
  <1>1. (IF o < t[p] THEN "left" ELSE "right") \in Side
    BY DEF Side
  <1> DEFINE q == Append(p, IF o < t[p] THEN "left" ELSE "right")
  <1>2. q \in Seq(Side) /\ Len(q) = Len(p) + 1
    BY <1>1, AppendProperties
  <1> HIDE DEF q
  <1>3. Step(t, o, p) = IF Ended(t, o, p) THEN p ELSE q
    BY DEF Step, Ended, q
  <1> QED
    BY <1>2, <1>3

LEMMA LinkUnfolds ==
    ASSUME NEW t, NEW o
    PROVE  \E g : Descends(g, t, o) /\ Link(t, o) = g[Cardinality(DOMAIN t)]
  <1> DEFINE R == Seq(Side)
             F == [x \in Nat \X R |-> Step(t, o, x[2])]
             G == CHOOSE g : g = Descent(g, t, o)
  <1>1. F \in [Nat \X R -> R] /\ \A d \in Nat, p \in R : F[<<d, p>>] = Step(t, o, p)
    <2>1. \A x \in Nat \X R : x[2] \in R
      OBVIOUS
    <2>2. \A p \in R : Step(t, o, p) \in R
      BY StepDescends
    <2> HIDE DEF R
    <2> QED
      BY <2>1, <2>2
  <1>2. PICK empty \in R : empty = <<>>
    BY EmptySeq
  <1> HIDE DEF F, R
  <1>3. PICK f : Recursion(f, empty, F, R)
    BY <1>1, <1>2, RecursionExists, Zenon
  <1>4. /\ f \in [Nat -> R] /\ f[0] = <<>>
        /\ \A d \in Nat : f[d + 1] = Step(t, o, f[d])
    BY <1>1, <1>2, <1>3 DEF Recursion
  <1>5. ASSUME NEW d \in Nat
        PROVE  f[d] = IF d = 0 THEN <<>> ELSE Step(t, o, f[d - 1])
    <2>1. CASE d = 0
      BY <1>4, <2>1
    <2>2. CASE d # 0
      <3>1. d - 1 \in Nat /\ (d - 1) + 1 = d
        BY <2>2
      <3> QED
        BY <1>4, <2>2, <3>1
    <2> QED
      BY <2>1, <2>2
  <1>6. f = Descent(f, t, o)
    <2>1. f = [d \in Nat |-> f[d]]
      BY <1>4
    <2>2. Descent(f, t, o) = [d \in Nat |-> IF d = 0 THEN <<>> ELSE Step(t, o, f[d - 1])]
      BY DEF Descent, Step
    <2> QED
      BY <1>5, <2>1, <2>2
  <1>7. Link(t, o) = G[Cardinality(DOMAIN t)]
    BY DEF Link, Descent
  <1>8. G = Descent(G, t, o)
    BY <1>6, Zenon
  <1> HIDE DEF G
  <1>9. /\ G = [d \in Nat |-> G[d]] /\ G[0] = <<>>
        /\ \A d \in Nat : G[d] = IF d = 0 THEN <<>> ELSE Step(t, o, G[d - 1])
    <2>1. G = [d \in Nat |-> IF d = 0 THEN <<>> ELSE Step(t, o, G[d - 1])]
      BY <1>8 DEF Descent, Step
    <2> QED
      BY <2>1
  <1>10. ASSUME NEW d \in Nat PROVE G[d + 1] = Step(t, o, G[d])
    <2>1. d + 1 \in Nat /\ d + 1 # 0 /\ (d + 1) - 1 = d
      OBVIOUS
    <2> QED
      BY <1>9, <2>1
  <1>11. \A d \in Nat : G[d] \in R
    <2> DEFINE P == { d \in Nat : G[d] \in R }
    <2>1. 0 \in P
      BY <1>2, <1>9
    <2>2. ASSUME NEW d \in Nat, d \in P PROVE d + 1 \in P
      <3>1. G[d] \in Seq(Side)
        BY <2>2 DEF R
      <3>2. G[d + 1] \in R
        BY <1>10, <3>1, StepDescends DEF R
      <3> QED
        BY <3>2
    <2> HIDE DEF P
    <2>3. Nat \subseteq P
      BY <2>1, <2>2, Induction
    <2> QED
      BY <2>3 DEF P
  <1>12. G \in [Nat -> Seq(Side)]
    BY <1>9, <1>11 DEF R
  <1>13. Descends(G, t, o)
    BY <1>9, <1>10, <1>12 DEF Descends
  <1> QED
    BY <1>7, <1>13

(* Once it has ended the walk stays where it is.                           *)
LEMMA DescentStops ==
    ASSUME NEW t, NEW o, NEW g, Descends(g, t, o), NEW d \in Nat, Ended(t, o, g[d]),
           NEW n \in Nat, d <= n
    PROVE  g[n] = g[d]
  <1> DEFINE P == { k \in Nat : g[d + k] = g[d] }
  <1>1. 0 \in P
    OBVIOUS
  <1>2. ASSUME NEW k \in Nat, k \in P PROVE k + 1 \in P
    <2>1. g[d + k] = g[d] /\ d + k \in Nat /\ d + (k + 1) = (d + k) + 1
      BY <1>2
    <2>2. g[(d + k) + 1] = Step(t, o, g[d + k]) /\ g[d + k] \in Seq(Side)
      BY <2>1 DEF Descends
    <2>3. Step(t, o, g[d]) = g[d]
      BY <2>1, <2>2, StepDescends
    <2>4. g[d + (k + 1)] = g[d]
      BY <2>1, <2>2, <2>3
    <2> QED
      BY <2>4
  <1> HIDE DEF P
  <1>3. Nat \subseteq P
    BY <1>1, <1>2, Induction
  <1>4. n - d \in P
    BY <1>3
  <1>5. g[d + (n - d)] = g[d] /\ d + (n - d) = n
    BY <1>4 DEF P
  <1> QED
    BY <1>5

(* A walk of as many steps as the tree has nodes has ended.                *)
LEMMA LinkEnds ==
    ASSUME NEW t, IsFiniteSet(DOMAIN t), NEW o
    PROVE  Ended(t, o, Link(t, o))
  <1>1. PICK g : Descends(g, t, o) /\ Link(t, o) = g[Cardinality(DOMAIN t)]
    BY LinkUnfolds
  <1>2. PICK n \in Nat : n = Cardinality(DOMAIN t)
    BY FS_CardinalityType
  <1> SUFFICES ASSUME ~Ended(t, o, g[n]) PROVE FALSE
    BY <1>1, <1>2
  <1>3. ASSUME NEW d \in 0 .. n PROVE ~Ended(t, o, g[d])
    <2>1. d \in Nat /\ d <= n
      OBVIOUS
    <2> QED
      BY <1>1, <2>1, DescentStops
  <1>4. \A d \in 0 .. n : g[d] \in DOMAIN t
    BY <1>3 DEF Ended
  <1> DEFINE P == { d \in Nat : d <= n => Len(g[d]) = d }
  <1>5. 0 \in P
    <2>1. Len(<<>>) = 0
      OBVIOUS
    <2> QED
      BY <1>1, <2>1 DEF Descends
  <1>6. ASSUME NEW d \in Nat, d \in P PROVE d + 1 \in P
    <2> SUFFICES ASSUME d + 1 <= n PROVE Len(g[d + 1]) = d + 1
      OBVIOUS
    <2>1. d \in 0 .. n /\ Len(g[d]) = d
      BY <1>6
    <2>2. ~Ended(t, o, g[d])
      BY <1>3, <2>1
    <2>3. g[d + 1] = Step(t, o, g[d]) /\ g[d] \in Seq(Side)
      BY <1>1 DEF Descends
    <2> QED
      BY <2>1, <2>2, <2>3, StepDescends
  <1> HIDE DEF P
  <1>7. Nat \subseteq P
    BY <1>5, <1>6, Induction
  <1>8. \A d \in 0 .. n : Len(g[d]) = d
    BY <1>7 DEF P
  <1> DEFINE f == [d \in 0 .. n |-> g[d]]
  <1>9. f \in [0 .. n -> DOMAIN t]
    BY <1>4
  <1>10. IsFiniteSet(0 .. n) /\ Cardinality(0 .. n) = n + 1
    BY FS_Interval
  <1>11. Cardinality(DOMAIN t) < Cardinality(0 .. n)
    BY <1>2, <1>10
  <1>12. \A d \in 0 .. n : f[d] = g[d]
    OBVIOUS
  <1> HIDE DEF f
  <1>13. PICK x \in 0 .. n, y \in 0 .. n : x # y /\ f[x] = f[y]
    <2> DEFINE S == 0 .. n
               T == DOMAIN t
    <2>1. IsFiniteSet(S) /\ IsFiniteSet(T) /\ f \in [S -> T] /\ Cardinality(T) < Cardinality(S)
      BY <1>9, <1>10, <1>11
    <2> HIDE DEF S, T
    <2>2. \E x, y \in S : x # y /\ f[x] = f[y]
      BY <2>1, FS_PigeonHole
    <2> QED
      BY <2>2 DEF S
  <1>14. g[x] = g[y]
    BY <1>12, <1>13
  <1> QED
    BY <1>8, <1>13, <1>14

(* A larger tree in which the walk's end holds the object leads there too. *)
LEMMA LinkStays ==
    ASSUME NEW t, IsFiniteSet(DOMAIN t), NEW u, IsFiniteSet(DOMAIN u), NEW o,
           DOMAIN t \subseteq DOMAIN u, \A p \in DOMAIN t : u[p] = t[p],
           Link(t, o) \in DOMAIN u, u[Link(t, o)] = o
    PROVE  Link(u, o) = Link(t, o)
  <1>1. PICK g : Descends(g, t, o) /\ Link(t, o) = g[Cardinality(DOMAIN t)]
    BY LinkUnfolds
  <1>2. PICK h : Descends(h, u, o) /\ Link(u, o) = h[Cardinality(DOMAIN u)]
    BY LinkUnfolds
  <1>3. PICK m \in Nat, n \in Nat : m = Cardinality(DOMAIN t) /\ n = Cardinality(DOMAIN u)
    BY FS_CardinalityType
  <1>4. m <= n
    BY <1>3, FS_Subset
  <1> DEFINE P == { d \in Nat : d <= m => h[d] = g[d] }
  <1>5. 0 \in P
    BY <1>1, <1>2 DEF Descends
  <1>6. ASSUME NEW d \in Nat, d \in P PROVE d + 1 \in P
    <2> SUFFICES ASSUME d + 1 <= m PROVE h[d + 1] = g[d + 1]
      OBVIOUS
    <2>1. h[d] = g[d] /\ d <= m
      BY <1>6
    <2>2. h[d + 1] = Step(u, o, g[d]) /\ g[d + 1] = Step(t, o, g[d])
      BY <1>1, <1>2, <2>1 DEF Descends
    <2>3. CASE g[d] \in DOMAIN t
      <3>1. g[d] \in DOMAIN u /\ u[g[d]] = t[g[d]]
        BY <2>3
      <3> QED
        BY <2>2, <2>3, <3>1 DEF Step
    <2>4. CASE g[d] \notin DOMAIN t
      <3>1. Ended(t, o, g[d])
        BY <2>4 DEF Ended
      <3>2. g[m] = g[d]
        BY <1>1, <2>1, <3>1, DescentStops
      <3>3. g[d] \in DOMAIN u /\ u[g[d]] = o
        BY <1>1, <1>3, <3>2
      <3> QED
        BY <2>2, <2>4, <3>3 DEF Step
    <2> QED
      BY <2>3, <2>4
  <1> HIDE DEF P
  <1>7. Nat \subseteq P
    BY <1>5, <1>6, Induction
  <1>8. h[m] = Link(t, o)
    BY <1>1, <1>3, <1>7 DEF P
  <1>9. Ended(u, o, h[m])
    BY <1>8 DEF Ended
  <1>10. h[n] = h[m]
    BY <1>2, <1>4, <1>9, DescentStops
  <1> QED
    BY <1>2, <1>3, <1>8, <1>10
--------------------------------------------------------------------------------
(* The object of an address is found in the tree; the objects of the list. *)
Found(o) == Link(tree, o) \in DOMAIN tree /\ tree[Link(tree, o)] = o
Collected(o) == \E k \in DOMAIN list : list[k] = o

(* An entry names a register, or an object that a lookup finds.            *)
Sound(e) ==
    /\ e.names # Null
    /\ e.names[1] = "object" => e.names = <<"object", e.names[2]>> /\ Found(e.names[2])

LEMMA SoundEntriesMeet ==
    ASSUME NEW e, Sound(e)
    PROVE  /\ ListHead(e) = e.names
           /\ (IF e.names[1] = "object" THEN Lookup(e.names[2]) ELSE e.names) = e.names
  BY DEF Sound, Found, ListHead, Lookup

(* The objects that the entries of an instruction have to name.            *)
Named(i, o) ==
    IF Direct(code[i]) THEN o = code[i].object ELSE Collected(o) /\ MayTouch(code[i], o)

Looked(i) ==
    /\ list \in Seq(Objects)
    /\ \A o : Collected(o) => Found(o)
    /\ Direct(code[i]) => Found(code[i].object)

LEMMA ExplicitEntriesAreSound ==
    ASSUME NEW i \in Positions, code[i] \in Instruction, NEW role \in Role
    PROVE  LET es == ExplicitEntries(i, role)
               n  == Cardinality(Accessed(code[i], role))
           IN  /\ n \in Nat /\ es \in Seq({ es[k] : k \in 1 .. n }) /\ Len(es) = n
               /\ \A k \in 1 .. n : es[k].instr = i /\ Sound(es[k])
  <1> DEFINE s == code[i].operands
             T == Accessed(code[i], role)
             accessed == Chosen(s, T)
             n == Cardinality(T)
             es == ExplicitEntries(i, role)
  <1>1. s \in Seq(Operand) /\ T \in SUBSET (1 .. Len(s))
    <2>1. s \in Seq(Operand)
      BY DEF Instruction
    <2>2. DOMAIN s = 1 .. Len(s)
      BY <2>1
    <2> QED
      BY <2>1, <2>2 DEF Accessed
  <1> HIDE DEF s, T
  <1>2. /\ n \in Nat /\ accessed \in Seq(Operand) /\ Len(accessed) = n
        /\ \E places : /\ Enumerates(places, T, n)
                       /\ \A k \in 1 .. n : accessed[k] = s[places[k]]
    BY <1>1, ChosenPlaces
  <1>3. es = [k \in DOMAIN accessed |->
                [instr |-> i, implicit |-> FALSE, names |-> <<accessed[k].class, accessed[k].reg>>]]
    BY DEF ExplicitEntries, s, T
  <1> HIDE DEF n, accessed, es
  <1>4. PICK places : Enumerates(places, T, n) /\ \A k \in 1 .. n : accessed[k] = s[places[k]]
    BY <1>2
  <1>5. DOMAIN accessed = 1 .. n
    BY <1>2
  <1>6. ASSUME NEW k \in 1 .. n PROVE accessed[k].class \in {"GPR", "FPR", "VR"}
    <2>1. places[k] \in T /\ accessed[k] = s[places[k]]
      BY <1>4 DEF Enumerates
    <2>2. IsEntry(accessed[k]) /\ accessed[k] \in Operand
      BY <1>2, <2>1 DEF Accessed, T, s
    <2> QED
      BY <2>2 DEF IsEntry, Operand, Class
  <1>7. ASSUME NEW k \in 1 .. n PROVE es[k].instr = i /\ Sound(es[k])
    <2> DEFINE c == accessed[k].class
               r == accessed[k].reg
    <2>1. es[k] = [instr |-> i, implicit |-> FALSE, names |-> <<c, r>>]
      BY <1>3, <1>5
    <2>2. c # "object"
      BY <1>6
    <2> HIDE DEF c, r
    <2>3. es[k].instr = i /\ es[k].names = <<c, r>>
      BY <2>1
    <2>4. <<c, r>> # Null /\ <<c, r>>[1] = c
      <3>1. Len(<<c, r>>) = 2 /\ Len(Null) = 1
        BY DEF Null
      <3> QED
        BY <3>1
    <2> QED
      BY <2>2, <2>3, <2>4 DEF Sound
  <1>8. es \in Seq({ es[k] : k \in 1 .. n }) /\ Len(es) = n
    <2>1. es \in [1 .. n -> { es[k] : k \in 1 .. n }]
      BY <1>3, <1>5
    <2> QED
      BY <1>2, <2>1, SeqDef, LenProperties
  <1> QED
    BY <1>2, <1>7, <1>8 DEF es, n, T

LEMMA ImplicitEntriesAreSound ==
    ASSUME NEW i \in Positions, code[i] \in Instruction, NEW role \in Role,
           mode # 0 => Looked(i)
    PROVE  LET es == ImplicitEntries(i, role)
               m  == IF mode = 0 \/ role \notin MemoryRoles(code[i]) THEN 0
                     ELSE IF Direct(code[i]) THEN 1 ELSE Cardinality(Touched(code[i]))
           IN  /\ m \in Nat /\ es \in Seq({ es[k] : k \in 1 .. m }) /\ Len(es) = m
               /\ \A k \in 1 .. m : es[k].instr = i /\ Sound(es[k])
               /\ mode # 0 /\ role \in MemoryRoles(code[i]) =>
                    \A o : Named(i, o) => \E k \in 1 .. m : es[k].names = <<"object", o>>
  <1> DEFINE none == mode = 0 \/ role \notin MemoryRoles(code[i])
             direct == Direct(code[i])
             T == Touched(code[i])
             objects == IF none THEN <<>> ELSE IF direct THEN <<code[i].object>> ELSE Chosen(list, T)
             m == IF none THEN 0 ELSE IF direct THEN 1 ELSE Cardinality(T)
             es == ImplicitEntries(i, role)
  <1>1. es = [k \in DOMAIN objects |->
                [instr |-> i, implicit |-> ~direct, names |-> <<"object", objects[k]>>]]
    BY DEF ImplicitEntries
  <1>2. /\ m \in Nat /\ DOMAIN objects = 1 .. m
        /\ \A k \in 1 .. m : Found(objects[k])
        /\ ~none => \A o : Named(i, o) => \E k \in 1 .. m : objects[k] = o
    <2>1. CASE none
      <3>1. m = 0 /\ objects = <<>> /\ DOMAIN <<>> = 1 .. 0
        BY <2>1
      <3> HIDE DEF none, direct, m, objects
      <3> QED
        BY <2>1, <3>1
    <2>2. CASE ~none /\ direct
      <3>1. m = 1 /\ objects = <<code[i].object>>
        BY <2>2
      <3>2. Found(code[i].object)
        BY <2>2 DEF Looked
      <3> HIDE DEF m, objects
      <3>3. DOMAIN objects = 1 .. 1 /\ objects[1] = code[i].object
        BY <3>1
      <3>4. \A k \in 1 .. m : k = 1
        BY <3>1
      <3>5. 1 \in 1 .. m
        BY <3>1
      <3> QED
        BY <2>2, <3>1, <3>2, <3>3, <3>4, <3>5 DEF Named
    <2>3. CASE ~none /\ ~direct
      <3>1. m = Cardinality(T) /\ objects = Chosen(list, T)
        BY <2>3
      <3>2. Looked(i)
        BY <2>3
      <3>3. list \in Seq(Objects) /\ DOMAIN list = 1 .. Len(list)
        BY <3>2 DEF Looked
      <3>4. T \in SUBSET (1 .. Len(list))
        BY <3>3 DEF Touched
      <3> HIDE DEF T, m, objects, none, direct
      <3>5. /\ m \in Nat /\ objects \in Seq(Objects) /\ Len(objects) = m
            /\ \E places : /\ Enumerates(places, T, m)
                           /\ \A k \in 1 .. m : objects[k] = list[places[k]]
        BY <3>1, <3>3, <3>4, ChosenPlaces
      <3>6. PICK places : Enumerates(places, T, m) /\ \A k \in 1 .. m : objects[k] = list[places[k]]
        BY <3>5
      <3>7. /\ \A k \in 1 .. m : places[k] \in DOMAIN list
            /\ \A t \in T : \E k \in 1 .. m : places[k] = t
        BY <3>3, <3>4, <3>6 DEF Enumerates
      <3>8. ASSUME NEW k \in 1 .. m PROVE Found(objects[k])
        BY <3>2, <3>6, <3>7 DEF Looked, Collected
      <3>9. ASSUME NEW o, Named(i, o) PROVE \E k \in 1 .. m : objects[k] = o
        <4>1. PICK x \in DOMAIN list : list[x] = o /\ MayTouch(code[i], o)
          BY <2>3, <3>9 DEF Named, Collected, direct
        <4>2. x \in T
          BY <4>1 DEF T, Touched
        <4>3. PICK k \in 1 .. m : places[k] = x
          BY <3>7, <4>2
        <4> QED
          BY <3>6, <4>1, <4>3
      <3>10. DOMAIN objects = 1 .. m
        BY <3>5
      <3> QED
        BY <3>5, <3>8, <3>9, <3>10
    <2> QED
      BY <2>1, <2>2, <2>3
  <1> HIDE DEF objects, m, es
  <1>3. ASSUME NEW k \in 1 .. m
        PROVE  es[k].instr = i /\ es[k].names = <<"object", objects[k]>> /\ Sound(es[k])
    <2> DEFINE o == objects[k]
    <2>1. es[k] = [instr |-> i, implicit |-> ~direct, names |-> <<"object", o>>]
      BY <1>1, <1>2
    <2>2. Found(o)
      BY <1>2
    <2> HIDE DEF o, direct
    <2>3. es[k].instr = i /\ es[k].names = <<"object", o>>
      BY <2>1
    <2>4. <<"object", o>> # Null /\ <<"object", o>>[1] = "object" /\ <<"object", o>>[2] = o
      <3>1. Len(<<"object", o>>) = 2 /\ Len(Null) = 1
        BY DEF Null
      <3> QED
        BY <3>1
    <2> QED
      BY <2>2, <2>3, <2>4 DEF Sound, o
  <1>4. es \in Seq({ es[k] : k \in 1 .. m }) /\ Len(es) = m
    <2>1. es \in [1 .. m -> { es[k] : k \in 1 .. m }]
      BY <1>1, <1>2
    <2> QED
      BY <1>2, <2>1, SeqDef, LenProperties
  <1>5. ~none => \A o : Named(i, o) => \E k \in 1 .. m : es[k].names = <<"object", o>>
    BY <1>2, <1>3
  <1> QED
    BY <1>2, <1>3, <1>4, <1>5 DEF es, m

(* The entries of an instruction are as many as the census counts.         *)
LEMMA EntriesAreSound ==
    ASSUME NEW i \in Positions, code[i] \in Instruction, NEW role \in Role,
           mode # 0 => Looked(i)
    PROVE  LET es == Entries(i, role)
               n  == CensusCount(code[i], role)
           IN  /\ n \in Nat /\ DOMAIN es = 1 .. n /\ Len(es) = n
               /\ \A k \in 1 .. n : es[k].instr = i /\ Sound(es[k])
               /\ mode # 0 /\ role \in MemoryRoles(code[i]) =>
                    \A o : Named(i, o) => \E k \in 1 .. n : es[k].names = <<"object", o>>
  <1> DEFINE p == ExplicitEntries(i, role)
             a == Cardinality(Accessed(code[i], role))
             q == ImplicitEntries(i, role)
             b == IF mode = 0 \/ role \notin MemoryRoles(code[i]) THEN 0
                  ELSE IF Direct(code[i]) THEN 1 ELSE Cardinality(Touched(code[i]))
             es == Entries(i, role)
             n == CensusCount(code[i], role)
             S == { p[k] : k \in 1 .. a } \cup { q[k] : k \in 1 .. b }
  <1>1. /\ a \in Nat /\ p \in Seq({ p[k] : k \in 1 .. a }) /\ Len(p) = a
        /\ \A k \in 1 .. a : p[k].instr = i /\ Sound(p[k])
    BY ExplicitEntriesAreSound
  <1>2. /\ b \in Nat /\ q \in Seq({ q[k] : k \in 1 .. b }) /\ Len(q) = b
        /\ \A k \in 1 .. b : q[k].instr = i /\ Sound(q[k])
        /\ mode # 0 /\ role \in MemoryRoles(code[i]) =>
             \A o : Named(i, o) => \E k \in 1 .. b : q[k].names = <<"object", o>>
    BY ImplicitEntriesAreSound
  <1>3. es = p \o q /\ n = a + b
    BY DEF Entries, CensusCount
  <1> HIDE DEF p, q, a, b, es, n
  <1>4. p \in Seq(S) /\ q \in Seq(S)
    BY <1>1, <1>2
  <1> HIDE DEF S
  <1>5. /\ es \in Seq(S) /\ Len(es) = a + b
        /\ \A k \in 1 .. a + b : es[k] = IF k <= a THEN p[k] ELSE q[k - a]
    BY <1>1, <1>2, <1>3, <1>4, ConcatProperties
  <1>6. DOMAIN es = 1 .. n /\ Len(es) = n /\ n \in Nat
    BY <1>1, <1>2, <1>3, <1>5
  <1>7. \A k \in 1 .. a + b : k \in 1 .. a \/ (~(k <= a) /\ k - a \in 1 .. b)
    BY <1>1, <1>2
  <1>8. ASSUME NEW k \in 1 .. n PROVE es[k].instr = i /\ Sound(es[k])
    BY <1>1, <1>2, <1>3, <1>5, <1>7
  <1>9. \A k \in 1 .. b : k + a \in 1 .. n /\ es[k + a] = q[k]
    <2> SUFFICES ASSUME NEW k \in 1 .. b PROVE k + a \in 1 .. n /\ es[k + a] = q[k]
      OBVIOUS
    <2>1. k + a \in 1 .. a + b /\ ~(k + a <= a) /\ (k + a) - a = k
      BY <1>1, <1>2
    <2> QED
      BY <1>3, <1>5, <2>1
  <1>10. ASSUME mode # 0 /\ role \in MemoryRoles(code[i]), NEW o, Named(i, o)
         PROVE  \E k \in 1 .. n : es[k].names = <<"object", o>>
    <2>1. PICK k \in 1 .. b : q[k].names = <<"object", o>>
      BY <1>2, <1>10
    <2> QED
      BY <1>9, <2>1
  <1> QED
    BY <1>6, <1>8, <1>10 DEF es, n
--------------------------------------------------------------------------------
(***************************************************************************)
(* The invariant of the index.  The tree: what has been collected is found *)
(* in it.  The numbers: each instruction has as many as the census counts, *)
(* below those of the later ones.  The entries: those of the instructions  *)
(* the builder has passed, at their numbers.  The links: every list holds  *)
(* the entries of one name, each once.                                     *)
(***************************************************************************)
Coded ==
    /\ code \in Seq(Instruction) /\ code # <<>> /\ at \in Positions /\ mode \in 0 .. 1
    /\ indexPc \in {"begin", "collect", "census", "build", "indexed"}
    /\ indexPc = "begin" => at = 1
    /\ DOMAIN first = Positions

TreeInv ==
    mode = 1 /\ indexPc # "begin" =>
        /\ IsFiniteSet(DOMAIN tree) /\ list \in Seq(Objects)
        /\ \A p \in DOMAIN tree : Found(tree[p]) /\ Collected(tree[p])
        /\ \A o : Collected(o) => Found(o)
        /\ \A i \in Positions :
              Direct(code[i]) /\ (indexPc = "collect" => i < at) => Collected(code[i].object)

Numbered == { i \in Kept : \/ indexPc \in {"build", "indexed"}
                           \/ indexPc = "census" /\ i < at }
Placed == { i \in Kept : indexPc = "indexed" \/ (indexPc = "build" /\ i < at) }
Amount(i, role) == CensusCount(code[i], role)
Numbers(i, role) == first[i][role] .. first[i][role] + Amount(i, role) - 1

NumberInv ==
    \A role \in Role :
        /\ count[role] \in Nat
        /\ \A i \in Numbered : /\ first[i][role] \in Nat
                               /\ first[i][role] + Amount(i, role) <= count[role]
        /\ \A i, j \in Numbered : i < j => first[i][role] + Amount(i, role) <= first[j][role]
        /\ \A x \in 0 .. count[role] - 1 : \E i \in Numbered : x \in Numbers(i, role)

EntryInv ==
    \A role \in Role :
        /\ \A k : k \in DOMAIN entry[role] <=> \E i \in Placed : k \in Numbers(i, role)
        /\ \A i \in Placed : \A k \in Numbers(i, role) :
              entry[role][k].instr = i /\ Sound(entry[role][k])
        /\ \A i \in Placed : mode # 0 /\ role \in MemoryRoles(code[i]) =>
              \A o : Named(i, o) =>
                \E k \in Numbers(i, role) : entry[role][k].names = <<"object", o>>

WithName(role, h) == { k \in DOMAIN entry[role] : entry[role][k].names = h }

LinkInv ==
    \A role \in Role :
        /\ Null \notin DOMAIN links[role]
        /\ \A h \in DOMAIN links[role] : Lists(links[role][h], WithName(role, h))
        /\ \A k \in DOMAIN entry[role] : entry[role][k].names \in DOMAIN links[role]

IndexInv == Coded /\ TreeInv /\ NumberInv /\ EntryInv /\ LinkInv

(* What is known of an instruction when the tree is complete.              *)
LEMMA TreeIsLooked ==
    ASSUME Coded, TreeInv, indexPc \notin {"begin", "collect"}, NEW i \in Positions
    PROVE  mode # 0 => Looked(i)
  <1> SUFFICES ASSUME mode # 0 PROVE Looked(i)
    OBVIOUS
  <1>1. mode = 1
    BY DEF Coded
  <1> QED
    BY <1>1 DEF TreeInv, Looked

LEMMA AmountIsNatural ==
    ASSUME Coded, TreeInv, indexPc \notin {"begin", "collect"}, NEW i \in Positions, NEW role \in Role
    PROVE  Amount(i, role) \in Nat
  <1>1. code[i] \in Instruction
    BY DEF Coded, Positions
  <1>2. mode # 0 => Looked(i)
    BY TreeIsLooked
  <1> QED
    BY <1>1, <1>2, EntriesAreSound DEF Amount

LEMMA IndexStarts == IndexInit => IndexInv
  <1> SUFFICES ASSUME IndexInit PROVE IndexInv
    OBVIOUS
  <1>1. /\ code \in Seq(Instruction) /\ code # <<>> /\ mode \in 0 .. 1 /\ indexPc = "begin" /\ at = 1
        /\ DOMAIN first = Positions /\ count = [use |-> 0, def |-> 0]
        /\ entry = [use |-> Nothing, def |-> Nothing] /\ links = [use |-> Nothing, def |-> Nothing]
    BY CodeAssumption DEF IndexInit
  <1>2. at \in Positions
    <2>1. Len(code) \in Nat /\ Len(code) # 0
      BY <1>1, EmptySeq
    <2> QED
      BY <1>1, <2>1 DEF Positions
  <1>3. Coded
    BY <1>1, <1>2 DEF Coded
  <1>4. TreeInv
    BY <1>1 DEF TreeInv
  <1>5. Numbered = {} /\ Placed = {}
    BY <1>1 DEF Numbered, Placed
  <1>6. \A role \in Role : count[role] = 0 /\ DOMAIN entry[role] = {} /\ DOMAIN links[role] = {}
    BY <1>1 DEF Role, Nothing
  <1>7. NumberInv
    BY <1>5, <1>6 DEF NumberInv
  <1>8. EntryInv
    BY <1>5, <1>6 DEF EntryInv
  <1>9. LinkInv
    BY <1>6 DEF LinkInv
  <1> QED
    BY <1>3, <1>4, <1>7, <1>8, <1>9 DEF IndexInv

(* Where a walk over the code has got to.                                  *)
LEMMA Advancing ==
    ASSUME Coded, NEW next, Advance(next), next # indexPc,
           next \in {"begin", "collect", "census", "build", "indexed"}
    PROVE  /\ at' \in Positions /\ indexPc' \in {indexPc, next}
           /\ \A i \in Positions : (indexPc' = indexPc => i < at') <=> i <= at
           /\ indexPc' = next => \A i \in Positions : i <= at
           /\ indexPc' = next => at' = 1
           /\ indexPc' = indexPc => at' = at + 1
  <1>1. Len(code) \in Nat /\ at \in 1 .. Len(code)
    BY DEF Coded, Positions
  <1>2. CASE at = Len(code)
    BY <1>1, <1>2 DEF Advance, Positions
  <1>3. CASE at # Len(code)
    <2>1. at' = at + 1 /\ indexPc' = indexPc
      BY <1>3 DEF Advance
    <2> QED
      BY <1>1, <1>3, <2>1 DEF Positions
  <1> QED
    BY <1>2, <1>3

LEMMA BeginKeeps == IndexInv /\ Begin => IndexInv'
  <1> SUFFICES ASSUME IndexInv, Begin PROVE IndexInv'
    OBVIOUS
  <1>0. Coded /\ TreeInv /\ NumberInv /\ EntryInv /\ LinkInv
    BY DEF IndexInv
  <1>1. /\ indexPc = "begin" /\ at = 1 /\ at' = at /\ code' = code /\ mode' = mode /\ first' = first
        /\ count' = count /\ entry' = entry /\ links' = links
        /\ indexPc' = IF mode = 0 THEN "census" ELSE "collect"
        /\ mode # 0 => tree' = Nothing /\ list' = <<>>
    BY <1>0 DEF Begin, Coded
  <1>2. Positions' = Positions /\ Kept' = Kept
    BY <1>1 DEF Positions, Kept
  <1>3. Coded'
    BY <1>0, <1>1, <1>2 DEF Coded
  <1>4. \A i \in Positions : ~(i < at)
    BY <1>1 DEF Positions
  <1>5. Numbered = {} /\ Placed = {} /\ Numbered' = {} /\ Placed' = {}
    BY <1>1, <1>2, <1>4 DEF Numbered, Placed, Kept
  <1>6. TreeInv'
    <2> SUFFICES ASSUME mode' = 1
                 PROVE  /\ IsFiniteSet(DOMAIN tree') /\ list' \in Seq(Objects)
                        /\ \A p \in DOMAIN tree' : FALSE
                        /\ \A o : ~Collected(o)'
                        /\ \A i \in Positions' : ~(indexPc' = "collect" => i < at')
      BY Zenon DEF TreeInv
    <2>1. tree' = Nothing /\ list' = <<>> /\ indexPc' = "collect"
      BY <1>1
    <2>2. DOMAIN tree' = {}
      BY <2>1 DEF Nothing
    <2>3. IsFiniteSet(DOMAIN tree')
      BY <2>2, FS_EmptySet
    <2>4. list' \in Seq(Objects) /\ \A k \in DOMAIN list' : FALSE
      BY <2>1
    <2>5. \A o : ~Collected(o)'
      BY <2>4 DEF Collected
    <2> QED
      BY <1>1, <1>2, <1>4, <2>1, <2>2, <2>3, <2>4, <2>5
  <1>7. NumberInv'
    BY <1>0, <1>1, <1>5 DEF NumberInv
  <1>8. EntryInv'
    BY <1>0, <1>1, <1>5 DEF EntryInv
  <1>9. LinkInv'
    BY <1>0, <1>1 DEF LinkInv, WithName
  <1> QED
    BY <1>3, <1>6, <1>7, <1>8, <1>9 DEF IndexInv
--------------------------------------------------------------------------------
(* An object put into the tree is found from then on, as are the others.   *)
LEMMA InsertFinds ==
    ASSUME NEW o \in Objects, Insert(o), IsFiniteSet(DOMAIN tree), list \in Seq(Objects),
           \A p \in DOMAIN tree : Found(tree[p]) /\ Collected(tree[p]),
           \A x : Collected(x) => Found(x)
    PROVE  /\ IsFiniteSet(DOMAIN tree') /\ list' \in Seq(Objects)
           /\ (\A p \in DOMAIN tree : Found(tree[p]) /\ Collected(tree[p]))'
           /\ \A x : Collected(x)' => Found(x)'
           /\ \A x : Collected(x) \/ x = o => Collected(x)'
  <1> DEFINE link == Link(tree, o)
  <1>1. Ended(tree, o, link)
    BY LinkEnds
  <1>2. CASE link \in DOMAIN tree
    <2>1. tree' = tree /\ list' = list
      BY <1>2 DEF Insert
    <2>2. tree[link] = o
      BY <1>1, <1>2 DEF Ended
    <2>3. Collected(o)
      BY <1>2, <2>2
    <2>4. \A x : (Collected(x)' <=> Collected(x)) /\ (Found(x)' <=> Found(x))
      BY <2>1 DEF Collected, Found
    <2> QED
      BY <2>1, <2>3, <2>4
  <1>3. CASE link \notin DOMAIN tree
    <2>1. /\ tree' = [p \in DOMAIN tree \cup {link} |-> IF p = link THEN o ELSE tree[p]]
          /\ list' = <<o>> \o list
      BY <1>3 DEF Insert
    <2> DEFINE new == tree'
               now == list'
    <2> HIDE DEF link
    <2>2. /\ DOMAIN new = DOMAIN tree \cup {link} /\ new[link] = o
          /\ \A p \in DOMAIN tree : new[p] = tree[p]
      BY <1>3, <2>1
    <2>3. /\ now \in Seq(Objects) /\ Len(now) = Len(list) + 1 /\ now[1] = o
          /\ \A k \in 1 .. Len(list) : now[k + 1] = list[k]
          /\ \A k \in 2 .. Len(list) + 1 : now[k] = list[k - 1]
      BY <2>1, PushedSequence
    <2>4. IsFiniteSet(DOMAIN new)
      BY <2>2, FS_AddElement
    <2> HIDE DEF new, now
    <2>5. ASSUME NEW x, Found(x) \/ x = o PROVE Link(new, x) \in DOMAIN new /\ new[Link(new, x)] = x
      <3>1. Link(tree, x) \in DOMAIN new /\ new[Link(tree, x)] = x
        BY <2>2, <2>5 DEF Found, link
      <3>2. Link(new, x) = Link(tree, x)
        BY <2>2, <2>4, <3>1, LinkStays
      <3> QED
        BY <3>1, <3>2
    <2>6. \A x : Found(x) \/ x = o => Found(x)'
      BY <2>5 DEF Found, new
    <2>7. Len(list) \in Nat /\ DOMAIN list = 1 .. Len(list) /\ DOMAIN now = 1 .. Len(list) + 1
      BY <2>3
    <2>8. ASSUME NEW x, Collected(x) \/ x = o PROVE Collected(x)'
      <3>1. CASE x = o
        <4>1. 1 \in DOMAIN now /\ now[1] = x
          BY <2>3, <2>7, <3>1
        <4> QED
          BY <4>1 DEF Collected, now
      <3>2. CASE Collected(x)
        <4>1. PICK k \in DOMAIN list : list[k] = x
          BY <3>2 DEF Collected
        <4>2. k + 1 \in DOMAIN now /\ now[k + 1] = x
          BY <2>3, <2>7, <4>1
        <4> QED
          BY <4>2 DEF Collected, now
      <3> QED
        BY <2>8, <3>1, <3>2
    <2>9. ASSUME NEW x, Collected(x)' PROVE Collected(x) \/ x = o
      <3>1. PICK k \in DOMAIN now : now[k] = x
        BY <2>9 DEF Collected, now
      <3>2. CASE k = 1
        BY <2>3, <3>1, <3>2
      <3>3. CASE k # 1
        <4>1. k \in 2 .. Len(list) + 1 /\ k - 1 \in DOMAIN list
          BY <2>7, <3>1, <3>3
        <4>2. list[k - 1] = x
          BY <2>3, <3>1, <4>1
        <4> QED
          BY <4>1, <4>2 DEF Collected
      <3> QED
        BY <3>2, <3>3
    <2>10. \A p \in DOMAIN new : (Found(new[p]) /\ Collected(new[p])) \/ new[p] = o
      BY <2>2
    <2>11. \A p \in DOMAIN tree' : \A v : v = tree'[p] => Found(v)' /\ Collected(v)'
      BY <2>6, <2>8, <2>10 DEF new
    <2>12. \A x : Collected(x)' => Found(x)'
      BY <2>6, <2>9
    <2>13. \A x : Collected(x) \/ x = o => Collected(x)'
      BY <2>8
    <2>14. IsFiniteSet(DOMAIN tree') /\ list' \in Seq(Objects)
      BY <2>3, <2>4 DEF new, now
    <2>15. (\A p \in DOMAIN tree : Found(tree[p]) /\ Collected(tree[p]))'
      BY <2>11 DEF Found, Collected
    <2> QED
      BY <2>12, <2>13, <2>14, <2>15
  <1> QED
    BY <1>2, <1>3

LEMMA CollectKeeps == IndexInv /\ Collect => IndexInv'
  <1> SUFFICES ASSUME IndexInv, Collect PROVE IndexInv'
    OBVIOUS
  <1>0. Coded /\ TreeInv /\ NumberInv /\ EntryInv /\ LinkInv
    BY DEF IndexInv
  <1>1. /\ indexPc = "collect" /\ code' = code /\ mode' = mode /\ first' = first
        /\ count' = count /\ entry' = entry /\ links' = links /\ Advance("census")
        /\ IF Direct(code[at]) THEN Insert(code[at].object) ELSE UNCHANGED <<tree, list>>
    BY DEF Collect
  <1>2. Positions' = Positions /\ Kept' = Kept
    BY <1>1 DEF Positions, Kept
  <1>3. /\ at' \in Positions /\ indexPc' \in {"collect", "census"}
        /\ \A i \in Positions : (indexPc' = "collect" => i < at') <=> i <= at
        /\ indexPc' = "census" => at' = 1
    BY <1>0, <1>1, Advancing
  <1>4. Coded'
    BY <1>0, <1>1, <1>2, <1>3 DEF Coded
  <1>5. Numbered = {} /\ Placed = {} /\ Numbered' = {} /\ Placed' = {}
    <2>1. \A i \in Positions : ~(i < 1)
      BY DEF Positions
    <2> QED
      BY <1>1, <1>2, <1>3, <2>1 DEF Numbered, Placed, Kept
  <1>6. TreeInv'
    <2> SUFFICES ASSUME mode = 1
                 PROVE  /\ IsFiniteSet(DOMAIN tree') /\ list' \in Seq(Objects)
                        /\ (\A p \in DOMAIN tree : Found(tree[p]) /\ Collected(tree[p]))'
                        /\ \A o : Collected(o)' => Found(o)'
                        /\ \A i \in Positions : \A o :
                              Direct(code[i]) /\ i <= at /\ o = code[i].object => Collected(o)'
      BY <1>1, <1>2, <1>3 DEF TreeInv, Direct, AccessesMemory
    <2>1. /\ IsFiniteSet(DOMAIN tree) /\ list \in Seq(Objects)
          /\ \A p \in DOMAIN tree : Found(tree[p]) /\ Collected(tree[p])
          /\ \A o : Collected(o) => Found(o)
          /\ \A i \in Positions : Direct(code[i]) /\ i < at => Collected(code[i].object)
      BY <1>0, <1>1 DEF TreeInv
    <2>2. \A i \in Positions : i <= at => i < at \/ i = at
      BY <1>0 DEF Coded, Positions
    <2>3. CASE Direct(code[at])
      <3>1. code[at].object \in Objects
        <4>1. code[at] \in Instruction
          BY <1>0 DEF Coded, Positions
        <4> QED
          BY <4>1 DEF Instruction
      <3>2. PICK o \in Objects : o = code[at].object
        BY <3>1
      <3>3. Insert(o)
        BY <1>1, <2>3, <3>2
      <3>4. /\ IsFiniteSet(DOMAIN tree') /\ list' \in Seq(Objects)
            /\ (\A p \in DOMAIN tree : Found(tree[p]) /\ Collected(tree[p]))'
            /\ \A x : Collected(x)' => Found(x)'
            /\ \A x : Collected(x) \/ x = o => Collected(x)'
        BY <2>1, <3>3, InsertFinds
      <3> QED
        BY <2>1, <2>2, <3>2, <3>4
    <2>4. CASE ~Direct(code[at])
      <3>1. tree' = tree /\ list' = list
        BY <1>1, <2>4
      <3>2. \A x : (Collected(x)' <=> Collected(x)) /\ (Found(x)' <=> Found(x))
        BY <3>1 DEF Collected, Found
      <3> QED
        BY <2>1, <2>2, <2>4, <3>1, <3>2
    <2> QED
      BY <2>3, <2>4
  <1>7. NumberInv'
    BY <1>0, <1>1, <1>5 DEF NumberInv
  <1>8. EntryInv'
    BY <1>0, <1>1, <1>5 DEF EntryInv
  <1>9. LinkInv'
    BY <1>0, <1>1 DEF LinkInv, WithName
  <1> QED
    BY <1>4, <1>6, <1>7, <1>8, <1>9 DEF IndexInv
--------------------------------------------------------------------------------
LEMMA CensusKeeps == IndexInv /\ Census => IndexInv'
  <1> SUFFICES ASSUME IndexInv, Census PROVE IndexInv'
    OBVIOUS
  <1>0. Coded /\ TreeInv /\ NumberInv /\ EntryInv /\ LinkInv
    BY DEF IndexInv
  <1>1. /\ indexPc = "census" /\ code' = code /\ mode' = mode /\ tree' = tree /\ list' = list
        /\ entry' = entry /\ links' = links /\ Advance("build")
        /\ IF code[at].skip THEN first' = first /\ count' = count
           ELSE /\ first' = [first EXCEPT ![at] = count]
                /\ count' = [role \in Role |-> count[role] + Amount(at, role)]
    BY DEF Census, Amount
  <1>2. Positions' = Positions /\ Kept' = Kept
    BY <1>1 DEF Positions, Kept
  <1>3. /\ at' \in Positions /\ indexPc' \in {"census", "build"}
        /\ \A i \in Positions : (indexPc' = "census" => i < at') <=> i <= at
        /\ indexPc' = "build" => \A i \in Positions : i <= at
        /\ indexPc' = "build" => at' = 1
    BY <1>0, <1>1, Advancing
  <1>4. Coded'
    BY <1>0, <1>1, <1>2, <1>3 DEF Coded
  <1>5. TreeInv'
    <2>1. \A o : (Collected(o)' <=> Collected(o)) /\ (Found(o)' <=> Found(o))
      BY <1>1 DEF Collected, Found
    <2>2. indexPc # "collect" /\ indexPc # "begin" /\ indexPc' # "collect" /\ indexPc' # "begin"
      BY <1>1, <1>3
    <2> QED
      BY <1>0, <1>1, <1>2, <2>1, <2>2 DEF TreeInv, Direct, AccessesMemory, Collected, Found
  <1>6. Placed = {} /\ Placed' = {}
    <2>1. \A i \in Positions : ~(i < 1)
      BY DEF Positions
    <2> QED
      BY <1>1, <1>2, <1>3, <2>1 DEF Placed, Kept
  <1>7. EntryInv'
    BY <1>0, <1>1, <1>6 DEF EntryInv
  <1>8. LinkInv'
    BY <1>0, <1>1 DEF LinkInv, WithName
  <1>9. /\ \A i : i \in Numbered <=> i \in Kept /\ i < at
        /\ \A i : i \in Numbered' <=> i \in Kept /\ i <= at
    BY <1>1, <1>2, <1>3 DEF Numbered, Kept
  <1>10. \A i \in Positions, role \in Role : Amount(i, role) \in Nat
    BY <1>0, <1>1, AmountIsNatural
  <1>11. \A i, role : Amount(i, role)' = Amount(i, role)
    BY <1>1 DEF Amount, CensusCount, Touched
  <1>12. at \in Positions /\ at \in Int /\ Kept \subseteq Positions /\ \A i \in Positions : i \in Int
    BY <1>0 DEF Coded, Positions, Kept
  <1>13. NumberInv'
    <2>1. CASE code[at].skip
      <3>1. Numbered' = Numbered
        <4>1. \A i \in Kept : i # at
          BY <2>1 DEF Kept
        <4>2. \A i \in Kept : i < at <=> i <= at
          BY <1>12, <4>1
        <4> QED
          BY <1>9, <4>2
      <3>2. \A i, role : Numbers(i, role)' = Numbers(i, role)
        BY <1>1, <1>11, <2>1 DEF Numbers
      <3> QED
        BY <1>0, <1>1, <1>11, <2>1, <3>1, <3>2 DEF NumberInv
    <2>2. CASE ~code[at].skip
      <3>1. /\ \A i : i \in Numbered' <=> i \in Numbered \/ i = at
            /\ \A i \in Numbered : i < at /\ i \in Positions /\ i # at
        <4>1. at \in Kept
          BY <1>12, <2>2 DEF Kept
        <4>2. \A i \in Kept : i <= at <=> i < at \/ i = at
          BY <1>12
        <4>3. \A i \in Kept : i < at => i # at
          BY <1>12
        <4> QED
          BY <1>9, <1>12, <4>1, <4>2, <4>3
      <3>2. \A i \in Numbered : first'[i] = first[i]
        BY <1>0, <1>1, <2>2, <3>1 DEF Coded
      <3>3. first'[at] = count
        BY <1>0, <1>1, <2>2 DEF Coded
      <3> SUFFICES ASSUME NEW role \in Role
                   PROVE  /\ count'[role] \in Nat
                          /\ \A i \in Numbered' :
                                first'[i][role] \in Nat /\ first'[i][role] + Amount(i, role) <= count'[role]
                          /\ \A i, j \in Numbered' :
                                i < j => first'[i][role] + Amount(i, role) <= first'[j][role]
                          /\ \A x \in 0 .. count'[role] - 1 : \E i \in Numbered' :
                                x \in first'[i][role] .. first'[i][role] + Amount(i, role) - 1
        BY <1>11 DEF NumberInv, Numbers
      <3>4. /\ count[role] \in Nat
            /\ \A i \in Numbered :
                  first[i][role] \in Nat /\ first[i][role] + Amount(i, role) <= count[role]
            /\ \A i, j \in Numbered :
                  i < j => first[i][role] + Amount(i, role) <= first[j][role]
            /\ \A x \in 0 .. count[role] - 1 : \E i \in Numbered :
                  x \in first[i][role] .. first[i][role] + Amount(i, role) - 1
        BY <1>0 DEF NumberInv, Numbers
      <3> DEFINE a == Amount(at, role)
                 c == count[role]
      <3>5. a \in Nat /\ c \in Nat /\ count'[role] = c + a /\ first'[at][role] = c
        BY <1>1, <1>10, <1>12, <2>2, <3>3, <3>4
      <3>6. \A i \in Numbered : Amount(i, role) \in Nat
        BY <1>10, <3>1
      <3>7. c + a \in Nat
        BY <3>5
      <3>8. ASSUME NEW i \in Numbered'
            PROVE  first'[i][role] \in Nat /\ first'[i][role] + Amount(i, role) <= c + a
        <4>1. CASE i = at
          BY <3>5, <4>1
        <4>2. CASE i \in Numbered
          <5>1. first'[i][role] = first[i][role]
            BY <3>2, <4>2
          <5>2. first[i][role] \in Nat /\ first[i][role] + Amount(i, role) <= c
            BY <3>4, <4>2
          <5> HIDE DEF a, c
          <5> QED
            BY <3>5, <3>6, <4>2, <5>1, <5>2
        <4> QED
          BY <3>1, <4>1, <4>2
      <3>9. ASSUME NEW i \in Numbered', NEW j \in Numbered', i < j
            PROVE  first'[i][role] + Amount(i, role) <= first'[j][role]
        <4>1. i \in Numbered
          <5>1. i # at
            <6>1. i \in Int /\ j \in Int /\ j <= at
              BY <1>9, <1>12, <3>9
            <6> QED
              BY <1>12, <3>9, <6>1
          <5> QED
            BY <3>1, <5>1
        <4>2. CASE j = at
          BY <3>2, <3>4, <3>5, <4>1, <4>2
        <4>3. CASE j \in Numbered
          BY <3>2, <3>4, <3>9, <4>1, <4>3
        <4> QED
          BY <3>1, <4>2, <4>3
      <3>10. ASSUME NEW x \in 0 .. c + a - 1
             PROVE  \E i \in Numbered' : x \in first'[i][role] .. first'[i][role] + Amount(i, role) - 1
        <4>1. CASE x < c
          <5>1. x \in 0 .. c - 1
            BY <3>5, <4>1
          <5>2. PICK i \in Numbered : x \in first[i][role] .. first[i][role] + Amount(i, role) - 1
            BY <3>4, <5>1
          <5>3. i \in Numbered' /\ first'[i] = first[i]
            BY <3>1, <3>2
          <5> QED
            BY <5>2, <5>3
        <4>2. CASE ~(x < c)
          <5>1. x \in c .. c + a - 1
            BY <3>5, <4>2
          <5>2. at \in Numbered'
            BY <3>1
          <5> QED
            BY <3>5, <5>1, <5>2
        <4> QED
          BY <4>1, <4>2
      <3> QED
        BY <3>5, <3>7, <3>8, <3>9, <3>10
    <2> QED
      BY <2>1, <2>2
  <1> QED
    BY <1>4, <1>5, <1>7, <1>8, <1>13 DEF IndexInv
--------------------------------------------------------------------------------
(* The numbers of different instructions are different.                    *)
LEMMA NumbersAreApart ==
    ASSUME Coded, TreeInv, NumberInv, indexPc \in {"build", "indexed"},
           NEW i \in Kept, NEW j \in Kept, NEW role \in Role, NEW k, k \in Numbers(i, role), k \in Numbers(j, role)
    PROVE  i = j /\ k \in 0 .. count[role] - 1
  <1>1. Kept = Numbered /\ Kept \subseteq Positions /\ \A x \in Positions : x \in Int
    BY DEF Numbered, Kept, Positions
  <1> DEFINE a == Amount(i, role)
             b == Amount(j, role)
  <1>2. a \in Nat /\ b \in Nat
    BY <1>1, AmountIsNatural
  <1>3. /\ first[i][role] \in Nat /\ first[i][role] + a <= count[role]
        /\ first[j][role] \in Nat /\ first[j][role] + b <= count[role]
        /\ i < j => first[i][role] + a <= first[j][role]
        /\ j < i => first[j][role] + b <= first[i][role]
        /\ count[role] \in Nat
    BY <1>1 DEF NumberInv
  <1>4. k \in first[i][role] .. first[i][role] + a - 1 /\ k \in first[j][role] .. first[j][role] + b - 1
    BY DEF Numbers
  <1> HIDE DEF a, b
  <1>5. ~(i < j) /\ ~(j < i)
    BY <1>2, <1>3, <1>4
  <1>6. i \in Int /\ j \in Int
    BY <1>1
  <1>7. i = j
    BY <1>5, <1>6
  <1>8. k \in 0 .. count[role] - 1
    BY <1>2, <1>3, <1>4
  <1> QED
    BY <1>7, <1>8

(* What the builder writes for an instruction.                             *)
Unwritten(old, from, n) == \A k \in from .. from + n - 1 : k \notin DOMAIN old

Adds(new, old, from, n, es) ==
    /\ DOMAIN new = DOMAIN old \cup (from .. from + n - 1)
    /\ \A k \in DOMAIN old : new[k] = old[k]
    /\ \A k \in from .. from + n - 1 : new[k] = es[k - from + 1] /\ k - from + 1 \in 1 .. n
    /\ \A k \in 1 .. n : from + k - 1 \in from .. from + n - 1 /\ new[from + k - 1] = es[k]

LEMMA WrittenEntries ==
    ASSUME NEW old, NEW es, NEW n \in Nat, DOMAIN es = 1 .. n, Len(es) = n, NEW from \in Nat,
           Unwritten(old, from, n)
    PROVE  Adds(Written(old, from, es), old, from, n, es)
  <1> DEFINE R == from .. from + n - 1
             new == Written(old, from, es)
  <1>1. new = [k \in DOMAIN old \cup R |-> IF k \in R THEN es[k - from + 1] ELSE old[k]]
    BY DEF Written
  <1>2. \A k \in R : k - from + 1 \in 1 .. n
    OBVIOUS
  <1>3. \A k \in 1 .. n : from + k - 1 \in R /\ (from + k - 1) - from + 1 = k
    OBVIOUS
  <1> HIDE DEF R, new
  <1>4. \A k \in DOMAIN old : k \notin R
    BY DEF R, Unwritten
  <1>5. \A k \in R : new[k] = es[k - from + 1]
    BY <1>1
  <1>6. \A k \in 1 .. n : new[from + k - 1] = es[k]
    BY <1>3, <1>5
  <1> QED
    BY <1>1, <1>2, <1>3, <1>4, <1>5, <1>6 DEF R, new, Adds

(* The lists after the entries of an instruction have been linked.         *)
LinkedByName(new, had) ==
    /\ \A h \in DOMAIN new : Lists(new[h], { k \in DOMAIN had : had[k].names = h })
    /\ \A k \in DOMAIN had : had[k].names \in DOMAIN new

AllSound(es, n) == \A k \in 1 .. n : Sound(es[k])

LEMMA LinkedEntries ==
    ASSUME NEW old, NEW es, NEW n \in Nat, DOMAIN es = 1 .. n, NEW from \in Nat,
           AllSound(es, n), NEW had, Unwritten(had, from, n), LinkedByName(old, had),
           NEW now, Adds(now, had, from, n, es), Null \notin DOMAIN old
    PROVE  /\ Null \notin DOMAIN Linked(old, from, es)
           /\ LinkedByName(Linked(old, from, es), now)
  <1>0. /\ \A k \in 1 .. n : Sound(es[k])
        /\ \A k \in from .. from + n - 1 : k \notin DOMAIN had
        /\ \A h \in DOMAIN old : Lists(old[h], { k \in DOMAIN had : had[k].names = h })
        /\ \A k \in DOMAIN had : had[k].names \in DOMAIN old
        /\ DOMAIN now = DOMAIN had \cup (from .. from + n - 1)
        /\ \A k \in DOMAIN had : now[k] = had[k]
        /\ \A k \in from .. from + n - 1 : now[k] = es[k - from + 1] /\ k - from + 1 \in 1 .. n
        /\ \A k \in 1 .. n : from + k - 1 \in from .. from + n - 1 /\ now[from + k - 1] = es[k]
    BY DEF AllSound, Unwritten, LinkedByName, Adds
  <1> DEFINE new == Linked(old, from, es)
             T(h) == HeadedBy(es, h)
             q(h) == IF h \in DOMAIN old THEN old[h] ELSE <<>>
             A(h) == { k \in DOMAIN had : had[k].names = h }
             s == [k \in 1 .. n |-> from + k - 1]
  <1>1. \A k \in 1 .. n : ListHead(es[k]) = es[k].names /\ es[k].names # Null
    BY <1>0, SoundEntriesMeet DEF Sound
  <1>2. new = [h \in DOMAIN old \cup { ListHead(es[k]) : k \in DOMAIN es } |->
                 SeqExt!Reverse(Chosen(s, T(h))) \o q(h)]
    BY DEF Linked
  <1>3. \A h : T(h) = { k \in 1 .. n : es[k].names = h }
    BY <1>1 DEF HeadedBy
  <1> HIDE DEF new, T
  <1>4. \A h : h \in DOMAIN new <=> h \in DOMAIN old \/ \E k \in 1 .. n : es[k].names = h
    BY <1>1, <1>2
  <1>5. Null \notin DOMAIN new
    BY <1>1, <1>4
  <1>6. ASSUME NEW k \in DOMAIN now PROVE now[k].names \in DOMAIN new
    <2>1. CASE k \in DOMAIN had
      BY <1>0, <1>4, <2>1
    <2>2. CASE k \in from .. from + n - 1
      BY <1>0, <1>4, <2>2
    <2> QED
      BY <1>0, <2>1, <2>2
  <1>7. ASSUME NEW h \in DOMAIN new PROVE Lists(new[h], { k \in DOMAIN now : now[k].names = h })
    <2>1. Lists(q(h), A(h))
      <3>1. CASE h \in DOMAIN old
        BY <1>0, <3>1
      <3>2. CASE h \notin DOMAIN old
        <4>1. A(h) = {}
          BY <1>0, <3>2
        <4> QED
          BY <3>2, <4>1, EmptyList
      <3> QED
        BY <3>1, <3>2
    <2>2. T(h) \in SUBSET (1 .. n) /\ \A k \in T(h) : from + k - 1 \notin A(h)
      BY <1>0, <1>3
    <2> DEFINE B == { from + k - 1 : k \in T(h) }
    <2> HIDE DEF q, A
    <2>3. Lists(SeqExt!Reverse(Chosen(s, T(h))) \o q(h), B \cup A(h))
      BY <2>1, <2>2, LinkedInFront
    <2>4. new[h] = SeqExt!Reverse(Chosen(s, T(h))) \o q(h)
      BY <1>2
    <2>5. B \cup A(h) = { k \in DOMAIN now : now[k].names = h }
      <3>1. ASSUME NEW k \in B \cup A(h) PROVE k \in DOMAIN now /\ now[k].names = h
        <4>1. CASE k \in A(h)
          BY <1>0, <4>1 DEF A
        <4>2. CASE k \in B
          <5>1. PICK x \in T(h) : k = from + x - 1
            BY <4>2
          <5>2. x \in 1 .. n /\ es[x].names = h
            BY <1>3
          <5> QED
            BY <1>0, <5>1, <5>2
        <4> QED
          BY <4>1, <4>2
      <3>2. ASSUME NEW k \in DOMAIN now, now[k].names = h PROVE k \in B \cup A(h)
        <4>1. CASE k \in DOMAIN had
          BY <1>0, <3>2, <4>1 DEF A
        <4>2. CASE k \in from .. from + n - 1
          <5>1. k - from + 1 \in T(h)
            BY <1>0, <1>3, <3>2, <4>2
          <5>2. k = from + (k - from + 1) - 1
            BY <4>2
          <5> QED
            BY <5>1, <5>2
        <4> QED
          BY <1>0, <3>2, <4>1, <4>2
      <3> HIDE DEF B
      <3> QED
        BY <3>1, <3>2
    <2> QED
      BY <2>3, <2>4, <2>5
  <1> QED
    BY <1>5, <1>6, <1>7 DEF new, LinkedByName
--------------------------------------------------------------------------------
LEMMA BuildKeeps == IndexInv /\ Build => IndexInv'
  <1> SUFFICES ASSUME IndexInv, Build PROVE IndexInv'
    OBVIOUS
  <1>0. Coded /\ TreeInv /\ NumberInv /\ EntryInv /\ LinkInv
    BY DEF IndexInv
  <1>1. /\ indexPc = "build" /\ code' = code /\ mode' = mode /\ tree' = tree /\ list' = list
        /\ first' = first /\ count' = count /\ Advance("indexed")
        /\ IF code[at].skip THEN entry' = entry /\ links' = links
           ELSE /\ entry' = [role \in Role |->
                               Written(entry[role], first[at][role], Entries(at, role))]
                /\ links' = [role \in Role |->
                               Linked(links[role], first[at][role], Entries(at, role))]
    BY DEF Build
  <1>2. Positions' = Positions /\ Kept' = Kept
    BY <1>1 DEF Positions, Kept
  <1>3. /\ at' \in Positions /\ indexPc' \in {"build", "indexed"}
        /\ \A i \in Positions : (indexPc' = "build" => i < at') <=> i <= at
        /\ indexPc' = "indexed" => \A i \in Positions : i <= at
    BY <1>0, <1>1, Advancing
  <1>4. Coded'
    BY <1>0, <1>1, <1>2, <1>3 DEF Coded
  <1>5. \A o : (Collected(o)' <=> Collected(o)) /\ (Found(o)' <=> Found(o))
    BY <1>1 DEF Collected, Found
  <1>6. TreeInv'
    <2>2. indexPc # "collect" /\ indexPc # "begin" /\ indexPc' # "collect" /\ indexPc' # "begin"
      BY <1>1, <1>3
    <2> QED
      BY <1>0, <1>1, <1>2, <1>5, <2>2 DEF TreeInv, Direct, AccessesMemory, Collected, Found
  <1>7. Numbered = Kept /\ Numbered' = Kept
    BY <1>1, <1>2, <1>3 DEF Numbered, Kept
  <1>8. \A i, role : Amount(i, role)' = Amount(i, role)
    BY <1>1 DEF Amount, CensusCount, Touched
  <1>9. \A i, role : Numbers(i, role)' = Numbers(i, role)
    BY <1>1, <1>8 DEF Numbers
  <1>10. NumberInv'
    BY <1>0, <1>1, <1>7, <1>8, <1>9 DEF NumberInv
  <1>11. at \in Positions /\ at \in Int /\ Kept \subseteq Positions /\ \A i \in Positions : i \in Int
    BY <1>0 DEF Coded, Positions, Kept
  <1>12. /\ \A i : i \in Placed <=> i \in Kept /\ i < at
         /\ \A i : i \in Placed' <=> i \in Kept /\ i <= at
    BY <1>1, <1>2, <1>3 DEF Placed, Kept
  <1>13. /\ \A e : Sound(e)' <=> Sound(e)
         /\ \A i, o : Named(i, o)' <=> Named(i, o)
         /\ \A i : (Direct(code[i]))' <=> Direct(code[i])
         /\ \A i : MemoryRoles(code[i])' = MemoryRoles(code[i])
    BY <1>1, <1>5 DEF Sound, Named, MemoryRoles, Direct, MayTouch, AccessesMemory
  <1>14. EntryInv' /\ LinkInv'
    <2>1. CASE code[at].skip
      <3>1. Placed' = Placed
        <4>1. \A i \in Kept : i # at
          BY <2>1 DEF Kept
        <4>2. \A i \in Kept : i < at <=> i <= at
          BY <1>11, <4>1
        <4> QED
          BY <1>12, <4>2
      <3>2. entry' = entry /\ links' = links
        BY <1>1, <2>1
      <3>3. LinkInv'
        BY <1>0, <3>2 DEF LinkInv, WithName
      <3>4. EntryInv'
        BY <1>0, <1>1, <1>9, <1>13, <3>1, <3>2 DEF EntryInv
      <3> QED
        BY <3>3, <3>4
    <2>2. CASE ~code[at].skip
      <3>1. /\ at \in Kept /\ at \notin Placed
            /\ \A i : i \in Placed' <=> i \in Placed \/ i = at
        <4>1. at \in Kept
          BY <1>11, <2>2 DEF Kept
        <4>2. \A i \in Kept : i <= at <=> i < at \/ i = at
          BY <1>11
        <4>3. ~(at < at) /\ at <= at
          BY <1>11
        <4> QED
          BY <1>12, <4>1, <4>2, <4>3
      <3>2. \A i \in Placed : i \in Kept
        BY <1>12
      <3> SUFFICES ASSUME NEW role \in Role
                   PROVE  /\ \A k : k \in DOMAIN entry'[role] <=> \E i \in Placed' : k \in Numbers(i, role)
                          /\ \A i \in Placed' : \A k \in Numbers(i, role) :
                                entry'[role][k].instr = i /\ Sound(entry'[role][k])
                          /\ \A i \in Placed' : mode # 0 /\ role \in MemoryRoles(code[i]) =>
                                \A o : Named(i, o) => \E k \in Numbers(i, role) :
                                  entry'[role][k].names = <<"object", o>>
                          /\ Null \notin DOMAIN links'[role]
                          /\ \A h \in DOMAIN links'[role] :
                                Lists(links'[role][h], { k \in DOMAIN entry'[role] : entry'[role][k].names = h })
                          /\ \A k \in DOMAIN entry'[role] : entry'[role][k].names \in DOMAIN links'[role]
        <4>1. EntryInv'
          <5> SUFFICES ASSUME NEW role \in Role
                       PROVE  /\ \A k : k \in DOMAIN entry'[role] <=> \E i \in Placed' : k \in Numbers(i, role)'
                              /\ \A i \in Placed' : \A k \in Numbers(i, role)' :
                                    entry'[role][k].instr = i /\ Sound(entry[role][k])'
                              /\ \A i \in Placed' : mode' # 0 /\ role \in MemoryRoles(code[i])' =>
                                    \A o : Named(i, o)' => \E k \in Numbers(i, role)' :
                                      entry'[role][k].names = <<"object", o>>
            BY DEF EntryInv
          <5>1. \A k : Sound(entry[role][k])' <=> Sound(entry'[role][k])
            BY <1>1, <1>5 DEF Sound, Found
          <5>2. /\ \A i : Numbers(i, role)' = Numbers(i, role) /\ MemoryRoles(code[i])' = MemoryRoles(code[i])
                /\ \A i, o : Named(i, o)' <=> Named(i, o)
            BY <1>9, <1>13
          <5>3. \A k : k \in DOMAIN entry'[role] <=> \E i \in Placed' : k \in Numbers(i, role)'
            BY <5>2
          <5>4. \A i \in Placed' : \A k \in Numbers(i, role)' :
                   entry'[role][k].instr = i /\ Sound(entry[role][k])'
            BY <5>1, <5>2
          <5>5. \A i \in Placed' : mode' # 0 /\ role \in MemoryRoles(code[i])' =>
                   \A o : Named(i, o)' => \E k \in Numbers(i, role)' : entry'[role][k].names = <<"object", o>>
            BY <1>1, <5>2
          <5> QED
            BY <5>3, <5>4, <5>5
        <4>2. LinkInv'
          BY DEF LinkInv, WithName
        <4> QED
          BY <4>1, <4>2
      <3> DEFINE had == entry[role]
                 old == links[role]
                 es == Entries(at, role)
                 from == first[at][role]
                 n == Amount(at, role)
                 now == Written(had, from, es)
                 new == Linked(old, from, es)
                 R == from .. from + n - 1
      <3>3. /\ \A k : k \in DOMAIN had <=> \E i \in Placed : k \in Numbers(i, role)
            /\ \A i \in Placed : \A k \in Numbers(i, role) : had[k].instr = i /\ Sound(had[k])
            /\ \A i \in Placed : mode # 0 /\ role \in MemoryRoles(code[i]) =>
                  \A o : Named(i, o) => \E k \in Numbers(i, role) : had[k].names = <<"object", o>>
        BY <1>0 DEF EntryInv
      <3>4. /\ Null \notin DOMAIN old
            /\ LinkedByName(old, had)
        BY <1>0 DEF LinkInv, WithName, LinkedByName
      <3>5. entry'[role] = now /\ links'[role] = new
        BY <1>1, <2>2
      <3>6. /\ n \in Nat /\ DOMAIN es = 1 .. n /\ Len(es) = n
            /\ \A k \in 1 .. n : es[k].instr = at /\ Sound(es[k])
            /\ mode # 0 /\ role \in MemoryRoles(code[at]) =>
                 \A o : Named(at, o) => \E k \in 1 .. n : es[k].names = <<"object", o>>
        <4>1. code[at] \in Instruction
          BY <1>0, <1>11 DEF Coded, Positions
        <4>2. mode # 0 => Looked(at)
          BY <1>0, <1>1, <1>11, TreeIsLooked
        <4> QED
          BY <1>11, <4>1, <4>2, EntriesAreSound DEF Amount
      <3>7. from \in Nat /\ R = Numbers(at, role)
        BY <1>0, <1>7, <3>1 DEF NumberInv, Numbers
      <3>8. ASSUME NEW k \in R PROVE k \notin DOMAIN had
        <4>1. ASSUME NEW i \in Placed, k \in Numbers(i, role) PROVE FALSE
          <5>1. i = at
            BY <1>0, <1>1, <3>1, <3>2, <3>7, <3>8, <4>1, NumbersAreApart
          <5> QED
            BY <3>1, <5>1
        <4> QED
          BY <3>3, <4>1
      <3> HIDE DEF had, old, es, from, n, now, new
      <3>9. /\ DOMAIN now = DOMAIN had \cup R
            /\ \A k \in DOMAIN had : now[k] = had[k]
            /\ \A k \in R : now[k] = es[k - from + 1] /\ k - from + 1 \in 1 .. n
            /\ \A k \in 1 .. n : from + k - 1 \in R /\ now[from + k - 1] = es[k]
        <4>1. Unwritten(had, from, n)
          BY <3>8 DEF Unwritten
        <4>2. Adds(now, had, from, n, es)
          BY <3>6, <3>7, <4>1, WrittenEntries DEF now
        <4> QED
          BY <4>2 DEF Adds
      <3>10. /\ Null \notin DOMAIN new
             /\ \A h \in DOMAIN new : Lists(new[h], { k \in DOMAIN now : now[k].names = h })
             /\ \A k \in DOMAIN now : now[k].names \in DOMAIN new
        <4>1. AllSound(es, n) /\ Unwritten(had, from, n) /\ Adds(now, had, from, n, es)
          BY <3>6, <3>8, <3>9 DEF AllSound, Unwritten, Adds
        <4>2. Null \notin DOMAIN new /\ LinkedByName(new, now)
          BY <3>4, <3>6, <3>7, <4>1, LinkedEntries DEF new
        <4> QED
          BY <4>2 DEF LinkedByName
      <3> HIDE DEF R
      <3>11. \A k : k \in DOMAIN now <=> \E i \in Placed' : k \in Numbers(i, role)
        <4>1. \A k : k \in DOMAIN now <=> k \in DOMAIN had \/ k \in R
          BY <3>9
        <4> QED
          BY <3>1, <3>3, <3>7, <4>1
      <3>12. ASSUME NEW i \in Placed', NEW k \in Numbers(i, role) PROVE now[k].instr = i /\ Sound(now[k])
        <4>1. CASE i = at
          BY <3>6, <3>7, <3>9, <4>1
        <4>2. CASE i \in Placed
          <5>1. k \in DOMAIN had /\ had[k].instr = i /\ Sound(had[k])
            BY <3>3, <4>2
          <5> QED
            BY <3>9, <5>1
        <4> QED
          BY <3>1, <4>1, <4>2
      <3>13. ASSUME NEW i \in Placed', mode # 0 /\ role \in MemoryRoles(code[i]), NEW o, Named(i, o)
             PROVE  \E k \in Numbers(i, role) : now[k].names = <<"object", o>>
        <4>1. CASE i = at
          <5>1. PICK k \in 1 .. n : es[k].names = <<"object", o>>
            BY <3>6, <3>13, <4>1
          <5>2. from + k - 1 \in R /\ now[from + k - 1] = es[k]
            BY <3>9
          <5> QED
            BY <3>7, <4>1, <5>1, <5>2
        <4>2. CASE i \in Placed
          <5>1. PICK k \in Numbers(i, role) : had[k].names = <<"object", o>>
            BY <3>3, <3>13, <4>2
          <5>2. k \in DOMAIN had
            BY <3>3, <4>2
          <5> QED
            BY <3>9, <5>1, <5>2
        <4> QED
          BY <3>1, <4>1, <4>2
      <3> QED
        BY <3>5, <3>10, <3>11, <3>12, <3>13, ZenonT(60)
    <2> QED
      BY <2>1, <2>2
  <1> QED
    BY <1>4, <1>6, <1>10, <1>14 DEF IndexInv
--------------------------------------------------------------------------------
LEMMA IndexKeeps == IndexInv /\ IndexNext => IndexInv'
  BY BeginKeeps, CollectKeeps, CensusKeeps, BuildKeeps DEF IndexNext

LEMMA IndexStays == IndexInv /\ UNCHANGED ivars => IndexInv'
  <1> SUFFICES ASSUME IndexInv, UNCHANGED ivars PROVE IndexInv'
    OBVIOUS
  <1>1. /\ code' = code /\ mode' = mode /\ indexPc' = indexPc /\ at' = at /\ tree' = tree
        /\ list' = list /\ first' = first /\ count' = count /\ entry' = entry /\ links' = links
    BY DEF ivars
  <1>2. Positions' = Positions /\ Kept' = Kept
    BY <1>1 DEF Positions, Kept
  <1>3. Numbered' = Numbered /\ Placed' = Placed
    BY <1>1, <1>2 DEF Numbered, Placed
  <1>4. \A o : (Collected(o)' <=> Collected(o)) /\ (Found(o)' <=> Found(o))
    BY <1>1 DEF Collected, Found
  <1>5. Coded'
    BY <1>1, <1>2 DEF IndexInv, Coded
  <1>6. TreeInv'
    BY <1>1, <1>2, <1>4 DEF IndexInv, TreeInv, Direct, AccessesMemory, Found, Collected
  <1>7. NumberInv'
    <2>1. \A i, role : Amount(i, role)' = Amount(i, role)
      BY <1>1 DEF Amount, CensusCount, Touched
    <2>2. \A i, role : Numbers(i, role)' = Numbers(i, role)
      BY <1>1, <2>1 DEF Numbers
    <2> QED
      BY <1>1, <1>3, <2>1, <2>2 DEF IndexInv, NumberInv
  <1>8. EntryInv'
    <2>1. \A i, role : Numbers(i, role)' = Numbers(i, role)
      BY <1>1 DEF Numbers, Amount, CensusCount, Touched
    <2>2. \A i : MemoryRoles(code[i])' = MemoryRoles(code[i])
      BY <1>1 DEF MemoryRoles, AccessesMemory
    <2>3. \A i, o : Named(i, o)' <=> Named(i, o)
      BY <1>1, <1>4 DEF Named, Direct, AccessesMemory, MayTouch
    <2>4. \A role : \A k : Sound(entry[role][k])' <=> Sound(entry[role][k])
      BY <1>1, <1>4 DEF Sound, Found
    <2> QED
      BY <1>1, <1>3, <2>1, <2>2, <2>3, <2>4 DEF IndexInv, EntryInv
  <1>9. LinkInv'
    BY <1>1 DEF IndexInv, LinkInv, WithName
  <1> QED
    BY <1>5, <1>6, <1>7, <1>8, <1>9 DEF IndexInv

(* A move gives an instruction another block, and nothing of the index is  *)
(* about blocks.                                                           *)
MovesOne(i, to) ==
    /\ code' = [code EXCEPT ![i].block = to]
    /\ UNCHANGED <<mode, indexPc, at, tree, list, first, count, entry, links>>

LEMMA MovedCode ==
    ASSUME code \in Seq(Instruction), NEW i \in Positions, NEW to \in Nat, MovesOne(i, to)
    PROVE  /\ code' \in Seq(Instruction) /\ Len(code') = Len(code) /\ code'[i].block = to
           /\ \A j \in Positions : j # i => code'[j] = code[j]
           /\ \A j \in Positions : /\ code'[j].skip = code[j].skip
                                   /\ code'[j].operands = code[j].operands
                                   /\ code'[j].flags = code[j].flags
                                   /\ code'[j].object = code[j].object
                                   /\ code'[j].access = code[j].access
  <1> DEFINE c == code[i]
             d == [c EXCEPT !.block = to]
  <1>1. c \in Instruction /\ DOMAIN code = Positions
    BY DEF Positions
  <1> HIDE DEF c
  <1>2. /\ d \in Instruction /\ d.block = to /\ d.skip = c.skip /\ d.operands = c.operands
        /\ d.flags = c.flags /\ d.object = c.object /\ d.access = c.access
    BY <1>1 DEF Instruction
  <1>3. code' = [code EXCEPT ![i] = d]
    BY DEF MovesOne, c
  <1> HIDE DEF d
  <1>4. code'[i] = d /\ \A j \in Positions : j # i => code'[j] = code[j]
    BY <1>1, <1>3
  <1>5. code' \in Seq(Instruction) /\ Len(code') = Len(code)
    BY <1>1, <1>2, <1>3, ExceptSeq
  <1>6. ASSUME NEW j \in Positions
        PROVE  /\ code'[j].skip = code[j].skip /\ code'[j].operands = code[j].operands
               /\ code'[j].flags = code[j].flags /\ code'[j].object = code[j].object
               /\ code'[j].access = code[j].access
    <2>1. CASE j = i
      BY <1>2, <1>4, <2>1 DEF c
    <2>2. CASE j # i
      BY <1>4, <2>2
    <2> QED
      BY <2>1, <2>2
  <1> QED
    BY <1>2, <1>4, <1>5, <1>6

LEMMA MoveKeepsIndex ==
    ASSUME IndexInv, NEW i \in Positions, NEW to \in Nat, MovesOne(i, to)
    PROVE  /\ IndexInv' /\ Kept' = Kept /\ Positions' = Positions
           /\ \A j \in Positions : j # i => code'[j] = code[j]
           /\ code'[i].block = to
  <1>0. Coded /\ TreeInv /\ NumberInv /\ EntryInv /\ LinkInv
    BY DEF IndexInv
  <1>1. /\ mode' = mode /\ indexPc' = indexPc /\ at' = at /\ tree' = tree
        /\ list' = list /\ first' = first /\ count' = count /\ entry' = entry /\ links' = links
    BY DEF MovesOne
  <1>2. /\ code' \in Seq(Instruction) /\ Len(code') = Len(code) /\ code'[i].block = to
        /\ \A j \in Positions : j # i => code'[j] = code[j]
        /\ \A j \in Positions : /\ code'[j].skip = code[j].skip
                                /\ code'[j].operands = code[j].operands
                                /\ code'[j].flags = code[j].flags
                                /\ code'[j].object = code[j].object
                                /\ code'[j].access = code[j].access
    BY <1>0, MovedCode DEF Coded
  <1>3. Positions' = Positions /\ Kept' = Kept
    BY <1>2 DEF Positions, Kept
  <1>4. Numbered' = Numbered /\ Placed' = Placed /\ Numbered \subseteq Positions /\ Placed \subseteq Positions
    BY <1>1, <1>3 DEF Numbered, Placed, Kept
  <1>5. \A o : (Collected(o)' <=> Collected(o)) /\ (Found(o)' <=> Found(o))
    BY <1>1 DEF Collected, Found
  <1>6. \A j \in Positions : /\ (Direct(code[j]))' <=> Direct(code[j])
                             /\ MemoryRoles(code[j])' = MemoryRoles(code[j])
                             /\ \A o : MayTouch(code[j], o)' <=> MayTouch(code[j], o)
    BY <1>2 DEF Direct, MemoryRoles, MayTouch, AccessesMemory
  <1>7. \A j \in Positions : \A role : Amount(j, role)' = Amount(j, role)
    <2> SUFFICES ASSUME NEW j \in Positions, NEW role PROVE Amount(j, role)' = Amount(j, role)
      OBVIOUS
    <2>1. Accessed(code[j], role)' = Accessed(code[j], role)
      BY <1>2 DEF Accessed
    <2>2. Touched(code[j])' = Touched(code[j])
      BY <1>1, <1>6 DEF Touched
    <2>3. MemoryRoles(code[j])' = MemoryRoles(code[j]) /\ (Direct(code[j])' <=> Direct(code[j]))
      BY <1>6
    <2> QED
      BY <1>1, <2>1, <2>2, <2>3 DEF Amount, CensusCount
  <1>8. \A j \in Positions : \A role : Numbers(j, role)' = Numbers(j, role)
    BY <1>1, <1>7 DEF Numbers
  <1>9. \A j \in Positions : \A o : Named(j, o)' <=> Named(j, o)
    BY <1>2, <1>5, <1>6 DEF Named
  <1>10. Coded'
    <2>1. code' # <<>>
      BY <1>0, <1>2, EmptySeq DEF Coded
    <2> QED
      BY <1>0, <1>1, <1>2, <1>3, <2>1 DEF Coded
  <1>11. TreeInv'
    <2> SUFFICES ASSUME mode = 1 /\ indexPc # "begin"
                 PROVE  /\ IsFiniteSet(DOMAIN tree) /\ list \in Seq(Objects)
                        /\ (\A p \in DOMAIN tree : Found(tree[p]) /\ Collected(tree[p]))'
                        /\ \A o : Collected(o)' => Found(o)'
                        /\ \A j \in Positions : Direct(code[j])' /\ (indexPc = "collect" => j < at)
                              => Collected(code[j].object)'
      BY <1>1, <1>3 DEF TreeInv
    <2>1. /\ IsFiniteSet(DOMAIN tree) /\ list \in Seq(Objects)
          /\ \A p \in DOMAIN tree : Found(tree[p]) /\ Collected(tree[p])
          /\ \A o : Collected(o) => Found(o)
          /\ \A j \in Positions : Direct(code[j]) /\ (indexPc = "collect" => j < at)
                => Collected(code[j].object)
      BY <1>0 DEF TreeInv
    <2>2. (\A p \in DOMAIN tree : Found(tree[p]) /\ Collected(tree[p]))'
      BY <1>1, <2>1 DEF Found, Collected
    <2>3. \A j \in Positions : Direct(code[j])' /\ (indexPc = "collect" => j < at) => Collected(code[j].object)'
      BY <1>1, <1>2, <1>6, <2>1 DEF Collected
    <2> QED
      BY <1>5, <2>1, <2>2, <2>3
  <1>12. NumberInv'
    BY <1>0, <1>1, <1>4, <1>7, <1>8 DEF NumberInv
  <1>13. EntryInv'
    <2> SUFFICES ASSUME NEW role \in Role
                 PROVE  /\ \A k : k \in DOMAIN entry'[role] <=> \E j \in Placed' : k \in Numbers(j, role)'
                        /\ \A j \in Placed' : \A k \in Numbers(j, role)' :
                              entry'[role][k].instr = j /\ Sound(entry[role][k])'
                        /\ \A j \in Placed' : mode' # 0 /\ role \in MemoryRoles(code[j])' =>
                              \A o : Named(j, o)' => \E k \in Numbers(j, role)' :
                                entry'[role][k].names = <<"object", o>>
      BY DEF EntryInv
    <2>1. /\ \A k : k \in DOMAIN entry[role] <=> \E j \in Placed : k \in Numbers(j, role)
          /\ \A j \in Placed : \A k \in Numbers(j, role) :
                entry[role][k].instr = j /\ Sound(entry[role][k])
          /\ \A j \in Placed : mode # 0 /\ role \in MemoryRoles(code[j]) =>
                \A o : Named(j, o) => \E k \in Numbers(j, role) :
                  entry[role][k].names = <<"object", o>>
      BY <1>0 DEF EntryInv
    <2>2. \A k : Sound(entry[role][k])' <=> Sound(entry[role][k])
      BY <1>1, <1>5 DEF Sound, Found
    <2>3. /\ \A j \in Placed : /\ Numbers(j, role)' = Numbers(j, role)
                               /\ MemoryRoles(code[j])' = MemoryRoles(code[j])
                               /\ \A o : Named(j, o)' <=> Named(j, o)
      BY <1>4, <1>6, <1>8, <1>9
    <2>4. \A k : k \in DOMAIN entry'[role] <=> \E j \in Placed' : k \in Numbers(j, role)'
      BY <1>1, <1>4, <2>1, <2>3
    <2>5. \A j \in Placed' : \A k \in Numbers(j, role)' : entry'[role][k].instr = j /\ Sound(entry[role][k])'
      BY <1>1, <1>4, <2>1, <2>2, <2>3
    <2>6. \A j \in Placed' : mode' # 0 /\ role \in MemoryRoles(code[j])' =>
             \A o : Named(j, o)' => \E k \in Numbers(j, role)' : entry'[role][k].names = <<"object", o>>
      BY <1>1, <1>4, <2>1, <2>3
    <2> QED
      BY <2>4, <2>5, <2>6
  <1>14. LinkInv'
    BY <1>0, <1>1 DEF LinkInv, WithName
  <1> QED
    BY <1>2, <1>3, <1>10, <1>11, <1>12, <1>13, <1>14 DEF IndexInv
--------------------------------------------------------------------------------
(* What the finished index says.                                           *)
LEMMA OwnNumbers ==
    ASSUME IndexInv, Indexed, NEW role \in Role
    PROVE  /\ count[role] \in Nat /\ DOMAIN entry[role] = 0 .. count[role] - 1
           /\ \A i \in Kept : /\ Own(role, i) = Numbers(i, role) /\ Amount(i, role) \in Nat
                              /\ first[i][role] \in Nat
                              /\ first[i][role] + Amount(i, role) <= count[role]
           /\ \A k \in DOMAIN entry[role] : entry[role][k].instr \in Kept /\ Sound(entry[role][k])
  <1>0. Coded /\ TreeInv /\ NumberInv /\ EntryInv /\ indexPc = "indexed"
    BY DEF IndexInv, Indexed
  <1>1. Placed = Kept /\ Numbered = Kept /\ Kept \subseteq Positions
    BY <1>0 DEF Placed, Numbered, Kept
  <1>2. /\ \A k : k \in DOMAIN entry[role] <=> \E i \in Kept : k \in Numbers(i, role)
        /\ \A i \in Kept : \A k \in Numbers(i, role) :
              entry[role][k].instr = i /\ Sound(entry[role][k])
    BY <1>0, <1>1 DEF EntryInv
  <1>3. /\ count[role] \in Nat
        /\ \A i \in Kept : first[i][role] \in Nat /\ first[i][role] + Amount(i, role) <= count[role]
        /\ \A x \in 0 .. count[role] - 1 : \E i \in Kept : x \in Numbers(i, role)
    BY <1>0, <1>1 DEF NumberInv
  <1>4. \A i \in Kept : Amount(i, role) \in Nat
    BY <1>0, <1>1, AmountIsNatural
  <1>5. DOMAIN entry[role] = 0 .. count[role] - 1
    <2>1. ASSUME NEW i \in Kept, NEW k \in Numbers(i, role) PROVE k \in 0 .. count[role] - 1
      BY <1>0, NumbersAreApart
    <2> QED
      BY <1>2, <1>3, <2>1
  <1>6. ASSUME NEW i \in Kept PROVE Own(role, i) = Numbers(i, role)
    <2>1. ASSUME NEW k \in Own(role, i) PROVE k \in Numbers(i, role)
      <3>1. k \in DOMAIN entry[role] /\ entry[role][k].instr = i
        BY DEF Own
      <3> QED
        BY <1>2, <3>1
    <2>2. ASSUME NEW k \in Numbers(i, role) PROVE k \in Own(role, i)
      BY <1>2 DEF Own
    <2> QED
      BY <2>1, <2>2
  <1>7. \A k \in DOMAIN entry[role] : entry[role][k].instr \in Kept /\ Sound(entry[role][k])
    BY <1>2
  <1> QED
    BY <1>3, <1>4, <1>5, <1>6, <1>7

LEMMA WalkedList ==
    ASSUME IndexInv, Indexed, NEW d \in DOMAIN entry.def
    PROVE  LET same == { k \in DOMAIN entry.def : entry.def[k].names = entry.def[d].names }
           IN  /\ SeqExt!ToSet(ListOf(entry.def[d])) = same
               /\ Len(ListOf(entry.def[d])) = Cardinality(same)
  <1> DEFINE h == entry.def[d].names
  <1>1. "def" \in Role /\ entry.def = entry["def"] /\ links.def = links["def"]
    BY DEF Role
  <1>2. Sound(entry.def[d])
    BY <1>1, OwnNumbers
  <1>3. ListOf(entry.def[d]) = IF h \in DOMAIN links.def THEN links.def[h] ELSE <<>>
    BY <1>2, SoundEntriesMeet DEF ListOf
  <1>4. h \in DOMAIN links.def /\ Lists(links.def[h], WithName("def", h))
    BY <1>1 DEF IndexInv, LinkInv
  <1>5. Lists(ListOf(entry.def[d]), WithName("def", h))
    BY <1>3, <1>4
  <1> QED
    BY <1>1, <1>5, ListLength DEF WithName

LEMMA NumbersAreExact == IndexInv => IndexIsExact
  <1> SUFFICES ASSUME IndexInv, Indexed, NEW role \in Role
               PROVE  /\ DOMAIN entry[role] = 0 .. count[role] - 1
                      /\ \A i \in Kept :
                            Own(role, i) = first[i][role] .. first[i][role] + Cardinality(Own(role, i)) - 1
    BY DEF IndexIsExact
  <1>1. /\ DOMAIN entry[role] = 0 .. count[role] - 1
        /\ \A i \in Kept : Own(role, i) = Numbers(i, role) /\ Amount(i, role) \in Nat /\ first[i][role] \in Nat
    BY OwnNumbers
  <1>2. ASSUME NEW i \in Kept
        PROVE  Own(role, i) = first[i][role] .. first[i][role] + Cardinality(Own(role, i)) - 1
    <2> DEFINE f == first[i][role]
               a == Amount(i, role)
    <2>1. Own(role, i) = f .. f + a - 1 /\ f \in Nat /\ a \in Nat
      BY <1>1 DEF Numbers
    <2> HIDE DEF f, a
    <2>2. Cardinality(f .. f + a - 1) = a
      <3>1. f \in Int /\ f + a - 1 \in Int
        BY <2>1
      <3>2. PICK last \in Int : last = f + a - 1
        BY <3>1
      <3>3. Cardinality(f .. last) = IF f > last THEN 0 ELSE last - f + 1
        BY <3>1, FS_Interval
      <3> QED
        BY <2>1, <3>2, <3>3
    <2> QED
      BY <2>1, <2>2 DEF f
  <1> QED
    BY <1>1, <1>2

LEMMA LinksHold == IndexInv => LinksAreExact
  <1> SUFFICES ASSUME IndexInv PROVE LinksAreExact
    OBVIOUS
  <1>1. \A role \in Role : Null \notin DOMAIN links[role]
    BY DEF IndexInv, LinkInv
  <1> QED
    BY <1>1, WalkedList DEF LinksAreExact

LEMMA AliasesAreNamed == IndexInv => AliasesMeet
  <1> SUFFICES ASSUME IndexInv, Indexed, mode = 1, NEW i \in Kept, NEW j \in Kept,
                      NEW ri \in MemoryRoles(code[i]), NEW rj \in MemoryRoles(code[j]),
                      Direct(code[i]), ~Direct(code[j]), MayTouch(code[j], code[i].object)
               PROVE  \A pair \in {<<i, ri>>, <<j, rj>>} :
                        \E k \in Own(pair[2], pair[1]) :
                          entry[pair[2]][k].names = <<"object", code[i].object>>
    BY DEF AliasesMeet
  <1>0. Coded /\ TreeInv /\ EntryInv /\ indexPc = "indexed"
    BY DEF IndexInv, Indexed
  <1>1. Placed = Kept /\ Kept \subseteq Positions
    BY <1>0 DEF Placed, Kept
  <1>2. ri \in Role /\ rj \in Role
    BY DEF MemoryRoles, Role
  <1> DEFINE o == code[i].object
  <1>3. Named(i, o)
    BY DEF Named
  <1>4. Collected(o)
    BY <1>0, <1>1 DEF TreeInv
  <1>5. Named(j, o)
    BY <1>4 DEF Named
  <1> HIDE DEF o
  <1>6. ASSUME NEW x \in Kept, NEW rx \in Role, rx \in MemoryRoles(code[x]), Named(x, o)
        PROVE  \E k \in Own(rx, x) : entry[rx][k].names = <<"object", o>>
    <2>1. \E k \in Numbers(x, rx) : entry[rx][k].names = <<"object", o>>
      BY <1>0, <1>1, <1>6 DEF EntryInv
    <2>2. Own(rx, x) = Numbers(x, rx)
      BY OwnNumbers
    <2> QED
      BY <2>1, <2>2
  <1>7. /\ \E k \in Own(ri, i) : entry[ri][k].names = <<"object", o>>
        /\ \E k \in Own(rj, j) : entry[rj][k].names = <<"object", o>>
    BY <1>2, <1>3, <1>5, <1>6
  <1> QED
    BY <1>7 DEF o

(* COpt_00526b50, for the blocks of any loop.                              *)
Alone(i, d, blks) ==
    /\ Own("def", i) = {d}
    /\ \A j \in Kept \ {i} : code[j].block \in blks =>
          \A k \in Own("def", j) : entry.def[k].names # entry.def[d].names

LEMMA SingleDefinitionHolds ==
    ASSUME IndexInv, Indexed, NEW i \in Kept, NEW blks
    PROVE  SingleDefinition(i, blks) <=> \E d \in Own("def", i) : Alone(i, d, blks)
  <1> DEFINE f == first[i].def
             a == Amount(i, "def")
             N == count.def
             e == entry.def
  <1>1. "def" \in Role /\ entry.def = entry["def"] /\ count.def = count["def"] /\ first[i].def = first[i]["def"]
    BY DEF Role
  <1>2. /\ N \in Nat /\ DOMAIN e = 0 .. N - 1
        /\ Own("def", i) = Numbers(i, "def") /\ a \in Nat /\ f \in Nat /\ f + a <= N
        /\ \A k \in DOMAIN e : e[k].instr \in Kept
    BY <1>1, OwnNumbers
  <1>3. Own("def", i) = f .. f + a - 1
    BY <1>1, <1>2 DEF Numbers
  <1>4. \A j, k : k \in Own("def", j) <=> k \in DOMAIN e /\ e[k].instr = j
    BY <1>1 DEF Own
  <1>5. \A d \in DOMAIN e :
          HasDefinitionIn(blks, d) <=>
            \E k \in DOMAIN e : e[k].names = e[d].names /\ code[e[k].instr].block \in blks /\ k # d
    <2> SUFFICES ASSUME NEW d \in DOMAIN e
                 PROVE  HasDefinitionIn(blks, d) <=>
                          \E k \in DOMAIN e : e[k].names = e[d].names
                                              /\ code[e[k].instr].block \in blks /\ k # d
      OBVIOUS
    <2>1. SeqExt!ToSet(ListOf(e[d])) = { k \in DOMAIN e : e[k].names = e[d].names }
      BY WalkedList
    <2> QED
      BY <2>1 DEF HasDefinitionIn
  <1>6. SingleDefinition(i, blks) <=>
          /\ f < N /\ e[f].instr = i /\ ~(f + 1 < N /\ e[f + 1].instr = i)
          /\ ~HasDefinitionIn(blks, f)
    BY DEF SingleDefinition
  <1> HIDE DEF f, a, N, e
  <1>7. f < N => f \in DOMAIN e
    BY <1>2
  <1>8. ASSUME SingleDefinition(i, blks) PROVE \E d \in Own("def", i) : Alone(i, d, blks)
    <2>1. /\ f \in DOMAIN e /\ e[f].instr = i /\ ~(f + 1 < N /\ e[f + 1].instr = i)
          /\ ~HasDefinitionIn(blks, f)
      BY <1>6, <1>7, <1>8
    <2>2. f \in Own("def", i)
      BY <1>4, <2>1
    <2>3. a >= 1
      BY <1>2, <1>3, <2>2
    <2>4. ~(a >= 2)
      <3> SUFFICES ASSUME a >= 2 PROVE FALSE
        OBVIOUS
      <3>1. f + 1 \in f .. f + a - 1 /\ f + 1 < N
        BY <1>2
      <3>2. e[f + 1].instr = i
        BY <1>3, <1>4, <3>1
      <3> QED
        BY <2>1, <3>1, <3>2
    <2>5. Own("def", i) = {f}
      BY <1>2, <1>3, <2>3, <2>4
    <2>6. ASSUME NEW j \in Kept \ {i}, code[j].block \in blks, NEW k \in Own("def", j)
          PROVE  e[k].names # e[f].names
      <3>1. k \in DOMAIN e /\ e[k].instr = j /\ k # f
        BY <1>4, <2>1, <2>6
      <3> QED
        BY <1>5, <2>1, <2>6, <3>1
    <2>7. Alone(i, f, blks)
      BY <2>5, <2>6 DEF Alone, e
    <2> QED
      BY <2>2, <2>7
  <1>9. ASSUME NEW d \in Own("def", i), Alone(i, d, blks) PROVE SingleDefinition(i, blks)
    <2>1. f .. f + a - 1 = {d}
      BY <1>3, <1>9 DEF Alone
    <2>2. a = 1 /\ d = f
      <3>1. a # 0
        BY <1>2, <2>1
      <3>2. f \in f .. f + a - 1
        BY <1>2, <3>1
      <3>3. ASSUME a >= 2 PROVE FALSE
        <4>1. f + 1 \in f .. f + a - 1
          BY <1>2, <3>3
        <4>2. f + 1 = d /\ f = d
          BY <2>1, <3>2, <4>1
        <4> QED
          BY <1>2, <4>2
      <3> QED
        BY <1>2, <2>1, <3>1, <3>2, <3>3
    <2>3. f \in DOMAIN e /\ e[f].instr = i /\ f < N
      BY <1>2, <1>4, <1>9, <2>2
    <2>4. ASSUME f + 1 < N, e[f + 1].instr = i PROVE FALSE
      <3>1. f + 1 \in DOMAIN e
        BY <1>2, <2>4
      <3>2. f + 1 \in Own("def", i)
        BY <1>4, <2>4, <3>1
      <3> QED
        BY <1>2, <1>3, <2>2, <3>2
    <2>5. ASSUME NEW k \in DOMAIN e, e[k].names = e[f].names, code[e[k].instr].block \in blks, k # f
          PROVE  FALSE
      <3>1. PICK j \in Kept : j = e[k].instr
        BY <1>2
      <3>2. k \in Own("def", j)
        BY <1>4, <3>1
      <3>3. j # i
        BY <2>2, <2>5, <3>2, <1>9 DEF Alone
      <3> QED
        BY <1>9, <2>2, <2>5, <3>1, <3>2, <3>3 DEF Alone, e
    <2>6. ~HasDefinitionIn(blks, f)
      BY <1>5, <2>3, <2>5
    <2> QED
      BY <1>6, <2>3, <2>4, <2>6
  <1> QED
    BY <1>8, <1>9

LEMMA SingleDefinitionsAreExact == IndexInv => SingleDefinitionIsExact
  BY SingleDefinitionHolds DEF SingleDefinitionIsExact, Alone

LEMMA IndexHolds == IndexInv => IndexIsRight
  BY NumbersAreExact, LinksHold, AliasesAreNamed, SingleDefinitionsAreExact DEF IndexIsRight
--------------------------------------------------------------------------------
(***************************************************************************)
(* The invariant of the walks and of the scan of a loop.                   *)
(***************************************************************************)
Call == [node : Node, entered : BOOLEAN]

ControlInv ==
    /\ shape \in Shapes /\ changed \in BOOLEAN
    /\ walk \in {"index", "summary", "motion", "leaf", "done"}
    /\ walk # "index" => Indexed
    /\ stack \in Seq(Call)
    /\ scanPc \in {"none", "block", "instruction"}
    /\ scanPc # "none" => walk = "motion" /\ stack # <<>>

\* Every instruction is listed, once, by the block it says it is in.
BlocksInv ==
    /\ DOMAIN blocks = Block
    /\ \A b \in Block : Lists(blocks[b], { i \in Positions : code[i].block = b })

Scanned == shape.blocks[Loop]

ScanInv ==
    /\ walk = "index" => available = {} /\ start = {} /\ moves = {} /\ passed = <<>>
    /\ available \subseteq 0 .. count.def - 1 /\ start \subseteq 0 .. count.def - 1
    /\ passed \in Seq(Kept) /\ refused \subseteq Positions /\ todo \in Positions \cup {0}
    /\ scanPc # "none" => blockAt \in 1 .. Len(Scanned) + 1
    /\ scanPc = "instruction" =>
         blockAt \in 1 .. Len(Scanned) /\ (todo # 0 => code[todo].block = Scanned[blockAt])

MovesInv ==
    \A m \in moves :
        /\ m.instr \in Kept /\ m.loop \in Node
        /\ m.direct => \E d \in Own("def", m.instr) : Alone(m.instr, d, LoopBlocks(m.loop))

\* The instructions already offered in a pass without a move were refused.
RefusedIn(b) == \A i \in Kept : code[i].block = b => i \in refused

RefusedBefore ==
    LET q == blocks[Scanned[blockAt]]
    IN  \A k \in 1 .. Len(q) :
          q[k] \in Kept /\ (todo = 0 \/ \E p \in 1 .. Len(q) : q[p] = todo /\ k < p) => q[k] \in refused

PassInv ==
    scanPc # "none" /\ ~changed =>
        /\ \A k \in 1 .. blockAt - 1 : RefusedIn(Scanned[k])
        /\ scanPc = "instruction" => RefusedBefore

IInv == IndexInv /\ ControlInv /\ BlocksInv /\ ScanInv /\ MovesInv /\ PassInv /\ AvailableIsExact

LEMMA ShapeFacts ==
    ASSUME ControlInv
    PROVE  /\ shape.root \in Node /\ Block \subseteq Nat
           /\ \A n \in Node : /\ shape.child[n] \in Node \cup {NoNode}
                              /\ shape.sibling[n] \in Node \cup {NoNode}
                              /\ shape.front[n] \in Block /\ shape.blocks[n] \in Seq(Block)
           /\ \A m, n \in Node : shape.front[n] \in LoopBlocks(m) => LoopBlocks(n) \subseteq LoopBlocks(m)
  <1>1. shape \in Shapes
    BY DEF ControlInv
  <1>2. /\ shape.root \in Node /\ {shape.child, shape.sibling} \subseteq [Node -> Node \cup {NoNode}]
        /\ DOMAIN shape.succ \subseteq Nat /\ shape.front \in [Node -> DOMAIN shape.succ]
        /\ shape.blocks \in [Node -> Seq(DOMAIN shape.succ)]
        /\ \A m, n \in Node : shape.front[n] \in SeqExt!ToSet(shape.blocks[m]) =>
                SeqExt!ToSet(shape.blocks[n]) \subseteq SeqExt!ToSet(shape.blocks[m])
    BY <1>1, ShapeAssumption
  <1>3. shape.child \in [Node -> Node \cup {NoNode}] /\ shape.sibling \in [Node -> Node \cup {NoNode}]
    BY <1>2
  <1> QED
    BY <1>2, <1>3 DEF Block, LoopBlocks

LEMMA TopIsCall ==
    ASSUME ControlInv, stack # <<>>
    PROVE  /\ Len(stack) \in Nat \ {0} /\ Top \in Call /\ Loop \in Node
           /\ SeqExt!Front(stack) \in Seq(Call)
           /\ Len(SeqExt!Front(stack)) = Len(stack) - 1
           /\ \A k \in 1 .. Len(stack) - 1 : SeqExt!Front(stack)[k] = stack[k]
  <1>1. stack \in Seq(Call)
    BY DEF ControlInv
  <1>2. Len(stack) \in Nat \ {0}
    BY <1>1, EmptySeq
  <1>3. Top \in Call
    BY <1>1, <1>2 DEF Top
  <1>4. Loop \in Node
    BY <1>3 DEF Loop, Call
  <1> DEFINE m == Len(stack) - 1
  <1>5. m \in 0 .. Len(stack) /\ 1 \in 1 .. Len(stack) + 1
    BY <1>2
  <1>6. /\ SubSeq(stack, 1, m) \in Seq(Call) /\ Len(SubSeq(stack, 1, m)) = m
        /\ \A k \in 1 .. m : SubSeq(stack, 1, m)[k] = stack[k]
    <2>1. /\ SubSeq(stack, 1, m) \in Seq(Call)
          /\ Len(SubSeq(stack, 1, m)) = IF 1 <= m THEN m - 1 + 1 ELSE 0
          /\ \A k \in 1 .. m - 1 + 1 : SubSeq(stack, 1, m)[k] = stack[1 + k - 1]
      BY <1>1, <1>2, SubSeqProperties
    <2>2. m \in Nat
      BY <1>2
    <2> HIDE DEF m
    <2>3. (IF 1 <= m THEN m - 1 + 1 ELSE 0) = m
      BY <2>2
    <2>4. m - 1 + 1 = m
      BY <2>2
    <2>5. \A k \in 1 .. m : 1 + k - 1 = k
      BY <2>2
    <2> QED
      BY <2>1, <2>3, <2>4, <2>5
  <1>7. SeqExt!Front(stack) = SubSeq(stack, 1, m)
    BY DEF SeqExt!Front
  <1> QED
    BY <1>2, <1>3, <1>4, <1>6, <1>7

LEMMA FrameIsCall == ASSUME NEW n \in Node PROVE <<Frame(n)>> \in Seq(Call)
  BY DEF Frame, Call

LEMMA LeaveKeepsCalls ==
    ASSUME ControlInv, stack # <<>>, Leave
    PROVE  stack' \in Seq(Call)
  <1>1. SeqExt!Front(stack) \in Seq(Call) /\ Loop \in Node
    BY TopIsCall
  <1>2. shape.sibling[Loop] \in Node \cup {NoNode}
    BY <1>1, ShapeFacts
  <1> DEFINE rest == IF shape.sibling[Loop] = NoNode THEN <<>> ELSE <<Frame(shape.sibling[Loop])>>
  <1>3. rest \in Seq(Call)
    <2>1. CASE shape.sibling[Loop] = NoNode
      BY <2>1
    <2>2. CASE shape.sibling[Loop] # NoNode
      BY <1>2, <2>2, FrameIsCall
    <2> QED
      BY <2>1, <2>2
  <1> HIDE DEF rest
  <1>4. stack' = SeqExt!Front(stack) \o rest
    BY DEF Leave, rest
  <1> QED
    BY <1>1, <1>3, <1>4

LEMMA DescendKeepsCalls ==
    ASSUME ControlInv, Descend
    PROVE  stack' \in Seq(Call)
  <1>0. stack # <<>>
    BY DEF Descend, Walking
  <1>1. Len(stack) \in Nat \ {0} /\ Top \in Call /\ Loop \in Node /\ stack \in Seq(Call)
    BY <1>0, TopIsCall DEF ControlInv
  <1>2. shape.child[Loop] \in Node \cup {NoNode}
    BY <1>1, ShapeFacts
  <1> DEFINE more == IF shape.child[Loop] = NoNode THEN <<>> ELSE <<Frame(shape.child[Loop])>>
             top == [Top EXCEPT !.entered = TRUE]
  <1>3. more \in Seq(Call)
    <2>1. CASE shape.child[Loop] = NoNode
      BY <2>1
    <2>2. CASE shape.child[Loop] # NoNode
      BY <1>2, <2>2, FrameIsCall
    <2> QED
      BY <2>1, <2>2
  <1>4. top \in Call
    BY <1>1 DEF Call
  <1>5. stack' = [stack EXCEPT ![Len(stack)] = top] \o more
    BY DEF Descend, Top
  <1> HIDE DEF more, top
  <1>6. [stack EXCEPT ![Len(stack)] = top] \in Seq(Call)
    BY <1>1, <1>4, ExceptSeq
  <1> QED
    BY <1>3, <1>5, <1>6
--------------------------------------------------------------------------------
(* The definitions available after an instruction.                         *)
Passing(i, d, h) == IF entry.def[d].instr # i THEN h ELSE (h \ Kills(d)) \cup {d}
Passes(g, i, f, set) ==
    [k \in Nat |-> IF k = 0 THEN set
                   ELSE IF entry.def[f + k - 1].instr # i THEN g[k - 1]
                   ELSE (g[k - 1] \ Kills(f + k - 1)) \cup {f + k - 1}]
Passed(g, i, f, set) ==
    /\ g[0] = set
    /\ \A k \in Nat : g[k + 1] = Passing(i, f + k, g[k])

LEMMA AfterUnfolds ==
    ASSUME NEW i, NEW f \in Nat, first[i].def = f, NEW set \in SUBSET Nat
    PROVE  \E g : Passed(g, i, f, set) /\ After(set, i) = g[count.def - f]
  <1> DEFINE R == SUBSET Nat
             F == [x \in Nat \X R |-> Passing(i, f + x[1], x[2])]
             G == CHOOSE g : g = Passes(g, i, f, set)
  <1>1. F \in [Nat \X R -> R] /\ \A k \in Nat, h \in R : F[<<k, h>>] = Passing(i, f + k, h)
    <2>1. \A x \in Nat \X R : x[1] \in Nat /\ x[2] \in R
      OBVIOUS
    <2>2. \A k \in Nat, h \in R : Passing(i, f + k, h) \in R
      <3> SUFFICES ASSUME NEW k \in Nat, NEW h \in R PROVE Passing(i, f + k, h) \in R
        OBVIOUS
      <3>1. PICK d \in Nat : d = f + k
        OBVIOUS
      <3>2. (h \ Kills(d)) \cup {d} \subseteq Nat
        OBVIOUS
      <3>3. Passing(i, d, h) \in R
        BY <3>2 DEF Passing
      <3> QED
        BY <3>1, <3>3
    <2> HIDE DEF R
    <2> QED
      BY <2>1, <2>2
  <1>2. set \in R
    OBVIOUS
  <1> HIDE DEF F, R
  <1>3. PICK g : Recursion(g, set, F, R)
    BY <1>1, <1>2, RecursionExists, Zenon
  <1>4. /\ g \in [Nat -> R] /\ g[0] = set
        /\ \A k \in Nat : g[k + 1] = Passing(i, f + k, g[k])
    BY <1>1, <1>3 DEF Recursion
  <1>5. ASSUME NEW k \in Nat
        PROVE  g[k] = IF k = 0 THEN set ELSE Passing(i, f + k - 1, g[k - 1])
    <2>1. CASE k = 0
      BY <1>4, <2>1
    <2>2. CASE k # 0
      <3>1. k - 1 \in Nat /\ (k - 1) + 1 = k /\ f + (k - 1) = f + k - 1
        BY <2>2
      <3> QED
        BY <1>4, <2>2, <3>1
    <2> QED
      BY <2>1, <2>2
  <1>6. g = Passes(g, i, f, set)
    <2>1. g = [k \in Nat |-> g[k]]
      BY <1>4
    <2>2. Passes(g, i, f, set) = [k \in Nat |-> IF k = 0 THEN set ELSE Passing(i, f + k - 1, g[k - 1])]
      BY DEF Passes, Passing
    <2> QED
      BY <1>5, <2>1, <2>2
  <1>7. After(set, i) = G[count.def - f]
    BY DEF After, Passes
  <1>8. G = Passes(G, i, f, set)
    BY <1>6, Zenon
  <1> HIDE DEF G
  <1>9. \A k \in Nat : G[k] = IF k = 0 THEN set ELSE Passing(i, f + k - 1, G[k - 1])
    <2>1. G = [k \in Nat |-> IF k = 0 THEN set ELSE Passing(i, f + k - 1, G[k - 1])]
      BY <1>8 DEF Passes, Passing
    <2> QED
      BY <2>1
  <1>10. ASSUME NEW k \in Nat PROVE G[k + 1] = Passing(i, f + k, G[k])
    <2>1. k + 1 \in Nat /\ k + 1 # 0 /\ (k + 1) - 1 = k /\ f + (k + 1) - 1 = f + k
      OBVIOUS
    <2> QED
      BY <1>9, <2>1
  <1>11. Passed(G, i, f, set)
    BY <1>9, <1>10 DEF Passed
  <1> QED
    BY <1>7, <1>11

(* A definition is available after an instruction: it was before and none  *)
(* of the instruction's kills it, or is one of them no later one kills.    *)
Outlives(i, d, set) ==
    \/ d \in set /\ \A e \in Own("def", i) : d \notin Kills(e)
    \/ d \in Own("def", i) /\ \A e \in Own("def", i) : e > d => d \notin Kills(e)

LEMMA AfterIsExact ==
    ASSUME IndexInv, Indexed, NEW i \in Kept, NEW set \in SUBSET Nat
    PROVE  \A d : d \in After(set, i) <=> Outlives(i, d, set)
  <1> DEFINE f == first[i].def
             a == Amount(i, "def")
             N == count.def
  <1>1. "def" \in Role /\ entry.def = entry["def"] /\ count.def = count["def"] /\ first[i].def = first[i]["def"]
    BY DEF Role
  <1>2. /\ N \in Nat /\ DOMAIN entry.def = 0 .. N - 1
        /\ Own("def", i) = f .. f + a - 1 /\ a \in Nat /\ f \in Nat /\ f + a <= N
    BY <1>1, OwnNumbers DEF Numbers
  <1>3. \A k : k \in Own("def", i) <=> k \in 0 .. N - 1 /\ entry.def[k].instr = i
    BY <1>1, <1>2 DEF Own
  <1>4. PICK g : Passed(g, i, f, set) /\ After(set, i) = g[N - f]
    BY <1>2, AfterUnfolds
  <1> HIDE DEF f, a, N
  <1>5. /\ g[0] = set
        /\ \A k \in Nat : g[k + 1] = IF entry.def[f + k].instr # i THEN g[k]
                                     ELSE (g[k] \ Kills(f + k)) \cup {f + k}
    BY <1>4 DEF Passed, Passing
  <1> DEFINE Right(k) == \A d : d \in g[k] <=>
                           \/ d \in set /\ \A e \in f .. f + k - 1 : d \notin Kills(e)
                           \/ d \in f .. f + k - 1 /\ \A e \in f .. f + k - 1 : e > d => d \notin Kills(e)
             P == { k \in Nat : k <= a => Right(k) }
  <1>6. 0 \in P
    <2>1. \A e : e \notin f .. f + 0 - 1
      BY <1>2
    <2>2. Right(0)
      BY <1>5, <2>1
    <2> QED
      BY <2>2
  <1>7. ASSUME NEW k \in Nat, k \in P PROVE k + 1 \in P
    <2> SUFFICES ASSUME k + 1 <= a PROVE Right(k + 1)
      OBVIOUS
    <2>1. Right(k)
      BY <1>2, <1>7
    <2> DEFINE e == f + k
    <2>2. e \in f .. f + a - 1
      BY <1>2
    <2>3. g[k + 1] = (g[k] \ Kills(e)) \cup {e}
      <3>1. entry.def[e].instr = i
        BY <1>2, <1>3, <2>2
      <3> QED
        BY <1>5, <3>1
    <2>4. /\ \A x : x \in f .. f + (k + 1) - 1 <=> x \in f .. f + k - 1 \/ x = e
          /\ \A x \in f .. f + k - 1 : e > x /\ ~(x > e) /\ x # e
          /\ ~(e > e)
      BY <1>2
    <2> HIDE DEF P, e
    <2>5. ASSUME NEW d
          PROVE  d \in g[k + 1] <=>
                   \/ d \in set /\ \A x \in f .. f + (k + 1) - 1 : d \notin Kills(x)
                   \/ /\ d \in f .. f + (k + 1) - 1
                      /\ \A x \in f .. f + (k + 1) - 1 : x > d => d \notin Kills(x)
      <3>1. CASE d = e
        <4>1. d \in g[k + 1]
          BY <2>3, <3>1
        <4>2. d \in f .. f + (k + 1) - 1 /\ \A x \in f .. f + (k + 1) - 1 : ~(x > d)
          BY <2>4, <3>1
        <4> QED
          BY <4>1, <4>2
      <3>2. CASE d # e
        <4>1. d \in g[k + 1] <=> d \in g[k] /\ d \notin Kills(e)
          BY <2>3, <3>2
        <4>2. d \in f .. f + (k + 1) - 1 <=> d \in f .. f + k - 1
          BY <2>4, <3>2
        <4>3. (\A x \in f .. f + (k + 1) - 1 : d \notin Kills(x)) <=>
                (\A x \in f .. f + k - 1 : d \notin Kills(x)) /\ d \notin Kills(e)
          BY <2>4
        <4>4. d \in f .. f + k - 1 =>
                ((\A x \in f .. f + (k + 1) - 1 : x > d => d \notin Kills(x)) <=>
                 (\A x \in f .. f + k - 1 : x > d => d \notin Kills(x)) /\ d \notin Kills(e))
          BY <2>4
        <4> QED
          BY <2>1, <4>1, <4>2, <4>3, <4>4
      <3> QED
        BY <3>1, <3>2
    <2> QED
      BY <2>5
  <1> HIDE DEF P
  <1>8. Nat \subseteq P
    BY <1>6, <1>7, Induction
  <1>9. Right(a)
    BY <1>2, <1>8 DEF P
  <1> HIDE DEF Right
  <1> DEFINE Q == { k \in Nat : a + k <= N - f => g[a + k] = g[a] }
  <1>10. 0 \in Q
    BY <1>2
  <1>11. ASSUME NEW k \in Nat, k \in Q PROVE k + 1 \in Q
    <2> SUFFICES ASSUME a + (k + 1) <= N - f PROVE g[a + (k + 1)] = g[a]
      OBVIOUS
    <2>1. g[a + k] = g[a]
      BY <1>2, <1>11
    <2>2. a + k \in Nat /\ a + (k + 1) = (a + k) + 1
      BY <1>2
    <2>3. f + (a + k) \in 0 .. N - 1 /\ f + (a + k) \notin f .. f + a - 1
      BY <1>2
    <2>4. entry.def[f + (a + k)].instr # i
      BY <1>2, <1>3, <2>3
    <2>5. g[(a + k) + 1] = g[a + k]
      BY <1>5, <2>2, <2>4
    <2> QED
      BY <2>1, <2>2, <2>5
  <1> HIDE DEF Q
  <1>12. Nat \subseteq Q
    BY <1>10, <1>11, Induction
  <1>13. g[N - f] = g[a]
    <2> DEFINE k == N - f - a
    <2>1. k \in Nat /\ a + k = N - f
      BY <1>2
    <2> HIDE DEF k
    <2>2. k \in Q
      BY <1>12, <2>1
    <2> QED
      BY <1>2, <2>1, <2>2 DEF Q
  <1> QED
    BY <1>2, <1>4, <1>9, <1>13 DEF Right, Outlives
--------------------------------------------------------------------------------
(* Offering an instruction keeps the set of available definitions exact.   *)
Kill(e, d) == entry.def[e].names = entry.def[d].names /\ ~entry.def[e].implicit
Fate(d) ==
    \/ d \in start /\ SurvivesFrom(d, 1, -1)
    \/ \E k \in DOMAIN passed : d \in Own("def", passed[k]) /\ SurvivesFrom(d, k, d)

LEMMA KillsAreExact ==
    ASSUME IndexInv, Indexed, NEW e \in DOMAIN entry.def, NEW d \in DOMAIN entry.def
    PROVE  d \in Kills(e) <=> Kill(e, d)
  <1>1. SeqExt!ToSet(ListOf(entry.def[e])) = { k \in DOMAIN entry.def : entry.def[k].names = entry.def[e].names }
    BY WalkedList
  <1> QED
    BY <1>1 DEF Kills, Kill

LEMMA SurvivingAnother ==
    ASSUME passed \in Seq(Kept), NEW i \in Kept, passed' = Append(passed, i), entry' = entry,
           DOMAIN entry.def \subseteq Nat, NEW d, NEW n, n = Len(passed)
    PROVE  /\ \A k \in DOMAIN passed : \A after :
                SurvivesFrom(d, k, after)' <=>
                    SurvivesFrom(d, k, after) /\ \A e \in Own("def", i) : ~Kill(e, d)
           /\ SurvivesFrom(d, 1, -1)' <=>
                    SurvivesFrom(d, 1, -1) /\ \A e \in Own("def", i) : ~Kill(e, d)
           /\ \A after : SurvivesFrom(d, n + 1, after)' <=>
                    \A e \in Own("def", i) : e > after => ~Kill(e, d)
  <1> DEFINE more == passed'
             own(j) == Own("def", more[j])
             Hit(j, k, after) == \E e \in own(j) : Kill(e, d) /\ (j = k => e > after)
  <1>1. /\ n \in Nat /\ DOMAIN passed = 1 .. n /\ DOMAIN more = 1 .. n + 1 /\ Len(more) = n + 1
        /\ \A j \in 1 .. n : more[j] = passed[j]
        /\ more[n + 1] = i
    BY AppendProperties
  <1>2. \A x : Own("def", x)' = Own("def", x)
    BY DEF Own
  <1>3. \A k, after : SurvivesFrom(d, k, after)' <=> \A j \in k .. n + 1 : ~Hit(j, k, after)
    <2>1. Len(passed') = n + 1
      BY <1>1
    <2>2. \A j : Own("def", passed[j])' = own(j)
      BY DEF Own
    <2> HIDE DEF own
    <2> QED
      BY <2>1, <2>2 DEF SurvivesFrom, Kill
  <1>4. ASSUME NEW k \in 1 .. n + 1, NEW after
        PROVE  SurvivesFrom(d, k, after) <=> \A j \in k .. n : ~Hit(j, k, after)
    <2>1. \A j \in k .. n : more[j] = passed[j]
      BY <1>1
    <2> QED
      BY <2>1 DEF SurvivesFrom, Kill
  <1>5. \A e \in own(n + 1) : e > -1
    <2>1. own(n + 1) \subseteq DOMAIN entry.def
      BY DEF Own
    <2> QED
      BY <2>1
  <1>6. own(n + 1) = Own("def", i)
    BY <1>1
  <1> HIDE DEF own, more
  <1>7. ASSUME NEW k \in DOMAIN passed, NEW after
        PROVE  SurvivesFrom(d, k, after)' <=>
                 SurvivesFrom(d, k, after) /\ \A e \in Own("def", i) : ~Kill(e, d)
    <2>1. k \in 1 .. n + 1 /\ k # n + 1 /\ \A j : j \in k .. n + 1 <=> j \in k .. n \/ j = n + 1
      BY <1>1
    <2>2. Hit(n + 1, k, after) <=> \E e \in Own("def", i) : Kill(e, d)
      BY <1>6, <2>1
    <2>3. SurvivesFrom(d, k, after)' <=> \A j \in k .. n + 1 : ~Hit(j, k, after)
      BY <1>3
    <2>4. SurvivesFrom(d, k, after) <=> \A j \in k .. n : ~Hit(j, k, after)
      BY <1>4, <2>1
    <2> HIDE DEF Hit
    <2> QED
      BY <2>1, <2>2, <2>3, <2>4
  <1>8. ASSUME NEW after
        PROVE  /\ SurvivesFrom(d, n + 1, after)' <=>
                    \A e \in Own("def", i) : e > after => ~Kill(e, d)
               /\ SurvivesFrom(d, n + 1, after)
    <2>1. n + 1 \in 1 .. n + 1 /\ (\A j : j \in n + 1 .. n + 1 <=> j = n + 1) /\ \A j : j \notin n + 1 .. n
      BY <1>1
    <2>2. Hit(n + 1, n + 1, after) <=> \E e \in Own("def", i) : Kill(e, d) /\ e > after
      BY <1>6
    <2>3. SurvivesFrom(d, n + 1, after)' <=> \A j \in n + 1 .. n + 1 : ~Hit(j, n + 1, after)
      BY <1>3
    <2>4. SurvivesFrom(d, n + 1, after) <=> \A j \in n + 1 .. n : ~Hit(j, n + 1, after)
      BY <1>4, <2>1
    <2> HIDE DEF Hit
    <2> QED
      BY <2>1, <2>2, <2>3, <2>4
  <1>9. SurvivesFrom(d, 1, -1)' <=> SurvivesFrom(d, 1, -1) /\ \A e \in Own("def", i) : ~Kill(e, d)
    <2>1. CASE n = 0
      BY <1>5, <1>6, <1>8, <2>1
    <2>2. CASE n # 0
      <3>1. 1 \in DOMAIN passed
        BY <1>1, <2>2
      <3> QED
        BY <1>7, <3>1
    <2> QED
      BY <2>1, <2>2
  <1> QED
    BY <1>7, <1>8, <1>9

LEMMA OfferIsExact ==
    ASSUME IndexInv, Indexed, passed \in Seq(Kept), start \subseteq 0 .. count.def - 1,
           available = { d \in DOMAIN entry.def : Fate(d) },
           NEW i \in Kept, passed' = Append(passed, i), available' = After(available, i),
           entry' = entry, start' = start
    PROVE  available' = { d \in DOMAIN entry'.def : Fate(d)' }
  <1> DEFINE D == DOMAIN entry.def
             own(x) == Own("def", x)
  <1>1. "def" \in Role /\ D = 0 .. count.def - 1 /\ D \subseteq Nat
    <2>1. "def" \in Role /\ entry.def = entry["def"] /\ count.def = count["def"]
      BY DEF Role
    <2> QED
      BY <2>1, OwnNumbers
  <1>2. \A x : own(x) \subseteq D /\ (own(x))' = own(x)
    BY DEF Own
  <1>3. \A d : d \in available' <=> Outlives(i, d, available)
    <2>1. available \in SUBSET Nat
      BY <1>1
    <2> QED
      BY <2>1, AfterIsExact
  <1>4. \A d \in D : d \in available <=> Fate(d)
    OBVIOUS
  <1>5. \A d \in D, e \in own(i) : d \in Kills(e) <=> Kill(e, d)
    BY <1>2, KillsAreExact
  <1>6. /\ Len(passed) \in Nat /\ DOMAIN passed = 1 .. Len(passed)
        /\ DOMAIN passed' = 1 .. Len(passed) + 1
        /\ \A j \in DOMAIN passed : passed'[j] = passed[j]
        /\ passed'[Len(passed) + 1] = i
    BY AppendProperties
  <1>0. PICK n \in Nat : n = Len(passed)
    BY <1>6
  <1> DEFINE Spared(d) == \A e \in own(i) : ~Kill(e, d)
             Last(d) == d \in own(i) /\ \A e \in own(i) : e > d => ~Kill(e, d)
  <1>7. ASSUME NEW d \in D PROVE Outlives(i, d, available) <=> (Fate(d) /\ Spared(d)) \/ Last(d)
    BY <1>4, <1>5 DEF Outlives
  <1>8. ASSUME NEW d \in D PROVE Fate(d)' <=> (Fate(d) /\ Spared(d)) \/ Last(d)
    <2>1. /\ \A k \in DOMAIN passed : \A after : SurvivesFrom(d, k, after)' <=> SurvivesFrom(d, k, after) /\ Spared(d)
          /\ SurvivesFrom(d, 1, -1)' <=> SurvivesFrom(d, 1, -1) /\ Spared(d)
          /\ \A after : SurvivesFrom(d, n + 1, after)' <=> \A e \in own(i) : e > after => ~Kill(e, d)
      BY <1>0, <1>1, SurvivingAnother
    <2>2. Fate(d)' <=> \/ d \in start /\ SurvivesFrom(d, 1, -1)'
                       \/ \E k \in DOMAIN passed' : d \in own(passed'[k]) /\ SurvivesFrom(d, k, d)'
      <3>1. \A k : (Own("def", passed[k]))' = own(passed'[k])
        BY DEF Own
      <3> QED
        BY <3>1 DEF Fate
    <2>3. \A k : k \in DOMAIN passed' <=> k \in DOMAIN passed \/ k = n + 1
      BY <1>0, <1>6
    <2> HIDE DEF own, Spared
    <2>4. (\E k \in DOMAIN passed' : d \in own(passed'[k]) /\ SurvivesFrom(d, k, d)') <=>
            \/ \E k \in DOMAIN passed : d \in own(passed[k]) /\ SurvivesFrom(d, k, d) /\ Spared(d)
            \/ Last(d)
      <3>1. \A k \in DOMAIN passed : own(passed'[k]) = own(passed[k])
        BY <1>6
      <3>2. own(passed'[n + 1]) = own(i)
        BY <1>0, <1>6
      <3> QED
        BY <2>1, <2>3, <3>1, <3>2
    <2> HIDE DEF Last
    <2> QED
      BY <2>1, <2>2, <2>4 DEF Fate, own
  <1>9. \A d : d \in available' => d \in D
    <2>1. \A d : Outlives(i, d, available) => d \in available \/ d \in own(i)
      BY DEF Outlives
    <2> QED
      BY <1>2, <1>3, <2>1
  <1> HIDE DEF D, Spared, Last, own
  <1>10. available' = { d \in D : Fate(d)' }
    BY <1>3, <1>7, <1>8, <1>9
  <1> QED
    BY <1>10 DEF D
--------------------------------------------------------------------------------
(* The lists of the blocks.                                                *)
LEMMA BlockList ==
    ASSUME NEW n \in Nat, NEW T \in SUBSET (1 .. n)
    PROVE  Lists(Chosen([k \in 1 .. n |-> k], T), T)
  <1>1. [k \in 1 .. n |-> 1 + k - 1] = [k \in 1 .. n |-> k]
    OBVIOUS
  <1>2. { 1 + k - 1 : k \in T } = T
    <2>1. \A k \in T : 1 + k - 1 = k
      OBVIOUS
    <2> QED
      BY <2>1
  <1>3. Lists(Chosen([k \in 1 .. n |-> 1 + k - 1], T), { 1 + k - 1 : k \in T })
    BY NumberedList
  <1> QED
    BY <1>1, <1>2, <1>3

LEMMA RemovedList ==
    ASSUME NEW q, NEW A, Lists(q, A), NEW x
    PROVE  Lists(Chosen(q, { k \in DOMAIN q : q[k] # x }), A \ {x})
  <1> DEFINE T == { k \in DOMAIN q : q[k] # x }
             p == Chosen(q, T)
             m == Cardinality(T)
  <1>1. PICK n \in Nat : n = Len(q)
    BY DEF Lists
  <1>2. /\ q \in Seq(Nat) /\ DOMAIN q = 1 .. n
        /\ \A j, k \in 1 .. n : q[j] = q[k] => j = k
        /\ \A y : y \in A <=> \E k \in 1 .. n : q[k] = y
    BY <1>1 DEF Lists
  <1>3. \A k : k \in T <=> k \in 1 .. n /\ q[k] # x
    BY <1>1, <1>2
  <1>4. /\ m \in Nat /\ p \in Seq(Nat) /\ Len(p) = m
        /\ \E places : /\ Enumerates(places, T, m)
                       /\ \A k \in 1 .. m : p[k] = q[places[k]]
    <2>1. q \in Seq(Nat) /\ T \in SUBSET (1 .. Len(q))
      BY <1>1, <1>2
    <2> HIDE DEF T
    <2> QED
      BY <2>1, ChosenPlaces
  <1> HIDE DEF T
  <1> HIDE DEF p, m
  <1>5. PICK places : Enumerates(places, T, m) /\ \A k \in 1 .. m : p[k] = q[places[k]]
    BY <1>4
  <1>6. /\ \A k \in 1 .. m : places[k] \in T /\ places[k] \in 1 .. n
        /\ \A j, k \in 1 .. m : j < k => places[j] < places[k]
        /\ \A t \in T : \E k \in 1 .. m : places[k] = t
    BY <1>3, <1>5 DEF Enumerates
  <1>7. ASSUME NEW j \in 1 .. m, NEW k \in 1 .. m, p[j] = p[k] PROVE j = k
    <2>1. places[j] = places[k] /\ places[j] \in Int
      BY <1>2, <1>5, <1>6, <1>7
    <2>2. ~(j < k) /\ ~(k < j)
      BY <1>6, <2>1
    <2> QED
      BY <1>4, <2>2
  <1>8. ASSUME NEW y PROVE y \in A \ {x} <=> \E k \in 1 .. m : p[k] = y
    <2>1. ASSUME y \in A \ {x} PROVE \E k \in 1 .. m : p[k] = y
      <3>1. PICK t \in 1 .. n : q[t] = y
        BY <1>2, <2>1
      <3>2. PICK k \in 1 .. m : places[k] = t
        BY <1>3, <1>6, <2>1, <3>1
      <3> QED
        BY <1>5, <3>1, <3>2
    <2>2. ASSUME NEW k \in 1 .. m, p[k] = y PROVE y \in A \ {x}
      BY <1>2, <1>3, <1>5, <1>6, <2>2
    <2> QED
      BY <2>1, <2>2
  <1>9. Lists(p, A \ {x})
    BY <1>4, <1>7, <1>8 DEF Lists
  <1> QED
    BY <1>9 DEF p, T

LEMMA AppendedList ==
    ASSUME NEW q, NEW A, Lists(q, A), NEW x \in Nat, x \notin A
    PROVE  Lists(Append(q, x), A \cup {x})
  <1> DEFINE r == Append(q, x)
  <1>1. PICK n \in Nat : n = Len(q)
    BY DEF Lists
  <1>2. /\ q \in Seq(Nat)
        /\ \A j, k \in 1 .. n : q[j] = q[k] => j = k
        /\ \A y : y \in A <=> \E k \in 1 .. n : q[k] = y
    BY <1>1 DEF Lists
  <1>3. r \in Seq(Nat) /\ Len(r) = n + 1 /\ r[n + 1] = x /\ \A j \in 1 .. n : r[j] = q[j]
    BY <1>1, <1>2, Appended
  <1> HIDE DEF r
  <1>4. \A k : k \in 1 .. n + 1 <=> k \in 1 .. n \/ k = n + 1
    OBVIOUS
  <1>5. ASSUME NEW j \in 1 .. n + 1, NEW k \in 1 .. n + 1, r[j] = r[k] PROVE j = k
    <2>1. \A l \in 1 .. n : r[l] # x
      BY <1>2, <1>3
    <2> QED
      BY <1>2, <1>3, <1>4, <1>5, <2>1
  <1>6. ASSUME NEW y PROVE y \in A \cup {x} <=> \E k \in 1 .. n + 1 : r[k] = y
    BY <1>2, <1>3, <1>4
  <1>7. Lists(r, A \cup {x})
    BY <1>3, <1>5, <1>6 DEF Lists
  <1> QED
    BY <1>7 DEF r

Residents(b) == { i \in Positions : code[i].block = b }

LEMMA MoveKeepsBlocks ==
    ASSUME IndexInv, ControlInv, BlocksInv, NEW i \in Positions, code[i].block \in Block, NEW direct,
           Loop \in Node, Move(i, direct), UNCHANGED <<mode, indexPc, at, tree, list, first, count, entry, links, shape>>
    PROVE  BlocksInv'
  <1> DEFINE from == code[i].block
             to == shape.front[Loop]
             q == Chosen(blocks[from], { k \in DOMAIN blocks[from] : blocks[from][k] # i })
  <1>1. to \in Block /\ to \in Nat /\ Block' = Block
    BY ShapeFacts DEF Block
  <1>2. MovesOne(i, to)
    BY DEF Move, MovesOne
  <1>3. /\ Positions' = Positions /\ \A j \in Positions : j # i => code'[j] = code[j]
        /\ code'[i].block = to /\ i \in Nat
    BY <1>1, <1>2, MoveKeepsIndex DEF Positions
  <1>4. blocks' = [[blocks EXCEPT ![from] = q] EXCEPT ![to] = Append(@, i)]
    BY DEF Move
  <1>5. /\ DOMAIN blocks = Block
        /\ \A b \in Block : Lists(blocks[b], Residents(b))
    BY DEF BlocksInv, Residents
  <1>6. Lists(q, Residents(from) \ {i})
    BY <1>5, RemovedList
  <1> HIDE DEF from, to, q
  <1>7. /\ DOMAIN blocks' = Block
        /\ \A b \in Block : blocks'[b] = IF b = to THEN Append(IF b = from THEN q ELSE blocks[b], i)
                                         ELSE IF b = from THEN q ELSE blocks[b]
    <2> DEFINE mid == [blocks EXCEPT ![from] = q]
    <2>1. DOMAIN mid = Block /\ \A b \in Block : mid[b] = IF b = from THEN q ELSE blocks[b]
      BY <1>5
    <2>2. blocks' = [mid EXCEPT ![to] = Append(mid[to], i)]
      BY <1>4
    <2> HIDE DEF mid
    <2>3. DOMAIN blocks' = Block /\ \A b \in Block : blocks'[b] = IF b = to THEN Append(mid[b], i) ELSE mid[b]
      BY <1>1, <2>1, <2>2
    <2> QED
      BY <2>1, <2>3
  <1>8. i \in Residents(from) /\ \A b : b # from => i \notin Residents(b)
    BY DEF Residents, from
  <1>9. ASSUME NEW b \in Block PROVE Lists(blocks'[b], Residents(b)')
    <2>1. Residents(b)' = (Residents(b) \ {i}) \cup (IF b = to THEN {i} ELSE {})
      <3>1. Residents(b)' = { j \in Positions : code'[j].block = b }
        BY <1>3 DEF Residents
      <3> QED
        BY <1>3, <3>1 DEF Residents
    <2> DEFINE p == IF b = from THEN q ELSE blocks[b]
    <2>2. Lists(p, Residents(b) \ {i})
      <3>1. CASE b = from
        BY <1>6, <3>1
      <3>2. CASE b # from
        <4>1. Residents(b) \ {i} = Residents(b)
          BY <1>8, <3>2
        <4> QED
          BY <1>5, <3>2, <4>1
      <3> QED
        BY <3>1, <3>2
    <2>3. blocks'[b] = IF b = to THEN Append(p, i) ELSE p
      BY <1>7
    <2> HIDE DEF p
    <2>4. CASE b = to
      <3>1. Lists(Append(p, i), (Residents(b) \ {i}) \cup {i})
        BY <1>3, <2>2, AppendedList
      <3> QED
        BY <2>1, <2>3, <2>4, <3>1
    <2>5. CASE b # to
      <3>1. Residents(b)' = Residents(b) \ {i}
        BY <2>1, <2>5
      <3> QED
        BY <2>2, <2>3, <2>5, <3>1
    <2> QED
      BY <2>4, <2>5
  <1> QED
    BY <1>1, <1>7, <1>9 DEF BlocksInv, Residents

(* The instruction after one in the list of a block.                       *)
LEMMA NextInBlock ==
    ASSUME BlocksInv, NEW b \in Block, NEW i \in Positions
    PROVE  /\ NextOf(i, b) \in Positions \cup {0}
           /\ NextOf(i, b) # 0 => code[NextOf(i, b)].block = b /\ NextOf(i, b) # i
           /\ \A p \in 1 .. Len(blocks[b]) : blocks[b][p] = i =>
                 NextOf(i, b) = IF p = Len(blocks[b]) THEN 0 ELSE blocks[b][p + 1]
  <1> DEFINE q == blocks[b]
             later == { k \in DOMAIN q : k > 1 /\ q[k - 1] = i }
             c == CHOOSE k \in later : TRUE
  <1>1. Lists(q, Residents(b))
    BY DEF BlocksInv, Residents
  <1>2. PICK n \in Nat : n = Len(q)
    BY <1>1 DEF Lists
  <1>3. /\ DOMAIN q = 1 .. n
        /\ \A j, k \in 1 .. n : q[j] = q[k] => j = k
        /\ \A k \in 1 .. n : q[k] \in Residents(b)
    BY <1>1, <1>2 DEF Lists
  <1>4. NextOf(i, b) = IF later = {} THEN 0 ELSE q[c]
    BY DEF NextOf
  <1>5. later # {} => c \in 1 .. n /\ c > 1 /\ q[c - 1] = i
    BY <1>3
  <1>6. \A k : k \in later <=> k \in 1 .. n /\ k > 1 /\ q[k - 1] = i
    BY <1>3
  <1> HIDE DEF q, later, c
  <1>7. CASE later = {}
    <2>1. NextOf(i, b) = 0
      BY <1>4, <1>7
    <2>2. ASSUME NEW p \in 1 .. n, q[p] = i PROVE p = n
      <3> SUFFICES ASSUME p # n PROVE FALSE
        OBVIOUS
      <3>1. p + 1 \in 1 .. n /\ p + 1 > 1 /\ (p + 1) - 1 = p
        OBVIOUS
      <3> QED
        BY <1>6, <1>7, <2>2, <3>1
    <2> QED
      BY <1>2, <2>1, <2>2 DEF q
  <1>8. CASE later # {}
    <2>1. NextOf(i, b) = q[c] /\ c \in 1 .. n /\ c > 1 /\ q[c - 1] = i /\ c - 1 \in 1 .. n
      BY <1>4, <1>5, <1>8
    <2>2. q[c] \in Positions /\ code[q[c]].block = b
      BY <1>3, <2>1 DEF Residents
    <2>3. q[c] # i
      BY <1>3, <2>1
    <2>4. ASSUME NEW p \in 1 .. n, q[p] = i PROVE p # n /\ p + 1 = c
      BY <1>3, <2>1, <2>4
    <2> QED
      BY <1>2, <2>1, <2>2, <2>3, <2>4 DEF q
  <1> QED
    BY <1>7, <1>8

(* The loop that is scanned.                                               *)
LEMMA ScannedLoop ==
    ASSUME ControlInv, ScanInv, scanPc # "none"
    PROVE  /\ Indexed /\ walk = "motion" /\ Loop \in Node /\ Scanned \in Seq(Block) /\ Len(Scanned) \in Nat
           /\ \A k \in 1 .. Len(Scanned) : Scanned[k] \in Block /\ Scanned[k] \in LoopBlocks(Loop)
           /\ \A b \in LoopBlocks(Loop) : \E k \in 1 .. Len(Scanned) : Scanned[k] = b
           /\ blockAt \in 1 .. Len(Scanned) + 1
           /\ scanPc = "instruction" => blockAt \in 1 .. Len(Scanned) /\ Scanned[blockAt] \in Block
  <1>1. walk = "motion" /\ stack # <<>> /\ Indexed
    BY DEF ControlInv
  <1>2. Loop \in Node
    BY <1>1, TopIsCall
  <1>3. Scanned \in Seq(Block)
    BY <1>2, ShapeFacts DEF Scanned
  <1>4. /\ Len(Scanned) \in Nat /\ DOMAIN Scanned = 1 .. Len(Scanned)
        /\ \A k \in 1 .. Len(Scanned) : Scanned[k] \in Block
    BY <1>3
  <1>5. LoopBlocks(Loop) = { Scanned[k] : k \in 1 .. Len(Scanned) }
    BY <1>4 DEF LoopBlocks, Scanned, SeqExt!ToSet
  <1>6. blockAt \in 1 .. Len(Scanned) + 1 /\ (scanPc = "instruction" => blockAt \in 1 .. Len(Scanned))
    BY DEF ScanInv
  <1> QED
    BY <1>1, <1>2, <1>3, <1>4, <1>5, <1>6
--------------------------------------------------------------------------------
LEMMA MotionStarts == Init => IInv
  <1> SUFFICES ASSUME Init PROVE IInv
    OBVIOUS
  <1>1. IndexInit /\ IndexInv
    BY IndexStarts DEF Init
  <1>2. /\ shape \in Shapes /\ walk = "index" /\ stack = <<>> /\ scanPc = "none" /\ todo = 0
        /\ changed = FALSE /\ available = {} /\ start = {} /\ passed = <<>> /\ refused = {} /\ moves = {}
        /\ blocks = [b \in Block |-> Chosen([i \in Positions |-> i], { i \in Positions : code[i].block = b })]
    BY DEF Init
  <1>3. ControlInv
    <2>1. <<>> \in Seq(Call)
      OBVIOUS
    <2> QED
      BY <1>2, <2>1 DEF ControlInv
  <1>4. BlocksInv
    <2>1. PICK n \in Nat : n = Len(code)
      BY <1>1 DEF IndexInv, Coded
    <2>2. Positions = 1 .. n
      BY <2>1 DEF Positions
    <2>3. ASSUME NEW b \in Block PROVE Lists(blocks[b], Residents(b))
      <3>1. Residents(b) \in SUBSET (1 .. n)
        BY <2>2 DEF Residents
      <3>2. blocks[b] = Chosen([k \in 1 .. n |-> k], Residents(b))
        BY <1>2, <2>2 DEF Residents
      <3> QED
        BY <3>1, <3>2, BlockList
    <2>4. DOMAIN blocks = Block
      BY <1>2
    <2> QED
      BY <2>3, <2>4 DEF BlocksInv, Residents
  <1>5. ScanInv
    BY <1>2 DEF ScanInv
  <1>6. MovesInv
    BY <1>2 DEF MovesInv
  <1>7. PassInv
    BY <1>2 DEF PassInv
  <1>8. AvailableIsExact
    BY <1>2 DEF AvailableIsExact
  <1> QED
    BY <1>1, <1>3, <1>4, <1>5, <1>6, <1>7, <1>8 DEF IInv

(***************************************************************************)
(* The steps.  An action of a walk leaves the index, the blocks and the    *)
(* scan alone; the scan changes the code by moves only.                    *)
(***************************************************************************)
\* What is not about the scan's progress stays when the code and index do.
LEMMA UnmovedCode ==
    ASSUME IInv, UNCHANGED <<ivars, shape, blocks, moves>>
    PROVE  /\ IndexInv' /\ BlocksInv' /\ MovesInv'
           /\ Positions' = Positions /\ Kept' = Kept /\ (Indexed' <=> Indexed) /\ Block' = Block
           /\ \A n : LoopBlocks(n)' = LoopBlocks(n)
           /\ \A i : (Own("def", i))' = Own("def", i)
  <1>0. code' = code /\ entry' = entry /\ indexPc' = indexPc /\ shape' = shape /\ blocks' = blocks /\ moves' = moves
    BY DEF ivars
  <1>1. IndexInv'
    BY IndexStays DEF IInv
  <1>2. Positions' = Positions /\ Kept' = Kept /\ (Indexed' <=> Indexed) /\ Block' = Block
    BY <1>0 DEF Positions, Kept, Indexed, Block
  <1>3. /\ \A n : LoopBlocks(n)' = LoopBlocks(n)
        /\ \A i : (Own("def", i))' = Own("def", i)
    BY <1>0 DEF LoopBlocks, Own
  <1>4. BlocksInv'
    BY <1>0, <1>2 DEF IInv, BlocksInv
  <1>5. \A i, d, b : Alone(i, d, b)' <=> Alone(i, d, b)
    BY <1>0, <1>2, <1>3 DEF Alone
  <1>6. MovesInv'
    BY <1>0, <1>2, <1>3, <1>5 DEF IInv, MovesInv
  <1> QED
    BY <1>1, <1>2, <1>3, <1>4, <1>6

LEMMA BuildKeepsMotion == IInv /\ BuildIndex => IInv'
  <1> SUFFICES ASSUME IInv, BuildIndex PROVE IInv'
    OBVIOUS
  <1>0. /\ walk = "index" /\ IndexNext /\ UNCHANGED mvars
    BY DEF BuildIndex
  <1>1. IndexInv'
    BY <1>0, IndexKeeps DEF IInv
  <1>2. code' = code
    BY <1>0 DEF IndexNext, Begin, Collect, Census, Build
  <1>3. /\ shape' = shape /\ blocks' = blocks /\ walk' = walk /\ stack' = stack /\ scanPc' = scanPc
        /\ blockAt' = blockAt /\ todo' = todo /\ changed' = changed /\ available' = available
        /\ start' = start /\ passed' = passed /\ refused' = refused /\ moves' = moves
    BY <1>0 DEF mvars, svars
  <1>4. Positions' = Positions /\ Kept' = Kept /\ Block' = Block
    BY <1>2, <1>3 DEF Positions, Kept, Block
  <1>5. scanPc = "none"
    BY <1>0 DEF IInv, ControlInv
  <1>6. ControlInv'
    BY <1>0, <1>3, <1>5 DEF IInv, ControlInv
  <1>7. BlocksInv'
    BY <1>2, <1>3, <1>4 DEF IInv, BlocksInv
  <1>8. ScanInv'
    BY <1>0, <1>3, <1>4, <1>5 DEF IInv, ScanInv
  <1>9. MovesInv'
    BY <1>0, <1>3 DEF IInv, ScanInv, MovesInv
  <1>10. PassInv' /\ AvailableIsExact'
    BY <1>3, <1>5 DEF PassInv, AvailableIsExact
  <1> QED
    BY <1>1, <1>6, <1>7, <1>8, <1>9, <1>10 DEF IInv

\* A step between two scans: the walks, and the end of a scan.
Between ==
    /\ UNCHANGED <<ivars, shape, blocks, moves, todo, available, start, passed>>
    /\ scanPc' = "none" /\ refused' \subseteq Positions /\ changed' = changed
    /\ stack' \in Seq(Call) /\ walk' \in {"index", "summary", "motion", "leaf", "done"}
    /\ walk' # "index" => Indexed
    /\ walk' = "index" => walk = "index"

LEMMA BetweenKeeps == IInv /\ Between => IInv'
  <1> SUFFICES ASSUME IInv, Between PROVE IInv'
    OBVIOUS
  <1>0. /\ UNCHANGED <<ivars, shape, blocks, moves>> /\ code' = code /\ count' = count
        /\ todo' = todo /\ available' = available /\ start' = start /\ passed' = passed
        /\ moves' = moves /\ shape' = shape
    BY DEF Between, ivars
  <1>1. /\ IndexInv' /\ BlocksInv' /\ MovesInv'
        /\ Positions' = Positions /\ Kept' = Kept /\ (Indexed' <=> Indexed)
    BY <1>0, UnmovedCode
  <1>2. ControlInv'
    BY <1>0, <1>1 DEF IInv, ControlInv, Between
  <1>3. ScanInv'
    BY <1>0, <1>1 DEF IInv, ScanInv, Between
  <1>4. PassInv' /\ AvailableIsExact'
    BY DEF Between, PassInv, AvailableIsExact
  <1> QED
    BY <1>1, <1>2, <1>3, <1>4 DEF IInv

LEMMA WalkKeepsMotion ==
    IInv /\ (NextWalk \/ Descend \/ Summarize \/ LeafPass \/ EndScan \/ Terminated) => IInv'
  <1> SUFFICES ASSUME IInv PROVE NextWalk \/ Descend \/ Summarize \/ LeafPass \/ EndScan \/ Terminated => IInv'
    OBVIOUS
  <1>0. ControlInv /\ ScanInv
    BY DEF IInv
  <1>1. ASSUME NextWalk PROVE Between
    <2>1. PICK from, to : StartWalk(from, to) /\ to \in {"summary", "motion", "leaf", "done"}
      BY <1>1 DEF NextWalk
    <2>2. /\ walk = from /\ stack = <<>> /\ (from = "index" => Indexed) /\ walk' = to
          /\ stack' = IF to = "done" THEN <<>> ELSE <<Frame(shape.root)>>
          /\ UNCHANGED <<ivars, shape, blocks, fact, svars, moves, visits>>
      BY <2>1 DEF StartWalk
    <2>3. scanPc = "none" /\ Indexed
      BY <1>0, <2>2 DEF ControlInv
    <2>4. stack' \in Seq(Call)
      <3>1. shape.root \in Node
        BY <1>0, ShapeFacts
      <3>2. <<Frame(shape.root)>> \in Seq(Call)
        BY <3>1, FrameIsCall
      <3>3. <<>> \in Seq(Call)
        OBVIOUS
      <3> QED
        BY <2>2, <3>2, <3>3
    <2> QED
      BY <1>0, <2>1, <2>2, <2>3, <2>4 DEF Between, svars, ScanInv
  <1>2. ASSUME Descend PROVE Between
    <2>1. stack' \in Seq(Call)
      BY <1>0, <1>2, DescendKeepsCalls
    <2> QED
      BY <1>0, <1>2, <2>1 DEF Descend, Walking, Between, svars, ScanInv, ControlInv
  <1>3. ASSUME Summarize PROVE Between
    <2>1. stack' \in Seq(Call)
      BY <1>0, <1>3, LeaveKeepsCalls DEF Summarize, Walking
    <2> QED
      BY <1>0, <1>3, <2>1 DEF Summarize, Walking, Between, svars, ScanInv, ControlInv
  <1>4. ASSUME LeafPass PROVE Between
    <2>1. stack' \in Seq(Call)
      BY <1>0, <1>4, LeaveKeepsCalls DEF LeafPass, Walking
    <2> QED
      BY <1>0, <1>4, <2>1 DEF LeafPass, Walking, Between, svars, ScanInv, ControlInv
  <1>5. ASSUME EndScan PROVE Between
    <2>1. stack' \in Seq(Call)
      BY <1>0, <1>5, LeaveKeepsCalls DEF EndScan, ControlInv
    <2> QED
      BY <1>0, <1>5, <2>1 DEF EndScan, Between, ScanInv, ControlInv
  <1>6. ASSUME Terminated PROVE Between
    <2>1. scanPc = "none"
      BY <1>0, <1>6 DEF Terminated, ControlInv
    <2> QED
      BY <1>0, <1>6, <2>1 DEF Terminated, vars, mvars, svars, Between, ScanInv, ControlInv
  <1> QED
    BY <1>1, <1>2, <1>3, <1>4, <1>5, <1>6, BetweenKeeps
--------------------------------------------------------------------------------
(* The scan of a loop: the steps that move nothing.                        *)
Scanning ==
    /\ UNCHANGED <<ivars, shape, blocks, moves, walk, stack>>
    /\ walk = "motion" /\ stack # <<>>

LEMMA ScanningKeeps ==
    ASSUME IInv, Scanning, ScanInv', PassInv', AvailableIsExact',
           scanPc' \in {"block", "instruction"}, changed' \in BOOLEAN
    PROVE  IInv'
  <1>0. UNCHANGED <<ivars, shape, blocks, moves>> /\ shape' = shape /\ walk' = walk /\ stack' = stack
    BY DEF Scanning
  <1>1. /\ IndexInv' /\ BlocksInv' /\ MovesInv' /\ (Indexed' <=> Indexed)
    BY <1>0, UnmovedCode
  <1>2. ControlInv'
    BY <1>0, <1>1 DEF IInv, ControlInv, Scanning
  <1> QED
    BY <1>1, <1>2 DEF IInv

LEMMA ScanningFacts ==
    ASSUME IInv, Scanning
    PROVE  /\ Positions' = Positions /\ Kept' = Kept /\ Scanned' = Scanned /\ code' = code
           /\ count' = count /\ entry' = entry /\ blocks' = blocks /\ walk' = "motion"
           /\ Loop \in Node
  <1>1. Positions' = Positions /\ Kept' = Kept
    BY UnmovedCode DEF Scanning
  <1>2. Scanned' = Scanned
    BY DEF Scanning, Scanned, Loop, Top
  <1>3. Loop \in Node
    BY TopIsCall DEF Scanning, IInv
  <1> QED
    BY <1>1, <1>2, <1>3 DEF Scanning, ivars

LEMMA StartScanKeeps == IInv /\ StartScan => IInv'
  <1> SUFFICES ASSUME IInv, StartScan PROVE IInv'
    OBVIOUS
  <1>1. Scanning
    BY DEF StartScan, Scanning, Walking
  <1>2. /\ scanPc' = "block" /\ blockAt' = 1 /\ changed' = FALSE /\ refused' = {}
        /\ todo' = todo /\ available' = available /\ start' = start /\ passed' = passed
    BY DEF StartScan
  <1>3. /\ Positions' = Positions /\ Kept' = Kept /\ Scanned' = Scanned /\ count' = count
        /\ walk' = "motion" /\ Loop \in Node
    BY <1>1, ScanningFacts
  <1>4. 1 \in 1 .. Len(Scanned) + 1 /\ \A k : k \notin 1 .. 1 - 1
    <2>1. Scanned \in Seq(Block)
      BY <1>3, ShapeFacts DEF Scanned, IInv
    <2>2. Len(Scanned) \in Nat
      BY <2>1
    <2> QED
      BY <2>2
  <1>5. ScanInv'
    BY <1>2, <1>3, <1>4 DEF IInv, ScanInv
  <1>6. PassInv'
    BY <1>2, <1>4 DEF PassInv
  <1>7. AvailableIsExact'
    BY <1>2 DEF AvailableIsExact
  <1> QED
    BY <1>1, <1>2, <1>5, <1>6, <1>7, ScanningKeeps

LEMMA ScanBlockKeeps == IInv /\ ScanBlock => IInv'
  <1> SUFFICES ASSUME IInv, ScanBlock PROVE IInv'
    OBVIOUS
  <1>0. ControlInv /\ ScanInv /\ BlocksInv /\ IndexInv /\ PassInv /\ scanPc = "block"
    BY DEF IInv, ScanBlock
  <1>1. Scanning
    BY <1>0 DEF ScanBlock, Scanning, ControlInv
  <1>2. /\ scanPc' = "instruction" /\ blockAt' = blockAt /\ blockAt <= Len(Scanned) /\ changed' = changed
        /\ refused' = refused /\ start' = available' /\ passed' = <<>>
        /\ available' \in {{}, 0 .. count.def - 1}
        /\ todo' = IF blocks[Scanned[blockAt]] = <<>> THEN 0 ELSE blocks[Scanned[blockAt]][1]
    BY DEF ScanBlock, Scanned
  <1>3. /\ Positions' = Positions /\ Kept' = Kept /\ Scanned' = Scanned /\ count' = count /\ code' = code
        /\ entry' = entry /\ blocks' = blocks /\ walk' = "motion"
    BY <1>1, ScanningFacts
  <1>4. /\ blockAt \in 1 .. Len(Scanned) + 1 /\ Len(Scanned) \in Nat /\ Indexed
        /\ \A k \in 1 .. Len(Scanned) : Scanned[k] \in Block
    BY <1>0, ScannedLoop
  <1>5. blockAt \in 1 .. Len(Scanned) /\ Scanned[blockAt] \in Block
    BY <1>2, <1>4
  <1> DEFINE b == Scanned[blockAt]
             q == blocks[b]
  <1>6. Lists(q, Residents(b))
    BY <1>0, <1>5 DEF BlocksInv, Residents
  <1> HIDE DEF b
  <1>7. PICK n \in Nat : n = Len(q)
    BY <1>6 DEF Lists
  <1>8. /\ q \in Seq(Nat) /\ \A k \in 1 .. n : q[k] \in Residents(b)
        /\ \A j, k \in 1 .. n : q[j] = q[k] => j = k
    BY <1>6, <1>7 DEF Lists
  <1>10. /\ todo' \in Positions \cup {0} /\ (todo' # 0 => code[todo'].block = b)
         /\ todo' = 0 => n = 0
         /\ n # 0 => todo' = q[1]
    <2>1. CASE q = <<>>
      <3>1. n = 0 /\ todo' = 0
        BY <1>2, <1>7, <2>1 DEF b
      <3> QED
        BY <3>1
    <2>2. CASE q # <<>>
      <3>1. n # 0 /\ 1 \in 1 .. n
        BY <1>7, <1>8, <2>2, EmptySeq
      <3>2. todo' = q[1] /\ q[1] \in Positions /\ code[q[1]].block = b
        BY <1>2, <1>8, <2>2, <3>1 DEF b, Residents
      <3>3. todo' # 0
        BY <3>2 DEF Positions
      <3> QED
        BY <3>1, <3>2, <3>3
    <2> QED
      BY <2>1, <2>2
  <1>11. available' \subseteq 0 .. count.def - 1
    BY <1>2
  <1>12. passed' \in Seq(Kept)
    BY <1>2
  <1>13. ScanInv'
    BY <1>0, <1>2, <1>3, <1>4, <1>5, <1>10, <1>11, <1>12 DEF ScanInv, b
  <1>14. PassInv'
    <2>1. (\A k \in 1 .. blockAt - 1 : RefusedIn(Scanned[k]))' <=> \A k \in 1 .. blockAt - 1 : RefusedIn(Scanned[k])
      BY <1>2, <1>3 DEF RefusedIn
    <2>2. RefusedBefore'
      <3> SUFFICES ASSUME NEW k \in 1 .. n, NEW p \in 1 .. n, q[p] = todo', k < p, todo' # 0 PROVE FALSE
        <4>1. ASSUME NEW k \in 1 .. n, todo' = 0 PROVE FALSE
          BY <1>10, <4>1
        <4>2. (blocks[Scanned[blockAt]])' = q
          BY <1>2, <1>3 DEF b
        <4> HIDE DEF q
        <4> QED
          BY <1>7, <4>1, <4>2 DEF RefusedBefore
      <3>1. n # 0 /\ 1 \in 1 .. n /\ q[1] = q[p]
        BY <1>10
      <3>2. p = 1
        BY <1>8, <3>1
      <3> QED
        BY <3>2
    <2> QED
      BY <1>0, <1>2, <2>1, <2>2 DEF PassInv
  <1>15. AvailableIsExact'
    <2>1. "def" \in Role /\ DOMAIN entry.def = 0 .. count.def - 1
      <3>1. "def" \in Role /\ entry.def = entry["def"] /\ count.def = count["def"]
        BY DEF Role
      <3> QED
        BY <1>0, <1>4, <3>1, OwnNumbers
    <2>2. DOMAIN passed' = {} /\ Len(passed') = 0
      BY <1>2
    <2>3. \A d : SurvivesFrom(d, 1, -1)'
      BY <2>2 DEF SurvivesFrom
    <2>4. available' = { d \in DOMAIN entry'.def : d \in start' }
      BY <1>2, <1>3, <1>11, <2>1
    <2> QED
      BY <2>2, <2>3, <2>4 DEF AvailableIsExact
  <1> QED
    BY <1>0, <1>1, <1>2, <1>13, <1>14, <1>15, ScanningKeeps DEF ControlInv
--------------------------------------------------------------------------------
LEMMA EndBlockKeeps == IInv /\ EndBlock => IInv'
  <1> SUFFICES ASSUME IInv, EndBlock PROVE IInv'
    OBVIOUS
  <1>0. ControlInv /\ ScanInv /\ BlocksInv /\ PassInv /\ scanPc = "instruction" /\ todo = 0
    BY DEF IInv, EndBlock
  <1>1. Scanning
    BY <1>0 DEF EndBlock, Scanning, ControlInv
  <1>2. /\ scanPc' = "block" /\ blockAt' = blockAt + 1 /\ changed' = changed /\ todo' = todo
        /\ refused' = refused /\ start' = start /\ passed' = passed /\ available' = available
    BY DEF EndBlock
  <1>3. /\ Positions' = Positions /\ Kept' = Kept /\ Scanned' = Scanned /\ count' = count /\ code' = code
        /\ blocks' = blocks /\ walk' = "motion"
    BY <1>1, ScanningFacts
  <1>4. /\ blockAt \in 1 .. Len(Scanned) /\ Len(Scanned) \in Nat /\ Scanned[blockAt] \in Block
    BY <1>0, ScannedLoop
  <1>5. /\ blockAt + 1 \in 1 .. Len(Scanned) + 1
        /\ \A k : k \in 1 .. (blockAt + 1) - 1 <=> k \in 1 .. blockAt - 1 \/ k = blockAt
    BY <1>4
  <1>6. ScanInv'
    BY <1>0, <1>2, <1>3, <1>5 DEF ScanInv
  <1>7. PassInv'
    <2> SUFFICES ASSUME ~changed PROVE \A k \in 1 .. (blockAt + 1) - 1 : RefusedIn(Scanned[k])
      BY <1>2, <1>3 DEF PassInv, RefusedIn
    <2>1. /\ \A k \in 1 .. blockAt - 1 : RefusedIn(Scanned[k])
          /\ RefusedBefore
      BY <1>0 DEF PassInv
    <2>2. RefusedIn(Scanned[blockAt])
      <3> DEFINE b == Scanned[blockAt]
                 q == blocks[b]
      <3>1. Lists(q, Residents(b))
        BY <1>0, <1>4 DEF BlocksInv, Residents
      <3>2. \A k \in 1 .. Len(q) : q[k] \in Kept => q[k] \in refused
        BY <1>0, <2>1 DEF RefusedBefore
      <3> HIDE DEF q, b
      <3>3. \A i \in Residents(b) : \E k \in 1 .. Len(q) : q[k] = i
        BY <3>1 DEF Lists
      <3>4. \A i \in Kept : code[i].block = b => i \in Residents(b)
        BY DEF Kept, Residents
      <3>5. RefusedIn(b)
        BY <3>2, <3>3, <3>4 DEF RefusedIn
      <3> QED
        BY <3>5 DEF b
    <2> QED
      BY <1>5, <2>1, <2>2
  <1>8. AvailableIsExact'
    BY <1>2 DEF AvailableIsExact
  <1> QED
    BY <1>0, <1>1, <1>2, <1>6, <1>7, <1>8, ScanningKeeps DEF ControlInv

LEMMA RepeatKeeps == IInv /\ Repeat => IInv'
  <1> SUFFICES ASSUME IInv, Repeat PROVE IInv'
    OBVIOUS
  <1>0. ControlInv /\ ScanInv /\ BlocksInv /\ PassInv /\ scanPc = "block"
    BY DEF IInv, Repeat
  <1>1. Scanning
    BY <1>0 DEF Repeat, Scanning, ControlInv
  <1>2. /\ scanPc' = "block" /\ blockAt' = 1 /\ changed' = FALSE /\ todo' = todo
        /\ refused' = refused /\ start' = start /\ passed' = passed /\ available' = available
    BY <1>0 DEF Repeat
  <1>3. /\ Positions' = Positions /\ Kept' = Kept /\ Scanned' = Scanned /\ count' = count /\ walk' = "motion"
    BY <1>1, ScanningFacts
  <1>4. 1 \in 1 .. Len(Scanned) + 1 /\ \A k : k \notin 1 .. 1 - 1
    <2>1. Len(Scanned) \in Nat
      BY <1>0, ScannedLoop
    <2> QED
      BY <2>1
  <1>5. ScanInv'
    BY <1>0, <1>2, <1>3, <1>4 DEF ScanInv
  <1>6. PassInv'
    BY <1>2, <1>4 DEF PassInv
  <1>7. AvailableIsExact'
    BY <1>2 DEF AvailableIsExact
  <1> QED
    BY <1>1, <1>2, <1>5, <1>6, <1>7, ScanningKeeps

\* The cursor passes an instruction that has been refused, or has no entries.
LEMMA PassOn ==
    ASSUME IInv, scanPc = "instruction", todo # 0, todo \in Kept => todo \in refused',
           refused \subseteq refused', todo' = NextOf(todo, code[todo].block),
           UNCHANGED <<code, blocks, blockAt, changed, scanPc>>, Scanned' = Scanned, Kept' = Kept
    PROVE  /\ PassInv'
           /\ todo' \in Positions \cup {0}
           /\ todo' # 0 => code[todo'].block = Scanned[blockAt] /\ todo' # todo
           /\ code[todo].block = Scanned[blockAt] /\ Scanned[blockAt] \in Block
  <1>0. ControlInv /\ ScanInv /\ BlocksInv /\ PassInv
    BY DEF IInv
  <1> DEFINE b == Scanned[blockAt]
             q == blocks[b]
  <1>1. /\ code[todo].block = b /\ todo \in Positions /\ b \in Block
    BY <1>0, ScannedLoop DEF ScanInv
  <1>2. /\ todo' \in Positions \cup {0}
        /\ todo' # 0 => code[todo'].block = b /\ todo' # todo
        /\ \A p \in 1 .. Len(q) : q[p] = todo => todo' = IF p = Len(q) THEN 0 ELSE q[p + 1]
    BY <1>0, <1>1, NextInBlock
  <1>3. Lists(q, Residents(b)) /\ todo \in Residents(b)
    BY <1>0, <1>1 DEF BlocksInv, Residents
  <1>4. (blocks[Scanned[blockAt]])' = q
    OBVIOUS
  <1> HIDE DEF q, b
  <1>5. PICK n \in Nat : n = Len(q)
    BY <1>3 DEF Lists
  <1>6. /\ \A j, k \in 1 .. n : q[j] = q[k] => j = k
        /\ \A k \in 1 .. n : q[k] \in Positions
        /\ \E p \in 1 .. n : q[p] = todo
    BY <1>3, <1>5 DEF Lists, Residents
  <1>7. PICK p \in 1 .. n : q[p] = todo
    BY <1>6
  <1>8. PassInv'
    <2> SUFFICES ASSUME ~changed PROVE (\A k \in 1 .. blockAt - 1 : RefusedIn(Scanned[k]))' /\ RefusedBefore'
      BY DEF PassInv
    <2>1. /\ \A k \in 1 .. blockAt - 1 : RefusedIn(Scanned[k])
          /\ RefusedBefore
      BY <1>0 DEF PassInv
    <2>2. (\A k \in 1 .. blockAt - 1 : RefusedIn(Scanned[k]))'
      BY <2>1 DEF RefusedIn
    <2>3. \A k \in 1 .. n : q[k] \in Kept /\ k < p => q[k] \in refused
      BY <1>5, <1>7, <2>1 DEF RefusedBefore, q, b
    <2>4. \A k \in 1 .. n : q[k] \in Kept /\ k <= p => q[k] \in refused'
      <3> SUFFICES ASSUME NEW k \in 1 .. n, q[k] \in Kept, k <= p PROVE q[k] \in refused'
        OBVIOUS
      <3>1. CASE k = p
        BY <1>7, <3>1
      <3>2. CASE k # p
        <4>1. k < p
          BY <3>2
        <4> QED
          BY <2>3, <4>1
      <3> QED
        BY <3>1, <3>2
    <2>5. ASSUME NEW k \in 1 .. n, todo' = 0 PROVE k <= p
      <3>1. p = n
        <4> SUFFICES ASSUME p # n PROVE FALSE
          OBVIOUS
        <4>1. p + 1 \in 1 .. n /\ todo' = q[p + 1]
          BY <1>2, <1>5, <1>7
        <4>2. q[p + 1] \in Positions
          BY <1>6, <4>1
        <4> QED
          BY <2>5, <4>1, <4>2 DEF Positions
      <3> QED
        BY <3>1
    <2>6. ASSUME NEW k \in 1 .. n, NEW r \in 1 .. n, q[r] = todo', k < r PROVE k <= p
      <3>1. todo' # 0
        BY <1>6, <2>6 DEF Positions
      <3>2. p # n /\ todo' = q[p + 1] /\ p + 1 \in 1 .. n
        BY <1>2, <1>5, <1>7, <3>1
      <3>3. r = p + 1
        BY <1>6, <2>6, <3>2
      <3> QED
        BY <2>6, <3>3
    <2>7. RefusedBefore'
      BY <1>4, <1>5, <2>4, <2>5, <2>6 DEF RefusedBefore
    <2> QED
      BY <2>2, <2>7
  <1> QED
    BY <1>1, <1>2, <1>8 DEF b

LEMMA SkipKeeps == IInv /\ Skip => IInv'
  <1> SUFFICES ASSUME IInv, Skip PROVE IInv'
    OBVIOUS
  <1>0. ControlInv /\ ScanInv /\ scanPc = "instruction" /\ todo # 0 /\ code[todo].skip /\ AvailableIsExact
    BY DEF IInv, Skip
  <1>1. Scanning
    BY <1>0 DEF Skip, Scanning, ControlInv
  <1>2. /\ scanPc' = scanPc /\ blockAt' = blockAt /\ changed' = changed /\ refused' = refused
        /\ start' = start /\ passed' = passed /\ available' = available
        /\ todo' = NextOf(todo, code[todo].block)
    BY DEF Skip
  <1>3. /\ Positions' = Positions /\ Kept' = Kept /\ Scanned' = Scanned /\ count' = count /\ code' = code
        /\ entry' = entry /\ blocks' = blocks /\ walk' = "motion"
    BY <1>1, ScanningFacts
  <1>4. todo \notin Kept
    BY <1>0 DEF Kept
  <1>5. /\ PassInv' /\ todo' \in Positions \cup {0}
        /\ todo' # 0 => code[todo'].block = Scanned[blockAt]
    BY <1>0, <1>2, <1>3, <1>4, PassOn
  <1>6. ScanInv'
    BY <1>0, <1>2, <1>3, <1>5 DEF ScanInv
  <1>7. AvailableIsExact'
    BY <1>0, <1>2, <1>3 DEF AvailableIsExact, SurvivesFrom, Own
  <1> QED
    BY <1>0, <1>1, <1>2, <1>5, <1>6, <1>7, ScanningKeeps DEF ControlInv
--------------------------------------------------------------------------------
(* The scan of a loop: an instruction is offered.                          *)
Offering == scanPc = "instruction" /\ todo # 0 /\ ~code[todo].skip

LEMMA OfferedInstruction ==
    ASSUME IInv, Offering
    PROVE  /\ todo \in Kept /\ todo \in Positions /\ Indexed /\ walk = "motion" /\ stack # <<>>
           /\ Scanned[blockAt] \in Block /\ code[todo].block = Scanned[blockAt]
           /\ Scanned[blockAt] \in LoopBlocks(Loop) /\ Loop \in Node
  <1>0. ControlInv /\ ScanInv /\ scanPc = "instruction" /\ todo # 0 /\ ~code[todo].skip
    BY DEF IInv, Offering
  <1>1. todo \in Positions /\ code[todo].block = Scanned[blockAt]
    BY <1>0 DEF ScanInv
  <1>2. todo \in Kept
    BY <1>0, <1>1 DEF Kept
  <1>3. stack # <<>>
    BY <1>0 DEF ControlInv
  <1> QED
    BY <1>0, <1>1, <1>2, <1>3, ScannedLoop

\* The set of available definitions, and what was passed, after an offer.
LEMMA OfferedSet ==
    ASSUME IInv, Offering, Offer(todo), entry' = entry
    PROVE  /\ AvailableIsExact' /\ available' \subseteq 0 .. count.def - 1
           /\ passed' \in Seq(Kept)
  <1>1. todo \in Kept /\ Indexed /\ ScanInv /\ IndexInv /\ AvailableIsExact /\ scanPc = "instruction"
    BY OfferedInstruction DEF IInv, Offering
  <1>2. /\ passed' = Append(passed, todo) /\ available' = After(available, todo) /\ start' = start
    BY DEF Offer
  <1>3. passed \in Seq(Kept) /\ start \subseteq 0 .. count.def - 1
    BY <1>1 DEF ScanInv
  <1>4. available = { d \in DOMAIN entry.def : Fate(d) }
    BY <1>1 DEF AvailableIsExact, Fate
  <1>5. available' = { d \in DOMAIN entry'.def : Fate(d)' }
    BY <1>1, <1>2, <1>3, <1>4, OfferIsExact
  <1>6. AvailableIsExact'
    BY <1>5 DEF AvailableIsExact, Fate
  <1>7. DOMAIN entry.def = 0 .. count.def - 1
    <2>1. "def" \in Role /\ entry.def = entry["def"] /\ count.def = count["def"]
      BY DEF Role
    <2> QED
      BY <1>1, <2>1, OwnNumbers
  <1>8. passed' \in Seq(Kept)
    BY <1>1, <1>2, <1>3, AppendProperties
  <1> QED
    BY <1>5, <1>6, <1>7, <1>8

LEMMA RefuseKeeps == IInv /\ Offering /\ Refuse(todo) => IInv'
  <1> SUFFICES ASSUME IInv, Offering, Refuse(todo) PROVE IInv'
    OBVIOUS
  <1>0. ControlInv /\ ScanInv /\ scanPc = "instruction" /\ todo # 0
    BY DEF IInv, Offering
  <1>1. todo \in Kept /\ todo \in Positions /\ walk = "motion" /\ stack # <<>>
    BY OfferedInstruction
  <1>2. Scanning
    BY <1>1 DEF Refuse, Offer, Scanning
  <1>3. /\ scanPc' = scanPc /\ blockAt' = blockAt /\ changed' = changed /\ refused' = refused \cup {todo}
        /\ start' = start /\ todo' = NextOf(todo, code[todo].block) /\ Offer(todo)
    BY DEF Refuse, Offer
  <1>4. /\ Positions' = Positions /\ Kept' = Kept /\ Scanned' = Scanned /\ count' = count /\ code' = code
        /\ entry' = entry /\ blocks' = blocks /\ walk' = "motion"
    BY <1>2, ScanningFacts
  <1>5. /\ AvailableIsExact' /\ available' \subseteq 0 .. count.def - 1 /\ passed' \in Seq(Kept)
    BY <1>3, <1>4, OfferedSet
  <1>6. /\ PassInv' /\ todo' \in Positions \cup {0}
        /\ todo' # 0 => code[todo'].block = Scanned[blockAt]
    BY <1>0, <1>3, <1>4, PassOn
  <1>7. ScanInv'
    BY <1>0, <1>1, <1>3, <1>4, <1>5, <1>6 DEF ScanInv
  <1> QED
    BY <1>0, <1>2, <1>3, <1>5, <1>6, <1>7, ScanningKeeps DEF ControlInv

\* Moving an instruction out of a loop takes it out of no loop around it.
LEMMA InsideShrinks ==
    ASSUME ControlInv, NEW i \in Positions, code[i].block \in LoopBlocks(Loop), Loop \in Node,
           NEW m \in Node, shape.front[Loop] \in LoopBlocks(m)
    PROVE  code[i].block \in LoopBlocks(m)
  BY ShapeFacts

LEMMA MoveKeepsMoves ==
    ASSUME IInv, Offering, NEW direct, direct => SingleDefinition(todo, LoopBlocks(Loop)),
           Move(todo, direct), UNCHANGED <<mode, indexPc, at, tree, list, first, count, entry, links, shape>>
    PROVE  MovesInv'
  <1> DEFINE to == shape.front[Loop]
  <1>0. IndexInv /\ ControlInv /\ MovesInv
    BY DEF IInv
  <1>1. /\ todo \in Kept /\ todo \in Positions /\ Indexed /\ Loop \in Node
        /\ code[todo].block \in LoopBlocks(Loop)
    BY OfferedInstruction
  <1>2. to \in Nat
    BY <1>0, <1>1, ShapeFacts
  <1>3. MovesOne(todo, to)
    BY DEF Move, MovesOne
  <1>4. /\ Kept' = Kept /\ Positions' = Positions /\ code'[todo].block = to
        /\ \A j \in Positions : j # todo => code'[j] = code[j]
    BY <1>0, <1>1, <1>2, <1>3, MoveKeepsIndex
  <1>5. \A i : (Own("def", i))' = Own("def", i)
    BY DEF Own
  <1>6. \A n : LoopBlocks(n)' = LoopBlocks(n)
    BY DEF LoopBlocks
  <1>7. moves' = moves \cup {[instr |-> todo, loop |-> Loop, direct |-> direct]}
    BY DEF Move
  <1>8. ASSUME NEW i \in Kept, NEW d, NEW n \in Node, Alone(i, d, LoopBlocks(n))
        PROVE  Alone(i, d, LoopBlocks(n))'
    <2>1. ASSUME NEW j \in Kept \ {i}, code'[j].block \in LoopBlocks(n) PROVE code[j].block \in LoopBlocks(n)
      <3>1. CASE j = todo
        BY <1>0, <1>1, <1>4, <2>1, <3>1, InsideShrinks
      <3>2. CASE j # todo
        BY <1>4, <2>1, <3>2 DEF Kept
      <3> QED
        BY <3>1, <3>2
    <2> QED
      BY <1>4, <1>5, <1>6, <1>8, <2>1 DEF Alone
  <1>9. ASSUME direct PROVE \E d \in Own("def", todo) : Alone(todo, d, LoopBlocks(Loop))
    BY <1>0, <1>1, <1>9, SingleDefinitionHolds
  <1>10. ASSUME NEW m \in moves'
         PROVE  /\ m.instr \in Kept /\ m.loop \in Node
                /\ m.direct => \E d \in Own("def", m.instr) : Alone(m.instr, d, LoopBlocks(m.loop))
    <2>1. CASE m \in moves
      BY <1>0, <2>1 DEF MovesInv
    <2>2. CASE m = [instr |-> todo, loop |-> Loop, direct |-> direct]
      <3>1. m.instr = todo /\ m.loop = Loop /\ m.direct = direct
        BY <2>2
      <3> QED
        BY <1>1, <1>9, <3>1
    <2> QED
      BY <1>7, <2>1, <2>2
  <1>11. ASSUME NEW m \in moves', m.direct
         PROVE \E d \in Own("def", m.instr)' : Alone(m.instr, d, LoopBlocks(m.loop))'
    <2>1. PICK d \in Own("def", m.instr) : Alone(m.instr, d, LoopBlocks(m.loop))
      BY <1>10, <1>11
    <2>2. Alone(m.instr, d, LoopBlocks(m.loop))'
      BY <1>8, <1>10, <2>1
    <2> QED
      BY <1>5, <2>1, <2>2
  <1> QED
    BY <1>4, <1>10, <1>11 DEF MovesInv

LEMMA MoveOutKeeps ==
    ASSUME IInv, Offering, NEW direct, direct => SingleDefinition(todo, LoopBlocks(Loop)),
           MoveOut(todo, direct)
    PROVE  IInv'
  <1> DEFINE to == shape.front[Loop]
  <1>0. IndexInv /\ ControlInv /\ BlocksInv /\ ScanInv /\ scanPc = "instruction" /\ todo # 0
    BY DEF IInv, Offering
  <1>1. /\ todo \in Kept /\ todo \in Positions /\ Indexed /\ walk = "motion" /\ stack # <<>>
        /\ Scanned[blockAt] \in Block /\ code[todo].block = Scanned[blockAt]
        /\ Scanned[blockAt] \in LoopBlocks(Loop) /\ Loop \in Node
    BY OfferedInstruction
  <1>2. /\ scanPc' = scanPc /\ blockAt' = blockAt /\ changed' = TRUE /\ refused' = {} /\ start' = start
        /\ todo' = NextOf(todo, code[todo].block) /\ Offer(todo) /\ Move(todo, direct)
        /\ shape' = shape /\ walk' = walk /\ stack' = stack /\ indexPc' = indexPc /\ entry' = entry
        /\ count' = count
        /\ UNCHANGED <<mode, indexPc, at, tree, list, first, count, entry, links, shape>>
    BY DEF MoveOut, Offer
  <1>3. MovesOne(todo, to) /\ to \in Nat
    <2>1. MovesOne(todo, to)
      BY <1>2 DEF Move, MovesOne
    <2> QED
      BY <1>0, <1>1, <2>1, ShapeFacts
  <1>4. /\ IndexInv' /\ Kept' = Kept /\ Positions' = Positions
        /\ \A j \in Positions : j # todo => code'[j] = code[j]
    BY <1>0, <1>1, <1>3, MoveKeepsIndex
  <1>5. BlocksInv'
    BY <1>0, <1>1, <1>2, MoveKeepsBlocks
  <1>6. MovesInv'
    BY <1>2, MoveKeepsMoves
  <1>7. ControlInv'
    <2>1. Indexed'
      BY <1>1, <1>2 DEF Indexed
    <2> QED
      BY <1>0, <1>2, <2>1 DEF ControlInv
  <1>8. AvailableIsExact' /\ available' \subseteq 0 .. count.def - 1 /\ passed' \in Seq(Kept)
    BY <1>2, OfferedSet
  <1>9. Scanned' = Scanned
    BY <1>2 DEF Scanned, Loop, Top
  <1>10. /\ todo' \in Positions \cup {0}
         /\ todo' # 0 => code'[todo'].block = Scanned[blockAt]
    <2>1. /\ todo' \in Positions \cup {0}
          /\ todo' # 0 => code[todo'].block = Scanned[blockAt] /\ todo' # todo
      BY <1>0, <1>1, <1>2, NextInBlock
    <2> QED
      BY <1>4, <2>1
  <1>11. ScanInv'
    BY <1>0, <1>1, <1>2, <1>4, <1>8, <1>9, <1>10 DEF ScanInv
  <1>12. PassInv'
    BY <1>2 DEF PassInv
  <1> QED
    BY <1>4, <1>5, <1>6, <1>7, <1>8, <1>11, <1>12 DEF IInv

LEMMA OfferKeeps == IInv /\ ScanInstruction => IInv'
  <1> SUFFICES ASSUME IInv, ScanInstruction PROVE IInv'
    OBVIOUS
  <1>1. Offering
    BY DEF ScanInstruction, Offering
  <1>2. PICK invariant, movable, escapes, fallback \in BOOLEAN :
            LET direct == MayMoveDirectly(todo, invariant, movable, escapes)
            IN  IF direct \/ fallback THEN MoveOut(todo, direct) ELSE Refuse(todo)
    BY DEF ScanInstruction
  <1> DEFINE direct == MayMoveDirectly(todo, invariant, movable, escapes)
  <1>3. direct => SingleDefinition(todo, LoopBlocks(Loop))
    BY DEF MayMoveDirectly
  <1> HIDE DEF direct
  <1>4. CASE direct \/ fallback
    <2>1. MoveOut(todo, direct)
      BY <1>2, <1>4 DEF direct
    <2> QED
      BY <1>1, <1>3, <2>1, MoveOutKeeps
  <1>5. CASE ~(direct \/ fallback)
    <2>1. Refuse(todo)
      BY <1>2, <1>5 DEF direct
    <2> QED
      BY <1>1, <2>1, RefuseKeeps
  <1> QED
    BY <1>4, <1>5

LEMMA StutterKeeps == IInv /\ UNCHANGED vars => IInv'
  <1> SUFFICES ASSUME IInv, UNCHANGED vars PROVE IInv'
    OBVIOUS
  <1>1. /\ UNCHANGED <<ivars, shape, blocks, moves>> /\ code' = code /\ count' = count /\ entry' = entry
        /\ walk' = walk /\ stack' = stack /\ scanPc' = scanPc /\ blockAt' = blockAt /\ todo' = todo
        /\ changed' = changed /\ available' = available /\ start' = start /\ passed' = passed
        /\ refused' = refused /\ shape' = shape /\ blocks' = blocks
    BY DEF vars, mvars, svars, ivars
  <1>2. /\ IndexInv' /\ BlocksInv' /\ MovesInv' /\ Positions' = Positions /\ Kept' = Kept
        /\ (Indexed' <=> Indexed) /\ \A i : (Own("def", i))' = Own("def", i)
    BY <1>1, UnmovedCode
  <1>3. Scanned' = Scanned
    BY <1>1 DEF Scanned, Loop, Top
  <1>4. ControlInv'
    BY <1>1, <1>2 DEF IInv, ControlInv
  <1>5. ScanInv'
    BY <1>1, <1>2, <1>3 DEF IInv, ScanInv
  <1>6. PassInv'
    BY <1>1, <1>2, <1>3 DEF IInv, PassInv, RefusedIn, RefusedBefore
  <1>7. AvailableIsExact'
    BY <1>1, <1>2 DEF IInv, AvailableIsExact, SurvivesFrom, Own
  <1> QED
    BY <1>2, <1>4, <1>5, <1>6, <1>7 DEF IInv

LEMMA NextKeeps == IInv /\ [Next]_vars => IInv'
  BY BuildKeepsMotion, WalkKeepsMotion, StartScanKeeps, ScanBlockKeeps, EndBlockKeeps, SkipKeeps,
     OfferKeeps, RepeatKeeps, StutterKeeps DEF Next

LEMMA MotionInvariant == Spec => []IInv
  BY MotionStarts, NextKeeps, PTL DEF Spec
--------------------------------------------------------------------------------
(***************************************************************************)
(* What is stored is typed; the cursor of the scan stays in its block.     *)
(***************************************************************************)
LEMMA TypesHold == IInv => TypeOK
  <1> SUFFICES ASSUME IInv PROVE TypeOK
    OBVIOUS
  <1>0. ControlInv /\ BlocksInv /\ ScanInv
    BY DEF IInv
  <1>1. ASSUME NEW b \in Block PROVE blocks[b] \in Seq(Positions)
    <2>1. Lists(blocks[b], Residents(b))
      BY <1>0 DEF BlocksInv, Residents
    <2>2. /\ blocks[b] \in Seq(Nat) /\ Residents(b) \subseteq Positions
          /\ \A k \in 1 .. Len(blocks[b]) : blocks[b][k] \in Residents(b)
      BY <2>1 DEF Lists, Residents
    <2> QED
      BY <2>2, SeqDef
  <1>2. \A k \in DOMAIN stack : stack[k].node \in Node /\ stack[k].entered \in BOOLEAN
    <2>1. stack \in Seq(Call)
      BY <1>0 DEF ControlInv
    <2>2. \A k \in DOMAIN stack : stack[k] \in Call
      BY <2>1
    <2> QED
      BY <2>2 DEF Call
  <1> QED
    BY <1>0, <1>1, <1>2 DEF TypeOK, ControlInv, ScanInv, Scanned

THEOREM TypeCorrect == Spec => []TypeOK
  BY MotionInvariant, TypesHold, PTL

(***************************************************************************)
(* The finished index is right: every object that an instruction accesses  *)
(* has its entries, at the numbers the instruction owns, aliases meet in   *)
(* the lists, and "the only definition in this loop" is decided rightly.   *)
(* It stays right while instructions leave their loops.                    *)
(***************************************************************************)
THEOREM IndexStaysRight == Spec => []IndexIsRight
  <1>1. IInv => IndexIsRight
    BY IndexHolds DEF IInv
  <1> QED
    BY <1>1, MotionInvariant, PTL

(***************************************************************************)
(* The definitions handed to the tests at an instruction are those whose   *)
(* fate says that they reach it.                                           *)
(***************************************************************************)
THEOREM AvailableStaysExact == Spec => []AvailableIsExact
  <1>1. IInv => AvailableIsExact
    BY DEF IInv
  <1> QED
    BY <1>1, MotionInvariant, PTL

(***************************************************************************)
(* What the direct test let out of a loop has no other definition of the   *)
(* same storage left there, whatever moves later.                          *)
(***************************************************************************)
LEMMA MovesAreAlone == IInv => DirectMovesAreAlone
  <1> SUFFICES ASSUME IInv, NEW m \in moves, m.direct
               PROVE \E d \in Own("def", m.instr) :
                        /\ Own("def", m.instr) = {d}
                        /\ \A j \in (Inside(m.loop) \cap Kept) \ {m.instr} : \A e \in Own("def", j) :
                              entry.def[e].names # entry.def[d].names
    BY DEF DirectMovesAreAlone
  <1>1. PICK d \in Own("def", m.instr) : Alone(m.instr, d, LoopBlocks(m.loop))
    BY DEF IInv, MovesInv
  <1>2. \A j \in (Inside(m.loop) \cap Kept) \ {m.instr} :
            j \in Kept \ {m.instr} /\ code[j].block \in LoopBlocks(m.loop)
    BY DEF Inside
  <1> QED
    BY <1>1, <1>2 DEF Alone

THEOREM DirectMovesStayAlone == Spec => []DirectMovesAreAlone
  BY MotionInvariant, MovesAreAlone, PTL

(***************************************************************************)
(* The scan of a loop ends only when every instruction left in it has been *)
(* offered, and refused, after the last move out of it.                    *)
(***************************************************************************)
LEMMA ScanEndsRefused ==
    ASSUME IInv, [Next]_vars, scanPc = "block", scanPc' = "none"
    PROVE  Inside(Loop) \cap Kept \subseteq refused
  <1>1. EndScan
    <2>1. scanPc' # scanPc
      OBVIOUS
    <2>2. ~BuildIndex /\ ~NextWalk /\ ~Descend /\ ~Summarize /\ ~LeafPass /\ ~Terminated /\ ~UNCHANGED vars
      BY <2>1 DEF BuildIndex, NextWalk, StartWalk, Descend, Summarize, LeafPass, Terminated, vars, mvars, svars
    <2>3. ~StartScan /\ ~ScanBlock /\ ~EndBlock /\ ~Skip /\ ~ScanInstruction /\ ~Repeat
      BY <2>1 DEF StartScan, ScanBlock, EndBlock, Skip, ScanInstruction, Repeat
    <2> QED
      BY <2>2, <2>3 DEF Next
  <1>2. blockAt > Len(Scanned) /\ ~changed
    BY <1>1 DEF EndScan, Scanned
  <1>3. ControlInv /\ ScanInv /\ PassInv
    BY DEF IInv
  <1>4. /\ Len(Scanned) \in Nat /\ blockAt \in 1 .. Len(Scanned) + 1
        /\ \A b \in LoopBlocks(Loop) : \E k \in 1 .. Len(Scanned) : Scanned[k] = b
    BY <1>3, ScannedLoop
  <1>5. \A k \in 1 .. Len(Scanned) : RefusedIn(Scanned[k])
    BY <1>2, <1>3, <1>4 DEF PassInv
  <1>6. \A b \in LoopBlocks(Loop) : RefusedIn(b)
    BY <1>4, <1>5
  <1> QED
    BY <1>6 DEF RefusedIn, Inside

THEOREM ScansReachAFixedPoint == Spec => FixedPoint
  <1>1. IInv /\ [Next]_vars =>
           [scanPc = "block" /\ scanPc' = "none" => Inside(Loop) \cap Kept \subseteq refused]_vars
    BY ScanEndsRefused
  <1> QED
    BY <1>1, MotionInvariant, PTL DEF Spec, FixedPoint
--------------------------------------------------------------------------------
(***************************************************************************)
(* The walks over the tree of loops.                                       *)
(***************************************************************************)
Under == CHOOSE u \in [Node \cup {NoNode} -> SUBSET Node] : LoopsUnder(u, shape)

LEMMA UnderFacts ==
    ASSUME ControlInv
    PROVE  /\ Under[NoNode] = {} /\ Under[shape.root] = Node
           /\ \A n \in Node :
                 /\ Under[n] = {n} \cup Under[shape.child[n]] \cup Under[shape.sibling[n]]
                 /\ n \notin Under[shape.child[n]] /\ n \notin Under[shape.sibling[n]]
                 /\ Under[shape.child[n]] \cap Under[shape.sibling[n]] = {}
                 /\ Inner(n) = Under[shape.child[n]] /\ Inner(n) \subseteq Node
                 /\ Under[n] \subseteq Node
  <1>1. \E u \in [Node \cup {NoNode} -> SUBSET Node] : LoopsUnder(u, shape)
    BY TreeAssumption DEF ControlInv
  <1>2. Under \in [Node \cup {NoNode} -> SUBSET Node] /\ LoopsUnder(Under, shape)
    BY <1>1 DEF Under
  <1>3. \A n \in Node : Inner(n) = { m \in Node \ {n} :
                             SeqExt!ToSet(shape.blocks[m]) \subseteq SeqExt!ToSet(shape.blocks[n]) }
    BY DEF Inner, LoopBlocks
  <1>4. Under[NoNode] = {} /\ Under[shape.root] = Node
    BY <1>2 DEF LoopsUnder
  <1>5. ASSUME NEW n \in Node
        PROVE  /\ Under[n] = {n} \cup Under[shape.child[n]] \cup Under[shape.sibling[n]]
               /\ n \notin Under[shape.child[n]] /\ n \notin Under[shape.sibling[n]]
               /\ Under[shape.child[n]] \cap Under[shape.sibling[n]] = {}
               /\ Under[shape.child[n]] = { m \in Node \ {n} :
                             SeqExt!ToSet(shape.blocks[m]) \subseteq SeqExt!ToSet(shape.blocks[n]) }
    BY <1>2 DEF LoopsUnder
  <1>6. \A n \in Node : Under[n] \subseteq Node
    BY <1>2
  <1>7. ASSUME NEW n \in Node PROVE Inner(n) = Under[shape.child[n]] /\ Inner(n) \subseteq Node
    <2>1. Inner(n) = Under[shape.child[n]]
      BY <1>3, <1>5
    <2> QED
      BY <2>1 DEF Inner
  <1> HIDE DEF Under
  <1> QED
    BY <1>4, <1>5, <1>6, <1>7

\* The loops that a call, when entered or not, still has to come to itself.
Rest(f) == IF f.entered THEN {f.node} \cup Under[shape.sibling[f.node]] ELSE Under[f.node]
Pending == UNION { Rest(stack[k]) : k \in DOMAIN stack }

StackInv ==
    /\ \A j, k \in DOMAIN stack : j < k => Rest(stack[j]) \cap Rest(stack[k]) = {}
    /\ \A j, k \in DOMAIN stack :
          j <= k /\ stack[k].entered => Inner(stack[k].node) \cap Rest(stack[j]) = {}

LEMMA StackGrows ==
    ASSUME ControlInv, StackInv, Descend
    PROVE  StackInv' /\ Pending' = Pending
  <1>0. stack # <<>> /\ shape' = shape /\ ~Top.entered
    BY DEF Descend, Walking
  <1>1. Len(stack) \in Nat \ {0} /\ Top \in Call /\ Loop \in Node /\ stack \in Seq(Call)
    BY <1>0, TopIsCall DEF ControlInv
  <1>2. PICK n \in Nat \ {0} : n = Len(stack)
    BY <1>1
  <1> DEFINE c == shape.child[Loop]
             E == [stack EXCEPT ![n].entered = TRUE]
             tail == IF c = NoNode THEN <<>> ELSE <<Frame(c)>>
             f == [Top EXCEPT !.entered = TRUE]
  <1>3. /\ c \in Node \cup {NoNode} /\ shape.sibling[Loop] \in Node \cup {NoNode}
    BY <1>0, <1>1, ShapeFacts
  <1>4. /\ DOMAIN stack = 1 .. n /\ E \in Seq(Call) /\ Len(E) = n /\ E[n] = f
        /\ f.node = Loop /\ f.entered
        /\ \A k \in 1 .. n : k # n => E[k] = stack[k]
    <2>1. stack[n] = Top /\ DOMAIN stack = 1 .. n
      BY <1>1, <1>2 DEF Top
    <2>2. f \in Call /\ f.node = Loop /\ f.entered
      BY <1>1 DEF Loop, Call
    <2>3. E = [stack EXCEPT ![n] = f]
      BY <2>1
    <2> HIDE DEF E, f
    <2> QED
      BY <1>1, <1>2, <2>1, <2>2, <2>3, ExceptSeq
  <1> HIDE DEF E
  <1>5. stack' = E \o tail
    BY <1>2 DEF Descend, E
  <1> HIDE DEF f
  <1>6. /\ \A k \in 1 .. n : stack'[k] = E[k]
        /\ DOMAIN stack' = IF c = NoNode THEN 1 .. n ELSE 1 .. n + 1
        /\ c # NoNode => stack'[n + 1] = Frame(c)
    <2>1. CASE c = NoNode
      <3>1. stack' = E
        BY <1>4, <1>5, <2>1
      <3> QED
        BY <1>4, <2>1, <3>1
    <2>2. CASE c # NoNode
      <3>1. stack' = E \o <<Frame(c)>>
        BY <1>5, <2>2
      <3>2. Append(E, Frame(c)) = E \o <<Frame(c)>>
        BY <1>4
      <3>3. Frame(c) \in Call
        BY <1>3, <2>2 DEF Frame, Call
      <3>4. /\ Len(Append(E, Frame(c))) = n + 1 /\ Append(E, Frame(c)) \in Seq(Call)
            /\ \A k \in 1 .. n : Append(E, Frame(c))[k] = E[k]
            /\ Append(E, Frame(c))[n + 1] = Frame(c)
        BY <1>4, <3>3, AppendProperties
      <3> QED
        BY <2>2, <3>1, <3>2, <3>4
    <2> QED
      BY <2>1, <2>2
  <1>7. \A g : Rest(g)' = Rest(g)
    BY <1>0 DEF Rest, Under
  <1>8. \A g : Inner(g)' = Inner(g)
    BY <1>0 DEF Inner, LoopBlocks
  <1>9. /\ Rest(stack[n]) = Under[Loop] /\ Rest(f) = {Loop} \cup Under[shape.sibling[Loop]]
        /\ c # NoNode => Rest(Frame(c)) = Under[c]
    <2>1. stack[n] = Top
      BY <1>2 DEF Top
    <2> QED
      BY <1>0, <1>4, <2>1 DEF Rest, Loop, Frame
  <1>10. /\ Under[NoNode] = {}
         /\ Under[Loop] = {Loop} \cup Under[c] \cup Under[shape.sibling[Loop]]
         /\ Loop \notin Under[c] /\ Under[c] \cap Under[shape.sibling[Loop]] = {}
         /\ Inner(Loop) = Under[c]
    BY <1>1, UnderFacts
  <1> DEFINE now(k) == Rest(stack[k])
             next(k) == Rest(stack'[k])
  <1>11. /\ \A k \in 1 .. n : k # n => next(k) = now(k)
         /\ next(n) = {Loop} \cup Under[shape.sibling[Loop]] /\ now(n) = Under[Loop]
         /\ c # NoNode => next(n + 1) = Under[c]
    <2>1. n \in 1 .. n
      BY <1>2
    <2>2. stack'[n] = f /\ \A k \in 1 .. n : k # n => stack'[k] = stack[k]
      BY <1>4, <1>6, <2>1
    <2> HIDE DEF f, c, tail
    <2> QED
      BY <1>6, <1>9, <2>2
  <1>12. \A k : Rest(stack[k])' = next(k)
    BY <1>7
  <1>13. /\ \A j, k \in 1 .. n : j < k => now(j) \cap now(k) = {}
         /\ \A j, k \in 1 .. n : j <= k /\ stack[k].entered => Inner(stack[k].node) \cap now(j) = {}
    BY <1>4 DEF StackInv
  <1>14. /\ \A k \in 1 .. n : k # n => stack'[k] = stack[k]
         /\ stack'[n].entered /\ stack'[n].node = Loop
         /\ c # NoNode => ~stack'[n + 1].entered
    BY <1>4, <1>6 DEF Frame
  <1>15. DOMAIN stack' \subseteq 1 .. n + 1 /\ (n + 1 \in DOMAIN stack' <=> c # NoNode) /\ 1 .. n \subseteq DOMAIN stack'
    BY <1>6
  <1> HIDE DEF now, next, f, tail, c
  <1>16. \A k \in 1 .. n : next(k) \subseteq now(k)
    BY <1>10, <1>11
  <1>17. ASSUME NEW j \in DOMAIN stack', NEW k \in DOMAIN stack', j < k PROVE next(j) \cap next(k) = {}
    <2>1. CASE k = n + 1
      <3>1. next(k) = Under[c] /\ j \in 1 .. n
        BY <1>11, <1>15, <1>17, <2>1
      <3>2. CASE j = n
        BY <1>10, <1>11, <3>1, <3>2
      <3>3. CASE j # n
        <4>1. j < n /\ n \in 1 .. n
          BY <3>1, <3>3
        <4>2. now(j) \cap now(n) = {} /\ next(j) = now(j)
          BY <1>11, <1>13, <3>1, <3>3, <4>1
        <4> QED
          BY <1>10, <1>11, <3>1, <4>2
      <3> QED
        BY <3>2, <3>3
    <2>2. CASE k # n + 1
      <3>1. j \in 1 .. n /\ k \in 1 .. n
        BY <1>15, <1>17, <2>2
      <3>2. now(j) \cap now(k) = {}
        BY <1>13, <1>17, <3>1
      <3> QED
        BY <1>16, <3>1, <3>2
    <2> QED
      BY <2>1, <2>2
  <1>18. ASSUME NEW j \in DOMAIN stack', NEW k \in DOMAIN stack', j <= k, stack'[k].entered
         PROVE Inner(stack'[k].node) \cap next(j) = {}
    <2>1. k \in 1 .. n /\ j \in 1 .. n
      BY <1>14, <1>15, <1>18
    <2>2. CASE k = n
      <3>1. Inner(stack'[k].node) = Under[c]
        BY <1>10, <1>14, <2>2
      <3>2. CASE j = n
        BY <1>10, <1>11, <3>1, <3>2
      <3>3. CASE j # n
        <4>1. j < n /\ n \in 1 .. n
          BY <1>18, <2>1, <2>2, <3>3
        <4>2. now(j) \cap now(n) = {} /\ next(j) = now(j)
          BY <1>11, <1>13, <2>1, <3>3, <4>1
        <4> QED
          BY <1>10, <1>11, <3>1, <4>2
      <3> QED
        BY <3>2, <3>3
    <2>3. CASE k # n
      <3>1. stack'[k] = stack[k]
        BY <1>14, <2>1, <2>3
      <3>2. Inner(stack[k].node) \cap now(j) = {}
        BY <1>13, <1>18, <2>1, <3>1
      <3> QED
        BY <1>16, <2>1, <3>1, <3>2
    <2> QED
      BY <2>2, <2>3
  <1>19. StackInv'
    BY <1>8, <1>12, <1>17, <1>18 DEF StackInv
  <1>20. Pending' = Pending
    <2>1. Pending' = UNION { next(k) : k \in DOMAIN stack' }
      BY <1>12 DEF Pending
    <2>2. Pending = UNION { now(k) : k \in 1 .. n }
      BY <1>4 DEF Pending, now
    <2>3. ASSUME NEW x, NEW k \in DOMAIN stack', x \in next(k) PROVE \E j \in 1 .. n : x \in now(j)
      <3>1. CASE k = n + 1
        BY <1>10, <1>11, <1>15, <2>3, <3>1
      <3>2. CASE k # n + 1
        <4>1. k \in 1 .. n
          BY <1>15, <3>2
        <4> QED
          BY <1>16, <2>3, <4>1
      <3> QED
        BY <3>1, <3>2
    <2>4. ASSUME NEW x, NEW k \in 1 .. n, x \in now(k) PROVE \E j \in DOMAIN stack' : x \in next(j)
      <3>1. CASE k = n
        <4>1. x \in next(n) \/ x \in Under[c]
          BY <1>10, <1>11, <2>4, <3>1
        <4>2. CASE x \in next(n)
          BY <1>15, <3>1, <4>2
        <4>3. CASE x \in Under[c]
          <5>1. c # NoNode
            BY <1>10, <4>3
          <5> QED
            BY <1>11, <1>15, <4>3, <5>1
        <4> QED
          BY <4>1, <4>2, <4>3
      <3>2. CASE k # n
        BY <1>11, <1>15, <2>4, <3>2
      <3> QED
        BY <3>1, <3>2
    <2> QED
      BY <2>1, <2>2, <2>3, <2>4
  <1> QED
    BY <1>19, <1>20

LEMMA StackShrinks ==
    ASSUME ControlInv, StackInv, stack # <<>>, Top.entered, Leave, shape' = shape
    PROVE  /\ StackInv' /\ Pending' = Pending \ {Loop} /\ Loop \in Pending /\ Loop \in Node
           /\ Inner(Loop) \cap Pending = {}
  <1>1. /\ Len(stack) \in Nat \ {0} /\ Top \in Call /\ Loop \in Node /\ stack \in Seq(Call)
        /\ SeqExt!Front(stack) \in Seq(Call)
        /\ Len(SeqExt!Front(stack)) = Len(stack) - 1
        /\ \A k \in 1 .. Len(stack) - 1 : SeqExt!Front(stack)[k] = stack[k]
    BY TopIsCall DEF ControlInv
  <1>2. PICK n \in Nat \ {0} : n = Len(stack)
    BY <1>1
  <1> DEFINE r == shape.sibling[Loop]
             E == SeqExt!Front(stack)
             tail == IF r = NoNode THEN <<>> ELSE <<Frame(r)>>
  <1>3. r \in Node \cup {NoNode}
    BY <1>1, ShapeFacts
  <1> HIDE DEF E
  <1>4. /\ DOMAIN stack = 1 .. n /\ E \in Seq(Call) /\ Len(E) = n - 1
        /\ \A k \in 1 .. n - 1 : E[k] = stack[k]
    BY <1>1, <1>2 DEF E
  <1>5. stack' = E \o tail
    BY DEF Leave, E
  <1>6. /\ \A k \in 1 .. n - 1 : stack'[k] = stack[k]
        /\ DOMAIN stack' = IF r = NoNode THEN 1 .. n - 1 ELSE 1 .. n
        /\ r # NoNode => stack'[n] = Frame(r)
    <2>1. CASE r = NoNode
      <3>1. stack' = E
        BY <1>4, <1>5, <2>1
      <3> QED
        BY <1>4, <2>1, <3>1
    <2>2. CASE r # NoNode
      <3>1. stack' = E \o <<Frame(r)>>
        BY <1>5, <2>2
      <3>2. Append(E, Frame(r)) = E \o <<Frame(r)>>
        BY <1>4
      <3>3. Frame(r) \in Call
        BY <1>3, <2>2 DEF Frame, Call
      <3>4. /\ Len(Append(E, Frame(r))) = n - 1 + 1 /\ Append(E, Frame(r)) \in Seq(Call)
            /\ \A k \in 1 .. n - 1 : Append(E, Frame(r))[k] = E[k]
            /\ Append(E, Frame(r))[n - 1 + 1] = Frame(r)
        BY <1>4, <3>3, AppendProperties
      <3>5. n - 1 + 1 = n
        OBVIOUS
      <3> QED
        BY <1>4, <2>2, <3>1, <3>2, <3>4, <3>5
    <2> QED
      BY <2>1, <2>2
  <1>7. \A g : Rest(g)' = Rest(g)
    BY DEF Rest, Under
  <1>8. \A g : Inner(g)' = Inner(g)
    BY DEF Inner, LoopBlocks
  <1>9. /\ Rest(stack[n]) = {Loop} \cup Under[r] /\ stack[n].node = Loop /\ stack[n].entered
        /\ r # NoNode => Rest(Frame(r)) = Under[r]
    <2>1. stack[n] = Top
      BY <1>2 DEF Top
    <2> QED
      BY <2>1 DEF Rest, Loop, Frame
  <1>10. /\ Under[NoNode] = {} /\ Loop \notin Under[r]
    BY <1>1, UnderFacts
  <1> DEFINE now(k) == Rest(stack[k])
             next(k) == Rest(stack'[k])
  <1>11. /\ \A k \in 1 .. n - 1 : next(k) = now(k)
         /\ now(n) = {Loop} \cup Under[r]
         /\ r # NoNode => next(n) = Under[r]
    <2> HIDE DEF r, tail
    <2> QED
      BY <1>6, <1>9
  <1>12. \A k : Rest(stack[k])' = next(k)
    BY <1>7
  <1>13. /\ \A j, k \in 1 .. n : j < k => now(j) \cap now(k) = {}
         /\ \A j, k \in 1 .. n : j <= k /\ stack[k].entered => Inner(stack[k].node) \cap now(j) = {}
    BY <1>4 DEF StackInv
  <1>14. /\ \A k \in 1 .. n - 1 : stack'[k] = stack[k]
         /\ r # NoNode => ~stack'[n].entered
    BY <1>6 DEF Frame
  <1>15. DOMAIN stack' \subseteq 1 .. n /\ (n \in DOMAIN stack' <=> r # NoNode) /\ 1 .. n - 1 \subseteq DOMAIN stack'
    BY <1>6
  <1> HIDE DEF now, next, tail, r
  <1>16. \A k \in DOMAIN stack' : k \in 1 .. n /\ next(k) \subseteq now(k) /\ Loop \notin next(k)
    <2> SUFFICES ASSUME NEW k \in DOMAIN stack' PROVE next(k) \subseteq now(k) /\ Loop \notin next(k)
      BY <1>15
    <2>1. CASE k = n
      BY <1>10, <1>11, <1>15, <2>1
    <2>2. CASE k # n
      <3>1. k \in 1 .. n - 1 /\ k \in 1 .. n /\ n \in 1 .. n /\ k < n
        BY <1>15, <2>2
      <3>2. now(k) \cap now(n) = {}
        BY <1>13, <3>1
      <3> QED
        BY <1>11, <3>1, <3>2
    <2> QED
      BY <2>1, <2>2
  <1>17. ASSUME NEW j \in DOMAIN stack', NEW k \in DOMAIN stack', j < k PROVE next(j) \cap next(k) = {}
    <2>1. now(j) \cap now(k) = {}
      BY <1>13, <1>16, <1>17
    <2> QED
      BY <1>16, <2>1
  <1>18. ASSUME NEW j \in DOMAIN stack', NEW k \in DOMAIN stack', j <= k, stack'[k].entered
         PROVE Inner(stack'[k].node) \cap next(j) = {}
    <2>1. k \in 1 .. n - 1 /\ k \in 1 .. n
      BY <1>14, <1>15, <1>18
    <2>2. stack'[k] = stack[k]
      BY <1>14, <2>1
    <2>3. Inner(stack[k].node) \cap now(j) = {}
      BY <1>13, <1>16, <1>18, <2>1, <2>2
    <2> QED
      BY <1>16, <2>2, <2>3
  <1>19. StackInv'
    BY <1>8, <1>12, <1>17, <1>18 DEF StackInv
  <1>20. Pending = UNION { now(k) : k \in 1 .. n }
    BY <1>4 DEF Pending, now
  <1>21. Pending' = Pending \ {Loop}
    <2>1. Pending' = UNION { next(k) : k \in DOMAIN stack' }
      BY <1>12 DEF Pending
    <2>2. ASSUME NEW x, NEW k \in DOMAIN stack', x \in next(k) PROVE x # Loop /\ \E j \in 1 .. n : x \in now(j)
      BY <1>16, <2>2
    <2>3. ASSUME NEW x, NEW k \in 1 .. n, x \in now(k), x # Loop PROVE \E j \in DOMAIN stack' : x \in next(j)
      <3>1. CASE k = n
        <4>1. x \in Under[r]
          BY <1>11, <2>3, <3>1
        <4>2. r # NoNode
          BY <1>10, <4>1
        <4> QED
          BY <1>11, <1>15, <4>1, <4>2
      <3>2. CASE k # n
        <4>1. k \in 1 .. n - 1
          BY <3>2
        <4> QED
          BY <1>11, <1>15, <2>3, <4>1
      <3> QED
        BY <3>1, <3>2
    <2> QED
      BY <1>20, <2>1, <2>2, <2>3
  <1>22. Loop \in Pending /\ Inner(Loop) \cap Pending = {}
    <2>1. n \in 1 .. n /\ \A j \in 1 .. n : j <= n
      OBVIOUS
    <2>2. \A j \in 1 .. n : Inner(Loop) \cap now(j) = {}
      BY <1>9, <1>13, <2>1
    <2>3. Loop \in now(n)
      BY <1>11
    <2> QED
      BY <1>20, <2>1, <2>2, <2>3
  <1> QED
    BY <1>1, <1>19, <1>21, <1>22

LEMMA StackOpens ==
    ASSUME ControlInv, shape' = shape, stack' = <<Frame(shape.root)>>
    PROVE  StackInv' /\ Pending' = Node
  <1>1. DOMAIN stack' = 1 .. 1 /\ stack'[1] = Frame(shape.root)
    OBVIOUS
  <1>2. \A g : Rest(g)' = Rest(g)
    BY DEF Rest, Under
  <1>3. ~stack'[1].entered /\ Rest(stack'[1]) = Node
    <2>1. Under[shape.root] = Node
      BY UnderFacts
    <2> QED
      BY <1>1, <2>1 DEF Rest, Frame
  <1>4. \A k \in DOMAIN stack' : k = 1
    BY <1>1
  <1>5. StackInv'
    BY <1>3, <1>4 DEF StackInv
  <1>6. Pending' = Node
    BY <1>1, <1>2, <1>3, <1>4 DEF Pending
  <1> QED
    BY <1>5, <1>6
--------------------------------------------------------------------------------
(* What the walks have visited.                                            *)
Walks == {"summary", "motion", "leaf"}

\* The visits q are those of the loops in S, once each.
Records(q, S) ==
    /\ q \in Seq(Node)
    /\ \A j, k \in DOMAIN q : q[j] = q[k] => j = k
    /\ \A n : n \in S <=> \E k \in DOMAIN q : q[k] = n

Inward(q) == \A k \in DOMAIN q : Inner(q[k]) \subseteq { q[j] : j \in 1 .. k - 1 }

LEMMA NothingVisited == Records(<<>>, {}) /\ Inward(<<>>)
  BY DEF Records, Inward

LEMMA VisitedNext ==
    ASSUME NEW q, NEW S, Records(q, S), NEW n \in Node, n \notin S
    PROVE  /\ Records(Append(q, n), S \cup {n})
           /\ Inward(q) /\ Inner(n) \subseteq S => Inward(Append(q, n))
  <1> DEFINE p == Append(q, n)
  <1>1. q \in Seq(Node)
    BY DEF Records
  <1>2. PICK l \in Nat : l = Len(q)
    BY <1>1
  <1>3. /\ DOMAIN q = 1 .. l /\ p \in Seq(Node) /\ DOMAIN p = 1 .. l + 1 /\ p[l + 1] = n
        /\ \A k \in 1 .. l : p[k] = q[k]
    BY <1>1, <1>2, AppendProperties
  <1>4. /\ \A j, k \in 1 .. l : q[j] = q[k] => j = k
        /\ \A x : x \in S <=> \E k \in 1 .. l : q[k] = x
    BY <1>3 DEF Records
  <1> HIDE DEF p
  <1>5. \A k : k \in 1 .. l + 1 <=> k \in 1 .. l \/ k = l + 1
    OBVIOUS
  <1>6. \A j, k \in 1 .. l + 1 : p[j] = p[k] => j = k
    BY <1>3, <1>4, <1>5
  <1>7. \A x : x \in S \cup {n} <=> \E k \in 1 .. l + 1 : p[k] = x
    BY <1>3, <1>4, <1>5
  <1>8. ASSUME Inward(q), Inner(n) \subseteq S PROVE Inward(p)
    <2> SUFFICES ASSUME NEW k \in 1 .. l + 1, NEW m \in Inner(p[k])
                 PROVE  \E j \in 1 .. k - 1 : p[j] = m
      BY <1>3 DEF Inward
    <2>1. CASE k = l + 1
      <3>1. m \in S
        BY <1>3, <1>8, <2>1
      <3>2. PICK j \in 1 .. l : q[j] = m
        BY <1>4, <3>1
      <3> QED
        BY <1>3, <2>1, <3>2
    <2>2. CASE k # l + 1
      <3>1. k \in 1 .. l /\ p[k] = q[k]
        BY <1>3, <2>2
      <3>2. m \in { q[j] : j \in 1 .. k - 1 }
        BY <1>3, <1>8, <3>1 DEF Inward
      <3>3. PICK j \in 1 .. k - 1 : q[j] = m
        BY <3>2
      <3>4. j \in 1 .. l
        BY <3>1
      <3> QED
        BY <1>3, <3>3, <3>4
    <2> QED
      BY <2>1, <2>2
  <1> QED
    BY <1>3, <1>6, <1>7, <1>8 DEF Records, p

LEMMA VisitedOnce ==
    ASSUME NEW q, NEW S, Records(q, S), NEW n
    PROVE  Count(q, n) = IF n \in S THEN 1 ELSE 0
  <1> DEFINE K == { k \in DOMAIN q : q[k] = n }
  <1>1. CASE n \in S
    <2>1. PICK k \in DOMAIN q : q[k] = n
      BY <1>1 DEF Records
    <2>2. K = {k}
      BY <2>1 DEF Records
    <2>3. Cardinality(K) = 1
      BY <2>2, FS_Singleton
    <2> QED
      BY <1>1, <2>3 DEF Count
  <1>2. CASE n \notin S
    <2>1. K = {}
      BY <1>2 DEF Records
    <2>2. Cardinality(K) = 0
      BY <2>1, FS_EmptySet
    <2> QED
      BY <1>2, <2>2 DEF Count
  <1> QED
    BY <1>1, <1>2

LeafLoop(n) == shape.child[n] = NoNode /\ ~fact[n].skipLeaf
Due(w) == IF w = "leaf" THEN { n \in Node : LeafLoop(n) } ELSE Node
Before(w) == IF w = "leaf" THEN {"summary", "motion"} ELSE IF w = "motion" THEN {"summary"} ELSE {}
Completed == IF walk = "done" THEN IF mode = 0 THEN {} ELSE Walks ELSE Before(walk)

VisitsInv ==
    /\ DOMAIN visits = Walks
    /\ \A w \in Walks :
          Records(visits[w], IF w \in Completed THEN Due(w) ELSE IF w = walk THEN Due(w) \ Pending ELSE {})
    /\ Inward(visits["summary"]) /\ Inward(visits["motion"])

\* A loop is scanned after the loops in it.
EnteredInv == scanPc # "none" => Top.entered

WalkInv == StackInv /\ VisitsInv /\ EnteredInv

LEMMA WalksStart == Init => WalkInv
  <1> SUFFICES ASSUME Init PROVE WalkInv
    OBVIOUS
  <1>1. walk = "index" /\ stack = <<>> /\ visits = [w \in Walks |-> <<>>]
    BY DEF Init, Walks
  <1>2. StackInv
    BY <1>1 DEF StackInv
  <1>3. Completed = {} /\ "index" \notin Walks /\ "summary" \in Walks /\ "motion" \in Walks
    BY <1>1 DEF Completed, Before, Walks
  <1>4. \A w \in Walks : visits[w] = <<>>
    BY <1>1
  <1>5. EnteredInv
    BY DEF Init, EnteredInv
  <1> QED
    BY <1>1, <1>2, <1>3, <1>4, <1>5, NothingVisited DEF WalkInv, VisitsInv

(***************************************************************************)
(* The steps of the walks.                                                 *)
(***************************************************************************)
LEMMA NothingWalked ==
    ASSUME WalkInv, UNCHANGED <<shape, fact, walk, stack, visits>>, mode' = mode \/ walk = "index",
           scanPc' # "none" => scanPc # "none" \/ Top.entered
    PROVE  WalkInv'
  <1>1. \A g : Rest(g)' = Rest(g)
    BY DEF Rest, Under
  <1>2. \A g : Inner(g)' = Inner(g)
    BY DEF Inner, LoopBlocks
  <1>3. StackInv'
    BY <1>1, <1>2 DEF WalkInv, StackInv
  <1>4. Pending' = Pending
    BY <1>1 DEF Pending
  <1>5. Completed' = Completed
    BY DEF Completed, Before
  <1>6. /\ \A w : Due(w)' = Due(w)
        /\ \A q : Inward(q)' <=> Inward(q)
    BY <1>2 DEF Due, LeafLoop, Inward
  <1>7. VisitsInv'
    BY <1>4, <1>5, <1>6 DEF WalkInv, VisitsInv
  <1>8. EnteredInv'
    BY DEF WalkInv, EnteredInv, Top
  <1> QED
    BY <1>3, <1>7, <1>8 DEF WalkInv

LEMMA WalkBegins ==
    ASSUME ControlInv, WalkInv, NextWalk
    PROVE  WalkInv'
  <1>1. PICK from, to : /\ StartWalk(from, to)
                        /\ \/ from = "index" /\ to \in {"done", "summary"}
                           \/ from = "summary" /\ to = "motion"
                           \/ from = "motion" /\ to = "leaf"
                           \/ from = "leaf" /\ to = "done"
    BY DEF NextWalk
  <1>2. /\ walk = from /\ stack = <<>> /\ walk' = to /\ mode' = mode
        /\ mode = 0 <=> from = "index" /\ to = "done"
        /\ stack' = IF to = "done" THEN <<>> ELSE <<Frame(shape.root)>>
        /\ shape' = shape /\ fact' = fact /\ visits' = visits
    BY <1>1 DEF StartWalk, ivars
  <1>3. Pending = {}
    BY <1>2 DEF Pending
  <1>4. /\ StackInv'
        /\ to # "done" => Pending' = Node
    <2>1. CASE to = "done"
      <3>1. stack' = <<>>
        BY <1>2, <2>1
      <3> QED
        BY <2>1, <3>1 DEF StackInv
    <2>2. CASE to # "done"
      BY <1>2, <2>2, StackOpens
    <2> QED
      BY <2>1, <2>2
  <1>5. /\ \A w : Due(w)' = Due(w) /\ Due(w) \subseteq Node
        /\ \A q : Inward(q)' <=> Inward(q)
    <2>1. \A g : Inner(g)' = Inner(g)
      BY <1>2 DEF Inner, LoopBlocks
    <2> QED
      BY <1>2, <2>1 DEF Due, LeafLoop, Inward
  <1> DEFINE Seen(w) == IF w \in Completed THEN Due(w) ELSE IF w = walk THEN Due(w) \ Pending ELSE {}
  <1>6. ASSUME NEW w \in Walks PROVE Seen(w)' = Seen(w)
    <2>1. \/ Completed' = Completed \cup ({from} \cap Walks)
          \/ from = "index" /\ to = "done" /\ Completed' = Completed
      BY <1>1, <1>2 DEF Completed, Before, Walks
    <2>2. to \notin Completed' \cap Walks /\ (to \in Walks => to # "done" /\ to \notin Completed /\ to # from)
      BY <1>1, <1>2 DEF Completed, Before, Walks
    <2>3. from \notin Completed
      BY <1>1, <1>2 DEF Completed, Before
    <2>4. Due(w) \ Pending = Due(w) /\ (to \in Walks => Due(w) \ Pending' = {})
      BY <1>3, <1>4, <1>5, <2>2
    <2>5. Seen(w)' = IF w \in Completed' THEN Due(w) ELSE IF w = to THEN Due(w) \ Pending' ELSE {}
      BY <1>2, <1>5
    <2>6. Seen(w) = IF w \in Completed THEN Due(w) ELSE IF w = from THEN Due(w) ELSE {}
      BY <1>2, <2>4
    <2>7. from = "index" => w # from
      BY DEF Walks
    <2> HIDE DEF Seen
    <2> QED
      BY <2>1, <2>2, <2>4, <2>5, <2>6, <2>7
  <1>7. VisitsInv'
    <2>1. \A w \in Walks : Records(visits[w], Seen(w))
      BY DEF WalkInv, VisitsInv
    <2>2. \A w \in Walks : Records(visits'[w], Seen(w)')
      BY <1>2, <1>6, <2>1
    <2> QED
      BY <1>2, <1>5, <2>2 DEF WalkInv, VisitsInv, Records
  <1>8. EnteredInv'
    BY <1>1, <1>2 DEF StartWalk, svars, ControlInv, EnteredInv
  <1> QED
    BY <1>4, <1>7, <1>8 DEF WalkInv

LEMMA WalkDescends ==
    ASSUME ControlInv, WalkInv, Descend
    PROVE  WalkInv'
  <1>1. StackInv' /\ Pending' = Pending
    BY StackGrows DEF WalkInv
  <1>2. shape' = shape /\ fact' = fact /\ walk' = walk /\ visits' = visits /\ mode' = mode
    BY DEF Descend, ivars
  <1>3. /\ \A w : Due(w)' = Due(w)
        /\ \A q : Inward(q)' <=> Inward(q)
        /\ Completed' = Completed
    BY <1>2 DEF Due, LeafLoop, Inward, Inner, LoopBlocks, Completed, Before
  <1>4. VisitsInv'
    BY <1>1, <1>2, <1>3 DEF WalkInv, VisitsInv
  <1>5. EnteredInv'
    BY DEF Descend, Walking, svars, EnteredInv
  <1> QED
    BY <1>1, <1>4, <1>5 DEF WalkInv

\* The end of a loop, visited or, by the leaf pass, passed over.
LEMMA LoopEnds ==
    ASSUME ControlInv, WalkInv, stack # <<>>, Top.entered, Leave, walk \in Walks,
           UNCHANGED <<shape, walk, mode>>, scanPc' = "none",
           walk = "summary" \/ fact' = fact,
           IF walk = "leaf" /\ ~LeafLoop(Loop) THEN UNCHANGED visits ELSE Visit
    PROVE  WalkInv'
  <1>1. /\ StackInv' /\ Pending' = Pending \ {Loop} /\ Loop \in Pending /\ Loop \in Node
        /\ Inner(Loop) \cap Pending = {}
    BY StackShrinks DEF WalkInv
  <1>2. Completed' = Completed /\ walk \notin Completed
    BY DEF Completed, Before, Walks
  <1>3. \A q : Inward(q)' <=> Inward(q)
    BY DEF Inward, Inner, LoopBlocks
  <1>4. \A w \in Walks : (w = "leaf" /\ w \notin Completed /\ w # walk) \/ Due(w)' = Due(w)
    <2>1. CASE walk = "summary"
      BY <2>1 DEF Completed, Before, Due, Walks
    <2>2. CASE walk # "summary"
      BY <2>2 DEF Due, LeafLoop
    <2> QED
      BY <2>1, <2>2
  <1>5. Inner(Loop) \subseteq Node
    BY DEF Inner
  <1> DEFINE Seen(w) == IF w \in Completed THEN Due(w) ELSE IF w = walk THEN Due(w) \ Pending ELSE {}
  <1>6. /\ \A w \in Walks : Records(visits[w], Seen(w)) /\ DOMAIN visits = Walks
        /\ Inward(visits["summary"]) /\ Inward(visits["motion"])
    BY DEF WalkInv, VisitsInv
  <1>7. \A w \in Walks : w # walk => Seen(w)' = Seen(w)
    BY <1>2, <1>4
  <1>8. Seen(walk) = Due(walk) \ Pending /\ Seen(walk)' = Due(walk) \ (Pending \ {Loop})
    BY <1>1, <1>2, <1>4
  <1>9. Loop \in Due(walk) <=> ~(walk = "leaf" /\ ~LeafLoop(Loop))
    BY <1>1 DEF Due
  <1>10. (\A w \in Walks : Records(visits'[w], Seen(w)') ) /\ DOMAIN visits' = Walks
         /\ Inward(visits'["summary"]) /\ Inward(visits'["motion"])
    <2>1. CASE walk = "leaf" /\ ~LeafLoop(Loop)
      <3>1. visits' = visits /\ Seen(walk)' = Seen(walk)
        BY <1>1, <1>8, <1>9, <2>1
      <3> HIDE DEF Seen
      <3> QED
        BY <1>6, <1>7, <3>1
    <2>2. CASE ~(walk = "leaf" /\ ~LeafLoop(Loop))
      <3>1. visits' = [visits EXCEPT ![walk] = Append(visits[walk], Loop)]
        BY <2>2 DEF Visit
      <3>2. Loop \notin Seen(walk) /\ Seen(walk)' = Seen(walk) \cup {Loop}
        BY <1>1, <1>8, <1>9, <2>2
      <3>3. walk # "leaf" => Inner(Loop) \subseteq Seen(walk)
        <4>1. walk # "leaf" => Due(walk) = Node
          BY DEF Due
        <4> QED
          BY <1>1, <1>5, <1>8, <4>1
      <3> HIDE DEF Seen
      <3>4. /\ Records(Append(visits[walk], Loop), Seen(walk) \cup {Loop})
            /\ walk # "leaf" /\ Inward(visits[walk]) => Inward(Append(visits[walk], Loop))
        BY <1>1, <1>6, <3>2, <3>3, VisitedNext
      <3>5. /\ DOMAIN visits' = Walks /\ visits'[walk] = Append(visits[walk], Loop)
            /\ \A w \in Walks : w # walk => visits'[w] = visits[w]
        BY <1>6, <3>1
      <3>6. \A w \in {"summary", "motion"} : Inward(visits[w]) /\ w \in Walks /\ w # "leaf"
        BY <1>6 DEF Walks
      <3>7. \A w \in {"summary", "motion"} : Inward(visits'[w])
        BY <3>4, <3>5, <3>6
      <3> QED
        BY <1>6, <1>7, <3>2, <3>4, <3>5, <3>7
    <2> QED
      BY <2>1, <2>2
  <1>11. VisitsInv'
    BY <1>3, <1>10 DEF VisitsInv, Records
  <1> QED
    BY <1>1, <1>11 DEF WalkInv, EnteredInv

LEMMA NextKeepsWalks == IInv /\ WalkInv /\ [Next]_vars => WalkInv'
  <1> SUFFICES ASSUME IInv, WalkInv, [Next]_vars PROVE WalkInv'
    OBVIOUS
  <1>0. ControlInv
    BY DEF IInv
  <1>1. CASE BuildIndex
    BY <1>1, NothingWalked DEF BuildIndex, mvars, svars
  <1>2. CASE NextWalk
    BY <1>0, <1>2, WalkBegins
  <1>3. CASE Descend
    BY <1>0, <1>3, WalkDescends
  <1>4. CASE Summarize
    <2>1. /\ walk = "summary" /\ stack # <<>> /\ Top.entered /\ Leave /\ Visit
          /\ UNCHANGED <<shape, walk, mode>> /\ scanPc' = "none" /\ walk \in Walks
      BY <1>4 DEF Summarize, Walking, svars, ivars, Walks
    <2> QED
      BY <1>0, <2>1, LoopEnds
  <1>5. CASE LeafPass
    <2>1. /\ walk = "leaf" /\ stack # <<>> /\ Top.entered /\ Leave /\ fact' = fact
          /\ UNCHANGED <<shape, walk, mode>> /\ scanPc' = "none" /\ walk \in Walks
          /\ IF LeafLoop(Loop) THEN Visit ELSE UNCHANGED visits
      BY <1>5 DEF LeafPass, Walking, svars, ivars, Walks, LeafLoop
    <2> QED
      BY <1>0, <2>1, LoopEnds
  <1>6. CASE EndScan
    <2>1. /\ walk = "motion" /\ stack # <<>> /\ Top.entered
      BY <1>0, <1>6 DEF EndScan, ControlInv, WalkInv, EnteredInv
    <2>2. /\ Leave /\ Visit /\ fact' = fact /\ UNCHANGED <<shape, walk, mode>> /\ scanPc' = "none"
          /\ walk \in Walks
      BY <1>6, <2>1 DEF EndScan, ivars, Walks
    <2> QED
      BY <1>0, <2>1, <2>2, LoopEnds
  <1>7. CASE StartScan
    BY <1>7, NothingWalked DEF StartScan, Walking, ivars
  <1>8. CASE ScanBlock
    BY <1>8, NothingWalked DEF ScanBlock, ivars
  <1>9. CASE EndBlock
    BY <1>9, NothingWalked DEF EndBlock, ivars
  <1>10. CASE Skip
    BY <1>10, NothingWalked DEF Skip, ivars
  <1>11. CASE ScanInstruction
    <2>1. UNCHANGED <<shape, fact, walk, stack, visits, mode, scanPc>>
      <3>1. \/ \E d \in BOOLEAN : MoveOut(todo, d)
            \/ Refuse(todo)
        <4>1. PICK invariant, movable, escapes, fallback \in BOOLEAN :
                  LET direct == MayMoveDirectly(todo, invariant, movable, escapes)
                  IN  IF direct \/ fallback THEN MoveOut(todo, direct) ELSE Refuse(todo)
          BY <1>11 DEF ScanInstruction
        <4>2. MayMoveDirectly(todo, invariant, movable, escapes) \in BOOLEAN
          BY DEF MayMoveDirectly
        <4> QED
          BY <4>1, <4>2
      <3> QED
        BY <3>1 DEF MoveOut, Refuse, Offer, ivars
    <2> QED
      BY <2>1, NothingWalked
  <1>12. CASE Repeat
    BY <1>12, NothingWalked DEF Repeat, ivars
  <1>13. CASE Terminated \/ UNCHANGED vars
    BY <1>13, NothingWalked DEF Terminated, vars, mvars, svars, ivars
  <1> QED
    BY <1>1, <1>2, <1>3, <1>4, <1>5, <1>6, <1>7, <1>8, <1>9, <1>10, <1>11, <1>12, <1>13 DEF Next

LEMMA VisitsAreComplete == ControlInv /\ WalkInv => WalksAreComplete
  <1> SUFFICES ASSUME ControlInv, WalkInv PROVE WalksAreComplete
    OBVIOUS
  <1>1. /\ \A w \in Walks : Records(visits[w], IF w \in Completed THEN Due(w)
                                               ELSE IF w = walk THEN Due(w) \ Pending ELSE {})
        /\ Inward(visits["summary"]) /\ Inward(visits["motion"])
    BY DEF WalkInv, VisitsInv
  <1>2. ASSUME walk = "done", mode = 1, NEW n \in Node
        PROVE  /\ Count(visits.summary, n) = 1 /\ Count(visits.motion, n) = 1
               /\ Count(visits.leaf, n) = IF Inner(n) = {} /\ ~fact[n].skipLeaf THEN 1 ELSE 0
    <2>1. Completed = Walks /\ "summary" \in Walks /\ "motion" \in Walks /\ "leaf" \in Walks
      BY <1>2 DEF Completed, Walks
    <2>2. Records(visits.summary, Node) /\ Records(visits.motion, Node) /\ Records(visits.leaf, Due("leaf"))
      BY <1>1, <2>1 DEF Due
    <2>3. n \in Due("leaf") <=> Inner(n) = {} /\ ~fact[n].skipLeaf
      <3>1. shape.child[n] \in Node \cup {NoNode} /\ Inner(n) = Under[shape.child[n]]
        BY ShapeFacts, UnderFacts
      <3>2. Under[NoNode] = {} /\ \A m \in Node : m \in Under[m]
        BY UnderFacts
      <3> QED
        BY <3>1, <3>2 DEF Due, LeafLoop
    <2> QED
      BY <2>2, <2>3, VisitedOnce
  <1> QED
    BY <1>1, <1>2 DEF WalksAreComplete, Inward

(***************************************************************************)
(* Each loop is summarised once and scanned once, after the loops inside   *)
(* it, whatever the tree of loops; the leaf pass sees exactly the leaves   *)
(* whose guard is not set.                                                 *)
(***************************************************************************)
THEOREM EveryLoopIsVisited == Spec => []WalksAreComplete
  <1>1. Init => IInv /\ WalkInv
    BY MotionStarts, WalksStart
  <1>2. IInv /\ WalkInv /\ [Next]_vars => (IInv /\ WalkInv)'
    BY NextKeeps, NextKeepsWalks
  <1>3. IInv /\ WalkInv => WalksAreComplete
    BY VisitsAreComplete DEF IInv
  <1> QED
    BY <1>1, <1>2, <1>3, PTL DEF Spec
===============================================================================
