---------------------------- MODULE BackendProofs ----------------------------
(***************************************************************************)
(* Invariance proofs for two parts of the back end that share no state.    *)
(*   - Copy coalescing, for every number of registers, every interference  *)
(*     graph, every window and every sequence of copies.                   *)
(*   - The optimiser's driver, for any options and whatever the passes     *)
(*     report: copies are settled and indexes fresh where they have to be. *)
(*     What the history of calls says is tied to the point at which the    *)
(*     driver stands.                                                      *)
(***************************************************************************)
EXTENDS Coalesce, OptimizerPipeline, NaturalProofs

(**************************** copy coalescing ******************************)

\* A parent map: nobody's parent is above it.
ParentMap(p) == p \in [Reg -> Reg] /\ \A r \in Reg : p[r] <= r

\* The registers met on the way to the root.
Ancestors(p, r) ==
    { x \in Reg : \A S \in SUBSET Reg :
                    (r \in S /\ \A z \in S : p[z] \in S) => x \in S }

LEMMA AncestorsStep ==
    ASSUME NEW p, ParentMap(p), NEW r \in Reg
    PROVE  /\ r \in Ancestors(p, r)
           /\ Ancestors(p, r) = {r} \cup Ancestors(p, p[r])
  <1>1. p[r] \in Reg
    BY DEF ParentMap
  <1>2. r \in Ancestors(p, r)
    BY DEF Ancestors
  <1>3. Ancestors(p, p[r]) \subseteq Ancestors(p, r)
    BY <1>1 DEF Ancestors
  <1>4. ASSUME NEW x \in Ancestors(p, r) PROVE x \in {r} \cup Ancestors(p, p[r])
    <2> DEFINE T == {r} \cup Ancestors(p, p[r])
    <2>1. T \in SUBSET Reg
      BY DEF Ancestors
    <2>2. p[r] \in T
      BY <1>1 DEF Ancestors
    <2>3. ASSUME NEW z \in Ancestors(p, p[r]) PROVE p[z] \in Ancestors(p, p[r])
      <3>1. z \in Reg /\ p[z] \in Reg
        BY <2>3 DEF Ancestors, ParentMap
      <3>2. QED
        BY <2>3, <3>1 DEF Ancestors
    <2>4. \A z \in T : p[z] \in T
      BY <2>2, <2>3
    <2>5. QED
      BY <2>1, <2>4 DEF Ancestors
  <1>5. QED
    BY <1>2, <1>3, <1>4

\* The recursive definition of RootMap has a solution, hence defines one.
LEMMA RootMapFunction ==
    ASSUME NEW p, ParentMap(p)
    PROVE  RootMap(p) = [r \in Reg |-> IF p[r] = r THEN r ELSE RootMap(p)[p[r]]]
  <1> DEFINE F(f) == [r \in Reg |-> IF p[r] = r THEN r ELSE f[p[r]]]
             fixed(r) == { x \in Ancestors(p, r) : p[x] = x }
             g == [r \in Reg |-> IF p[r] = r THEN r ELSE CHOOSE x : x \in fixed(r)]
  <1>1. ASSUME NEW r \in Reg
        PROVE  g[r] = IF p[r] = r THEN r ELSE g[p[r]]
    <2>1. CASE p[r] = r
      BY <2>1
    <2>2. CASE p[r] # r
      <3>1. p[r] \in Reg
        BY DEF ParentMap
      <3>2. fixed(r) = fixed(p[r])
        BY <2>2, AncestorsStep
      <3>3. CASE p[p[r]] # p[r]
        BY <2>2, <3>1, <3>2, <3>3
      <3>4. CASE p[p[r]] = p[r]
        <4>1. Ancestors(p, p[r]) = {p[r]}
          <5>1. {p[r]} \in SUBSET Reg /\ \A z \in {p[r]} : p[z] \in {p[r]}
            BY <3>1, <3>4
          <5>2. QED
            BY <3>1, <5>1 DEF Ancestors
        <4>2. fixed(r) = {p[r]}
          BY <3>2, <3>4, <4>1
        <4>3. (CHOOSE x : x \in fixed(r)) = p[r]
          BY <4>2
        <4>4. QED
          BY <2>2, <3>1, <3>4, <4>3
      <3>5. QED
        BY <3>3, <3>4
    <2>3. QED
      BY <2>1, <2>2
  <1>2. g = F(g)
    BY <1>1
  <1>3. RootMap(p) = CHOOSE f : f = F(f)
    BY DEF RootMap
  <1> HIDE DEF g
  <1>4. RootMap(p) = F(RootMap(p))
    BY <1>2, <1>3
  <1>5. QED
    BY <1>4

LEMMA RootMapEquation ==
    ASSUME NEW p, ParentMap(p)
    PROVE  \A r \in Reg :
             RootMap(p)[r] = IF p[r] = r THEN r ELSE RootMap(p)[p[r]]
  BY RootMapFunction

(***************************************************************************)
(* Following the parents ends at a register that is its own parent.        *)
(***************************************************************************)
LEMMA RootIsRoot ==
    ASSUME NEW p, ParentMap(p), NEW r \in Reg
    PROVE  /\ RootMap(p)[r] \in Reg
           /\ p[RootMap(p)[r]] = RootMap(p)[r]
           /\ RootMap(p)[r] <= r
  <1> DEFINE good == { x \in Reg : /\ RootMap(p)[x] \in Reg
                                   /\ p[RootMap(p)[x]] = RootMap(p)[x]
                                   /\ RootMap(p)[x] <= x }
  <1>0. Reg \subseteq Nat
    BY RegAssumption DEF Reg
  <1>1. ASSUME NEW x \in Reg, \A z \in Reg : z < x => z \in good
        PROVE  x \in good
    <2>1. RootMap(p)[x] = IF p[x] = x THEN x ELSE RootMap(p)[p[x]]
      BY RootMapEquation
    <2>2. p[x] \in Reg /\ p[x] <= x
      BY DEF ParentMap
    <2>3. CASE p[x] = x
      BY <1>0, <2>1, <2>3
    <2>4. CASE p[x] # x
      <3>0. p[x] \in Nat /\ x \in Nat
        BY <1>0, <2>2
      <3>1. p[x] < x
        BY <2>2, <2>4, <3>0
      <3>2. p[x] \in good
        BY <1>1, <2>2, <3>1
      <3>3. RootMap(p)[x] = RootMap(p)[p[x]]
        BY <2>1, <2>4
      <3>4. RootMap(p)[x] \in Reg /\ p[RootMap(p)[x]] = RootMap(p)[x]
        BY <3>2, <3>3
      <3>5. RootMap(p)[p[x]] <= p[x] /\ RootMap(p)[x] \in Nat
        BY <1>0, <3>2, <3>4
      <3>6. RootMap(p)[x] <= x
        BY <3>0, <3>1, <3>3, <3>5
      <3>7. QED
        BY <3>4, <3>6
    <2>5. QED
      BY <2>3, <2>4
  <1> HIDE DEF good
  <1>2. Reg \subseteq good
    BY <1>1, IntervalInduction, RegAssumption DEF Reg
  <1>3. QED
    BY <1>2 DEF good

LEMMA RootOfRoot ==
    ASSUME NEW p, ParentMap(p), NEW r \in Reg, p[r] = r
    PROVE  RootMap(p)[r] = r
  BY RootMapEquation

(***************************************************************************)
(* Making the root c a child of the smaller root r moves the registers of  *)
(* c's class to r and leaves the others where they were.                   *)
(***************************************************************************)
Merged(p, r, c) == [p EXCEPT ![c] = r]

LEMMA MergedRoots ==
    ASSUME NEW p, ParentMap(p), NEW r \in Reg, NEW c \in Reg,
           p[r] = r, p[c] = c, r < c
    PROVE  /\ ParentMap(Merged(p, r, c))
           /\ \A x \in Reg : RootMap(Merged(p, r, c))[x] =
                 IF RootMap(p)[x] = c THEN r ELSE RootMap(p)[x]
  <1> DEFINE q == Merged(p, r, c)
  <1>q. q = [p EXCEPT ![c] = r]
    BY DEF Merged
  <1> HIDE DEF q
  <1> DEFINE good == { x \in Reg : RootMap(q)[x] =
                         IF RootMap(p)[x] = c THEN r ELSE RootMap(p)[x] }
  <1>0. Reg \subseteq Nat
    BY RegAssumption DEF Reg
  <1>1. ParentMap(q)
    BY <1>0, <1>q DEF ParentMap
  <1>2. ASSUME NEW x \in Reg, \A z \in Reg : z < x => z \in good
        PROVE  x \in good
    <2>1. RootMap(q)[x] = IF q[x] = x THEN x ELSE RootMap(q)[q[x]]
      BY <1>1, RootMapEquation
    <2>2. RootMap(p)[x] = IF p[x] = x THEN x ELSE RootMap(p)[p[x]]
      BY RootMapEquation
    <2>3. CASE x = c
      <3>1. q[c] = r /\ q[r] = r
        BY <1>0, <1>q DEF ParentMap
      <3>2. RootMap(q)[r] = r
        BY <1>1, <3>1, RootOfRoot
      <3>3. QED
        BY <1>0, <2>1, <2>2, <2>3, <3>1, <3>2
    <2>4. CASE x # c
      <3>1. q[x] = p[x]
        BY <1>q, <2>4 DEF ParentMap
      <3>2. CASE p[x] = x
        BY <2>1, <2>2, <2>4, <3>1, <3>2
      <3>3. CASE p[x] # x
        <4>0. p[x] \in Reg /\ p[x] <= x
          BY DEF ParentMap
        <4>a. p[x] \in Nat /\ x \in Nat
          BY <1>0, <4>0
        <4>1. p[x] \in Reg /\ p[x] < x
          BY <3>3, <4>0, <4>a
        <4>2. p[x] \in good
          BY <1>2, <4>1
        <4>3. QED
          BY <2>1, <2>2, <3>1, <3>3, <4>2
      <3>4. QED
        BY <3>2, <3>3
    <2>5. QED
      BY <2>3, <2>4
  <1> HIDE DEF good
  <1>3. Reg \subseteq good
    BY <1>2, IntervalInduction, RegAssumption DEF Reg
  <1>4. QED
    BY <1>1, <1>3 DEF good, q
-----------------------------------------------------------------------------
(***************************************************************************)
(* The inductive invariant.  The exactness of the roots' edges carries the *)
(* proof: a merge is admitted on the edges of two roots only, and it says  *)
(* what those edges mean for all the members of the two classes.           *)
(***************************************************************************)
NamesUntouched == coalescePc = "copies" => name = [r \in Reg |-> r]

NamesAreRoots == coalescePc = "renamed" => name = RootMap(parent)

IInv == TypeOK /\ NamesUntouched /\ NamesAreRoots /\ QuotientIsExact
        /\ RootsCarryEdges /\ RemovedCopiesAreTrivial

LEMMA IdentityRoots ==
    ASSUME NEW p, p = [r \in Reg |-> r]
    PROVE  ParentMap(p) /\ \A r \in Reg : RootMap(p)[r] = r
  <1>1. Reg \subseteq Nat
    BY RegAssumption DEF Reg
  <1>2. \A r \in Reg : r <= r
    BY <1>1
  <1>3. ParentMap(p)
    BY <1>2 DEF ParentMap
  <1>4. QED
    BY <1>3, RootOfRoot

LEMMA Initially == Init => IInv
  <1> SUFFICES ASSUME Init PROVE IInv
    OBVIOUS
  <1> USE DEF Init, CoalesceStart
  <1>1. ParentMap(parent) /\ \A r \in Reg : RootMap(parent)[r] = r
    BY IdentityRoots
  <1>2. Phys \subseteq Reg
    BY PhysAssumption, RegAssumption DEF Phys, Reg
  <1>3. TypeOK
    BY <1>1, <1>2 DEF TypeOK, ParentMap
  <1>4. QuotientIsExact
    BY <1>1 DEF QuotientIsExact
  <1>5. RemovedCopiesAreTrivial /\ NamesUntouched /\ NamesAreRoots /\ RootsCarryEdges
    BY <1>1 DEF RemovedCopiesAreTrivial, NamesUntouched, NamesAreRoots, RootsCarryEdges
  <1>6. QED
    BY <1>3, <1>4, <1>5 DEF IInv
-----------------------------------------------------------------------------
\* What two roots that are merged have to do with each other.
Mergeable(root, child) ==
    /\ root \in Reg /\ child \in Reg
    /\ parent[root] = root /\ parent[child] = child
    /\ root < child
    /\ child \notin adj[root]
    /\ parent' = [parent EXCEPT ![child] = root]
    /\ adj' = WithEdgesOf(child, root)

LEMMA MergeIsMergeable ==
    ASSUME TypeOK, NEW a \in Reg, NEW b \in Reg, a # b,
           parent[a] = a, parent[b] = b,
           CanCoalesce(a, b), MergeRoots(a, b)
    PROVE  \E root, child \in {a, b} : root # child /\ Mergeable(root, child)
  <1>1. a \in Nat /\ b \in Nat
    BY RegAssumption DEF Reg
  <1>2. b \notin adj[a] /\ a \notin adj[b]
    BY DEF CanCoalesce, TypeOK, IsInterferenceGraph
  <1>3. CASE a < b
    <2>1. Mergeable(a, b)
      BY <1>2, <1>3 DEF Mergeable, MergeRoots
    <2>2. QED
      BY <2>1
  <1>4. CASE ~(a < b)
    <2>1. b < a
      BY <1>1, <1>4
    <2>2. Mergeable(b, a)
      BY <1>2, <1>4, <2>1 DEF Mergeable, MergeRoots
    <2>3. QED
      BY <2>2
  <1>5. QED
    BY <1>3, <1>4

\* The physical registers interfere with each other: only a virtual register
\* becomes a child.
LEMMA ChildIsVirtual ==
    ASSUME TypeOK, NEW root, NEW child, Mergeable(root, child)
    PROVE  child \notin Phys
  <1>1. SUFFICES ASSUME child \in Phys PROVE FALSE
    OBVIOUS
  <1>2. root \in Nat /\ child \in Nat /\ root < child
    BY RegAssumption DEF Mergeable, Reg
  <1>3. root \in Phys
    BY <1>1, <1>2, PhysAssumption DEF Phys
  <1>4. child \in adj[root]
    BY <1>1, <1>2, <1>3 DEF TypeOK, IsInterferenceGraph
  <1>5. QED
    BY <1>4 DEF Mergeable

LEMMA MergeKeepsGraph ==
    ASSUME TypeOK, NEW root, NEW child, Mergeable(root, child)
    PROVE  IsInterferenceGraph(adj')
  <1>1. root \in Reg /\ child \in Reg /\ child \notin adj[root]
        /\ root \notin adj[child]
    BY DEF Mergeable, TypeOK, IsInterferenceGraph
  <1>2. adj' = [x \in Reg |-> IF x = root THEN adj[root] \cup adj[child]
                              ELSE IF x \in adj[child] THEN adj[x] \cup {root}
                              ELSE adj[x]]
    BY DEF Mergeable, WithEdgesOf
  <1>3. IsInterferenceGraph(adj)
    BY DEF TypeOK
  <1>4. adj' \in [Reg -> SUBSET Reg]
    BY <1>1, <1>2, <1>3 DEF IsInterferenceGraph
  <1>5. \A x \in Reg : x \notin adj'[x]
    BY <1>1, <1>2, <1>3 DEF IsInterferenceGraph
  <1>6. \A x, y \in Reg : y \in adj'[x] => x \in adj'[y]
    BY <1>1, <1>2, <1>3 DEF IsInterferenceGraph
  <1>7. \A x, y \in Reg : y \in adj[x] => y \in adj'[x]
    BY <1>2
  <1>8. Phys \subseteq Reg
    BY PhysAssumption, RegAssumption DEF Phys, Reg
  <1>9. \A x, y \in Phys : x # y => y \in adj'[x]
    BY <1>3, <1>7, <1>8 DEF IsInterferenceGraph
  <1>10. QED
    BY <1>4, <1>5, <1>6, <1>9 DEF IsInterferenceGraph

LEMMA MergeMovesClass ==
    ASSUME TypeOK, NEW root, NEW child, Mergeable(root, child)
    PROVE  /\ ParentMap(parent')
           /\ \A x \in Reg : RootMap(parent')[x] =
                 IF RootMap(parent)[x] = child THEN root ELSE RootMap(parent)[x]
  <1>1. ParentMap(parent)
    BY DEF TypeOK, ParentMap
  <1>2. /\ root \in Reg /\ child \in Reg /\ root < child
        /\ parent[root] = root /\ parent[child] = child
        /\ parent' = Merged(parent, root, child)
    BY DEF Mergeable, Merged
  <1>3. QED
    BY <1>1, <1>2, MergedRoots

(***************************************************************************)
(* The edges of the roots after a merge are again exact.                   *)
(***************************************************************************)
LEMMA MergeKeepsQuotient ==
    ASSUME TypeOK, QuotientIsExact, NEW root, NEW child,
           Mergeable(root, child), graph' = graph
    PROVE  QuotientIsExact'
  <1> DEFINE old == RootMap(parent)
             new == RootMap(parent')
             Meet(f, a, b) ==
               \E x, y \in Reg : f[x] = a /\ f[y] = b /\ y \in graph[x]
  <1>1. root \in Reg /\ child \in Reg /\ root # child
        /\ parent[root] = root /\ parent[child] = child
    BY RegAssumption DEF Mergeable, Reg
  <1>2. \A x \in Reg : new[x] = IF old[x] = child THEN root ELSE old[x]
    BY MergeMovesClass
  <1>3. \A a, b \in Reg : parent[a] = a /\ parent[b] = b =>
                            (b \in adj[a] <=> Meet(old, a, b))
    BY DEF QuotientIsExact
  <1>4. adj' = [x \in Reg |-> IF x = root THEN adj[root] \cup adj[child]
                              ELSE IF x \in adj[child] THEN adj[x] \cup {root}
                              ELSE adj[x]]
    BY DEF Mergeable, WithEdgesOf
  <1>5. IsInterferenceGraph(adj) /\ child \notin adj[root]
    BY DEF TypeOK, Mergeable
  <1> SUFFICES ASSUME NEW a \in Reg, NEW b \in Reg,
                      parent'[a] = a, parent'[b] = b
               PROVE  b \in adj'[a] <=> Meet(new, a, b)
    BY DEF QuotientIsExact
  <1>6. a # child /\ b # child /\ parent[a] = a /\ parent[b] = b
    BY <1>1 DEF Mergeable, TypeOK
  <1> HIDE DEF old, new
  <1>7. CASE a # root /\ b # root
    <2>1. Meet(new, a, b) <=> Meet(old, a, b)
      BY <1>2, <1>6, <1>7
    <2>2. b \in adj'[a] <=> b \in adj[a]
      BY <1>4, <1>7
    <2>3. QED
      BY <1>3, <1>6, <2>1, <2>2
  <1>8. CASE a = root /\ b # root
    <2>1. Meet(new, a, b) <=> Meet(old, root, b) \/ Meet(old, child, b)
      BY <1>1, <1>2, <1>6, <1>8
    <2>2. b \in adj'[a] <=> b \in adj[root] \/ b \in adj[child]
      BY <1>4, <1>8
    <2>3. QED
      BY <1>1, <1>3, <1>6, <2>1, <2>2
  <1>9. CASE a # root /\ b = root
    <2>1. Meet(new, a, b) <=> Meet(old, a, root) \/ Meet(old, a, child)
      BY <1>1, <1>2, <1>6, <1>9
    <2>2. b \in adj'[a] <=> root \in adj[a] \/ a \in adj[child]
      BY <1>4, <1>9
    <2>3. a \in adj[child] <=> child \in adj[a]
      BY <1>1, <1>5 DEF IsInterferenceGraph
    <2>4. QED
      BY <1>1, <1>3, <1>6, <2>1, <2>2, <2>3
  <1>10. CASE a = root /\ b = root
    <2>1. Meet(new, a, b) <=> \/ Meet(old, root, root) \/ Meet(old, root, child)
                              \/ Meet(old, child, root) \/ Meet(old, child, child)
      BY <1>1, <1>2, <1>10
    <2>2. /\ root \notin adj[root] /\ child \notin adj[root]
          /\ root \notin adj[child] /\ child \notin adj[child]
      BY <1>1, <1>5 DEF IsInterferenceGraph
    <2>3. ~Meet(new, a, b)
      BY <1>1, <1>3, <2>1, <2>2
    <2>4. b \notin adj'[a]
      BY <1>4, <1>10, <2>2
    <2>5. QED
      BY <2>3, <2>4
  <1>11. QED
    BY <1>7, <1>8, <1>9, <1>10

LEMMA MergeKeepsCarrying ==
    ASSUME TypeOK, RootsCarryEdges, NEW root, NEW child,
           Mergeable(root, child)
    PROVE  RootsCarryEdges'
  <1> DEFINE old == RootMap(parent)
             new == RootMap(parent')
  <1>1. /\ root \in Reg /\ child \in Reg /\ root # child /\ parent[root] = root
        /\ child \notin adj[root] /\ IsInterferenceGraph(adj)
    BY RegAssumption DEF Mergeable, Reg, TypeOK
  <1>2. \A x \in Reg : new[x] = IF old[x] = child THEN root ELSE old[x]
    BY MergeMovesClass
  <1>3. \A x \in Reg : old[x] \in Reg /\ adj[x] \subseteq adj[old[x]]
    BY RootIsRoot DEF TypeOK, ParentMap, RootsCarryEdges
  <1>4. adj' = [x \in Reg |-> IF x = root THEN adj[root] \cup adj[child]
                              ELSE IF x \in adj[child] THEN adj[x] \cup {root}
                              ELSE adj[x]]
    BY DEF Mergeable, WithEdgesOf
  <1>5. old[root] = root
    BY <1>1, RootOfRoot DEF TypeOK, ParentMap
  <1> HIDE DEF old, new
  <1>6. ASSUME NEW x \in Reg, NEW y \in adj'[x] PROVE y \in adj'[new[x]]
    <2>1. CASE x = root
      BY <1>1, <1>2, <1>5, <1>6, <2>1
    <2>2. CASE x # root /\ y \in adj[x]
      <3>1. y \in adj[old[x]]
        BY <1>3, <2>2
      <3>2. QED
        BY <1>1, <1>2, <1>3, <1>4, <3>1
    <2>3. CASE x # root /\ y = root /\ x \in adj[child]
      <3>1. child \in adj[x]
        BY <1>1, <2>3 DEF IsInterferenceGraph
      <3>2. old[x] \in adj[child]
        BY <1>1, <1>3, <3>1 DEF IsInterferenceGraph
      <3>3. old[x] # child /\ old[x] # root
        BY <1>1, <3>2 DEF IsInterferenceGraph
      <3>4. QED
        BY <1>2, <1>3, <1>4, <2>3, <3>2, <3>3
    <2>4. QED
      BY <1>4, <1>6, <2>1, <2>2, <2>3
  <1>7. QED
    BY <1>6 DEF RootsCarryEdges, new
-----------------------------------------------------------------------------
LEMMA StepCopy ==
    ASSUME IInv, NEW dst \in Reg, NEW src \in Reg, CoalesceCopy(dst, src)
    PROVE  IInv'
  <1> DEFINE first  == RootMap(parent)[dst]
             second == RootMap(parent)[src]
             c      == <<dst, src>>
  <1> USE DEF IInv
  <1>1. /\ coalescePc = "copies" /\ coalescePc' = "copies"
        /\ graph' = graph /\ name' = name
    BY DEF CoalesceCopy
  <1>2. ParentMap(parent)
    BY DEF TypeOK, ParentMap
  <1>3. /\ first \in Reg /\ parent[first] = first
        /\ second \in Reg /\ parent[second] = second
    BY <1>2, RootIsRoot
  <1>4. NamesUntouched' /\ NamesAreRoots'
    BY <1>1 DEF NamesUntouched, NamesAreRoots
  <1>5. CASE adj' = adj /\ parent' = parent
             /\ (gone' = gone \/ (gone' = gone \cup {c} /\ first = second))
    <2>1. TypeOK'
      BY <1>1, <1>5 DEF TypeOK
    <2>2. QuotientIsExact'
      BY <1>1, <1>5 DEF QuotientIsExact
    <2>3. RemovedCopiesAreTrivial'
      BY <1>1, <1>5 DEF RemovedCopiesAreTrivial
    <2>4. RootsCarryEdges'
      BY <1>5 DEF RootsCarryEdges
    <2>5. QED
      BY <1>4, <2>1, <2>2, <2>3, <2>4
  <1>6. CASE /\ first # second /\ CanCoalesce(first, second)
             /\ MergeRoots(first, second) /\ gone' = gone \cup {c}
    <2>0. PICK root, child \in {first, second} :
                 root # child /\ Mergeable(root, child)
      BY <1>3, <1>6, MergeIsMergeable
    <2>1. /\ ParentMap(parent')
          /\ \A x \in Reg : RootMap(parent')[x] =
                IF RootMap(parent)[x] = child THEN root ELSE RootMap(parent)[x]
      BY <2>0, MergeMovesClass
    <2>2. IsInterferenceGraph(adj')
      BY <2>0, MergeKeepsGraph
    <2>3. \A r \in Phys : parent'[r] = r
      <3>1. child \notin Phys
        BY <2>0, ChildIsVirtual
      <3>2. QED
        BY <3>1, <2>0 DEF Mergeable, TypeOK
    <2>4. TypeOK'
      BY <1>1, <1>6, <2>1, <2>2, <2>3 DEF TypeOK, ParentMap
    <2>5. QuotientIsExact'
      BY <1>1, <2>0, MergeKeepsQuotient
    <2>6. RootMap(parent')[dst] = RootMap(parent')[src]
      BY <2>0, <2>1
    <2>7. \A d \in gone : RootMap(parent')[d[1]] = RootMap(parent')[d[2]]
      <3>1. \A d \in gone : /\ d[1] \in Reg /\ d[2] \in Reg
                            /\ RootMap(parent)[d[1]] = RootMap(parent)[d[2]]
        BY DEF TypeOK, RemovedCopiesAreTrivial
      <3>2. QED
        BY <2>1, <3>1
    <2>8. RemovedCopiesAreTrivial'
      BY <1>1, <1>6, <2>6, <2>7 DEF RemovedCopiesAreTrivial
    <2>9. RootsCarryEdges'
      BY <2>0, MergeKeepsCarrying
    <2>10. QED
      BY <1>4, <2>4, <2>5, <2>8, <2>9
  <1>7. QED
    BY <1>5, <1>6 DEF CoalesceCopy

LEMMA StepRename == ASSUME IInv, RenameOperands PROVE IInv'
  <1> USE DEF IInv
  <1>1. /\ coalescePc = "copies" /\ coalescePc' = "renamed"
        /\ graph' = graph /\ adj' = adj /\ parent' = parent /\ gone' = gone
        /\ name' = [r \in Reg |-> RootMap(parent)[name[r]]]
    BY DEF RenameOperands
  <1>2. \A r \in Reg : name[r] = r
    BY <1>1 DEF NamesUntouched
  <1>3. ParentMap(parent)
    BY DEF TypeOK, ParentMap
  <1>4. name' = [r \in Reg |-> RootMap(parent)[r]] /\ name' \in [Reg -> Reg]
    BY <1>1, <1>2, <1>3, RootIsRoot
  <1>5. TypeOK'
    BY <1>1, <1>4 DEF TypeOK
  <1>6. RootMap(parent) = [r \in Reg |-> RootMap(parent)[r]]
    <2>1. DOMAIN RootMap(parent) = Reg
      BY <1>3, RootMapFunction
    <2>2. QED
      BY <1>3, RootMapFunction
  <1>7. NamesAreRoots' /\ NamesUntouched'
    BY <1>1, <1>4, <1>6 DEF NamesAreRoots, NamesUntouched
  <1>8. QuotientIsExact' /\ RootsCarryEdges'
    BY <1>1 DEF QuotientIsExact, RootsCarryEdges
  <1>9. RemovedCopiesAreTrivial'
    BY <1>1, <1>4 DEF RemovedCopiesAreTrivial, TypeOK
  <1>10. QED
    BY <1>5, <1>7, <1>8, <1>9

LEMMA Inductive == IInv /\ [Next]_vars => IInv'
  <1> SUFFICES ASSUME IInv, [Next]_vars PROVE IInv'
    OBVIOUS
  <1>1. CASE UNCHANGED vars
    BY <1>1 DEF vars, cvars, IInv, TypeOK, NamesUntouched, NamesAreRoots,
                QuotientIsExact, RootsCarryEdges, RemovedCopiesAreTrivial
  <1>2. CASE \E dst, src \in Reg : CoalesceCopy(dst, src)
    BY <1>2, StepCopy
  <1>3. CASE RenameOperands
    BY <1>3, StepRename
  <1>4. QED
    BY <1>1, <1>2, <1>3 DEF Next

(***************************************************************************)
(* Every state of every coalescing run satisfies the invariant.            *)
(***************************************************************************)
THEOREM InductiveInvariant == Spec => []IInv
  <1>1. QED
    BY Initially, Inductive, PTL DEF Spec

(***************************************************************************)
(* Parents stay at or below their registers, physical registers stay their *)
(* own roots, and the graph stays an interference graph.                   *)
(***************************************************************************)
THEOREM TypeCorrect == Spec => []TypeOK
  <1>1. IInv => TypeOK
    BY DEF IInv
  <1>2. QED
    BY InductiveInvariant, <1>1, PTL

(***************************************************************************)
(* The edges of two roots say exactly whether their classes interfered.    *)
(***************************************************************************)
THEOREM ExactQuotient == Spec => []QuotientIsExact
  <1>1. IInv => QuotientIsExact
    BY DEF IInv
  <1>2. QED
    BY InductiveInvariant, <1>1, PTL

(***************************************************************************)
(* A root interferes with everything that a register of its class does.    *)
(***************************************************************************)
THEOREM CarriedEdges == Spec => []RootsCarryEdges
  <1>1. IInv => RootsCarryEdges
    BY DEF IInv
  <1>2. QED
    BY InductiveInvariant, <1>1, PTL

(***************************************************************************)
(* Two registers that interfere are never coalesced, through whatever      *)
(* chain of merges.                                                        *)
(***************************************************************************)
THEOREM NoInterferenceInAClass == Spec => []ClassesDontInterfere
  <1>1. ASSUME IInv, NEW a \in Reg, NEW b \in Reg,
               RootMap(parent)[a] = RootMap(parent)[b]
        PROVE  b \notin graph[a]
    <2> DEFINE r == RootMap(parent)[a]
    <2>1. r \in Reg /\ parent[r] = r
      BY <1>1, RootIsRoot DEF IInv, TypeOK, ParentMap
    <2>2. r \notin adj[r]
      BY <1>1, <2>1 DEF IInv, TypeOK, IsInterferenceGraph
    <2>3. ~ \E x, y \in Reg : /\ RootMap(parent)[x] = r
                              /\ RootMap(parent)[y] = r
                              /\ y \in graph[x]
      BY <1>1, <2>1, <2>2 DEF IInv, QuotientIsExact
    <2>4. QED
      BY <1>1, <2>3
  <1>2. IInv => ClassesDontInterfere
    BY <1>1 DEF ClassesDontInterfere
  <1>3. QED
    BY InductiveInvariant, <1>2, PTL

(***************************************************************************)
(* A removed copy remains a copy of a register to itself.                  *)
(***************************************************************************)
LEMMA RemovedCopiesStayTrivial == Spec => []RemovedCopiesAreTrivial
  <1>1. IInv => RemovedCopiesAreTrivial
    BY DEF IInv
  <1>2. QED
    BY InductiveInvariant, <1>1, PTL

(***************************************************************************)
(* After the renaming walk every operand names an uncoalesced register.    *)
(***************************************************************************)
LEMMA CanonicalOperands == Spec => []OperandsAreCanonical
  <1>1. ASSUME IInv, coalescePc = "renamed", NEW r \in Reg
        PROVE  parent[name[r]] = name[r]
    <2>1. name[r] = RootMap(parent)[r]
      BY <1>1 DEF IInv, NamesAreRoots
    <2>2. QED
      BY <1>1, <2>1, RootIsRoot DEF IInv, TypeOK, ParentMap
  <1>2. IInv => OperandsAreCanonical
    BY <1>1 DEF OperandsAreCanonical
  <1>3. QED
    BY InductiveInvariant, <1>2, PTL

(***************************************************************************)
(* Both: the operands of a removed copy end as one uncoalesced register.   *)
(***************************************************************************)
THEOREM RemovedCopiesEndAtOneRoot == Spec => []RemovedCopiesNameOneRoot
  BY RemovedCopiesStayTrivial, CanonicalOperands, PTL DEF RemovedCopiesNameOneRoot

(************************** the optimiser's driver *************************)

\* The points at which the next call propagates copies.
CopyCalls == {"copy", "cseCopy", "strengthCopy", "transformCopy", "loopCopy", "loadCopy",
              "constant2Copy", "vn2Copy", "vectorCopy0", "vectorCopy1", "vn3Copy"}

\* The loop passes of the first round, after the flag of copies was reset, and
\* the points between them and the last propagation of constants.
LoopRound == {"add", "loops", "motionIndex", "facts", "motion", "index0", "hoist", "strength",
              "strengthCopy", "transform", "transformCopy", "transformAdd", "loopCopy"}
Constants == {"constant", "load", "loadCopy", "loadAdd", "array", "constant2"}


(***************************************************************************)
(* The facts about one call that the program text decides: where the       *)
(* driver can stand after it, and what it called to get there.             *)
(***************************************************************************)
LEMMA CallCopies ==
    ASSUME DriverTypeOK, NEW s \in DOMAIN PassAt, pc = s, NEW result \in BOOLEAN,
           changed' = IF PassAt[s][1] \in Flag THEN [changed EXCEPT ![PassAt[s][1]] = result]
                      ELSE changed,
           pc' = After(s)
    PROVE  /\ s \in CopyCalls <=> PassAt[s][1] = "CopyPropagation"
           /\ PassAt[s][1] \in LeavesCopies /\ result => pc' \in CopyCalls
           /\ PassAt[s][1] = "ConstantPropagation" => s \in Constants
  <1>1. s \in CopyCalls <=> PassAt[s][1] = "CopyPropagation"
    BY DEF PassAt, CopyCalls
  <1>2. PassAt[s][1] = "ConstantPropagation" => s \in Constants
    BY DEF PassAt, Constants
  <1>3. ASSUME PassAt[s][1] \in LeavesCopies, result PROVE pc' \in CopyCalls
    <2>1. PassAt[s][1] \in Flag /\ changed' = [changed EXCEPT ![PassAt[s][1]] = TRUE]
      BY <1>3 DEF LeavesCopies, Flag
    <2>2. changed'[PassAt[s][1]] = TRUE
      BY <2>1 DEF DriverTypeOK
    <2> QED
      BY <1>3, <2>2 DEF PassAt, After, CopyCalls, LeavesCopies, LoopTail,
         AfterConstant, AfterLoad, AfterLoadAdd, AfterArray, AfterSecondConstant,
         AfterRenumbering, AfterVn2, AfterVector, AfterVn3, AfterStrength, AfterTransform,
         AfterMotion
  <1> QED
    BY <1>1, <1>2, <1>3

LEMMA CallIndexes ==
    ASSUME NEW s \in DOMAIN PassAt, pc' = After(s)
    PROVE  /\ pc' \in {"facts", "facts2"} => PassAt[s][1] = "BuildIndex" /\ PassAt[s][2] = 1
           /\ pc' \in {"motion", "motion2"} => /\ s \in {"facts", "facts2"}
                                               /\ PassAt[s][1] = "Summarize"
           /\ pc' = "hoist" => PassAt[s][1] = "BuildIndex" /\ PassAt[s][2] = 0
           /\ PassAt[s][1] = "CodeMotion" => s \in {"motion", "motion2"}
           /\ PassAt[s][1] = "COpt_00521d10" => s = "hoist"
  <1>1. pc' \in {"facts", "facts2"} => s \in {"motionIndex", "motionIndex2"}
    BY DEF PassAt, After, LoopTail, AfterConstant, AfterLoad, AfterLoadAdd, AfterArray,
           AfterSecondConstant, AfterRenumbering, AfterVn2, AfterVector, AfterVn3,
           AfterStrength, AfterTransform, AfterMotion
  <1>4. pc' \in {"motion", "motion2"} => s \in {"facts", "facts2"}
    BY DEF PassAt, After, LoopTail, AfterConstant, AfterLoad, AfterLoadAdd, AfterArray,
           AfterSecondConstant, AfterRenumbering, AfterVn2, AfterVector, AfterVn3,
           AfterStrength, AfterTransform, AfterMotion
  <1>5. pc' = "hoist" => s = "index0"
    BY DEF PassAt, After, LoopTail, AfterConstant, AfterLoad, AfterLoadAdd, AfterArray,
           AfterSecondConstant, AfterRenumbering, AfterVn2, AfterVector, AfterVn3,
           AfterStrength, AfterTransform, AfterMotion
  <1>2. /\ \A t \in {"motionIndex", "motionIndex2"} : PassAt[t][1] = "BuildIndex" /\ PassAt[t][2] = 1
        /\ \A t \in {"facts", "facts2"} : PassAt[t][1] = "Summarize"
        /\ PassAt["index0"][1] = "BuildIndex" /\ PassAt["index0"][2] = 0
    BY DEF PassAt
  <1>3. /\ PassAt[s][1] = "CodeMotion" => s \in {"motion", "motion2"}
        /\ PassAt[s][1] = "COpt_00521d10" => s = "hoist"
    BY DEF PassAt
  <1> QED
    BY <1>1, <1>2, <1>3, <1>4, <1>5

LEMMA CallRounds ==
    ASSUME NEW s \in DOMAIN PassAt, pc' = After(s)
    PROVE  /\ pc' \in LoopRound => s \in LoopRound
           /\ s \in LoopRound /\ PassAt[s][1] = "CopyPropagation" => PassAt[s][2] = 1
           /\ pc' \in Constants =>
                \/ s \in Constants
                \/ s \in LoopRound /\ (PassAt[s][1] = "CopyPropagation" \/ changed'["CopyPropagation"])
  <1>1. pc' \in LoopRound => s \in LoopRound
    BY DEF PassAt, After, LoopRound, LoopTail, AfterConstant, AfterLoad, AfterLoadAdd, AfterArray,
           AfterSecondConstant, AfterRenumbering, AfterVn2, AfterVector, AfterVn3,
           AfterStrength, AfterTransform, AfterMotion
  <1>2. s \in LoopRound /\ PassAt[s][1] = "CopyPropagation" => PassAt[s][2] = 1
    BY DEF PassAt, LoopRound
  <1>3. pc' \in Constants \ {"constant"} => s \in Constants
    BY DEF PassAt, After, Constants, LoopTail, AfterConstant, AfterLoad, AfterLoadAdd, AfterArray,
           AfterSecondConstant, AfterRenumbering, AfterVn2, AfterVector, AfterVn3,
           AfterStrength, AfterTransform, AfterMotion
  <1>5. pc' = "constant" => s \in {"loopCopy", "transform", "transformAdd"}
    BY DEF PassAt, After, LoopTail, AfterConstant, AfterLoad, AfterLoadAdd, AfterArray,
           AfterSecondConstant, AfterRenumbering, AfterVn2, AfterVector, AfterVn3,
           AfterStrength, AfterTransform, AfterMotion
  <1>6. ASSUME pc' = "constant", s \in {"transform", "transformAdd"}
        PROVE  changed'["CopyPropagation"]
    <2>1. After("transform") = AfterTransform /\ After("transformAdd") = LoopTail
      BY DEF After
    <2>2. AfterTransform \in {"transformCopy", LoopTail}
      BY DEF AfterTransform
    <2>3. LoopTail = "constant"
      BY <1>6, <2>1, <2>2
    <2> QED
      BY <2>3 DEF LoopTail
  <1>7. "transform" \in LoopRound /\ "transformAdd" \in LoopRound
    BY DEF LoopRound
  <1>4. PassAt["loopCopy"][1] = "CopyPropagation" /\ "loopCopy" \in LoopRound
    BY DEF PassAt, LoopRound
  <1> QED
    BY <1>1, <1>2, <1>3, <1>4, <1>5, <1>6, <1>7

LEMMA Destinations ==
    /\ LoopTail \in {"constant", "loopCopy"} /\ AfterConstant \in {"load", "vn2"}
    /\ AfterLoad \in {"loadCopy", "loadAdd"} /\ AfterLoadAdd \in {"array", "vn2"}
    /\ AfterArray \in {"constant2", "vn2"}
    /\ AfterSecondConstant \in {"constant2Copy", "vn2"}
    /\ AfterRenumbering \in {"done", "vector", "loops2"}
    /\ AfterVector \in {"vectorCopy0", "loops2"} /\ AfterVn3 \in {"vn3Copy", "done"}
    /\ AfterStrength \in {"strengthCopy", "transform"} /\ AfterMotion = "index0"
    /\ AfterVn2 \in {"vn2Copy", "done", "vector", "loops2"}
    /\ AfterTransform \in {"transformCopy", "constant", "loopCopy"}
  BY DEF LoopTail, AfterConstant, AfterLoad, AfterLoadAdd, AfterArray, AfterSecondConstant,
         AfterRenumbering, AfterVn2, AfterVector, AfterVn3, AfterStrength, AfterTransform,
         AfterMotion

LEMMA NextPoint ==
    ASSUME NEW s \in DOMAIN PassAt
    PROVE  After(s) \in DOMAIN PassAt \cup {"reset", "loops", "loops2", "done"}
  BY Destinations DEF PassAt, After

LEMMA NoLoopPassFromOutside ==
    ASSUME NEW s \in DOMAIN PassAt, After(s) \in LoopPassAt
    PROVE  s \in LoopPassAt
  <1>1. CASE s \in LoopPassAt
    BY <1>1
  <1>2. CASE s \in {"loopCopy", "constant", "load", "loadCopy", "loadAdd", "array", "constant2",
                    "constant2Copy", "vn2", "vn2Copy"}
    <2>1. After(s) \in {"constant", "load", "vn2", "loadCopy", "loadAdd", "array", "constant2",
                        "constant2Copy", "vn2Copy", "done", "vector", "loops2"}
      BY <1>2, Destinations DEF After
    <2> QED
      BY <2>1 DEF LoopPassAt
  <1>3. CASE s \in {"cse", "cseCopy", "cseAdd", "vn", "copy", "add", "vector", "vectorCopy0",
                    "vectorCopy1", "vn3", "vn3Copy"}
    <2>1. After(s) \in {"cseCopy", "cseAdd", "done", "copy", "reset", "loops", "vectorCopy0",
                        "loops2", "vectorCopy1", "vn3Copy"}
      BY <1>3, Destinations DEF After
    <2> QED
      BY <2>1 DEF LoopPassAt
  <1> QED
    BY <1>1, <1>2, <1>3 DEF PassAt, LoopPassAt

LEMMA CallTypes ==
    ASSUME DriverTypeOK, NEW s \in DOMAIN PassAt, pc = s, NEW result \in BOOLEAN,
           changed' = IF PassAt[s][1] \in Flag THEN [changed EXCEPT ![PassAt[s][1]] = result]
                      ELSE changed,
           pc' = After(s)
    PROVE  /\ PassAt[s][1] \in Pass \cup Analysis /\ PassAt[s][2] \in 0 .. 1
           /\ pc' \in DOMAIN PassAt \cup {"reset", "loops", "loops2", "done"}
           /\ pc' \in LoopPassAt => s \in LoopPassAt
  <1>1. PassAt[s][1] \in Pass \cup Analysis /\ PassAt[s][2] \in 0 .. 1
    BY DEF PassAt, Pass, Analysis, Flag
  <1>2. pc' \in DOMAIN PassAt \cup {"reset", "loops", "loops2", "done"}
    BY NextPoint
  <1>3. pc' \in LoopPassAt => s \in LoopPassAt
    BY NoLoopPassFromOutside
  <1> QED
    BY <1>1, <1>2, <1>3
-----------------------------------------------------------------------------
Row == [pass : Pass \cup Analysis, mode : 0 .. 1, changed : BOOLEAN]

\* A call whose copies nobody has propagated yet.
Unsettled(i) == /\ calls[i].pass \in LeavesCopies /\ calls[i].changed
                /\ \A j \in i + 1 .. Len(calls) : calls[j].pass # "CopyPropagation"

\* An index in this mode, with only a summary of the loops after it.
FreshIn(cs, mode) ==
    \E j \in 1 .. Len(cs) : /\ cs[j].pass = "BuildIndex" /\ cs[j].mode = mode
                            /\ \A k \in j + 1 .. Len(cs) : cs[k].pass = "Summarize"

Fresh(mode) == FreshIn(calls, mode)

CopiesPropagated == \E j \in Called : calls[j].pass = "CopyPropagation" /\ calls[j].mode = 1

DriverInv ==
    /\ DriverTypeOK /\ calls \in Seq(Row)
    /\ (\E i \in Called : Unsettled(i)) => pc \in CopyCalls
    /\ pc \in {"facts", "motion", "facts2", "motion2"} => Fresh(1)
    /\ pc = "hoist" => Fresh(0)
    /\ pc \in LoopRound /\ changed["CopyPropagation"] => CopiesPropagated
    /\ pc \in Constants => CopiesPropagated
    /\ IndexIsFresh /\ ConstantsAfterCopies

LEMMA InitDriver == DriverInit => DriverInv
  <1> SUFFICES ASSUME DriverInit PROVE DriverInv
    OBVIOUS
  <1>1. Called = {} /\ calls \in Seq(Row)
    BY EmptySeq DEF DriverInit, Called
  <1>2. pc \in {"cse", "vn", "done"}
    BY DEF DriverInit, FirstCall
  <1>3. DriverTypeOK
    BY <1>1, <1>2 DEF DriverInit, DriverTypeOK, LoopPassAt, PassAt, Flag
  <1> QED
    BY <1>1, <1>2, <1>3 DEF DriverInv, LoopRound, Constants, IndexIsFresh, ConstantsAfterCopies

\* What one more call does to the history.
LEMMA OneMore ==
    ASSUME calls \in Seq(Row), NEW c \in Row, calls' = Append(calls, c)
    PROVE  /\ calls' \in Seq(Row) /\ Len(calls) \in Nat /\ Len(calls') = Len(calls) + 1
           /\ Called' = Called \cup {Len(calls')} /\ Len(calls') \notin Called
           /\ calls'[Len(calls')] = c
           /\ \A i \in Called : calls'[i] = calls[i]
  BY DEF Called

\* Settlement and freshness after one more call.
LEMMA StillSettled ==
    ASSUME calls \in Seq(Row), NEW c \in Row, calls' = Append(calls, c),
           ~(c.pass \in LeavesCopies /\ c.changed), NEW m \in Called', Unsettled(m)'
    PROVE  c.pass # "CopyPropagation" /\ \E k \in Called : Unsettled(k)
  <1> DEFINE n == Len(calls)
  <1>1. /\ n \in Nat /\ Len(calls') = n + 1 /\ Called = 1 .. n /\ Called' = 1 .. n + 1
        /\ calls'[n + 1] = c /\ \A i \in 1 .. n : calls'[i] = calls[i]
    BY OneMore DEF Called
  <1>2. c.pass # "CopyPropagation" /\ \E k \in Called : Unsettled(k)
    <2>1. m # n + 1
      BY <1>1 DEF Unsettled
    <2>2. m \in 1 .. n /\ n + 1 \in m + 1 .. n + 1
      BY <1>1, <2>1
    <2>3. c.pass # "CopyPropagation"
      BY <1>1, <2>2 DEF Unsettled
    <2>4. \A j \in m + 1 .. n : j \in 1 .. n /\ j \in m + 1 .. n + 1
      BY <1>1, <2>2
    <2>5. Unsettled(m)
      BY <1>1, <2>2, <2>4 DEF Unsettled
    <2> QED
      BY <1>1, <2>2, <2>3, <2>5
  <1> QED
    BY <1>2

LEMMA StillFresh ==
    ASSUME calls \in Seq(Row), NEW c \in Row, calls' = Append(calls, c), NEW mode,
           \/ c.pass = "BuildIndex" /\ c.mode = mode
           \/ c.pass = "Summarize" /\ FreshIn(calls, mode)
    PROVE  FreshIn(calls', mode)
  <1> DEFINE n == Len(calls)
  <1>1. /\ n \in Nat /\ Len(calls') = n + 1 /\ Called = 1 .. n /\ Called' = 1 .. n + 1
        /\ calls'[n + 1] = c /\ \A i \in 1 .. n : calls'[i] = calls[i]
    BY OneMore DEF Called
  <1>3. CASE c.pass = "BuildIndex" /\ c.mode = mode
    <2>1. n + 1 \in Called' /\ \A k \in (n + 1) + 1 .. Len(calls') : FALSE
      BY <1>1
    <2> QED
      BY <1>1, <1>3, <2>1 DEF FreshIn
  <1>4. CASE c.pass = "Summarize" /\ FreshIn(calls, mode)
    <2>1. PICK j \in 1 .. n : /\ calls[j].pass = "BuildIndex" /\ calls[j].mode = mode
                              /\ \A k \in j + 1 .. n : calls[k].pass = "Summarize"
      BY <1>1, <1>4 DEF FreshIn
    <2>2. \A k \in j + 1 .. n + 1 : calls'[k].pass = "Summarize"
      <3> SUFFICES ASSUME NEW k \in j + 1 .. n + 1 PROVE calls'[k].pass = "Summarize"
        OBVIOUS
      <3>1. CASE k = n + 1
        BY <1>1, <1>4, <3>1
      <3>2. CASE k # n + 1
        <4>1. k \in j + 1 .. n /\ k \in 1 .. n
          BY <1>1, <3>2
        <4> QED
          BY <1>1, <2>1, <4>1
      <3> QED
        BY <3>1, <3>2
    <2>3. j \in Called'
      BY <1>1
    <2> QED
      BY <1>1, <2>1, <2>2, <2>3 DEF FreshIn
  <1> QED
    BY <1>3, <1>4

LEMMA IndexKept ==
    ASSUME calls \in Seq(Row), NEW c \in Row, calls' = Append(calls, c)
    PROVE  /\ c.pass = "BuildIndex" /\ c.mode = 1 => Fresh(1)'
           /\ c.pass = "BuildIndex" /\ c.mode = 0 => Fresh(0)'
           /\ c.pass = "Summarize" => (Fresh(1) => Fresh(1)')
  BY StillFresh DEF Fresh

LEMMA StillPropagated ==
    ASSUME calls \in Seq(Row), NEW c \in Row, calls' = Append(calls, c)
    PROVE  /\ CopiesPropagated => CopiesPropagated'
           /\ c.pass = "CopyPropagation" /\ c.mode = 1 => CopiesPropagated'
  BY OneMore DEF CopiesPropagated

\* The properties of the history survive a call that comes where it may.
LEMMA HistoryKept ==
    ASSUME calls \in Seq(Row), NEW c \in Row, calls' = Append(calls, c),
           IndexIsFresh, ConstantsAfterCopies,
           c.pass = "CodeMotion" => Fresh(1), c.pass = "COpt_00521d10" => Fresh(0),
           c.pass = "ConstantPropagation" => CopiesPropagated
    PROVE  IndexIsFresh' /\ ConstantsAfterCopies'
  <1> DEFINE n == Len(calls)
  <1>1. /\ n \in Nat /\ Len(calls') = n + 1 /\ Called = 1 .. n /\ Called' = 1 .. n + 1
        /\ calls'[n + 1] = c /\ \A i \in 1 .. n : calls'[i] = calls[i]
    BY OneMore DEF Called
  <1>2. DOMAIN NeedsIndex = {"CodeMotion", "COpt_00521d10"}
        /\ NeedsIndex["CodeMotion"] = 1 /\ NeedsIndex["COpt_00521d10"] = 0
    BY DEF NeedsIndex
  <1>3. ASSUME NEW i \in 1 .. n + 1, calls'[i].pass \in DOMAIN NeedsIndex
        PROVE  \E j \in 1 .. i - 1 :
                 /\ calls'[j].pass = "BuildIndex" /\ calls'[j].mode = NeedsIndex[calls'[i].pass]
                 /\ \A k \in j + 1 .. i - 1 : calls'[k].pass = "Summarize"
    <2>1. PICK j \in 1 .. i - 1 :
            /\ calls[j].pass = "BuildIndex" /\ calls[j].mode = NeedsIndex[calls'[i].pass]
            /\ \A k \in j + 1 .. i - 1 : calls[k].pass = "Summarize"
      <3>1. CASE i = n + 1
        <4>1. Fresh(NeedsIndex[c.pass]) /\ i - 1 = n
          BY <1>1, <1>2, <1>3, <3>1
        <4> QED
          BY <1>1, <3>1, <4>1 DEF Fresh, FreshIn
      <3>2. CASE i # n + 1
        <4>1. i \in Called /\ calls'[i] = calls[i]
          BY <1>1, <3>2
        <4> QED
          BY <1>3, <4>1 DEF IndexIsFresh
      <3> QED
        BY <3>1, <3>2
    <2>2. \A k \in 1 .. i - 1 : calls'[k] = calls[k]
      BY <1>1
    <2>3. \A k \in j + 1 .. i - 1 : k \in 1 .. i - 1
      BY <1>1
    <2> QED
      BY <2>1, <2>2, <2>3
  <1>4. ASSUME NEW i \in 1 .. n + 1, calls'[i].pass = "ConstantPropagation"
        PROVE  \E j \in 1 .. i - 1 : calls'[j].pass = "CopyPropagation" /\ calls'[j].mode = 1
    <2>1. PICK j \in 1 .. i - 1 : calls[j].pass = "CopyPropagation" /\ calls[j].mode = 1
      <3>1. CASE i = n + 1
        <4>1. CopiesPropagated /\ i - 1 = n
          BY <1>1, <1>4, <3>1
        <4> QED
          BY <1>1, <4>1 DEF CopiesPropagated
      <3>2. CASE i # n + 1
        <4>1. i \in Called /\ calls'[i] = calls[i]
          BY <1>1, <3>2
        <4> QED
          BY <1>4, <4>1 DEF ConstantsAfterCopies
      <3> QED
        BY <3>1, <3>2
    <2>2. calls'[j] = calls[j]
      BY <1>1
    <2> QED
      BY <2>1, <2>2
  <1> QED
    BY <1>1, <1>3, <1>4 DEF IndexIsFresh, ConstantsAfterCopies

LEMMA CallDriver ==
    ASSUME DriverInv, NEW s \in DOMAIN PassAt, pc = s, Call(s)
    PROVE  DriverInv'
  <1>1. PICK result \in BOOLEAN :
          /\ changed' = IF PassAt[s][1] \in Flag THEN [changed EXCEPT ![PassAt[s][1]] = result]
                        ELSE changed
          /\ calls' = Append(calls, [pass |-> PassAt[s][1], mode |-> PassAt[s][2],
                                     changed |-> result])
          /\ pc' = After(s) /\ UNCHANGED <<option, loops>>
    BY DEF Call
  <1> DEFINE c == [pass |-> PassAt[s][1], mode |-> PassAt[s][2], changed |-> result]
  <1>2. DriverTypeOK /\ calls \in Seq(Row) /\ c.pass = PassAt[s][1] /\ c.mode = PassAt[s][2]
        /\ c.changed = result
    BY DEF DriverInv
  <1>3. /\ c \in Row /\ pc' \in DOMAIN PassAt \cup {"reset", "loops", "loops2", "done"}
        /\ pc' \in LoopPassAt => s \in LoopPassAt
    BY <1>1, <1>2, CallTypes DEF Row
  <1>4. /\ s \in CopyCalls <=> c.pass = "CopyPropagation"
        /\ c.pass \in LeavesCopies /\ result => pc' \in CopyCalls
        /\ pc' \in {"facts", "facts2"} => c.pass = "BuildIndex" /\ c.mode = 1
        /\ pc' \in {"motion", "motion2"} => s \in {"facts", "facts2"} /\ c.pass = "Summarize"
        /\ pc' = "hoist" => c.pass = "BuildIndex" /\ c.mode = 0
        /\ c.pass = "CodeMotion" => s \in {"motion", "motion2"}
        /\ c.pass = "COpt_00521d10" => s = "hoist"
        /\ c.pass = "ConstantPropagation" => s \in Constants
    BY <1>1, <1>2, CallCopies, CallIndexes, CallRounds
  <1>5. pc' \in LoopRound => s \in LoopRound
    BY <1>1, CallRounds
  <1>14. s \in LoopRound /\ c.pass = "CopyPropagation" => c.mode = 1
    BY <1>1, <1>2, CallRounds
  <1>15. pc' \in Constants =>
           \/ s \in Constants
           \/ s \in LoopRound /\ (c.pass = "CopyPropagation" \/ changed'["CopyPropagation"])
    BY <1>1, <1>2, CallRounds
  <1>6. changed' \in [Flag -> BOOLEAN]
        /\ (c.pass # "CopyPropagation" => changed'["CopyPropagation"] = changed["CopyPropagation"])
    BY <1>1, <1>2 DEF DriverTypeOK, Flag
  <1>7. calls' = Append(calls, c)
    BY <1>1
  <1> HIDE DEF c
  <1>8. calls' \in Seq(Row)
    BY <1>2, <1>3, <1>7, OneMore
  <1>9. DriverTypeOK'
    <2>1. \A i \in Called' : calls'[i] \in Row
      BY <1>8 DEF Called
    <2> QED
      BY <1>1, <1>2, <1>3, <1>6, <2>1 DEF DriverTypeOK, Row
  <1>10. (\E i \in Called' : Unsettled(i)') => pc' \in CopyCalls
    BY <1>2, <1>3, <1>4, <1>7, StillSettled DEF DriverInv
  <1>11. pc' \in {"facts", "motion", "facts2", "motion2"} => Fresh(1)'
    <2>1. pc' \in {"facts", "facts2"} => Fresh(1)'
      BY <1>2, <1>3, <1>4, <1>7, IndexKept
    <2>2. s \in {"facts", "facts2"} => Fresh(1)
      BY DEF DriverInv
    <2>3. pc' \in {"motion", "motion2"} => Fresh(1)'
      BY <1>2, <1>3, <1>4, <1>7, <2>2, IndexKept
    <2> QED
      BY <2>1, <2>3
  <1>19. pc' = "hoist" => Fresh(0)'
    BY <1>2, <1>3, <1>4, <1>7, IndexKept
  <1>12. ASSUME s \in LoopRound, c.pass = "CopyPropagation" \/ changed'["CopyPropagation"]
         PROVE  CopiesPropagated'
    <2>1. CASE c.pass = "CopyPropagation"
      BY <1>2, <1>3, <1>7, <1>12, <1>14, <2>1, StillPropagated
    <2>2. CASE c.pass # "CopyPropagation"
      <3>1. changed["CopyPropagation"]
        BY <1>6, <1>12, <2>2
      <3>2. CopiesPropagated
        BY <1>12, <3>1 DEF DriverInv
      <3> QED
        BY <1>2, <1>3, <1>7, <3>2, StillPropagated
    <2> QED
      BY <2>1, <2>2
  <1>16. pc' \in LoopRound /\ changed'["CopyPropagation"] => CopiesPropagated'
    BY <1>5, <1>12
  <1>17. s \in Constants => CopiesPropagated'
    BY <1>2, <1>3, <1>7, StillPropagated DEF DriverInv
  <1>18. pc' \in Constants => CopiesPropagated'
    BY <1>12, <1>15, <1>17
  <1>13. IndexIsFresh' /\ ConstantsAfterCopies'
    BY <1>2, <1>3, <1>4, <1>7, HistoryKept DEF DriverInv
  <1> QED
    BY <1>8, <1>9, <1>10, <1>11, <1>13, <1>16, <1>18, <1>19 DEF DriverInv

LEMMA FindLoopsDriver == ASSUME DriverInv, FindLoops PROVE DriverInv'
  <1> DEFINE c == [pass |-> "FindLoops", mode |-> 0, changed |-> FALSE]
  <1>1. /\ pc \in {"loops", "loops2"} /\ loops' \in BOOLEAN /\ calls' = Append(calls, c)
        /\ UNCHANGED <<option, changed>>
        /\ DriverTypeOK /\ calls \in Seq(Row)
    BY DEF FindLoops, DriverInv
  <1>2. pc' \in {"motionIndex", "motionIndex2", "constant", "loopCopy", "done"}
        /\ (pc' \in {"motionIndex", "motionIndex2"} => loops')
        /\ (pc' \in {"motionIndex", "constant", "loopCopy"} => pc = "loops")
        /\ (pc' = "constant" => changed["CopyPropagation"])
    BY <1>1 DEF FindLoops, LoopTail
  <1>3. /\ c \in Row /\ c.pass = "FindLoops" /\ c.pass \notin LeavesCopies
        /\ pc \notin CopyCalls /\ pc' \notin {"facts", "motion", "facts2", "motion2", "hoist"}
    BY <1>1, <1>2 DEF Row, Pass, Analysis, LeavesCopies, CopyCalls
  <1> HIDE DEF c
  <1>4. calls' \in Seq(Row)
    BY <1>1, <1>3, OneMore
  <1>5. DriverTypeOK'
    <2>1. \A i \in Called' : calls'[i] \in Row
      BY <1>4 DEF Called
    <2>2. (pc' \in DOMAIN PassAt /\ (pc' \in LoopPassAt => loops')) \/ pc' = "done"
      BY <1>2 DEF PassAt, LoopPassAt
    <2>3. "done" \notin LoopPassAt
      BY DEF LoopPassAt
    <2> QED
      BY <1>1, <2>1, <2>2, <2>3 DEF DriverTypeOK, Row
  <1>6. ~\E i \in Called' : Unsettled(i)'
    BY <1>1, <1>3, StillSettled DEF DriverInv
  <1>7. ASSUME pc' \in LoopRound \cup Constants, changed["CopyPropagation"]
        PROVE  CopiesPropagated'
    <2>1. pc \in LoopRound
      BY <1>2, <1>7 DEF LoopRound, Constants
    <2>2. CopiesPropagated
      BY <1>7, <2>1 DEF DriverInv
    <2> QED
      BY <1>1, <1>3, <2>2, StillPropagated
  <1>9. pc' \in Constants => changed["CopyPropagation"]
    BY <1>2 DEF Constants
  <1>8. IndexIsFresh' /\ ConstantsAfterCopies'
    BY <1>1, <1>3, HistoryKept DEF DriverInv
  <1> QED
    BY <1>1, <1>3, <1>4, <1>5, <1>6, <1>7, <1>8, <1>9 DEF DriverInv

LEMMA ResetDriver == ASSUME DriverInv, ResetCopyFlag PROVE DriverInv'
  <1>1. /\ pc = "reset" /\ pc' = "add" /\ ~changed'["CopyPropagation"]
        /\ changed' \in [Flag -> BOOLEAN] /\ UNCHANGED <<option, loops, calls>>
    BY DEF ResetCopyFlag, DriverInv, DriverTypeOK, Flag
  <1>2. pc \notin CopyCalls /\ pc' \notin Constants /\ pc' \notin LoopPassAt
        /\ pc' \in DOMAIN PassAt
    BY <1>1 DEF CopyCalls, Constants, LoopPassAt, PassAt
  <1> QED
    BY <1>1, <1>2 DEF DriverInv, DriverTypeOK, Called, Unsettled, IndexIsFresh, ConstantsAfterCopies

(***************************************************************************)
(* Every state of every run satisfies the invariant.                       *)
(***************************************************************************)
THEOREM Driver == DriverSpec => []DriverInv
  <1>1. DriverInv /\ [DriverNext]_driverVars => DriverInv'
    <2> SUFFICES ASSUME DriverInv, [DriverNext]_driverVars PROVE DriverInv'
      OBVIOUS
    <2>1. CASE UNCHANGED driverVars
      BY <2>1 DEF driverVars, DriverInv, DriverTypeOK, Called, Unsettled, Fresh, CopiesPropagated,
                  IndexIsFresh, ConstantsAfterCopies
    <2> QED
      BY <2>1, CallDriver, FindLoopsDriver, ResetDriver DEF DriverNext, Terminated
  <1> QED
    BY <1>1, InitDriver, PTL DEF DriverSpec

(***************************************************************************)
(* No pass leaves copies behind that are not propagated, and constants are *)
(* propagated only after copies were: at every level, with every option,   *)
(* whatever the passes report and whatever flags a former function left.   *)
(***************************************************************************)
THEOREM Copies == DriverSpec => []CopiesAreSettled
  <1>1. DriverInv => CopiesAreSettled
    <2>1. "done" \notin CopyCalls
      BY DEF CopyCalls
    <2> QED
      BY <2>1 DEF DriverInv, Unsettled, CopiesAreSettled, CopiesArePropagated
  <1> QED
    BY <1>1, Driver, PTL

(***************************************************************************)
(* Code motion and the pass after it find an index in the mode they need,  *)
(* built after the last pass that rewrote code.                            *)
(***************************************************************************)
THEOREM Indexes == DriverSpec => []IndexIsFresh
  <1>1. DriverInv => IndexIsFresh
    BY DEF DriverInv
  <1> QED
    BY <1>1, Driver, PTL
==============================================================================
