------------------------- MODULE AllocatorHypotheses -------------------------
(***************************************************************************)
(* What the allocator tools change in a captured graph before they replay  *)
(* it, and how they judge the outcome: the hypotheses of                   *)
(* tools/coloring_model.py, the families of tools/source_rank_solver.py    *)
(* and tools/inverse_coloring.py.  targets is a function from registers to *)
(* the colours wanted.                                                     *)
(***************************************************************************)
EXTENDS ColoringModel

(* A node more, joined to the neighbours named; it takes part in the       *)
(* selection only if it is active.                                         *)
AddSyntheticNode(snapshot, register, neighbors, active) ==
  LET with(f, value) == [r \in DOMAIN f \cup {register} |-> IF r = register THEN value ELSE f[r]]
      joined == [r \in DOMAIN snapshot.neighbors |->
                   snapshot.neighbors[r] \cup (IF r \in neighbors THEN {register} ELSE {})]
  IN  [neighbors |-> with(joined, neighbors),
       parent    |-> with(snapshot.parent, register),
       cost      |-> with(snapshot.cost, 0),
       extra     |-> with(snapshot.extra, 0),
       active    |-> IF active THEN snapshot.active \cup {register} ELSE snapshot.active]

WithDegrees(snapshot, additions) ==
  [snapshot EXCEPT !.extra = [r \in DOMAIN @ |->
     @[r] + IF r \in DOMAIN additions THEN additions[r] ELSE 0]]

Score(colors, targets) ==
  Cardinality({r \in DOMAIN targets : r \in DOMAIN colors /\ colors[r] = targets[r]})

Hits(colors, targets) == Score(colors, targets) = Cardinality(DOMAIN targets)

(************************* families of birth ranks *************************)

(* The kind of every virtual register; an object without an occurrence in  *)
(* PCode and without neighbours is a slot that may be removed.             *)
Kind(capture, r) ==
  IF capture.snapshot.parent[r] # r THEN "coalesced"
  ELSE IF r \in capture.objects THEN "object" ELSE "temporary"

OfKind(capture, kind) ==
  {r \in DOMAIN capture.snapshot.parent : r >= FirstVirtual /\ Kind(capture, r) = kind}

(* Mutant: the parameter may change places with the objects.               *)
FixedByTheCaller(capture) == capture.fixed

(* What keeps its rank: what the caller says, and a parameter.             *)
Fixed(capture) == capture.fixed \cup ({FirstVirtual} \cap OfKind(capture, "object"))

Permutable(capture) == OfKind(capture, "object") \ Fixed(capture)

Removable(capture) ==
  {r \in Permutable(capture) : r \notin capture.used /\ capture.snapshot.neighbors[r] = {}}

(* rank_assignment: the objects retained take the ranks below the highest  *)
(* of the band, the first the highest; what is removed lowers them and the *)
(* temporaries.  Others keep their number.                                 *)
RankAssignment(capture, permutation, removed) ==
  LET highest == Greatest(Permutable(capture) \cup {FirstVirtual - 1}) - Cardinality(removed)
  IN  [r \in DOMAIN capture.snapshot.parent |->
         IF r \in Range(permutation)
         THEN highest + 1 - CHOOSE n \in DOMAIN permutation : permutation[n] = r
         ELSE IF r \in OfKind(capture, "temporary") THEN r - Cardinality(removed)
         ELSE r]

(***************************** select orders *******************************)

Position(order, r) == CHOOSE n \in DOMAIN order : order[n] = r

Distance(a, b) == IF a < b THEN b - a ELSE a - b

(* The pairs that an order has the other way round than the baseline.      *)
Inversions(order, baseline) ==
  {p \in Range(order) \X Range(order) :
     /\ Position(order, p[1]) < Position(order, p[2])
     /\ Position(baseline, p[1]) > Position(baseline, p[2])}

SumSeq(numbers) ==
  LET sum[n \in 0..Len(numbers)] == IF n = 0 THEN 0 ELSE sum[n - 1] + numbers[n]
  IN  sum[Len(numbers)]

(* order_score: inversions, then webs moved, then slots moved, then the    *)
(* order itself.                                                           *)
OrderScore(order, baseline) ==
  <<Cardinality(Inversions(order, baseline)),
    Cardinality({n \in DOMAIN order : order[n] # baseline[n]}),
    SumSeq([n \in DOMAIN order |-> Distance(n, Position(baseline, order[n]))])>> \o order

(* Python's order of tuples of one length.                                 *)
Lexicographic(a, b) ==
  \E n \in DOMAIN a : a[n] < b[n] /\ \A k \in 1..(n - 1) : a[k] = b[k]

Precedes(order) ==
  {<<order[p[1]], order[p[2]]>> : p \in {q \in (DOMAIN order) \X (DOMAIN order) : q[1] < q[2]}}

(* Mutant: a layer holds the webs above it only.                           *)
PressureCoverAbove(additions) ==
  LET webs  == {r \in DOMAIN additions : additions[r] > 0}
      count == IF webs = {} THEN 0 ELSE Greatest({additions[r] : r \in webs})
  IN  [count   |-> count,
       windows |-> [layer \in 1..count |-> {r \in webs : additions[r] > layer}],
       shared  |-> {}]

(* decompose_pressure_additions: additions of degree as live ranges that   *)
(* each overlap a set of webs at most once.                                *)
PressureCover(additions) ==
  LET webs  == {r \in DOMAIN additions : additions[r] > 0}
      count == IF webs = {} THEN 0 ELSE Greatest({additions[r] : r \in webs})
      shared(a, b) == additions[a] + additions[b] - count
  IN  [count   |-> count,
       windows |-> [layer \in 1..count |-> {r \in webs : additions[r] >= layer}],
       shared  |-> {<<p[1], p[2], shared(p[1], p[2])>> :
                      p \in {q \in webs \X webs : q[1] < q[2] /\ shared(q[1], q[2]) > 0}}]

=============================================================================
