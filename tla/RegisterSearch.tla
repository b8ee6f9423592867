---------------------------- MODULE RegisterSearch ----------------------------
(***************************************************************************)
(* The searches of the allocator tools over a captured interference graph: *)
(* for birth ranks (tools/source_rank_solver.py), for select orders and    *)
(* for degrees (tools/inverse_coloring.py).  A search tries one hypothesis *)
(* after the other and keeps the best; what it says at its end is compared *)
(* with what is true of the family it stands for.                          *)
(***************************************************************************)
EXTENDS AllocatorHypotheses, Functions

CONSTANTS
  Captures,         \* captured graphs with their objects, uses and colours
  Queries,          \* a kind of search, its targets, the most permutations to
                    \* try all of
  Samples,          \* how many are tried of more
  MaxExtra          \* the largest addition to the degree of a web

ASSUME ClassAssumption ==
  /\ FirstVirtual \in Nat /\ FirstSavedColor \in Nat
  /\ InitialColors \subseteq 0..(FirstVirtual - 1)
  /\ InitialColors # {} /\ \A c \in InitialColors : c < FirstSavedColor

(* A capture is taken behind SpillCode_CoalesceCopies, which leaves a root *)
(* the neighbours of its members (RootsCarryEdges of Coalesce), and before *)
(* any hypothesis adds to a degree.  What is simplified and selected are   *)
(* virtual registers that are roots; only virtual registers are classified *)
(* as objects.                                                             *)
ASSUME CapturesAssumption ==
  \A c \in Captures :
    /\ DOMAIN c.snapshot = {"neighbors", "parent", "cost", "extra", "active"}
    /\ IsSnapshot(c.snapshot) /\ HasRoots(c.snapshot) /\ c.limit \in Nat \ {0}
    /\ \A r \in Nodes(c.snapshot) :
         /\ c.snapshot.extra[r] = 0
         /\ \A n \in c.snapshot.neighbors[r] : r \in c.snapshot.neighbors[n]
         /\ c.snapshot.neighbors[r] \subseteq c.snapshot.neighbors[Canonical(c.snapshot, r)]
    /\ \A r \in c.snapshot.active : r >= FirstVirtual /\ c.snapshot.parent[r] = r
    /\ \A r \in c.objects : r \in Nodes(c.snapshot) /\ r >= FirstVirtual

(* A question names a target: the command line requires one.               *)
ASSUME QueriesAssumption ==
  \A q \in Queries : q.kind \in {"ranks", "order", "degree"} /\ DOMAIN q.targets # {}

ASSUME ExtraAssumption == MaxExtra \in Nat

VARIABLES
  capture, query,   \* the input
  prefix, rest,     \* the captured order: up to the last target, and after it
  families,         \* sets of removed slots not yet looked at
  removed,          \* the set looked at now
  pending,          \* hypotheses of this set not yet tried
  best,             \* the best so far: its score, and what it is
  always,           \* pairs in the same order in every solution so far
  exhaustive, status

questionVars == <<capture, query, prefix, rest, families, removed, pending, best, always, exhaustive, status>>

Targets == query.targets

(* simplify_order of the snapshot.                                         *)
Baseline(c) == Reverse(RemovalOrder(c.snapshot, c.limit, [r \in DOMAIN c.snapshot.parent |-> r]))

(* Additions to the degrees of the targets, at least one of them.          *)
Additions == {a \in [DOMAIN Targets -> 0..MaxExtra] : \E r \in DOMAIN a : a[r] > 0}

(* What is tried of a family: everything if it is small enough, else the   *)
(* order as it is and some others.                                         *)
Tries(S) ==
  LET all == SetToSeqs(S)
      baseline == Ascending(S)
  IN  IF Cardinality(all) <= query.max THEN {all}
      ELSE {{baseline} \cup Range(others) : others \in [1..(Samples - 1) -> all]}

(* The one tried next.                                                     *)
Hypothesis == CHOOSE h \in pending : TRUE

SearchInit ==
  /\ capture \in Captures /\ query \in Queries
  /\ DOMAIN Targets \subseteq capture.snapshot.active
  /\ LET order == Baseline(capture)
         last  == Greatest({Position(order, r) : r \in DOMAIN Targets})
     IN  prefix = SubSeq(order, 1, last) /\ rest = SubSeq(order, last + 1, Len(order))
  /\ families = IF query.kind = "ranks" THEN SUBSET Removable(capture) ELSE {{}}
  /\ removed = {}
  /\ pending = {}
  /\ best = <<>>
  /\ always = Precedes(prefix) \cup {<<p[2], p[1]>> : p \in Precedes(prefix)}
  /\ exhaustive = TRUE
  /\ status = "searching"

NextFamily ==
  /\ status = "searching" /\ pending = {} /\ families # {}
  /\ removed' = CHOOSE f \in families : \A g \in families : Cardinality(f) <= Cardinality(g)
  /\ families' = families \ {removed'}
  /\ \/ /\ query.kind = "ranks"
        /\ LET live == Permutable(capture) \ removed'
           IN  /\ pending' \in Tries(live)
               /\ exhaustive' = (exhaustive /\ Cardinality(SetToSeqs(live)) <= query.max)
     \/ query.kind = "order" /\ pending' = SetToSeqs(Range(prefix)) /\ UNCHANGED exhaustive
     \/ query.kind = "degree" /\ pending' = Additions /\ UNCHANGED exhaustive
  /\ UNCHANGED <<capture, query, prefix, rest, best, always, status>>

(* search_snapshots: stops at the first ranks that meet all targets.       *)
TryRanks ==
  /\ query.kind = "ranks" /\ status = "searching" /\ pending # {}
  /\ LET ranks == RankAssignment(capture, Hypothesis, removed)
         score == Score(Replay(capture.snapshot, capture.limit, ranks), Targets)
     IN  /\ best' = IF best = <<>> \/ score > best[1] THEN <<score, ranks, removed>> ELSE best
         /\ status' = IF score = Cardinality(DOMAIN Targets) THEN "reachable" ELSE status
  /\ pending' = pending \ {Hypothesis}
  /\ UNCHANGED <<capture, query, prefix, rest, families, removed, always, exhaustive>>

(* Mutant: pairs are compared only while the best order improves.          *)
TryOrderOfTheBest ==
  /\ query.kind = "order" /\ status = "searching" /\ pending # {}
  /\ LET order == Hypothesis
         score == OrderScore(order, prefix)
     IN  IF /\ Hits(Selection(capture.snapshot, order \o rest), Targets)
            /\ best = <<>> \/ Lexicographic(score, best[1])
         THEN best' = <<score, order>> /\ always' = always \cap Precedes(order)
         ELSE UNCHANGED <<best, always>>
  /\ pending' = pending \ {Hypothesis}
  /\ UNCHANGED <<capture, query, prefix, rest, families, removed, exhaustive, status>>

(* inverse_order_search: counts the solutions, keeps the nearest and what  *)
(* they have in common.                                                    *)
TryOrder ==
  /\ query.kind = "order" /\ status = "searching" /\ pending # {}
  /\ LET order == Hypothesis
         score == OrderScore(order, prefix)
     IN  IF Hits(Selection(capture.snapshot, order \o rest), Targets)
         THEN /\ best' = IF best = <<>> \/ Lexicographic(score, best[1])
                         THEN <<score, order>> ELSE best
              /\ always' = always \cap Precedes(order)
         ELSE UNCHANGED <<best, always>>
  /\ pending' = pending \ {Hypothesis}
  /\ UNCHANGED <<capture, query, prefix, rest, families, removed, exhaustive, status>>

(* degree_hypothesis_search: the smallest sum, then the fewest webs.       *)
DegreeScore(additions) ==
  LET amounts == [n \in 1..Cardinality(DOMAIN additions) |->
                    additions[Ascending(DOMAIN additions)[n]]]
  IN  <<SumSeq(amounts), Cardinality({n \in DOMAIN amounts : amounts[n] > 0})>> \o amounts

TryDegrees ==
  /\ query.kind = "degree" /\ status = "searching" /\ pending # {}
  /\ LET additions == Hypothesis
         colors == Replay(WithDegrees(capture.snapshot, additions), capture.limit,
                          [r \in DOMAIN capture.snapshot.parent |-> r])
     IN  best' = IF /\ Hits(colors, Targets)
                    /\ best = <<>> \/ Lexicographic(DegreeScore(additions), best[1])
                 THEN <<DegreeScore(additions), additions>> ELSE best
  /\ pending' = pending \ {Hypothesis}
  /\ UNCHANGED <<capture, query, prefix, rest, families, removed, always, exhaustive, status>>

Conclude ==
  /\ status = "searching" /\ pending = {} /\ families = {}
  /\ status' = IF query.kind = "ranks" THEN IF exhaustive THEN "unreachable" ELSE "not_found"
               ELSE IF best = <<>> THEN "unreachable" ELSE "reachable"
  /\ UNCHANGED <<capture, query, prefix, rest, families, removed, pending, best, always, exhaustive>>

SearchNext == NextFamily \/ TryRanks \/ TryOrder \/ TryDegrees \/ Conclude

SearchSpec == SearchInit /\ [][SearchNext]_questionVars

(******************************* properties ********************************)

(* The numbers that registers have after an edit of the source: the webs   *)
(* are born in the order they were, but for objects that changed places    *)
(* with each other and slots that are gone.                                *)
Births(gone, places) ==
  LET kept == {r \in DOMAIN capture.snapshot.parent : r >= FirstVirtual} \ gone
  IN  [r \in DOMAIN capture.snapshot.parent |->
         IF r \notin kept THEN r
         ELSE FirstVirtual + Cardinality({q \in kept : places[q] < places[r]})]

(* The objects that an edit may move, and those of them without an         *)
(* occurrence in the code or a neighbour.                                  *)
Movable == {r \in capture.objects : capture.snapshot.parent[r] = r}
           \ (capture.fixed \cup {FirstVirtual})

Slots == {r \in Movable \ capture.used : capture.snapshot.neighbors[r] = {}}

(* Where each register is put if the objects change places as in p.        *)
Rearranged(p) == [r \in DOMAIN capture.snapshot.parent |-> IF r \in DOMAIN p THEN p[r] ELSE r]

Numberings ==
  UNION {{Births(gone, Rearranged(p)) :
            p \in {f \in [Movable \ gone -> Movable \ gone] : IsInjective(f)}} :
           gone \in SUBSET Slots}

Reached(snapshot, ranks) == Hits(Replay(snapshot, capture.limit, ranks), Targets)

RankVerdict ==
  query.kind = "ranks" =>
    /\ status = "reachable" => \E n \in Numberings : Reached(capture.snapshot, n)
    /\ status = "unreachable" => \A n \in Numberings : ~Reached(capture.snapshot, n)

(* "one configured object band": what may move was born after all that is  *)
(* pinned and before the temporaries.                                      *)
IsOneBand ==
  \A r \in Movable :
    /\ \A f \in capture.fixed : f < r
    /\ \A t \in OfKind(capture, "temporary") : r < t

(* A verdict of the rank search is true of the source edits that it stands *)
(* for: "reachable" with a witness, "unreachable" only if no order of the  *)
(* objects and no removal of slots gives the targets their colours; as     *)
(* long as the objects that may move are one band.                         *)
VerdictIsExact == IsOneBand => RankVerdict

(* ... with any objects pinned: the documentation of the tool says that    *)
(* "callers can pin additional" webs and that the search then "proves      *)
(* reachability or unreachability inside that model".                      *)
PinnedVerdictIsExact == RankVerdict

(* The order search finds an order of the prefix that differs from the     *)
(* captured one in as few pairs as any that meets the targets, and reports *)
(* as required just the reversals that all of those have.                  *)
NearestOrderIsFound ==
  query.kind = "order" /\ status # "searching" =>
    LET solutions == {o \in SetToSeqs(Range(prefix)) :
                        Hits(Selection(capture.snapshot, o \o rest), Targets)}
    IN  /\ status = "reachable" <=> solutions # {}
        /\ solutions # {} =>
             /\ best[2] \in solutions
             /\ \A o \in solutions :
                  Cardinality(Inversions(best[2], prefix)) <= Cardinality(Inversions(o, prefix))
             /\ always \ Precedes(prefix) =
                  {p \in Precedes(best[2]) : \A o \in solutions : p \in Inversions(o, prefix)}

(* Nodes that stay in the graph and never get a colour, one for each set   *)
(* of webs to join it to.                                                  *)
WithWindows(snapshot, windows) ==
  LET with[n \in 0..Len(windows)] ==
        IF n = 0 THEN snapshot
        ELSE AddSyntheticNode(with[n - 1], Greatest(DOMAIN with[n - 1].parent) + 1,
                              windows[n], FALSE)
  IN  with[Len(windows)]

Degrees(windows, webs) == [r \in webs |-> Cardinality({n \in DOMAIN windows : r \in windows[n]})]

(* What the degree search adds in numbers stands for edges: the cover      *)
(* reported for the best additions, put into the graph as live ranges,     *)
(* gives the same colours; no fewer live ranges can have these degrees,    *)
(* every cover that small shares what is reported as shared, and no        *)
(* smaller additions of edges meet the targets.                            *)
DegreesAreEdges ==
  query.kind = "degree" /\ status # "searching" =>
    LET own == [r \in DOMAIN capture.snapshot.parent |-> r]
        met(additions) ==
          LET s == WithWindows(capture.snapshot, PressureCover(additions).windows)
          IN  Reached(s, [r \in DOMAIN s.parent |-> r])
        total(additions) == DegreeScore(additions)[1]
    IN  /\ status = "reachable" <=> \E a \in Additions : met(a)
        /\ best # <<>> =>
             LET cover == PressureCover(best[2])
                 webs  == DOMAIN Targets
             IN  /\ met(best[2])
                 /\ Degrees(cover.windows, webs) = best[2]
                 /\ \A a \in Additions : met(a) => total(best[2]) <= total(a)
                 /\ \A size \in 0..cover.count :
                      \A windows \in [1..size -> SUBSET webs] :
                        Degrees(windows, webs) = best[2] =>
                          /\ size = cover.count
                          /\ \A t \in cover.shared :
                               Cardinality({n \in 1..size : {t[1], t[2]} \subseteq windows[n]}) >= t[3]
=============================================================================
