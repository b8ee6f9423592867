---------------------------- MODULE ColoringModel ----------------------------
(***************************************************************************)
(* The replay of tools/coloring_model.py: from a captured interference     *)
(* graph it computes in which order Coloring_SimplifyGraph removes the     *)
(* nodes and which register Coloring_SelectColors gives each, also when    *)
(* the nodes were numbered in another order (ranks).  A snapshot is        *)
(* [neighbors, parent, cost, extra, active]: parent is the root of a       *)
(* coalesced node, extra the permanent degree that a hypothesis adds,      *)
(* active the registers of simplify_order.                                 *)
(***************************************************************************)
EXTENDS Integers, Sequences, FiniteSets, SequencesExt

CONSTANTS
    FirstVirtual,    \* FIRST_VIRTUAL_REGISTER
    InitialColors,   \* INITIAL_COLORS of the class
    FirstSavedColor  \* FIRST_SAVED_COLOR of the class

\* What a capture holds.
Nodes(s) == DOMAIN s.parent

IsSnapshot(s) ==
    /\ IsFiniteSet(Nodes(s)) /\ Nodes(s) \subseteq Nat
    /\ s.neighbors \in [Nodes(s) -> SUBSET Nodes(s)]
    /\ s.parent \in [Nodes(s) -> Nodes(s)]
    /\ s.cost \in [Nodes(s) -> Nat] /\ s.extra \in [Nodes(s) -> Nat]
    /\ s.active \subseteq Nodes(s)

Smallest(S) == CHOOSE x \in S : \A y \in S : x <= y
Greatest(S) == CHOOSE x \in S : \A y \in S : x >= y

\* canonical_register: a chain of parents of coalesced nodes.
Canonical(snapshot, r) ==
    LET up[n \in Nat] == IF n = 0 THEN r ELSE snapshot.parent[up[n - 1]]
    IN  up[Cardinality(DOMAIN snapshot.parent)]

\* Every chain of parents has an end.
HasRoots(s) == \A r \in Nodes(s) : s.parent[Canonical(s, r)] = Canonical(s, r)
-----------------------------------------------------------------------------
\* sorted: a set in the order of a strict total order.
Sorted(S, Less(_, _)) ==
    [n \in 1 .. Cardinality(S) |->
        CHOOSE x \in S : Cardinality({ y \in S : Less(y, x) }) = n - 1]

Ascending(S) == Sorted(S, LAMBDA a, b : a < b)

RankedByNumber(S, ranks) == Ascending(S)   \* mutant: the hypothesis is ignored

\* _rank_key: by rank, and by number where ranks are equal.
Ranked(S, ranks) ==
    Sorted(S, LAMBDA a, b : ranks[a] < ranks[b] \/ (ranks[a] = ranks[b] /\ a < b))

\* The degree a register has when the ones in order are removed.
Degree(snapshot, order, r) ==
    Cardinality(snapshot.neighbors[r]) + snapshot.extra[r]
        - Cardinality(snapshot.neighbors[r] \cap ToSet(order))

\* What a sweep does with one register: it is removed, or put before the
\* survivors.
SweepOne(snapshot, k, s, r) ==
    IF Degree(snapshot, s.order, r) < k
    THEN [s EXCEPT !.order = Append(@, r), !.changed = TRUE]
    ELSE [s EXCEPT !.left = <<r>> \o @]

\* One sweep over what is left, with k available colours.
Sweep(snapshot, k, ranks, order) ==
    LET queue == Ranked(snapshot.active \ ToSet(order), ranks)
        state[n \in 0 .. Len(queue)] ==
          IF n = 0 THEN [order |-> order, left |-> <<>>, changed |-> FALSE]
          ELSE SweepOne(snapshot, k, state[n - 1], queue[n])
    IN  state[Len(queue)]

\* spill_score, of which degree zero is infinite; is a's smaller than b's?
Scores(snapshot, order, a, b) ==
    LET da == Degree(snapshot, order, a)
        db == Degree(snapshot, order, b)
    IN  da # 0 /\ (db = 0 \/ snapshot.cost[a] * db < snapshot.cost[b] * da)

\* min(last_remaining, key=spill_score): the first of the smallest.
Candidate(snapshot, s) ==
    LET at == CHOOSE i \in DOMAIN s.left :
                /\ \A j \in DOMAIN s.left :
                     ~Scores(snapshot, s.order, s.left[j], s.left[i])
                /\ \A j \in 1 .. i - 1 :
                     Scores(snapshot, s.order, s.left[i], s.left[j])
    IN  s.left[at]

\* The loops of replay_simplify: sweeps while they remove something, then a
\* spill candidate and sweeps again.  Every two of them remove a register.
RemovalOrder(snapshot, k, ranks) ==
    LET run[n \in Nat] ==
          IF n = 0 THEN Sweep(snapshot, k, ranks, <<>>)
          ELSE LET s == run[n - 1]
               IN  IF s.changed THEN Sweep(snapshot, k, ranks, s.order)
                   ELSE IF s.left = <<>> THEN s
                   ELSE Sweep(snapshot, k, ranks, Append(s.order, Candidate(snapshot, s)))
    IN  run[2 * Cardinality(snapshot.active) + 1].order
-----------------------------------------------------------------------------
\* replay_selection: the colours a register meets at its neighbours' roots.
Blocked(snapshot, colors, r) ==
    { colors[root] % FirstVirtual :
        root \in { q \in { Canonical(snapshot, n) : n \in snapshot.neighbors[r] } :
                     q \in DOMAIN colors /\ colors[q] >= 0 } }

ClaimUpwards(mask) ==   \* mutant: from the lowest saved register up
    LET free == (FirstSavedColor .. FirstVirtual - 1) \ mask
    IN  IF free = {} THEN {} ELSE { Smallest(free) }

\* next_claim goes down past claimed colours, to FirstSavedColor.
Claim(mask) ==
    LET free == (FirstSavedColor .. FirstVirtual - 1) \ mask
    IN  IF free = {} THEN {} ELSE { Greatest(free) }

SelectColor(snapshot, s, r) ==
    LET blocked == Blocked(snapshot, s.colors, r)
        mask    == IF s.mask \ blocked = {} THEN s.mask \cup Claim(s.mask) ELSE s.mask
        free    == mask \ blocked
        color   == IF free = {} THEN -1 ELSE Smallest(free)
    IN  [mask |-> mask, colors |-> [x \in DOMAIN s.colors \cup {r} |->
                                      IF x = r THEN color ELSE s.colors[x]]]

\* replay_selection, for one order.
Selection(snapshot, order) ==
    LET state[n \in 0 .. Len(order)] ==
          IF n = 0 THEN [mask |-> InitialColors, colors |-> [r \in 0 .. FirstVirtual - 1 |-> r]]
          ELSE SelectColor(snapshot, state[n - 1], order[n])
    IN  state[Len(order)].colors

\* replay_simplify: select in the reverse order of removal.
Replay(snapshot, k, ranks) ==
    Selection(snapshot, Reverse(RemovalOrder(snapshot, k, ranks)))
=============================================================================
