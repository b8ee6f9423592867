----------------------------- MODULE WebAlignment -----------------------------
(***************************************************************************)
(* tools/align_register_webs.py: which virtual register of one capture is  *)
(* which of another.  Every register gets a profile, every pair of         *)
(* profiles of a class a score, an assignment of greatest weight the       *)
(* pairs, and what stands out is reported as matched.  Scores, which the   *)
(* tool rounds to floats, are integers of which One is the best.           *)
(*                                                                         *)
(* A capture is a record: code, the instructions in sequence; registers,   *)
(* the virtual ones, each a pair of class and number; origins, the linked  *)
(* creation events; nodes and simplify, the records of the graph in every  *)
(* phase and attempt; initialLast and windows, for the strata.             *)
(***************************************************************************)
EXTENDS MaximumAssignment, Sequences, FiniteSets, FiniteSetsExt
LOCAL INSTANCE SequencesExt

CONSTANTS
  Pairs,            \* pairs of captures to align
  Phase,            \* the phase of the graph to compare
  FirstVirtual,
  MinConfidentScore, AmbiguityMargin

VARIABLES captures, report

vars == <<assignmentVars, captures, report>>

None == -1

Physical(r) == r[2] < FirstVirtual

(* The order in which registers are listed.                                *)
Before(q, r) == q[1] < r[1] \/ (q[1] = r[1] /\ q[2] < r[2])

Total(op(_), S) == MapThenSumSet(op, S)

Average(scores) == FoldSeq(+, 0, scores) \div Len(scores)

Least(a, b) == IF a < b THEN a ELSE b

Most(S, default) == IF S = {} THEN default ELSE Max(S)

(******************************* similarities ******************************)

(* A multiset is a function from its members' places to what they are.     *)
Count(f, x) == Cardinality({p \in DOMAIN f : f[p] = x})

MultisetDice(f, g) ==
  LET common(x) == Least(Count(f, x), Count(g, x))
      total == Cardinality(DOMAIN f) + Cardinality(DOMAIN g)
  IN  IF total = 0 THEN None
      ELSE (2 * One * Total(common, {f[p] : p \in DOMAIN f})) \div total

CategoricalSimilarity(left, right) ==
  LET at(s, n) == IF n \in DOMAIN s THEN s[n] ELSE None
      informative == {n \in DOMAIN left \cup DOMAIN right :
                        at(left, n) # None \/ at(right, n) # None}
  IN  IF informative = {} THEN One
      ELSE (One * Cardinality({n \in informative : at(left, n) = at(right, n)}))
             \div Cardinality(informative)

RatioSimilarity(a, b) == IF a = b THEN One ELSE (One * Least(a, b)) \div Max({a, b})

(********************************* profiles ********************************)

(* Mutant: a virtual register is known by its number.                      *)
NumberedOperandSignature(operand) == <<operand.kind, operand.role, operand.register>>

(* Of a virtual register only the class is kept.                           *)
StableOperandSignature(operand) ==
  <<operand.kind, operand.role,
    IF operand.kind = "register" /\ ~Physical(operand.register)
    THEN <<"virtual", operand.register[1]>> ELSE <<"own", operand.register>> >>

InstructionSignature(code, i) ==
  IF i \notin DOMAIN code THEN <<>>
  ELSE <<code[i].opcode,
         [n \in DOMAIN code[i].operands |-> StableOperandSignature(code[i].operands[n])]>>

(* An instruction was created, or cloned from another; the links may be    *)
(* missing or circular.                                                    *)
Lineage(code) ==
  LET line[i \in DOMAIN code, seen \in SUBSET DOMAIN code] ==
        IF i \in seen THEN <<"cycle">>
        ELSE IF code[i].creation # None THEN <<"creation", code[i].opcode, code[i].creation>>
        ELSE IF code[i].source # None
             THEN <<"clone", code[i].clone, line[code[i].source, seen \cup {i}]>>
        ELSE <<>>
  IN  [i \in DOMAIN code |-> line[i, {}]]

(* Mutant: the first record of a register is taken, whatever its attempt.  *)
SelectNodeOfFirstAttempt(capture, r) ==
  LET own == {n \in DOMAIN capture.nodes : /\ capture.nodes[n].phase = Phase
                                          /\ capture.nodes[n].register = r}
  IN  IF own = {} THEN <<>> ELSE <<capture.nodes[Min(own)]>>

(* What the graph says last: the records of the phase, or of the one       *)
(* before, of a register's last attempt.                                   *)
SelectNode(capture, r) ==
  LET of(p) == SelectSeq(capture.nodes, LAMBDA node : node.phase = p)
      available == IF of(Phase) = <<>> /\ Phase = "after" THEN of("before") ELSE of(Phase)
      own  == {n \in DOMAIN available : available[n].register = r}
      last == {n \in own : \A k \in own : available[k].attempt <= available[n].attempt}
  IN  IF own = {} THEN <<>> ELSE <<available[Max(last)]>>

SelectSimplifyPosition(capture, r) ==
  LET before == SelectSeq(capture.simplify, LAMBDA record : record.phase = "before")
      chosen == IF before # <<>> THEN before ELSE capture.simplify
      own    == {n \in DOMAIN chosen : chosen[n].register = r}
      last   == {n \in own : \A k \in own : chosen[k].attempt <= chosen[n].attempt}
  IN  IF own = {} THEN None ELSE chosen[Max(last)].position

AllocationStratum(capture, r) ==
  LET own    == SelectSeq(capture.windows, LAMBDA w : w.class = r[1])
      after  == SelectSeq(own, LAMBDA w : w.phase = "after")
      window == Last(IF after # <<>> THEN after ELSE own)
  IN  IF Physical(r) THEN "physical"
      ELSE IF r[2] <= capture.initialLast[r[1]] THEN "initial_object"
      ELSE IF own = <<>> THEN "virtual"
      ELSE IF r[2] < window.first THEN "pre_coalescing_window"
      ELSE IF r[2] < window.last THEN "coalescing_window"
      ELSE "post_coalescing_window"

Profile(capture, r) ==
  LET code    == capture.code
      places  == UNION {{<<i, n>> : n \in {k \in DOMAIN code[i].operands :
                                             code[i].operands[k].register = r}} :
                          i \in DOMAIN code}
      operand(p) == code[p[1]].operands[p[2]]
      lineage == Lineage(code)
      at      == {p[1] : p \in places}
      first   == Min(at \cup {Len(code) + 1})
      last    == Max(at \cup {0})
      length  == IF Len(code) > 1 THEN Len(code) - 1 ELSE 1
      having(role) == Cardinality({p \in places : role \in operand(p).role})
      fraction(n)  == IF at = {} THEN 0 ELSE (One * n) \div length
  IN  [id |-> r,
       position  |-> [p \in places |->
         <<code[p[1]].block, code[p[1]].index, code[p[1]].opcode, p[2], operand(p).role>>],
       signature |-> [p \in places |->
         <<code[p[1]].opcode, p[2], StableOperandSignature(operand(p))>>],
       context   |-> [p \in places |->
         <<[n \in 1..3 |-> InstructionSignature(code, p[1] + n - 2)], p[2], operand(p).role>>],
       lineage   |-> [p \in {q \in places : lineage[q[1]] # <<>>} |->
         <<lineage[p[1]], p[2], operand(p).role>>],
       counts    |-> <<having("definition"), having("use"), having("last_use"),
                       Cardinality(places)>>,
       blocks    |-> [p \in places |-> code[p[1]].block],
       extent    |-> <<fraction(first - 1), fraction(last - 1), fraction(last - first)>>,
       origins   |-> {o \in capture.origins : o.register = r},
       node      |-> SelectNode(capture, r),
       simplify_position  |-> SelectSimplifyPosition(capture, r),
       allocation_stratum |-> AllocationStratum(capture, r)]

(********************************** scores *********************************)

(* The best pair of creation events, and of the objects they were for.     *)
OriginSimilarity(left, right) ==
  LET pairs == left.origins \X right.origins
      named == {p \in pairs : p[1].object # <<>> \/ p[2].object # <<>>}
  IN  IF left.origins = {} /\ right.origins = {} THEN <<None, None>>
      ELSE IF pairs = {} THEN <<0, 0>>
      ELSE <<Max({CategoricalSimilarity(p[1].event, p[2].event) : p \in pairs}),
             Most({CategoricalSimilarity(p[1].object, p[2].object) : p \in named}, None)>>

LifetimeSimilarity(left, right) ==
  LET distance(n) == Max({left.extent[n] - right.extent[n], right.extent[n] - left.extent[n]})
      counts == Average([n \in 1..4 |-> RatioSimilarity(left.counts[n], right.counts[n])])
      extent == Average([n \in 1..3 |-> Max({0, One - distance(n)})])
      blocks == MultisetDice(left.blocks, right.blocks)
  IN  (45 * counts + 25 * Max({blocks, 0}) + 30 * extent) \div 100

GraphSimilarity(left, right) ==
  LET shape(node) == LET physical == {q \in node.neighbors : Physical(q)}
                     IN  <<Cardinality(node.neighbors), Cardinality(physical),
                           Cardinality(node.neighbors \ physical), node.spill_cost>>
  IN  IF left.node = <<>> /\ right.node = <<>> THEN None
      ELSE IF left.node = <<>> \/ right.node = <<>> THEN 0
      ELSE LET a == left.node[1]  b == right.node[1]
           IN  Average(Append([n \in 1..4 |-> RatioSimilarity(shape(a)[n], shape(b)[n])],
                              IF a.flags = b.flags THEN One ELSE 0))

(* Components of which neither side has evidence do not count.             *)
ScoreProfiles(left, right) ==
  LET origin  == OriginSimilarity(left, right)
      values  == <<MultisetDice(left.position, right.position),
                   MultisetDice(left.signature, right.signature),
                   MultisetDice(left.context, right.context),
                   MultisetDice(left.lineage, right.lineage),
                   origin[1], origin[2],
                   LifetimeSimilarity(left, right), GraphSimilarity(left, right)>>
      percent == <<24, 15, 14, 11, 12, 6, 11, 7>>     \* COMPONENT_WEIGHTS
      weight(n)   == percent[n]
      weighted(n) == percent[n] * values[n]
      available   == {n \in DOMAIN values : values[n] # None}
  IN  IF left.id[1] # right.id[1] THEN 0 ELSE Total(weighted, available) \div Total(weight, available)

Profiles(capture) ==
  LET ids == SetToSortSeq(capture.registers, Before)
  IN  [n \in DOMAIN ids |-> Profile(capture, ids[n])]

(********************************* the run *********************************)

(* The alignment of a pair of captures, [left, right, twins]; twins says   *)
(* which register became which if the second is the first renumbered, but  *)
(* for the records of attempts before the last, and is empty if it is not. *)
(* No step reads it.                                                       *)
Init ==
  /\ \E pair \in Pairs :
       captures = [left |-> Profiles(pair.left), right |-> Profiles(pair.right),
                   twins |-> pair.twins]
  /\ rowCount = Len(captures.left)
  /\ realColumnCount = Len(captures.right)
  /\ weights = [i \in Rows |-> [j \in 1..realColumnCount |->
                  ScoreProfiles(captures.left[i], captures.right[j])]]
  /\ AssignmentInit
  /\ report = <<>>

Assign == AssignmentNext /\ UNCHANGED <<captures, report>>

NodeState(profile) ==
  LET node == profile.node
      coalesced == node # <<>> /\ node[1].is_coalesced
  IN  [physical_color   |-> IF node = <<>> \/ coalesced THEN None ELSE node[1].color_or_parent,
       coalesced_parent |-> IF coalesced THEN node[1].color_or_parent ELSE None,
       simplify_position  |-> profile.simplify_position,
       allocation_stratum |-> profile.allocation_stratum]

Neighbors(profile) == UNION {node.neighbors : node \in Range(profile.node)}

(* mapping is a set of pairs of registers.                                 *)
GraphEdgeChanges(left, right, mapping) ==
  LET partners(r) == IF Physical(r) THEN {r} ELSE {m[2] : m \in {x \in mapping : x[1] = r}}
      origins(r)  == IF Physical(r) THEN {r} ELSE {m[1] : m \in {x \in mapping : x[2] = r}}
      old == Neighbors(left)
      new == Neighbors(right)
  IN  [removed |-> {r \in old : partners(r) # {} /\ partners(r) \cap new = {}},
       added   |-> {r \in new : origins(r) # {} /\ origins(r) \cap old = {}},
       unresolved_old |-> {r \in old : partners(r) = {}},
       unresolved_new |-> {r \in new : origins(r) = {}}]

SameClass(i, j) == captures.left[i].id[1] = captures.right[j].id[1]

(* The first row with the best score of a column.                          *)
ReciprocalBest(j) ==
  LET rows == {i \in Rows : SameClass(i, j)}
  IN  Min({i \in rows : \A k \in rows : weights[k][j] <= weights[i][j]})

Margin(i, j) ==
  weights[i][j] - Most({weights[i][k] : k \in {c \in 1..realColumnCount : SameClass(i, c) /\ c # j}}, 0)

(* A margin that is positive says that the column is the row's best.       *)
Status(i, j) ==
  IF j = 0 \/ weights[i][Max({j, 1})] < MinMatchScore THEN "deleted"
  ELSE IF /\ weights[i][j] >= MinConfidentScore
          /\ Margin(i, j) >= AmbiguityMargin
          /\ ReciprocalBest(j) = i
       THEN "matched" ELSE "ambiguous"

Report ==
  /\ Assigned /\ report = <<>>
  /\ LET id(i) == <<captures.left[i].id, captures.right[Assignment[i]].id>>
         with(status) == {i \in Rows : Status(i, Assignment[i]) = status}
         mapped == Rows \ with("deleted")
         confident == {id(i) : i \in with("matched")}
     IN  report' = <<[matched   |-> confident,
                      ambiguous |-> {id(i) : i \in with("ambiguous")},
                      deleted   |-> {captures.left[i].id : i \in with("deleted")},
                      inserted  |-> {captures.right[j].id : j \in
                                       {c \in 1..realColumnCount :
                                          \A i \in mapped : Assignment[i] # c}},
                      changes   |-> [i \in mapped |->
                        LET left == captures.left[i]  right == captures.right[Assignment[i]]
                        IN  [old |-> NodeState(left), new |-> NodeState(right),
                             graph_edges |-> GraphEdgeChanges(left, right, confident)]]]>>
  /\ UNCHANGED <<assignmentVars, captures>>

Next == Assign \/ Report

(* One process runs the loops one after the other: it takes a step as long *)
(* as there is one.                                                        *)
Spec == Init /\ [][Next]_vars /\ WF_vars(Next)

(******************************* properties ********************************)

(* The numbers of virtual registers and the attempts before the last say   *)
(* nothing: a capture aligned with itself under other numbers, and after   *)
(* another first attempt, scores every web that occurs in the code One     *)
(* with itself, and none better with another; no web is inserted or        *)
(* deleted, one reported as matched is the same web, at the same place of  *)
(* the stack, and its edges have not changed.                              *)
RenumberingIsInvisible ==
  \A r \in Range(report) :
    captures.twins # {} =>
      /\ \A i \in Rows, j \in 1..realColumnCount :
           <<captures.left[i].id, captures.right[j].id>> \in captures.twins =>
             /\ captures.left[i].counts[4] > 0 => weights[i][j] = One
             /\ \A k \in 1..realColumnCount : weights[i][k] <= weights[i][j]
      /\ r.inserted = {} /\ r.deleted = {}
      /\ r.matched \subseteq captures.twins
      /\ \A i \in DOMAIN r.changes :
           Status(i, Assignment[i]) = "matched" =>
             /\ r.changes[i].old.simplify_position = r.changes[i].new.simplify_position
             /\ r.changes[i].graph_edges.removed = {}
             /\ r.changes[i].graph_edges.added = {}
================================================================================
