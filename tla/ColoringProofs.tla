--------------------------- MODULE ColoringProofs ---------------------------
(***************************************************************************)
(* Invariance proofs for Coloring: for every graph, every table of used    *)
(* registers and every number of attempts, neighbours never share a        *)
(* register and every node that was not coalesced is stacked exactly once. *)
(* The last part is about the tools' replay of a class (ColoringReplay):   *)
(* it stays in step with the walks and with the selection.                 *)
(***************************************************************************)
EXTENDS ColoringReplay, NaturalProofs

\* The registers of the class are numbers, the physical ones the lowest.
LEMMA RegistersAreNumbers ==
    /\ Reg \subseteq Nat /\ Phys \subseteq Reg /\ Virtual \subseteq Reg
    /\ \A r \in Reg : r \in Phys <=> r < NPhys
    /\ \A r \in Reg : r \in Virtual <=> r \notin Phys
  BY PhysAssumption, RegAssumption DEF Reg, Phys, Virtual

LEMMA RegistersAreFinite ==
    ASSUME NEW S \in SUBSET Reg
    PROVE  IsFiniteSet(S) /\ Cardinality(S) \in Nat
  BY NumbersAreFinite, RegAssumption DEF Reg

LEMMA LowestIsMember ==
    ASSUME NEW S \in SUBSET Nat, S # {}
    PROVE  LowestOf(S) \in S /\ \A y \in S : LowestOf(S) <= y
  <1>1. \E x \in S : \A y \in S : x <= y
    BY LeastElement
  <1>2. QED
    BY <1>1 DEF LowestOf

LEMMA TableNumbers ==
    ASSUME NEW u \in SUBSET Phys
    PROVE  SpanOf(u) \in Nat /\ SavedFreeOf(u) \in Nat
  <1>1. Phys \subseteq Nat /\ Phys \subseteq Reg /\ \A r \in Phys : r < NPhys
    BY RegistersAreNumbers
  <1>2. SavedFreeOf(u) \in Nat
    <2>1. { r \in Phys : r > SavedFloor /\ r \notin u } \in SUBSET Reg
      BY <1>1
    <2>2. QED
      BY <2>1, RegistersAreFinite DEF SavedFreeOf
  <1>3. CASE u \cap Saved = {}
    BY <1>2, <1>3 DEF SpanOf
  <1>4. CASE u \cap Saved # {}
    <2>1. u \cap Saved \in SUBSET Nat
      BY <1>1
    <2>2. LowestOf(u \cap Saved) \in u \cap Saved
      BY <1>4, <2>1, LowestIsMember
    <2>3. LowestOf(u \cap Saved) \in Nat /\ LowestOf(u \cap Saved) < NPhys
      BY <1>1, <2>2
    <2>4. NPhys - LowestOf(u \cap Saved) \in Nat
      BY <2>3, PhysAssumption
    <2>5. QED
      BY <1>2, <1>4, <2>4 DEF SpanOf
  <1>5. QED
    BY <1>3, <1>4
-----------------------------------------------------------------------------
(***************************************************************************)
(* Type correctness is inductive by itself.                                *)
(***************************************************************************)
Lists == <<stack, simplified, remaining>>

LEMMA TypeInit == Init => TypeOK
  <1> SUFFICES ASSUME Init PROVE TypeOK
    OBVIOUS
  <1> USE DEF Init
  <1>1. Reg \subseteq Nat /\ Phys \subseteq Reg /\ NPhys \in NPhys .. RegCount
    BY RegistersAreNumbers, PhysAssumption, RegAssumption
  <1>2. IsInput([adj |-> adj, alias |-> alias, cost |-> cost])
    BY <1>1 DEF IsInput
  <1>3. span \in Nat /\ savedFree \in Nat
    BY TableNumbers
  <1>4. stack \in Seq(simplified) /\ remaining \in Seq(Virtual)
    BY SMT
  <1>5. attempt \in 0 .. MaxAttempts
    BY FileAssumption
  <1>6. /\ color \in [Reg -> Reg \cup {NoColor}] /\ final \in [Reg -> Reg \cup {NoColor}]
        /\ degree \in [Reg -> Int] /\ limit \in Nat
    BY SMT
  <1>7. QED
    BY <1>1, <1>2, <1>3, <1>4, <1>5, <1>6 DEF TypeOK

LEMMA PushType ==
    ASSUME TypeOK, NEW n \in Virtual, PushNode(n)
    PROVE  /\ degree' \in [Reg -> Int] /\ simplified' \subseteq Virtual
           /\ stack' \in Seq(simplified')
           /\ simplified' = simplified \cup {n}
           /\ stack' = <<n>> \o stack
  <1>1. /\ simplified' = simplified \cup {n} /\ stack' = <<n>> \o stack
        /\ degree' = [r \in Reg |-> IF r \in adj[n] THEN degree[r] - 1 ELSE degree[r]]
    BY DEF PushNode
  <1>2. stack' \in Seq(simplified')
    BY <1>1, PushedSequence DEF TypeOK
  <1>3. degree' \in [Reg -> Int]
    BY <1>1 DEF TypeOK
  <1>4. QED
    BY <1>1, <1>2, <1>3 DEF TypeOK

LEMMA ScanType == ASSUME TypeOK, ScanNode PROVE TypeOK'
  <1> USE DEF TypeOK
  <1>1. cursor \in Virtual /\ cursor' \in NPhys .. RegCount
    BY PhysAssumption, RegAssumption DEF ScanNode, Virtual
  <1>2. UNCHANGED <<input, limit, table, saved, select, final, attempt, colorPc>>
    BY DEF ScanNode
  <1>3. CASE UNCHANGED <<degree, simplified, stack, low, changed, remaining>>
    BY <1>1, <1>2, <1>3 DEF input, table, saved, select
  <1>4. CASE /\ PushNode(cursor) /\ low' = low \cup {cursor} /\ changed' = TRUE
             /\ UNCHANGED remaining
    BY <1>1, <1>2, <1>4, PushType DEF input, table, saved, select
  <1>5. CASE /\ remaining' = <<cursor>> \o remaining
             /\ UNCHANGED <<degree, simplified, stack, low, changed>>
    <2>1. remaining' \in Seq(Virtual)
      BY <1>1, <1>5, PushedSequence
    <2>2. QED
      BY <1>1, <1>2, <1>5, <2>1 DEF input, table, saved, select
  <1>6. QED
    BY <1>3, <1>4, <1>5 DEF ScanNode

LEMMA StartScanType ==
    ASSUME StartScan
    PROVE  cursor' \in NPhys .. RegCount /\ changed' \in BOOLEAN
           /\ remaining' \in Seq(Virtual)
  <1>1. <<>> \in Seq(Virtual)
    BY SMT
  <1>2. NPhys \in NPhys .. RegCount
    BY PhysAssumption, RegAssumption
  <1>3. cursor' = NPhys /\ changed' = FALSE /\ remaining' = <<>>
    BY DEF StartScan
  <1>4. QED
    BY <1>1, <1>2, <1>3

LEMMA CandidateType ==
    ASSUME TypeOK, PushCandidate
    PROVE  TypeOK'
  <1>1. PICK i \in 1 .. Len(remaining) : PushNode(remaining[i])
    BY DEF PushCandidate
  <1>2. remaining[i] \in Virtual
    BY <1>1, ElementOfSeq DEF TypeOK
  <1>3. UNCHANGED <<input, low, limit, table, saved, select, final, attempt, colorPc>>
        /\ StartScan
    BY DEF PushCandidate
  <1>4. QED
    BY <1>1, <1>2, <1>3, PushType, StartScanType
    DEF TypeOK, input, table, saved, select

LEMMA BuildType == ASSUME TypeOK, BuildGraph PROVE TypeOK'
  <1>1. PICK in \in Inputs, o \in Owned :
          /\ adj' = in.adj /\ alias' = in.alias /\ cost' = in.cost /\ owned' = o
          /\ degree' = [r \in Reg |-> Cardinality(in.adj[r])]
          /\ color' = StartColors(in.alias)
    BY DEF BuildGraph
  <1>2. IsInput(in)
    BY InputsAssumption
  <1>3. IsInput([adj |-> adj', alias |-> alias', cost |-> cost'])
    BY <1>1, <1>2 DEF IsInput
  <1>4. degree' \in [Reg -> Int]
    <2>1. \A r \in Reg : Cardinality(in.adj[r]) \in Nat
      BY <1>2, RegistersAreFinite DEF IsInput
    <2>2. QED
      BY <1>1, <2>1
  <1>5. limit' \in Nat
    <2>1. Free \in SUBSET Reg
      BY RegistersAreNumbers DEF Free
    <2>2. QED
      BY <2>1, RegistersAreFinite DEF BuildGraph
  <1>6. color' \in [Reg -> Reg \cup {NoColor}]
    BY <1>1, <1>2 DEF StartColors, IsInput
  <1>7. stack' \in Seq(simplified') /\ simplified' = {} /\ low' = {} /\ spilled' = {}
    <2>1. <<>> \in Seq({})
      BY SMT
    <2>2. QED
      BY <2>1 DEF BuildGraph
  <1>8. owned' \subseteq Virtual
    BY <1>1, OwnedAssumption
  <1>9. attempt' \in 0 .. MaxAttempts /\ colorPc' = "scan"
    BY FileAssumption DEF BuildGraph, TypeOK
  <1>10. StartScan /\ UNCHANGED <<table, saved, mask, final>>
    BY DEF BuildGraph
  <1>11. QED
    BY <1>3, <1>4, <1>5, <1>6, <1>7, <1>8, <1>9, <1>10, StartScanType
    DEF TypeOK, table, saved

LEMMA SelectType == ASSUME TypeOK, SelectNode PROVE TypeOK'
  <1> DEFINE n == Head(stack)
             available == mask \ Held(n)
  <1>1. n \in simplified /\ Tail(stack) \in Seq(simplified)
    BY HeadTailProperties DEF SelectNode, TypeOK
  <1>2. n \in Virtual /\ n \in Reg /\ Phys \subseteq Reg /\ Phys \subseteq Nat
    BY <1>1, RegistersAreNumbers DEF TypeOK
  <1>3. /\ UNCHANGED <<input, degree, simplified, low, cursor, changed, remaining,
                       limit, saved, final, attempt, colorPc>>
        /\ stack' = Tail(stack)
    BY DEF SelectNode
  <1>4. CASE /\ available # {}
             /\ color' = [color EXCEPT ![n] = LowestOf(available)]
             /\ UNCHANGED <<mask, spilled, table>>
    <2>1. available \in SUBSET Phys /\ available \in SUBSET Nat
      BY <1>2 DEF TypeOK
    <2>2. LowestOf(available) \in Reg
      BY <1>2, <1>4, <2>1, LowestIsMember
    <2>3. color' \in [Reg -> Reg \cup {NoColor}]
      BY <1>2, <1>4, <2>2 DEF TypeOK
    <2>4. QED
      BY <1>1, <1>3, <1>4, <2>3 DEF TypeOK, input, table, saved
  <1>5. CASE spilled' = spilled \cup {n} /\ UNCHANGED <<mask, color, table>>
    BY <1>1, <1>2, <1>3, <1>5 DEF TypeOK, input, table, saved
  <1>6. ASSUME NEW c \in Saved \ used, ClaimColor(c),
               color' = [color EXCEPT ![n] = c],
               mask' = mask \cup {c}, UNCHANGED spilled
        PROVE  TypeOK'
    <2>1. c \in Phys /\ c \in Reg
      BY <1>2, FileAssumption, PhysAssumption DEF Saved, Phys
    <2>2. used' \in SUBSET Phys
      BY <1>6, <2>1 DEF ClaimColor, TypeOK
    <2>3. span' \in Nat /\ savedFree' \in Nat
      BY <1>6, <2>2, TableNumbers DEF ClaimColor
    <2>4. color' \in [Reg -> Reg \cup {NoColor}] /\ mask' \in SUBSET Phys
      BY <1>2, <1>6, <2>1 DEF TypeOK
    <2>5. QED
      BY <1>1, <1>3, <1>6, <2>2, <2>3, <2>4 DEF TypeOK, input, saved
  <1>7. QED
    BY <1>4, <1>5, <1>6 DEF SelectNode

LEMMA CommitType == ASSUME TypeOK, Commit PROVE TypeOK'
  <1>1. \A r \in Reg : color[r] >= NPhys => color[r] \in Reg
    BY PhysAssumption DEF TypeOK, NoColor
  <1>2. \A r \in Reg : ResolveCoalescedColor(color[r]) \in Reg \cup {NoColor}
    BY <1>1 DEF ResolveCoalescedColor, TypeOK
  <1>3. color' \in [Reg -> Reg \cup {NoColor}]
    BY <1>2 DEF Commit, TypeOK
  <1>4. QED
    BY <1>3 DEF Commit, TypeOK, input, simplify, table, saved

LEMMA TypeNext == TypeOK /\ [Next]_vars => TypeOK'
  <1> SUFFICES ASSUME TypeOK, [Next]_vars PROVE TypeOK'
    OBVIOUS
  <1>1. CASE BeginClass
    BY <1>1 DEF BeginClass, TypeOK, input, simplify, table, select
  <1>2. CASE BuildGraph
    BY <1>2, BuildType
  <1>3. CASE ScanNode
    BY <1>3, ScanType
  <1>4. CASE RepeatScan
    BY <1>4, StartScanType DEF RepeatScan, TypeOK, input, table, saved, select
  <1>5. CASE PushCandidate
    BY <1>5, CandidateType
  <1>6. CASE BeginSelect
    <2>1. mask' \in SUBSET Phys
      BY <1>6, FileAssumption, PhysAssumption DEF BeginSelect, FreeVolatile, Phys
    <2>2. QED
      BY <1>6, <2>1 DEF BeginSelect, TypeOK, input, simplify, saved
  <1>7. CASE SelectNode
    BY <1>7, SelectType
  <1>8. CASE SpillAndRetry
    BY <1>8 DEF SpillAndRetry, TypeOK, input, simplify, table, saved, select
  <1>9. CASE Commit
    BY <1>9, CommitType
  <1>10. CASE UNCHANGED vars
    BY <1>10 DEF TypeOK, vars, input, simplify, table, saved, select
  <1>11. QED
    BY <1>1, <1>2, <1>3, <1>4, <1>5, <1>6, <1>7, <1>8, <1>9, <1>10
    DEF Next, Step, Terminated

(***************************************************************************)
(* Every state of every run has the types that TypeOK gives.               *)
(***************************************************************************)
THEOREM TypeCorrect == Spec => []TypeOK
  <1>1. QED
    BY TypeInit, TypeNext, PTL DEF Spec
-----------------------------------------------------------------------------
(***************************************************************************)
(* The inductive invariant behind the safety properties.  The walk of a    *)
(* simplification has sorted the nodes below its cursor into pushed and    *)
(* remaining ones; selection has a register or a spill for every node off  *)
(* the stack; and the mask holds what the table of the class has handed    *)
(* out, which no admissible physical neighbour can be among.               *)
(***************************************************************************)
Stacked == { stack[i] : i \in 1 .. Len(stack) }
Listed  == { remaining[i] : i \in 1 .. Len(remaining) }
Root(r) == r \in Virtual /\ alias[r] = r

StackInv ==
    /\ \A i, j \in 1 .. Len(stack) : stack[i] = stack[j] => i = j
    /\ \A r \in Stacked : Root(r)

ScanInv ==
    colorPc = "scan" =>
        /\ attempt > 0 /\ spilled = {} /\ color = StartColors(alias)
        /\ simplified = Stacked
        /\ Listed \cap simplified = {}
        /\ \A r \in Listed : Root(r) /\ r < cursor
        /\ \A r \in Virtual : Root(r) /\ r < cursor => r \in simplified \cup Listed

Selecting == colorPc = "select" \/ (colorPc = "build" /\ attempt > 0)

SelectInv ==
    Selecting =>
        /\ attempt > 0
        /\ \A r \in Reg : ~Root(r) => color[r] = alias[r]
        /\ \A r \in Virtual : Root(r) =>
             \/ r \in Stacked    /\ color[r] = NoColor /\ r \notin spilled
             \/ r \notin Stacked /\ color[r] \in mask  /\ r \notin spilled
             \/ r \notin Stacked /\ color[r] = NoColor /\ r \in spilled
        /\ colorPc = "build" => stack = <<>> /\ spilled # {}

DoneInv ==
    colorPc = "done" /\ attempt > 0 =>
        /\ spilled = {}
        /\ \A r \in Virtual : Root(r) => color[r] \in Phys /\ color[r] = final[r]
        /\ \A r \in owned : color[r] \in Phys /\ color[r] = final[alias[r]]

Reserved == LastVolatile + 1 .. FirstSaved - 1

TableInv ==
    /\ Reserved \subseteq used
    /\ colorPc = "idle" => attempt = 0
    /\ colorPc # "idle" => snapshot \subseteq used /\ Reserved \subseteq snapshot
    /\ attempt > 0 => \A v \in Virtual : adj[v] \cap Saved \subseteq snapshot
    /\ colorPc = "select" => /\ mask = FreeVolatile(snapshot) \cup (used \ snapshot)
                             /\ used \ snapshot \subseteq Saved

IInv == TypeOK /\ StackInv /\ ScanInv /\ SelectInv /\ DoneInv /\ TableInv
        /\ ProperColoring

LEMMA Graph ==
    ASSUME TypeOK
    PROVE  /\ alias \in [Reg -> Reg] /\ adj \in [Reg -> SUBSET Reg]
           /\ \A x \in Reg : x \notin adj[x]
           /\ \A x, y \in Reg : y \in adj[x] => x \in adj[y]
           /\ \A x \in Reg : adj[x] \subseteq adj[alias[x]]
           /\ \A r \in Reg : alias[alias[r]] = alias[r]
           /\ \A r \in Phys : alias[r] = r
  BY DEF TypeOK, IsInput

LEMMA Disjointness ==
    /\ NoColor \notin Reg /\ NoColor \notin Phys
    /\ Phys \subseteq Reg /\ Virtual \subseteq Reg /\ Phys \cap Virtual = {}
    /\ Saved \subseteq Phys /\ (0 .. LastVolatile) \subseteq Phys
    /\ Phys \subseteq (0 .. LastVolatile) \cup Reserved \cup Saved
    /\ (0 .. LastVolatile) \cap Saved = {}
  <1>1. /\ NPhys \in Nat /\ LastVolatile \in Nat /\ FirstSaved \in Nat
        /\ LastVolatile < NPhys /\ LastVolatile < FirstSaved
        /\ RegCount \in Nat /\ NPhys <= RegCount
    BY PhysAssumption, RegAssumption, FileAssumption
  <1>2. NoColor \notin Reg /\ NoColor \notin Phys
    BY <1>1 DEF NoColor, Reg, Phys
  <1>3. Phys \subseteq Reg /\ Virtual \subseteq Reg /\ Phys \cap Virtual = {}
    BY <1>1 DEF Reg, Phys, Virtual
  <1>4. Saved \subseteq Phys /\ (0 .. LastVolatile) \subseteq Phys
        /\ (0 .. LastVolatile) \cap Saved = {}
    BY <1>1 DEF Phys, Saved
  <1>5. Phys \subseteq (0 .. LastVolatile) \cup Reserved \cup Saved
    BY <1>1 DEF Phys, Saved, Reserved
  <1>6. QED
    BY <1>2, <1>3, <1>4, <1>5

\* Neighbours are never members of one class, and their roots are neighbours.
LEMMA AliasesDiffer ==
    ASSUME NEW in, IsInput(in), NEW a \in Reg, NEW b \in in.adj[a]
    PROVE  b \in Reg /\ in.alias[a] # in.alias[b] /\ in.alias[b] \in in.adj[in.alias[a]]
  <1>1. /\ b \in Reg /\ in.alias[a] \in Reg /\ in.alias[b] \in Reg
        /\ b \in in.adj[in.alias[a]]
    BY DEF IsInput
  <1>2. in.alias[a] \in in.adj[b] /\ in.alias[a] \in in.adj[in.alias[b]]
    BY <1>1 DEF IsInput
  <1>3. QED
    BY <1>1, <1>2 DEF IsInput

LEMMA StartIsProper ==
    ASSUME NEW in, IsInput(in), NEW c, c = StartColors(in.alias)
    PROVE  /\ \A a, b \in Reg : b \in in.adj[a] /\ c[a] \in Phys => c[a] # c[b]
           /\ \A r \in Reg : IF r \in Virtual /\ in.alias[r] = r
                             THEN c[r] = NoColor ELSE c[r] = in.alias[r]
  <1>1. \A r \in Reg : IF r \in Virtual /\ in.alias[r] = r
                       THEN c[r] = NoColor ELSE c[r] = in.alias[r]
    BY Disjointness, RegistersAreNumbers DEF StartColors, IsInput
  <1>2. ASSUME NEW a \in Reg, NEW b \in Reg, b \in in.adj[a], c[a] \in Phys,
               c[a] = c[b]
        PROVE  FALSE
    <2>1. c[a] = in.alias[a] /\ c[b] = in.alias[b]
      BY <1>1, <1>2, Disjointness
    <2>2. in.alias[a] # in.alias[b]
      BY <1>2, AliasesDiffer
    <2>3. QED
      BY <1>2, <2>1, <2>2
  <1>3. QED
    BY <1>1, <1>2

LEMMA InitIInv == Init => IInv
  <1> SUFFICES ASSUME Init PROVE IInv
    OBVIOUS
  <1>1. TypeOK
    BY TypeInit
  <1>2. stack = <<>> /\ Stacked = {} /\ 1 .. Len(stack) = {}
    BY DEF Init, Stacked
  <1>3. StackInv
    BY <1>2 DEF StackInv
  <1>4. ScanInv /\ SelectInv /\ DoneInv
    BY DEF Init, ScanInv, SelectInv, Selecting, DoneInv
  <1>5. TableInv
    BY DEF Init, TableInv, Reserved
  <1>6. ProperColoring
    BY DEF Init, ProperColoring
  <1>7. QED
    BY <1>1, <1>3, <1>4, <1>5, <1>6 DEF IInv
-----------------------------------------------------------------------------
LEMMA StepBegin == ASSUME IInv, TypeOK', BeginClass PROVE IInv'
  <1>1. /\ UNCHANGED <<adj, alias, owned, stack, used, mask, color, spilled, attempt>>
        /\ colorPc = "idle" /\ colorPc' \in {"done", "error", "build"}
        /\ snapshot' = used
    BY DEF BeginClass, input, simplify, table, select
  <1>2. attempt' = 0
    BY <1>1 DEF IInv, TableInv
  <1>3. StackInv'
    BY <1>1 DEF IInv, StackInv, Stacked, Root
  <1>4. ScanInv' /\ SelectInv' /\ DoneInv'
    BY <1>1, <1>2 DEF ScanInv, SelectInv, Selecting, DoneInv
  <1>5. TableInv'
    BY <1>1, <1>2 DEF IInv, TableInv
  <1>6. ProperColoring'
    BY <1>1 DEF IInv, ProperColoring
  <1>7. QED
    BY <1>3, <1>4, <1>5, <1>6 DEF IInv

LEMMA StepBuild == ASSUME IInv, TypeOK', BuildGraph PROVE IInv'
  <1>1. PICK in \in Inputs :
          Admissible(in) /\ adj' = in.adj /\ alias' = in.alias
          /\ color' = StartColors(in.alias)
    BY DEF BuildGraph
  <1>2. /\ simplified' = {} /\ stack' = <<>> /\ remaining' = <<>> /\ cursor' = NPhys
        /\ spilled' = {} /\ attempt' = attempt + 1 /\ colorPc' = "scan"
        /\ UNCHANGED <<used, snapshot>> /\ colorPc = "build"
    BY DEF BuildGraph, StartScan, table, saved
  <1>3. attempt' > 0
    BY <1>2 DEF IInv, TypeOK
  <1>4. Stacked' = {} /\ Listed' = {} /\ 1 .. Len(stack') = {}
    BY <1>2 DEF Stacked, Listed
  <1>5. StackInv'
    BY <1>4 DEF StackInv
  <1>6. ScanInv'
    <2>1. \A r \in Virtual : ~(r < NPhys)
      BY RegistersAreNumbers
    <2>2. QED
      BY <1>1, <1>2, <1>3, <1>4, <2>1 DEF ScanInv, Root, StartColors
  <1>7. SelectInv' /\ DoneInv'
    BY <1>2 DEF SelectInv, Selecting, DoneInv
  <1>8. TableInv'
    BY <1>1, <1>2 DEF IInv, TableInv, Admissible
  <1>9. ProperColoring'
    <2>1. \A a, b \in Reg : b \in in.adj[a] /\ color'[a] \in Phys => color'[a] # color'[b]
      BY <1>1, InputsAssumption, StartIsProper
    <2>2. QED
      BY <1>1, <2>1 DEF ProperColoring
  <1>10. QED
    BY <1>5, <1>6, <1>7, <1>8, <1>9 DEF IInv

\* What one push does to the stack.
LEMMA PushStack ==
    ASSUME TypeOK, StackInv, NEW n, Root(n), n \notin Stacked, PushNode(n)
    PROVE  /\ Stacked' = Stacked \cup {n}
           /\ \A i, j \in 1 .. Len(stack') : stack'[i] = stack'[j] => i = j
  <1>1. /\ stack' = <<n>> \o stack /\ stack \in Seq(simplified)
        /\ n \in simplified \cup {n}
    BY DEF PushNode, TypeOK
  <1>2. /\ Len(stack') = Len(stack) + 1 /\ Len(stack) \in Nat
        /\ stack'[1] = n
        /\ \A i \in 1 .. Len(stack) : stack'[i + 1] = stack[i]
        /\ \A i \in 2 .. Len(stack) + 1 : stack'[i] = stack[i - 1]
    BY <1>1, PushedSequence, LenProperties
  <1>3. Stacked' = Stacked \cup {n}
    <2>1. ASSUME NEW x \in Stacked' PROVE x \in Stacked \cup {n}
      <3>1. PICK i \in 1 .. Len(stack) + 1 : x = stack'[i]
        BY <1>2, <2>1 DEF Stacked
      <3>2. CASE i = 1
        BY <1>2, <3>1, <3>2
      <3>3. CASE i # 1
        <4>1. i \in 2 .. Len(stack) + 1 /\ i - 1 \in 1 .. Len(stack)
          BY <1>2, <3>3
        <4>2. QED
          BY <1>2, <3>1, <4>1 DEF Stacked
      <3>4. QED
        BY <3>2, <3>3
    <2>2. ASSUME NEW i \in 1 .. Len(stack) PROVE stack[i] \in Stacked'
      <3>1. i + 1 \in 1 .. Len(stack')
        BY <1>2
      <3>2. QED
        BY <1>2, <3>1 DEF Stacked
    <2>3. n \in Stacked'
      <3>1. 1 \in 1 .. Len(stack')
        BY <1>2
      <3>2. QED
        BY <1>2, <3>1 DEF Stacked
    <2>4. QED
      BY <2>1, <2>2, <2>3 DEF Stacked
  <1>4. ASSUME NEW i \in 1 .. Len(stack'), NEW j \in 1 .. Len(stack'),
               stack'[i] = stack'[j]
        PROVE  i = j
    <2>1. ASSUME NEW k \in 2 .. Len(stack) + 1 PROVE stack'[k] # n
      <3>1. k - 1 \in 1 .. Len(stack)
        BY <1>2
      <3>2. QED
        BY <1>2, <3>1 DEF Stacked
    <2>2. CASE i = 1 \/ j = 1
      <3>1. i = 1 \/ i \in 2 .. Len(stack) + 1
        BY <1>2
      <3>2. j = 1 \/ j \in 2 .. Len(stack) + 1
        BY <1>2
      <3>3. QED
        BY <1>2, <1>4, <2>1, <2>2, <3>1, <3>2
    <2>3. CASE i # 1 /\ j # 1
      <3>1. /\ i \in 2 .. Len(stack) + 1 /\ j \in 2 .. Len(stack) + 1
            /\ i - 1 \in 1 .. Len(stack) /\ j - 1 \in 1 .. Len(stack)
        BY <1>2, <2>3
      <3>2. stack[i - 1] = stack[j - 1]
        BY <1>2, <1>4, <3>1
      <3>3. i - 1 = j - 1
        BY <3>1, <3>2 DEF StackInv
      <3>4. QED
        BY <3>1, <3>3
    <2>4. QED
      BY <2>2, <2>3
  <1>5. QED
    BY <1>3, <1>4

LEMMA ListedPushed ==
    ASSUME NEW s \in Seq(Virtual), NEW n \in Virtual, NEW t, t = <<n>> \o s
    PROVE  { t[i] : i \in 1 .. Len(t) } = { s[i] : i \in 1 .. Len(s) } \cup {n}
  <1>1. /\ Len(t) = Len(s) + 1 /\ Len(s) \in Nat /\ t[1] = n
        /\ \A i \in 1 .. Len(s) : t[i + 1] = s[i]
        /\ \A i \in 2 .. Len(s) + 1 : t[i] = s[i - 1]
    BY PushedSequence, LenProperties
  <1>2. ASSUME NEW i \in 1 .. Len(t) PROVE t[i] \in { s[j] : j \in 1 .. Len(s) } \cup {n}
    <2>1. CASE i = 1
      BY <1>1, <2>1
    <2>2. CASE i # 1
      <3>1. i \in 2 .. Len(s) + 1 /\ i - 1 \in 1 .. Len(s)
        BY <1>1, <2>2
      <3>2. QED
        BY <1>1, <3>1
    <2>3. QED
      BY <2>1, <2>2
  <1>3. ASSUME NEW i \in 1 .. Len(s) PROVE s[i] \in { t[j] : j \in 1 .. Len(t) }
    <2>1. i + 1 \in 1 .. Len(t)
      BY <1>1
    <2>2. QED
      BY <1>1, <2>1
  <1>4. n \in { t[j] : j \in 1 .. Len(t) }
    <2>1. 1 \in 1 .. Len(t)
      BY <1>1
    <2>2. QED
      BY <1>1, <2>1
  <1>5. QED
    BY <1>2, <1>3, <1>4

LEMMA Typed == ASSUME IInv PROVE IsInput([adj |-> adj, alias |-> alias, cost |-> cost])
  BY DEF IInv, TypeOK

LEMMA StepScan == ASSUME IInv, TypeOK', ScanNode PROVE IInv'
  <1> USE DEF IInv
  <1>1. /\ colorPc = "scan" /\ colorPc' = "scan" /\ cursor' = cursor + 1
        /\ UNCHANGED <<adj, alias, owned, used, snapshot, mask, color, spilled, attempt>>
    BY DEF ScanNode, input, table, saved, select
  <1>2. /\ cursor \in Virtual /\ cursor \in Nat /\ cursor < cursor'
        /\ Virtual \subseteq Nat /\ Virtual \subseteq Reg
    <2>1. cursor \in NPhys .. RegCount /\ cursor < RegCount
      BY DEF ScanNode, TypeOK
    <2>2. NPhys \in Nat /\ RegCount \in Nat
      BY PhysAssumption, RegAssumption
    <2>3. QED
      BY <1>1, <2>1, <2>2 DEF Virtual, Reg
  <1>3. TableInv' /\ ProperColoring'
    BY <1>1 DEF TableInv, ProperColoring
  <1>4. SelectInv' /\ DoneInv'
    BY <1>1 DEF SelectInv, Selecting, DoneInv
  <1>5. \A r \in Virtual : r < cursor' => r < cursor \/ r = cursor
    BY <1>1, <1>2
  <1>6. \A r \in Virtual : r < cursor => r < cursor'
    BY <1>1, <1>2
  <1>7. CASE /\ cursor \in simplified \/ alias[cursor] # cursor
             /\ UNCHANGED <<degree, simplified, stack, low, changed, remaining>>
    <2>1. StackInv' /\ Stacked' = Stacked /\ Listed' = Listed
      BY <1>1, <1>7 DEF StackInv, Stacked, Listed, Root
    <2>2. ScanInv'
      BY <1>1, <1>2, <1>5, <1>6, <1>7, <2>1 DEF ScanInv, Root
    <2>3. QED
      BY <1>3, <1>4, <2>1, <2>2
  <1>8. CASE /\ cursor \notin simplified /\ alias[cursor] = cursor
             /\ PushNode(cursor) /\ UNCHANGED remaining
    <2>1. Root(cursor) /\ cursor \notin Stacked
      BY <1>1, <1>2, <1>8 DEF Root, ScanInv
    <2>2. /\ Stacked' = Stacked \cup {cursor}
          /\ \A i, j \in 1 .. Len(stack') : stack'[i] = stack'[j] => i = j
      BY <1>8, <2>1, PushStack
    <2>3. StackInv'
      BY <1>1, <2>1, <2>2 DEF StackInv, Root
    <2>4. simplified' = simplified \cup {cursor} /\ Listed' = Listed
      BY <1>8 DEF PushNode, Listed
    <2>5. cursor \notin Listed
      BY <1>1, <1>2 DEF ScanInv
    <2>6. ScanInv'
      <3>1. /\ attempt' > 0 /\ spilled' = {} /\ color' = StartColors(alias')
            /\ simplified' = Stacked'
        BY <1>1, <2>2, <2>4 DEF ScanInv
      <3>2. Listed' \cap simplified' = {}
        BY <1>1, <2>4, <2>5 DEF ScanInv
      <3>3. \A r \in Listed' : Root(r)' /\ r < cursor'
        BY <1>1, <1>6, <2>4 DEF ScanInv, Root
      <3>4. \A r \in Virtual : Root(r)' /\ r < cursor' => r \in simplified' \cup Listed'
        BY <1>1, <1>5, <2>4 DEF ScanInv, Root
      <3>5. QED
        BY <3>1, <3>2, <3>3, <3>4 DEF ScanInv
    <2>7. QED
      BY <1>3, <1>4, <2>3, <2>6
  <1>9. CASE /\ cursor \notin simplified /\ alias[cursor] = cursor
             /\ remaining' = <<cursor>> \o remaining
             /\ UNCHANGED <<degree, simplified, stack, low, changed>>
    <2>1. StackInv' /\ Stacked' = Stacked
      BY <1>1, <1>9 DEF StackInv, Stacked, Root
    <2>2. Listed' = Listed \cup {cursor}
      BY <1>2, <1>9, ListedPushed DEF TypeOK, Listed
    <2>3. ScanInv'
      BY <1>1, <1>2, <1>5, <1>6, <1>9, <2>1, <2>2 DEF ScanInv, Root
    <2>4. QED
      BY <1>3, <1>4, <2>1, <2>3
  <1>10. QED
    BY <1>7, <1>8, <1>9 DEF ScanNode

LEMMA StepRepeat == ASSUME IInv, TypeOK', RepeatScan PROVE IInv'
  <1> USE DEF IInv
  <1>1. /\ colorPc = "scan" /\ colorPc' = "scan"
        /\ cursor' = NPhys /\ remaining' = <<>>
        /\ UNCHANGED <<adj, alias, owned, simplified, stack, used, snapshot,
                       mask, color, spilled, attempt>>
    BY DEF RepeatScan, StartScan, input, table, saved, select
  <1>2. StackInv' /\ Stacked' = Stacked /\ Listed' = {}
    BY <1>1 DEF StackInv, Stacked, Listed, Root
  <1>3. ScanInv'
    BY <1>1, <1>2, RegistersAreNumbers DEF ScanInv, Root
  <1>4. SelectInv' /\ DoneInv' /\ TableInv' /\ ProperColoring'
    BY <1>1 DEF SelectInv, Selecting, DoneInv, TableInv, ProperColoring
  <1>5. QED
    BY <1>2, <1>3, <1>4

LEMMA StepCandidate == ASSUME IInv, TypeOK', PushCandidate PROVE IInv'
  <1> USE DEF IInv
  <1>1. PICK i \in 1 .. Len(remaining) : PushNode(remaining[i])
    BY DEF PushCandidate
  <1> DEFINE n == remaining[i]
  <1>2. /\ colorPc = "scan" /\ colorPc' = "scan"
        /\ cursor' = NPhys /\ remaining' = <<>>
        /\ UNCHANGED <<adj, alias, owned, used, snapshot, mask, color, spilled, attempt>>
    BY DEF PushCandidate, StartScan, input, table, saved, select
  <1>3. n \in Listed
    BY DEF Listed
  <1>4. Root(n) /\ n \notin Stacked /\ simplified = Stacked
    BY <1>2, <1>3 DEF ScanInv
  <1>5. /\ Stacked' = Stacked \cup {n}
        /\ \A k, j \in 1 .. Len(stack') : stack'[k] = stack'[j] => k = j
    BY <1>1, <1>4, PushStack
  <1>6. StackInv'
    BY <1>2, <1>4, <1>5 DEF StackInv, Root
  <1>7. simplified' = simplified \cup {n} /\ Listed' = {}
    BY <1>1, <1>2 DEF PushNode, Listed
  <1>8. ScanInv'
    BY <1>2, <1>4, <1>5, <1>7, RegistersAreNumbers DEF ScanInv, Root
  <1>9. SelectInv' /\ DoneInv' /\ TableInv' /\ ProperColoring'
    BY <1>2 DEF SelectInv, Selecting, DoneInv, TableInv, ProperColoring
  <1>10. QED
    BY <1>6, <1>8, <1>9

LEMMA StepBeginSelect == ASSUME IInv, TypeOK', BeginSelect PROVE IInv'
  <1> USE DEF IInv
  <1>1. /\ colorPc = "scan" /\ colorPc' = "select" /\ cursor = RegCount
        /\ remaining = <<>> /\ used' = snapshot /\ mask' = FreeVolatile(snapshot)
        /\ UNCHANGED <<adj, alias, owned, simplified, stack, snapshot, color,
                       spilled, attempt>>
    BY DEF BeginSelect, input, simplify, saved
  <1>2. StackInv' /\ Stacked' = Stacked /\ Listed = {}
    BY <1>1 DEF StackInv, Stacked, Listed, Root
  <1>3. color = StartColors(alias) /\ spilled = {} /\ attempt > 0
        /\ simplified = Stacked
    BY <1>1 DEF ScanInv
  <1>4. \A r \in Reg : IF r \in Virtual /\ alias[r] = r
                       THEN color[r] = NoColor ELSE color[r] = alias[r]
    BY <1>3, Typed, StartIsProper
  <1>5. \A r \in Virtual : Root(r) => r \in Stacked
    <2>1. \A r \in Virtual : r < RegCount
      BY PhysAssumption, RegAssumption DEF Virtual
    <2>2. QED
      BY <1>1, <1>2, <2>1 DEF ScanInv
  <1>6. SelectInv'
    BY <1>1, <1>2, <1>3, <1>4, <1>5, Disjointness DEF SelectInv, Selecting, Root
  <1>7. TableInv'
    BY <1>1 DEF TableInv
  <1>8. ScanInv' /\ DoneInv' /\ ProperColoring'
    BY <1>1 DEF ScanInv, DoneInv, ProperColoring
  <1>9. QED
    BY <1>2, <1>6, <1>7, <1>8

\* What one pop does to the stack.
LEMMA PopStack ==
    ASSUME TypeOK, StackInv, stack # <<>>, stack' = Tail(stack)
    PROVE  /\ Head(stack) \in Stacked
           /\ Stacked' = Stacked \ {Head(stack)}
           /\ \A i, j \in 1 .. Len(stack') : stack'[i] = stack'[j] => i = j
  <1>1. /\ Len(stack) \in Nat /\ Len(stack) # 0 /\ Head(stack) = stack[1]
        /\ Len(stack') = Len(stack) - 1
        /\ \A i \in 1 .. Len(stack') : stack'[i] = stack[i + 1]
    <2>1. stack \in Seq(simplified)
      BY DEF TypeOK
    <2>2. Len(stack) \in Nat /\ Len(stack) # 0 /\ Head(stack) = stack[1]
      BY <2>1, EmptySeq, SMT
    <2>3. QED
      BY <2>1, <2>2, HeadTailProperties
  <1>2. stack[1] \in Stacked
    <2>1. 1 \in 1 .. Len(stack)
      BY <1>1
    <2>2. QED
      BY <2>1 DEF Stacked
  <1>3. ASSUME NEW x \in Stacked' PROVE x \in Stacked \ {stack[1]}
    <2>1. PICK i \in 1 .. Len(stack') : x = stack'[i]
      BY <1>3 DEF Stacked
    <2>2. i + 1 \in 1 .. Len(stack) /\ 1 \in 1 .. Len(stack) /\ i + 1 # 1
      BY <1>1, <2>1
    <2>3. x = stack[i + 1]
      BY <1>1, <2>1
    <2>4. stack[i + 1] # stack[1]
      BY <2>2 DEF StackInv
    <2>5. QED
      BY <2>2, <2>3, <2>4 DEF Stacked
  <1>4. ASSUME NEW x \in Stacked \ {stack[1]} PROVE x \in Stacked'
    <2>1. PICK i \in 1 .. Len(stack) : x = stack[i]
      BY <1>4 DEF Stacked
    <2>2. i # 1
      BY <2>1
    <2>3. i - 1 \in 1 .. Len(stack') /\ (i - 1) + 1 = i
      BY <1>1, <2>1, <2>2
    <2>4. x = stack'[i - 1]
      BY <1>1, <2>1, <2>3
    <2>5. QED
      BY <2>3, <2>4 DEF Stacked
  <1>5. ASSUME NEW i \in 1 .. Len(stack'), NEW j \in 1 .. Len(stack'),
               stack'[i] = stack'[j]
        PROVE  i = j
    <2>1. /\ i + 1 \in 1 .. Len(stack) /\ j + 1 \in 1 .. Len(stack)
          /\ stack[i + 1] = stack[j + 1]
      BY <1>1, <1>5
    <2>2. i + 1 = j + 1
      BY <2>1 DEF StackInv
    <2>3. QED
      BY <2>2
  <1>6. QED
    BY <1>1, <1>2, <1>3, <1>4, <1>5

\* Giving a node a register that no neighbour holds.
LEMMA ColorOne ==
    ASSUME TypeOK, ProperColoring, NEW n \in Reg, NEW c \in Phys, c \notin Held(n),
           color' = [color EXCEPT ![n] = c], adj' = adj
    PROVE  ProperColoring'
  <1>1. SUFFICES ASSUME NEW a \in Reg, NEW b \in Reg, b \in adj[a],
                        color'[a] \in Phys, color'[a] = color'[b]
                 PROVE  FALSE
    BY DEF ProperColoring
  <1>2. color \in [Reg -> Reg \cup {NoColor}] /\ a # b /\ a \in adj[b]
    BY <1>1, Graph DEF TypeOK
  <1>3. \A m \in adj[n] : color[m] # c
    BY DEF Held
  <1>4. CASE a = n
    BY <1>1, <1>2, <1>3, <1>4
  <1>5. CASE b = n
    BY <1>1, <1>2, <1>3, <1>5
  <1>6. CASE a # n /\ b # n
    BY <1>1, <1>2, <1>6 DEF ProperColoring
  <1>7. QED
    BY <1>4, <1>5, <1>6

\* A register that may be claimed is held by no neighbour.
LEMMA ClaimedIsFree ==
    ASSUME IInv, colorPc = "select", NEW n, Root(n), NEW c \in Saved \ used
    PROVE  c \notin Held(n)
  <1> USE DEF IInv
  <1>1. SUFFICES ASSUME NEW m \in adj[n], color[m] = c PROVE FALSE
    BY DEF Held
  <1>2. /\ n \in Virtual /\ alias[n] = n /\ n \in Reg /\ m \in Reg
        /\ attempt > 0 /\ snapshot \subseteq used /\ adj[n] \cap Saved \subseteq snapshot
    BY <1>1, Disjointness, Graph DEF Root, SelectInv, Selecting, TableInv
  <1>3. c \notin adj[n]
    BY <1>2
  <1>4. CASE Root(m)
    <2>1. color[m] \in mask
      BY <1>1, <1>4, Disjointness DEF SelectInv, Selecting, Root
    <2>2. c \in FreeVolatile(snapshot) \cup (used \ snapshot)
      BY <1>1, <2>1 DEF TableInv
    <2>3. QED
      BY <2>2, Disjointness DEF FreeVolatile
  <1>5. CASE ~Root(m)
    <2>1. alias[m] = c
      BY <1>1, <1>2, <1>5 DEF SelectInv, Selecting
    <2>2. alias[m] \in adj[alias[n]]
      BY <1>2, Typed, AliasesDiffer
    <2>3. QED
      BY <1>2, <1>3, <2>1, <2>2
  <1>6. QED
    BY <1>4, <1>5

LEMMA StepSelect == ASSUME IInv, TypeOK', SelectNode PROVE IInv'
  <1> USE DEF IInv
  <1> DEFINE n == Head(stack)
             available == mask \ Held(n)
  <1>1. /\ colorPc = "select" /\ colorPc' = "select"
        /\ stack # <<>> /\ stack' = Tail(stack)
        /\ UNCHANGED <<adj, alias, snapshot, attempt>>
    BY DEF SelectNode, input, saved
  <1>2. /\ n \in Stacked /\ Stacked' = Stacked \ {n}
        /\ \A i, j \in 1 .. Len(stack') : stack'[i] = stack'[j] => i = j
    BY <1>1, PopStack
  <1>3. StackInv' /\ Root(n) /\ n \in Reg /\ n \in Virtual
    BY <1>1, <1>2, Disjointness DEF StackInv, Root
  <1>4. ScanInv' /\ DoneInv'
    BY <1>1 DEF ScanInv, DoneInv
  <1>5. /\ color[n] = NoColor /\ n \notin spilled /\ attempt > 0
        /\ color \in [Reg -> Reg \cup {NoColor}]
    BY <1>1, <1>2, <1>3 DEF SelectInv, Selecting, TypeOK
  <1> HIDE DEF n
  <1>6. ASSUME NEW c \in Phys, c \notin Held(n), c \in mask', mask \subseteq mask',
               color' = [color EXCEPT ![n] = c], spilled' = spilled
        PROVE  SelectInv' /\ ProperColoring'
    <2>1. ProperColoring'
      BY <1>1, <1>3, <1>6, ColorOne
    <2>2. \A r \in Reg : color'[r] = IF r = n THEN c ELSE color[r]
      BY <1>5, <1>6
    <2>3. \A r \in Reg : ~Root(r)' => color'[r] = alias'[r]
      BY <1>1, <1>3, <2>2 DEF SelectInv, Selecting, Root
    <2>4. ASSUME NEW r \in Virtual, Root(r)'
          PROVE  \/ r \in Stacked'    /\ color'[r] = NoColor /\ r \notin spilled'
                 \/ r \notin Stacked' /\ color'[r] \in mask' /\ r \notin spilled'
                 \/ r \notin Stacked' /\ color'[r] = NoColor /\ r \in spilled'
      <3>1. Root(r) /\ r \in Reg
        BY <1>1, <2>4, Disjointness DEF Root
      <3>2. CASE r = n
        BY <1>2, <1>5, <1>6, <2>2, <3>1, <3>2
      <3>3. CASE r # n
        BY <1>1, <1>2, <1>6, <2>2, <3>1, <3>3 DEF SelectInv, Selecting
      <3>4. QED
        BY <3>2, <3>3
    <2>5. QED
      BY <1>1, <1>5, <2>1, <2>3, <2>4 DEF SelectInv, Selecting
  <1>7. CASE /\ available # {}
             /\ color' = [color EXCEPT ![n] = LowestOf(available)]
             /\ UNCHANGED <<mask, spilled, table>>
    <2>1. available \in SUBSET Nat /\ available \subseteq Phys
      BY RegistersAreNumbers, Disjointness DEF TypeOK
    <2>2. LowestOf(available) \in available
      BY <1>7, <2>1, LowestIsMember
    <2>3. SelectInv' /\ ProperColoring'
      BY <1>6, <1>7, <2>1, <2>2
    <2>4. TableInv'
      BY <1>1, <1>7 DEF TableInv, table
    <2>5. QED
      BY <1>3, <1>4, <2>3, <2>4
  <1>8. CASE /\ spilled' = spilled \cup {n}
             /\ UNCHANGED <<mask, color, table>>
    <2>1. ProperColoring' /\ TableInv'
      BY <1>1, <1>8 DEF ProperColoring, TableInv, table
    <2>2. \A r \in Reg : ~Root(r)' => color'[r] = alias'[r]
      BY <1>1, <1>8 DEF SelectInv, Selecting, Root
    <2>3. ASSUME NEW r \in Virtual, Root(r)'
          PROVE  \/ r \in Stacked'    /\ color'[r] = NoColor /\ r \notin spilled'
                 \/ r \notin Stacked' /\ color'[r] \in mask' /\ r \notin spilled'
                 \/ r \notin Stacked' /\ color'[r] = NoColor /\ r \in spilled'
      <3>1. Root(r)
        BY <1>1, <2>3 DEF Root
      <3>2. CASE r = n
        BY <1>2, <1>5, <1>8, <3>2
      <3>3. CASE r # n
        BY <1>1, <1>2, <1>8, <3>1, <3>3 DEF SelectInv, Selecting
      <3>4. QED
        BY <3>2, <3>3
    <2>4. SelectInv'
      BY <1>1, <1>5, <2>2, <2>3 DEF SelectInv, Selecting
    <2>5. QED
      BY <1>3, <1>4, <2>1, <2>4
  <1>9. ASSUME NEW c \in Saved \ used, ClaimColor(c),
               color' = [color EXCEPT ![n] = c], mask' = mask \cup {c},
               UNCHANGED spilled
        PROVE  IInv'
    <2>1. c \in Phys /\ c \notin Held(n)
      BY <1>1, <1>3, <1>9, ClaimedIsFree, Disjointness
    <2>2. SelectInv' /\ ProperColoring'
      BY <1>6, <1>9, <2>1
    <2>3. used' = used \cup {c}
      BY <1>9 DEF ClaimColor
    <2>4. TableInv'
      BY <1>1, <1>9, <2>3 DEF TableInv
    <2>5. QED
      BY <1>3, <1>4, <2>2, <2>4
  <1>10. QED
    BY <1>7, <1>8, <1>9 DEF SelectNode, n

LEMMA StepRetry == ASSUME IInv, TypeOK', SpillAndRetry PROVE IInv'
  <1> USE DEF IInv
  <1>1. /\ colorPc = "select" /\ colorPc' = "build" /\ stack = <<>> /\ spilled # {}
        /\ UNCHANGED <<adj, alias, owned, stack, used, snapshot, mask, color,
                       spilled, attempt>>
    BY DEF SpillAndRetry, input, simplify, table, saved, select
  <1>2. StackInv' /\ Stacked' = Stacked
    BY <1>1 DEF StackInv, Stacked, Root
  <1>3. SelectInv'
    BY <1>1, <1>2 DEF SelectInv, Selecting, Root
  <1>4. ScanInv' /\ DoneInv' /\ TableInv' /\ ProperColoring'
    BY <1>1 DEF ScanInv, DoneInv, TableInv, ProperColoring
  <1>5. QED
    BY <1>2, <1>3, <1>4

\* One look-up finds the colour of a coalesced node's root.
LEMMA Resolved ==
    ASSUME IInv, colorPc = "select", stack = <<>>, spilled = {},
           NEW r \in Reg, alias[r] # r
    PROVE  ResolveCoalescedColor(color[r]) = color[alias[r]] /\ color[alias[r]] \in Phys
  <1> USE DEF IInv
  <1>1. Stacked = {} /\ mask \subseteq Phys
    BY DEF Stacked, TypeOK
  <1>2. \A x \in Reg : /\ ~Root(x) => color[x] = alias[x]
                       /\ Root(x) => color[x] \in Phys
    BY <1>1 DEF SelectInv, Selecting, Root
  <1>3. alias[r] \in Reg /\ alias[alias[r]] = alias[r]
    BY Graph
  <1>4. color[r] = alias[r]
    BY <1>2 DEF Root
  <1>5. CASE alias[r] \in Phys
    <2>1. alias[r] \in Nat /\ alias[r] < NPhys /\ NPhys \in Nat
      BY <1>3, <1>5, RegistersAreNumbers, PhysAssumption
    <2>2. ~(alias[r] >= NPhys)
      BY <2>1
    <2>3. ~Root(alias[r])
      BY <1>5, Disjointness DEF Root
    <2> QED
      BY <1>2, <1>3, <1>4, <1>5, <2>2, <2>3 DEF ResolveCoalescedColor
  <1>6. CASE alias[r] \notin Phys
    <2>1. alias[r] \in Nat /\ ~(alias[r] < NPhys) /\ NPhys \in Nat /\ alias[r] \in Virtual
      BY <1>3, <1>6, RegistersAreNumbers, PhysAssumption
    <2>2. alias[r] >= NPhys
      BY <2>1
    <2>3. Root(alias[r])
      BY <1>3, <2>1 DEF Root
    <2> QED
      BY <1>2, <1>3, <1>4, <2>2, <2>3 DEF ResolveCoalescedColor
  <1> QED
    BY <1>5, <1>6

LEMMA StepCommit == ASSUME IInv, TypeOK', Commit PROVE IInv'
  <1> USE DEF IInv
  <1>1. /\ colorPc = "select" /\ colorPc' = "done" /\ stack = <<>> /\ spilled = {}
        /\ UNCHANGED <<adj, alias, owned, stack, used, snapshot, spilled, attempt>>
        /\ final' = color
        /\ color' = [r \in Reg |-> IF r \in owned /\ alias[r] # r
                      THEN ResolveCoalescedColor(color[r]) ELSE color[r]]
    BY DEF Commit, input, simplify, table, saved
  <1>2. Stacked = {} /\ attempt > 0 /\ mask \subseteq Phys /\ owned \subseteq Virtual
    BY <1>1 DEF Stacked, SelectInv, Selecting, TypeOK
  <1>3. \A r \in Reg : /\ ~Root(r) => color[r] = alias[r]
                       /\ Root(r) => color[r] \in Phys
    BY <1>1, <1>2 DEF SelectInv, Selecting, Root
  <1>4. \A r \in Reg : alias[r] \in Reg /\ alias[alias[r]] = alias[r]
                       /\ (r \in Phys => alias[r] = r)
    BY Graph
  <1>5. ASSUME NEW r \in Reg, alias[r] # r
        PROVE  ResolveCoalescedColor(color[r]) = color[alias[r]] /\ color[alias[r]] \in Phys
    BY <1>1, <1>5, Resolved
  <1>6. \A r \in Reg : color'[r] = color[r] \/ (alias[r] # r /\ color'[r] = color[alias[r]])
    BY <1>1, <1>5
  <1>7. ProperColoring'
    <2>1. \A r \in Reg : color'[r] \in Phys => color'[r] = color[alias[r]]
      <3> SUFFICES ASSUME NEW r \in Reg, color'[r] \in Phys
                   PROVE  color'[r] = color[alias[r]]
        OBVIOUS
      <3>1. CASE Root(r)
        BY <1>6, <3>1 DEF Root
      <3>2. CASE ~Root(r) /\ color'[r] = color[r]
        <4>1. color[r] = alias[r] /\ alias[r] \in Phys
          BY <1>3, <3>2
        <4>2. ~Root(alias[r]) /\ alias[alias[r]] = alias[r]
          BY <1>4, <4>1, Disjointness DEF Root
        <4>3. QED
          BY <1>3, <1>4, <3>2, <4>1, <4>2
      <3>3. QED
        BY <1>6, <3>1, <3>2
    <2>2. SUFFICES ASSUME NEW a \in Reg, NEW b \in Reg, b \in adj[a],
                          color'[a] \in Phys, color'[a] = color'[b]
                   PROVE  FALSE
      BY <1>1 DEF ProperColoring
    <2>3. color[alias[a]] = color[alias[b]] /\ color[alias[a]] \in Phys
      BY <2>1, <2>2
    <2>4. alias[b] \in adj[alias[a]]
      BY <2>2, Typed, AliasesDiffer
    <2>5. QED
      BY <1>4, <2>3, <2>4 DEF ProperColoring
  <1>8. DoneInv'
    <2>1. \A r \in Virtual : Root(r)' => color'[r] \in Phys /\ color'[r] = final'[r]
      BY <1>1, <1>3, <1>6, Disjointness DEF Root
    <2>2. ASSUME NEW r \in owned' PROVE color'[r] \in Phys /\ color'[r] = final'[alias'[r]]
      <3>1. r \in Virtual /\ r \in Reg
        BY <1>1, <1>2, <2>2, Disjointness
      <3>2. CASE alias[r] = r
        BY <1>1, <1>3, <1>6, <3>1, <3>2 DEF Root
      <3>3. CASE alias[r] # r
        BY <1>1, <1>5, <2>2, <3>1, <3>3
      <3>4. QED
        BY <3>2, <3>3
    <2>3. QED
      BY <1>1, <2>1, <2>2 DEF DoneInv
  <1>9. StackInv' /\ ScanInv' /\ SelectInv' /\ TableInv'
    BY <1>1 DEF StackInv, Stacked, Root, ScanInv, SelectInv, Selecting, TableInv
  <1>10. QED
    BY <1>7, <1>8, <1>9

LEMMA NextIInv == IInv /\ [Next]_vars => IInv'
  <1> SUFFICES ASSUME IInv, [Next]_vars PROVE IInv'
    OBVIOUS
  <1>1. TypeOK'
    BY TypeNext DEF IInv
  <1>2. CASE UNCHANGED vars
    <2>1. UNCHANGED <<adj, alias, cost, owned, stack, simplified, cursor, remaining,
                      used, snapshot, mask, color, spilled, final, attempt, colorPc>>
      BY <1>2 DEF vars, input, simplify, table, saved, select
    <2>2. StackInv' /\ Stacked' = Stacked /\ Listed' = Listed
      BY <2>1 DEF IInv, StackInv, Stacked, Listed, Root
    <2>3. ScanInv' /\ SelectInv'
      BY <2>1, <2>2 DEF IInv, ScanInv, SelectInv, Selecting, Root
    <2>4. DoneInv' /\ TableInv' /\ ProperColoring'
      BY <2>1 DEF IInv, DoneInv, TableInv, ProperColoring, Root
    <2>5. QED
      BY <1>1, <2>2, <2>3, <2>4 DEF IInv
  <1>3. CASE Step
    BY <1>1, <1>3, StepBegin, StepBuild, StepScan, StepRepeat, StepCandidate,
       StepBeginSelect, StepSelect, StepRetry, StepCommit DEF Step
  <1>4. QED
    BY <1>2, <1>3 DEF Next, Terminated

(***************************************************************************)
(* Every state of every run satisfies the invariant.                       *)
(***************************************************************************)
THEOREM InductiveInvariant == Spec => []IInv
  <1>1. QED
    BY InitIInv, NextIInv, PTL DEF Spec

(***************************************************************************)
(* Interfering nodes never hold one physical register: for every graph,    *)
(* every table of used registers and every attempt, claims included.       *)
(***************************************************************************)
THEOREM Proper == Spec => []ProperColoring
  <1>1. IInv => ProperColoring
    BY DEF IInv
  <1>2. QED
    BY InductiveInvariant, <1>1, PTL

(***************************************************************************)
(* Every node that was not coalesced is on the stack once, and leaves it   *)
(* with a register or as a spill.                                          *)
(***************************************************************************)
THEOREM StackedOnce == Spec => []EveryNodeStackedOnce
  <1>1. ASSUME IInv, colorPc \in {"select", "done"}, NEW r \in Virtual,
               alias[r] = r, attempt > 0
        PROVE  \/ r \in Stacked \/ color[r] \in Phys \/ r \in spilled
    <2>1. Root(r)
      BY <1>1 DEF Root
    <2>2. CASE colorPc = "select"
      BY <1>1, <2>1, <2>2 DEF IInv, SelectInv, Selecting, TypeOK
    <2>3. CASE colorPc = "done"
      BY <1>1, <2>1, <2>3 DEF IInv, DoneInv
    <2>4. QED
      BY <1>1, <2>2, <2>3
  <1>2. IInv => EveryNodeStackedOnce
    BY <1>1 DEF EveryNodeStackedOnce, IInv, StackInv, ScanInv, Stacked
  <1>3. QED
    BY InductiveInvariant, <1>2, PTL

(***************************************************************************)
(* After a commit a named object's register is the one that the operands   *)
(* naming its root were given.                                             *)
(***************************************************************************)
THEOREM ObjectsFollow == Spec => []ObjectsFollowOperands
  <1>1. IInv => ObjectsFollowOperands
    BY DEF IInv, DoneInv, ObjectsFollowOperands
  <1>2. QED
    BY InductiveInvariant, <1>1, PTL
-----------------------------------------------------------------------------
(***************************************************************************)
(* Low-degree nodes.  Below a low-degree node on the stack lie the nodes   *)
(* that were pushed before it; all its other neighbours, fewer than the    *)
(* limit, are the only ones that can hold a register when it is popped.    *)
(***************************************************************************)
Below(s, i) == { s[j] : j \in i + 1 .. Len(s) }

FreeAtEntry == FreeVolatile(snapshot) \cup (Saved \ snapshot)

LowInv ==
    /\ low \cap spilled = {}
    /\ colorPc = "scan" =>
         \A r \in Reg : degree[r] = Cardinality(adj[r] \ simplified)
    /\ colorPc \in {"scan", "select"} =>
         /\ limit <= Cardinality(FreeAtEntry)
         /\ \A i \in 1 .. Len(stack) :
              stack[i] \in low => Cardinality(adj[stack[i]] \ Below(stack, i)) < limit

LEMMA FreeIsFinite ==
    FreeAtEntry \in SUBSET Reg /\ IsFiniteSet(FreeAtEntry)
  BY Disjointness, RegistersAreFinite DEF FreeAtEntry, FreeVolatile

\* The registers that the members of a set hold are no more than the members.
LEMMA HeldIsSmall ==
    ASSUME TypeOK, NEW S \in SUBSET Reg, NEW T \in SUBSET { color[m] : m \in S }
    PROVE  Cardinality(T) <= Cardinality(S)
  <1> DEFINE img == { color[m] : m \in S }
             f == [m \in S |-> color[m]]
  <1>1. IsFiniteSet(S) /\ Cardinality(S) \in Nat
    BY RegistersAreFinite
  <1>2. f \in Surjection(S, img)
    BY DEF Surjection
  <1>3. IsFiniteSet(img) /\ Cardinality(img) <= Cardinality(S)
    BY <1>1, <1>2, FS_Surjection
  <1>4. IsFiniteSet(T) /\ Cardinality(T) <= Cardinality(img)
    BY <1>3, FS_Subset
  <1>5. Cardinality(T) \in Nat /\ Cardinality(img) \in Nat
    BY <1>3, <1>4, FS_CardinalityType
  <1>6. QED
    BY <1>1, <1>3, <1>4, <1>5

LEMMA BuildLow == ASSUME IInv, LowInv, IInv', BuildGraph PROVE LowInv'
  <1>1. PICK in \in Inputs : /\ adj' = in.adj
                             /\ degree' = [r \in Reg |-> Cardinality(in.adj[r])]
    BY DEF BuildGraph
  <1>2. /\ simplified' = {} /\ stack' = <<>> /\ spilled' = {} /\ colorPc = "build"
        /\ colorPc' = "scan" /\ UNCHANGED <<used, snapshot>>
        /\ limit' = Cardinality(Free)
    BY DEF BuildGraph, table, saved
  <1>3. \A r \in Reg : degree'[r] = Cardinality(adj'[r] \ simplified')
    <2>1. \A r \in Reg : adj'[r] \ {} = adj'[r]
      OBVIOUS
    <2>2. QED
      BY <1>1, <1>2, <2>1
  <1>4. limit' <= Cardinality(FreeAtEntry')
    <2>1. Free \subseteq FreeAtEntry
      BY <1>2, Disjointness DEF Free, FreeAtEntry, FreeVolatile, IInv, TableInv
    <2>2. Cardinality(Free) <= Cardinality(FreeAtEntry)
      BY <2>1, FreeIsFinite, FS_Subset
    <2>3. FreeAtEntry' = FreeAtEntry
      BY <1>2 DEF FreeAtEntry, FreeVolatile
    <2>4. QED
      BY <1>2, <2>2, <2>3
  <1>5. 1 .. Len(stack') = {}
    BY <1>2
  <1>6. QED
    BY <1>2, <1>3, <1>4, <1>5 DEF LowInv

\* A push lowers the degrees and keeps what is known of the nodes below.
LEMMA PushLow ==
    ASSUME IInv, LowInv, colorPc = "scan", NEW n, Root(n), n \notin simplified,
           PushNode(n), UNCHANGED <<adj, limit>>,
           \/ low' = low
           \/ low' = low \cup {n} /\ degree[n] < limit
    PROVE  /\ \A r \in Reg : degree'[r] = Cardinality(adj'[r] \ simplified')
           /\ \A i \in 1 .. Len(stack') : stack'[i] \in low' =>
                Cardinality(adj'[stack'[i]] \ Below(stack', i)) < limit'
  <1>1. /\ stack \in Seq(simplified) /\ n \in Reg /\ n \in simplified \cup {n}
        /\ stack' = <<n>> \o stack /\ simplified' = simplified \cup {n}
        /\ degree' = [r \in Reg |-> IF r \in adj[n] THEN degree[r] - 1 ELSE degree[r]]
        /\ simplified = Stacked /\ low \subseteq simplified
    BY Disjointness DEF PushNode, IInv, TypeOK, Root, ScanInv
  <1>2. /\ Len(stack') = Len(stack) + 1 /\ Len(stack) \in Nat
        /\ stack'[1] = n
        /\ \A i \in 1 .. Len(stack) : stack'[i + 1] = stack[i]
        /\ \A i \in 2 .. Len(stack) + 1 : stack'[i] = stack[i - 1]
    BY <1>1, PushedSequence, LenProperties
  <1>3. ASSUME NEW r \in Reg PROVE degree'[r] = Cardinality(adj'[r] \ simplified')
    <2> DEFINE S == adj[r] \ simplified
    <2>1. adj'[r] \ simplified' = S \ {n}
      BY <1>1
    <2>2. S \in SUBSET Reg
      BY Graph DEF IInv
    <2>3. Cardinality(S \ {n}) = IF n \in S THEN Cardinality(S) - 1 ELSE Cardinality(S)
      BY <2>2, RegistersAreFinite, FS_RemoveElement
    <2>4. n \in S <=> r \in adj[n]
      BY <1>1, Graph DEF IInv
    <2>5. degree[r] = Cardinality(S)
      BY DEF LowInv
    <2>6. QED
      BY <1>1, <2>1, <2>3, <2>4, <2>5
  <1>4. ASSUME NEW i \in 1 .. Len(stack'), stack'[i] \in low'
        PROVE  Cardinality(adj'[stack'[i]] \ Below(stack', i)) < limit'
    <2>1. CASE i = 1
      <3>1. degree[n] < limit
        BY <1>1, <1>2, <1>4, <2>1
      <3>2. Below(stack', 1) = Stacked
        <4>1. ASSUME NEW x \in Below(stack', 1) PROVE x \in Stacked
          <5>1. PICK j \in 2 .. Len(stack) + 1 : x = stack'[j]
            BY <1>2, <4>1 DEF Below
          <5>2. j - 1 \in 1 .. Len(stack)
            BY <1>2
          <5>3. QED
            BY <1>2, <5>1, <5>2 DEF Stacked
        <4>2. ASSUME NEW j \in 1 .. Len(stack) PROVE stack[j] \in Below(stack', 1)
          <5>1. j + 1 \in 1 + 1 .. Len(stack')
            BY <1>2
          <5>2. QED
            BY <1>2, <5>1 DEF Below
        <4>3. QED
          BY <4>1, <4>2 DEF Stacked
      <3>3. degree[n] = Cardinality(adj[n] \ simplified)
        BY <1>1 DEF LowInv
      <3>4. QED
        BY <1>1, <1>2, <2>1, <3>1, <3>2, <3>3
    <2>2. CASE i # 1
      <3>1. i \in 2 .. Len(stack) + 1 /\ i - 1 \in 1 .. Len(stack)
        BY <1>2, <2>2
      <3>2. stack'[i] = stack[i - 1] /\ stack[i - 1] \in simplified
        BY <1>1, <1>2, <3>1 DEF Stacked
      <3>3. Below(stack', i) = Below(stack, i - 1)
        <4>1. ASSUME NEW x \in Below(stack', i) PROVE x \in Below(stack, i - 1)
          <5>1. PICK j \in i + 1 .. Len(stack) + 1 : x = stack'[j]
            BY <1>2, <4>1 DEF Below
          <5>2. j - 1 \in (i - 1) + 1 .. Len(stack) /\ j \in 2 .. Len(stack) + 1
            BY <1>2, <3>1, <5>1
          <5>3. QED
            BY <1>2, <5>1, <5>2 DEF Below
        <4>2. ASSUME NEW j \in (i - 1) + 1 .. Len(stack)
              PROVE  stack[j] \in Below(stack', i)
          <5>1. j + 1 \in i + 1 .. Len(stack') /\ j \in 1 .. Len(stack)
            BY <1>2, <3>1
          <5>2. QED
            BY <1>2, <5>1 DEF Below
        <4>3. QED
          BY <4>1, <4>2 DEF Below
      <3>4. stack[i - 1] \in low
        BY <1>1, <1>4, <3>2
      <3>5. QED
        BY <3>1, <3>2, <3>3, <3>4 DEF LowInv
    <2>3. QED
      BY <2>1, <2>2
  <1>5. QED
    BY <1>3, <1>4

LEMMA ScanLow == ASSUME IInv, LowInv, IInv', ScanNode PROVE LowInv'
  <1>1. /\ colorPc = "scan" /\ colorPc' = "scan" /\ cursor \in Virtual
        /\ UNCHANGED <<adj, limit, snapshot, spilled, alias>> /\ spilled = {}
    <2>1. cursor \in NPhys .. RegCount /\ cursor < RegCount
      BY DEF ScanNode, IInv, TypeOK
    <2>2. NPhys \in Nat /\ RegCount \in Nat
      BY PhysAssumption, RegAssumption
    <2>3. cursor \in Virtual
      BY <2>1, <2>2 DEF Virtual
    <2>4. QED
      BY <2>3 DEF ScanNode, input, saved, select, IInv, ScanInv
  <1>2. FreeAtEntry' = FreeAtEntry
    BY <1>1 DEF FreeAtEntry, FreeVolatile
  <1>3. CASE UNCHANGED <<degree, simplified, stack, low>>
    BY <1>1, <1>2, <1>3 DEF LowInv, Below
  <1>4. CASE /\ cursor \notin simplified /\ alias[cursor] = cursor
             /\ degree[cursor] < limit /\ PushNode(cursor) /\ low' = low \cup {cursor}
    <2>1. Root(cursor)
      BY <1>1, <1>4 DEF Root
    <2>2. /\ \A r \in Reg : degree'[r] = Cardinality(adj'[r] \ simplified')
          /\ \A i \in 1 .. Len(stack') : stack'[i] \in low' =>
               Cardinality(adj'[stack'[i]] \ Below(stack', i)) < limit'
      BY <1>1, <1>4, <2>1, PushLow
    <2>3. QED
      BY <1>1, <1>2, <2>2 DEF LowInv
  <1>5. QED
    BY <1>3, <1>4 DEF ScanNode

LEMMA CandidateLow == ASSUME IInv, LowInv, IInv', PushCandidate PROVE LowInv'
  <1>1. PICK i \in 1 .. Len(remaining) : PushNode(remaining[i])
    BY DEF PushCandidate
  <1>2. /\ colorPc = "scan" /\ colorPc' = "scan" /\ low' = low
        /\ UNCHANGED <<adj, limit, snapshot, spilled, alias>>
    BY DEF PushCandidate, input, saved, select
  <1>3. FreeAtEntry' = FreeAtEntry
    BY <1>2 DEF FreeAtEntry, FreeVolatile
  <1>4. Root(remaining[i]) /\ remaining[i] \notin simplified
    BY <1>1, <1>2 DEF IInv, ScanInv, Listed
  <1>5. /\ \A r \in Reg : degree'[r] = Cardinality(adj'[r] \ simplified')
        /\ \A k \in 1 .. Len(stack') : stack'[k] \in low' =>
             Cardinality(adj'[stack'[k]] \ Below(stack', k)) < limit'
    BY <1>1, <1>2, <1>4, PushLow
  <1>6. QED
    BY <1>2, <1>3, <1>5 DEF LowInv

LEMMA SelectLow == ASSUME IInv, LowInv, IInv', SelectNode PROVE LowInv'
  <1> DEFINE n == Head(stack)
  <1>1. /\ colorPc = "select" /\ colorPc' = "select" /\ stack # <<>>
        /\ stack' = Tail(stack) /\ stack \in Seq(simplified)
        /\ UNCHANGED <<adj, limit, snapshot, low>>
    BY DEF SelectNode, input, saved, IInv, TypeOK
  <1>2. /\ Len(stack) \in Nat /\ Len(stack) # 0 /\ n = stack[1]
        /\ Len(stack') = Len(stack) - 1
        /\ \A i \in 1 .. Len(stack') : stack'[i] = stack[i + 1]
    <2>1. Len(stack) \in Nat /\ Len(stack) # 0 /\ Head(stack) = stack[1]
      BY <1>1, EmptySeq, SMT
    <2>2. QED
      BY <1>1, <2>1, HeadTailProperties
  <1>3. FreeAtEntry' = FreeAtEntry
    BY <1>1 DEF FreeAtEntry, FreeVolatile
  <1>4. ASSUME NEW i \in 1 .. Len(stack'), stack'[i] \in low'
        PROVE  Cardinality(adj'[stack'[i]] \ Below(stack', i)) < limit'
    <2>1. i + 1 \in 1 .. Len(stack) /\ stack'[i] = stack[i + 1]
      BY <1>2
    <2>2. Below(stack', i) = Below(stack, i + 1)
      <3>1. ASSUME NEW x \in Below(stack', i) PROVE x \in Below(stack, i + 1)
        <4>1. PICK j \in i + 1 .. Len(stack') : x = stack'[j]
          BY <3>1 DEF Below
        <4>2. j + 1 \in (i + 1) + 1 .. Len(stack) /\ j \in 1 .. Len(stack')
          BY <1>2, <4>1
        <4>3. QED
          BY <1>2, <4>1, <4>2 DEF Below
      <3>2. ASSUME NEW j \in (i + 1) + 1 .. Len(stack) PROVE stack[j] \in Below(stack', i)
        <4>1. j - 1 \in i + 1 .. Len(stack') /\ j - 1 \in 1 .. Len(stack')
              /\ (j - 1) + 1 = j
          BY <1>2
        <4>2. stack'[j - 1] = stack[j]
          BY <1>2, <4>1
        <4>3. QED
          BY <4>1, <4>2 DEF Below
      <3>3. QED
        BY <3>1, <3>2 DEF Below
    <2>3. QED
      BY <1>1, <1>4, <2>1, <2>2 DEF LowInv
  <1>5. ASSUME mask \subseteq Held(n), Saved \subseteq used PROVE n \notin low
    <2>1. SUFFICES ASSUME n \in low PROVE FALSE
      OBVIOUS
    <2> DEFINE S == adj[n] \ Below(stack, 1)
    <2>2. Cardinality(S) < limit /\ limit <= Cardinality(FreeAtEntry)
      <3>1. 1 \in 1 .. Len(stack)
        BY <1>2
      <3>2. QED
        BY <1>1, <1>2, <2>1, <3>1 DEF LowInv
    <2>3. FreeAtEntry \subseteq mask
      BY <1>1, <1>5 DEF IInv, TableInv, FreeAtEntry
    <2>4. n \in Reg /\ S \in SUBSET Reg
      BY <1>1, <2>1, Graph, Disjointness DEF IInv, TypeOK
    <2>5. FreeAtEntry \in SUBSET { color[m] : m \in S }
      <3>1. SUFFICES ASSUME NEW c \in FreeAtEntry PROVE \E m \in S : color[m] = c
        OBVIOUS
      <3>2. PICK m \in adj[n] : color[m] = c /\ c \in Phys
        BY <1>5, <2>3 DEF Held
      <3>3. m \notin Below(stack, 1)
        <4>1. SUFFICES ASSUME m \in Below(stack, 1) PROVE FALSE
          OBVIOUS
        <4>2. m \in Stacked
          BY <1>2, <4>1 DEF Below, Stacked
        <4>3. m \in Virtual /\ Root(m)
          BY <4>2 DEF IInv, StackInv, Root
        <4>4. color[m] = NoColor
          BY <1>1, <4>2, <4>3 DEF IInv, SelectInv, Selecting
        <4>5. QED
          BY <3>2, <4>4, Disjointness
      <3>4. QED
        BY <3>2, <3>3
    <2>6. Cardinality(FreeAtEntry) <= Cardinality(S)
      BY <2>4, <2>5, HeldIsSmall DEF IInv
    <2>7. /\ Cardinality(S) \in Nat /\ Cardinality(FreeAtEntry) \in Nat
          /\ limit \in Nat
      BY <2>4, FreeIsFinite, RegistersAreFinite DEF IInv, TypeOK
    <2> HIDE DEF S
    <2>8. QED
      BY <2>2, <2>6, <2>7
  <1>6. low' \cap spilled' = {}
    <2>1. CASE spilled' = spilled
      BY <1>1, <2>1 DEF LowInv
    <2>2. CASE /\ mask \ Held(n) = {} /\ Saved \subseteq used
               /\ spilled' = spilled \cup {n}
      <3>1. n \notin low
        BY <1>5, <2>2
      <3>2. QED
        BY <1>1, <2>2, <3>1 DEF LowInv
    <2>3. QED
      BY <2>1, <2>2 DEF SelectNode
  <1>7. QED
    BY <1>1, <1>3, <1>4, <1>6 DEF LowInv

LEMMA NextLow == IInv /\ LowInv /\ IInv' /\ [Next]_vars => LowInv'
  <1> SUFFICES ASSUME IInv, LowInv, IInv', [Next]_vars PROVE LowInv'
    OBVIOUS
  <1>1. CASE BuildGraph
    BY <1>1, BuildLow
  <1>2. CASE ScanNode
    BY <1>2, ScanLow
  <1>3. CASE PushCandidate
    BY <1>3, CandidateLow
  <1>4. CASE SelectNode
    BY <1>4, SelectLow
  <1>5. CASE BeginClass \/ SpillAndRetry \/ Commit
    <2>1. colorPc' \in {"build", "done", "error"} /\ low' = low /\ spilled' = spilled
      BY <1>5 DEF BeginClass, SpillAndRetry, Commit, simplify, select
    <2>2. QED
      BY <2>1 DEF LowInv
  <1>6. CASE RepeatScan \/ BeginSelect \/ UNCHANGED vars
    <2>1. /\ UNCHANGED <<adj, degree, simplified, stack, low, limit, snapshot, spilled>>
          /\ colorPc' \in {"scan", "select"} => colorPc \in {"scan", "select"}
          /\ colorPc' = "scan" => colorPc = "scan"
      BY <1>6 DEF RepeatScan, BeginSelect, vars, input, simplify, table, saved, select
    <2>2. FreeAtEntry' = FreeAtEntry
      BY <2>1 DEF FreeAtEntry, FreeVolatile
    <2>3. QED
      BY <2>1, <2>2 DEF LowInv, Below
  <1>7. QED
    BY <1>1, <1>2, <1>3, <1>4, <1>5, <1>6 DEF Next, Step, Terminated

(***************************************************************************)
(* A node pushed because its degree was below the limit is never spilled,  *)
(* for every graph and every table, on retries as well.                    *)
(***************************************************************************)
THEOREM LowDegreeNodesAreColored == Spec => []LowDegreeNeverSpills
  <1>1. Init => LowInv
    <2>1. ASSUME Init PROVE low = {} /\ colorPc = "idle"
      BY <2>1 DEF Init
    <2>2. QED
      BY <2>1 DEF LowInv
  <1>2. Spec => []LowInv
    BY <1>1, InductiveInvariant, NextLow, PTL DEF Spec
  <1>3. LowInv => LowDegreeNeverSpills
    BY DEF LowInv, LowDegreeNeverSpills
  <1>4. QED
    BY <1>2, <1>3, PTL
-----------------------------------------------------------------------------
(***************************************************************************)
(* What is counted beside the sets.  A node is listed when its degree has  *)
(* reached the limit, which is positive because binding leaves a volatile  *)
(* register, and a walk that pushes nothing leaves the degrees alone.  The *)
(* span follows every change of the table; the count of free registers     *)
(* does not, but only ever misses that a table was reset to a smaller one. *)
(***************************************************************************)
CountInv ==
    /\ colorPc = "idle" => FreeVolatile(used) # {} \/ Free = {}
    /\ colorPc # "idle" => used \ snapshot \subseteq Saved /\ snapSpan = SpanOf(snapshot)
    /\ colorPc \in {"build", "scan", "select"} => FreeVolatile(snapshot) # {}
    /\ colorPc = "scan" => limit > 0
    /\ colorPc = "scan" /\ ~changed => \A r \in Listed : degree[r] >= limit
    /\ span = SpanOf(used) /\ savedFree <= Cardinality(Saved \ used)
    /\ attempt > 0 => \A v \in Virtual : alias[v] \in Saved => alias[v] \in snapshot
    /\ attempt = 0 => \A r \in Reg : final[r] = NoColor
    /\ colorPc = "done" => \A r \in Virtual : final[r] \in Saved => final[r] \in used

\* The floor lies among the saved registers, so the count is of saved ones.
LEMMA CountOfSaved ==
    ASSUME NEW u \in SUBSET Phys
    PROVE  SavedFreeOf(u) <= Cardinality(Saved \ u)
  <1>1. { r \in Phys : r > SavedFloor /\ r \notin u } \subseteq Saved \ u
    BY FileAssumption, PhysAssumption DEF Phys, Saved
  <1>2. Saved \ u \in SUBSET Reg
    BY Disjointness
  <1> QED
    BY <1>1, <1>2, RegistersAreFinite, FS_Subset DEF SavedFreeOf

LEMMA InitCounts == Init => CountInv
  <1> SUFFICES ASSUME Init PROVE CountInv
    OBVIOUS
  <1>1. savedFree <= Cardinality(Saved \ used)
    BY CountOfSaved DEF Init
  <1> QED
    BY <1>1 DEF Init, CountInv

LEMMA BeginCounts == ASSUME IInv, CountInv, BeginClass PROVE CountInv'
  <1>1. /\ colorPc = "idle" /\ attempt = 0 /\ snapshot' = used /\ snapSpan' = span
        /\ colorPc' \in {"build", "done", "error"} /\ (colorPc' = "build" => Free # {})
        /\ UNCHANGED <<alias, used, span, savedFree, final, attempt>>
    BY DEF BeginClass, input, table, IInv, TableInv
  <1>2. colorPc' = "build" => FreeVolatile(snapshot)' # {}
    BY <1>1 DEF CountInv, FreeVolatile
  <1>3. used' \ snapshot' = {} /\ snapSpan' = SpanOf(snapshot')
    BY <1>1 DEF CountInv
  <1>4. \A r \in Reg : final'[r] = NoColor
    BY <1>1 DEF CountInv
  <1>5. \A r \in Virtual : final'[r] \notin Saved
    BY <1>4, Disjointness
  <1>6. span' = SpanOf(used') /\ savedFree' <= Cardinality(Saved \ used')
    BY <1>1 DEF CountInv
  <1> QED
    BY <1>1, <1>2, <1>3, <1>4, <1>5, <1>6 DEF CountInv

LEMMA BuildCounts == ASSUME IInv, CountInv, BuildGraph PROVE CountInv'
  <1>1. PICK in \in Inputs : Admissible(in) /\ alias' = in.alias
    BY DEF BuildGraph
  <1>2. /\ colorPc = "build" /\ colorPc' = "scan" /\ remaining' = <<>> /\ attempt' = attempt + 1
        /\ limit' = Cardinality(Free) /\ attempt \in Nat
        /\ UNCHANGED <<used, span, savedFree, snapshot, snapSpan, final>>
    BY DEF BuildGraph, StartScan, table, saved, IInv, TypeOK
  <1>3. PICK c : c \in FreeVolatile(snapshot)
    BY <1>2 DEF CountInv
  <1>4. c \in Free
    BY <1>2, <1>3, Disjointness DEF CountInv, FreeVolatile, Free
  <1>5. limit' > 0
    <2>1. IsFiniteSet(Free) /\ Cardinality(Free) \in Nat
      BY FreeIsFinite, RegistersAreFinite, Disjointness DEF Free
    <2>2. Cardinality(Free) # 0
      BY <1>4, <2>1, FS_EmptySet
    <2> QED
      BY <1>2, <2>1, <2>2
  <1>6. \A v \in Virtual : alias'[v] \in Saved => alias'[v] \in snapshot
    BY <1>1 DEF Admissible
  <1>7. Listed' = {}
    BY <1>2 DEF Listed
  <1>8. FreeVolatile(snapshot)' = FreeVolatile(snapshot)
    BY <1>2 DEF FreeVolatile
  <1> QED
    BY <1>2, <1>3, <1>5, <1>6, <1>7, <1>8 DEF CountInv

\* A walk that pushes leaves nothing to say of the degrees.
LEMMA ScanCounts == ASSUME IInv, CountInv, ScanNode PROVE CountInv'
  <1>1. /\ colorPc = "scan" /\ colorPc' = "scan" /\ attempt > 0
        /\ UNCHANGED <<alias, limit, used, span, savedFree, snapshot, snapSpan, final, attempt>>
    BY DEF ScanNode, input, table, saved, IInv, ScanInv
  <1>2. FreeVolatile(snapshot)' = FreeVolatile(snapshot)
    BY <1>1 DEF FreeVolatile
  <1>3. ~changed' => \A r \in Listed' : degree'[r] >= limit'
    <2>1. CASE UNCHANGED <<degree, changed, remaining>>
      BY <1>1, <2>1 DEF CountInv, Listed
    <2>2. CASE changed'
      BY <2>2
    <2>3. CASE /\ degree[cursor] >= limit /\ remaining' = <<cursor>> \o remaining
               /\ UNCHANGED <<degree, changed>>
      <3>1. Listed' = {cursor} \cup Listed
        <4>1. remaining \in Seq(Virtual) /\ cursor \in NPhys .. RegCount /\ cursor < RegCount
          BY DEF IInv, TypeOK, ScanNode
        <4>2. cursor \in Virtual
          BY <4>1, PhysAssumption, RegAssumption DEF Virtual
        <4> QED
          BY <2>3, <4>1, <4>2, ListedPushed DEF Listed
      <3> QED
        BY <1>1, <2>3, <3>1 DEF CountInv
    <2> QED
      BY <2>1, <2>2, <2>3 DEF ScanNode
  <1> QED
    BY <1>1, <1>2, <1>3 DEF CountInv

LEMMA RestartCounts ==
    ASSUME IInv, CountInv, RepeatScan \/ PushCandidate
    PROVE  CountInv'
  <1>1. /\ colorPc = "scan" /\ colorPc' = "scan" /\ remaining' = <<>> /\ attempt > 0
        /\ UNCHANGED <<alias, limit, used, span, savedFree, snapshot, snapSpan, final, attempt>>
    BY DEF RepeatScan, PushCandidate, StartScan, input, table, saved, IInv, ScanInv
  <1>2. Listed' = {} /\ FreeVolatile(snapshot)' = FreeVolatile(snapshot)
    BY <1>1 DEF Listed, FreeVolatile
  <1> QED
    BY <1>1, <1>2 DEF CountInv

LEMMA BeginSelectCounts == ASSUME IInv, CountInv, BeginSelect PROVE CountInv'
  <1>1. /\ colorPc = "scan" /\ colorPc' = "select" /\ used' = snapshot /\ span' = snapSpan
        /\ attempt > 0 /\ snapshot \subseteq used
        /\ UNCHANGED <<alias, savedFree, snapshot, snapSpan, final, attempt>>
    BY DEF BeginSelect, input, saved, IInv, ScanInv, TableInv
  <1>2. FreeVolatile(snapshot)' = FreeVolatile(snapshot)
    BY <1>1 DEF FreeVolatile
  <1>3. savedFree' <= Cardinality(Saved \ used')
    <2>1. Saved \ used \in SUBSET Reg /\ Saved \ used' \in SUBSET Reg
          /\ Saved \ used \subseteq Saved \ used'
      BY <1>1, Disjointness
    <2>2. /\ Cardinality(Saved \ used) \in Nat /\ Cardinality(Saved \ used') \in Nat
          /\ Cardinality(Saved \ used) <= Cardinality(Saved \ used')
      BY <2>1, RegistersAreFinite, FS_Subset
    <2>3. savedFree \in Nat /\ savedFree <= Cardinality(Saved \ used)
      BY DEF CountInv, IInv, TypeOK
    <2> QED
      BY <1>1, <2>2, <2>3
  <1> QED
    BY <1>1, <1>2, <1>3 DEF CountInv

LEMMA SelectCounts == ASSUME IInv, TypeOK', CountInv, SelectNode PROVE CountInv'
  <1>1. /\ colorPc = "select" /\ colorPc' = "select" /\ attempt > 0
        /\ UNCHANGED <<alias, snapshot, snapSpan, final, attempt>>
    BY DEF SelectNode, input, saved, IInv, SelectInv, Selecting
  <1>2. FreeVolatile(snapshot)' = FreeVolatile(snapshot)
    BY <1>1 DEF FreeVolatile
  <1>3. CASE UNCHANGED <<used, span, savedFree>>
    BY <1>1, <1>2, <1>3 DEF CountInv
  <1>4. CASE \E c \in Saved \ used : ClaimColor(c)
    <2>1. PICK c \in Saved \ used :
            used' = used \cup {c} /\ span' = SpanOf(used') /\ savedFree' = SavedFreeOf(used')
      BY <1>4 DEF ClaimColor
    <2>2. used' \in SUBSET Phys
      BY DEF TypeOK
    <2>3. savedFree' <= Cardinality(Saved \ used')
      BY <2>1, <2>2, CountOfSaved
    <2> QED
      BY <1>1, <1>2, <2>1, <2>3 DEF CountInv
  <1> QED
    BY <1>3, <1>4 DEF SelectNode, table

LEMMA CommitCounts == ASSUME IInv, CountInv, Commit PROVE CountInv'
  <1>1. /\ colorPc = "select" /\ colorPc' = "done" /\ stack = <<>> /\ spilled = {}
        /\ final' = color /\ attempt > 0
        /\ UNCHANGED <<alias, used, span, savedFree, snapshot, snapSpan, attempt>>
    BY DEF Commit, input, table, saved, IInv, SelectInv, Selecting
  <1>2. ASSUME NEW r \in Virtual, color[r] \in Saved PROVE color[r] \in used
    <2>1. Stacked = {} /\ snapshot \subseteq used
          /\ mask = FreeVolatile(snapshot) \cup (used \ snapshot)
      BY <1>1 DEF Stacked, IInv, TableInv
    <2>2. CASE Root(r)
      <3>1. color[r] \in mask
        BY <1>1, <2>1, <2>2 DEF IInv, SelectInv, Selecting
      <3> QED
        BY <1>2, <2>1, <3>1, Disjointness DEF FreeVolatile
    <2>3. CASE ~Root(r)
      <3>1. color[r] = alias[r]
        BY <1>1, <2>3, Disjointness DEF IInv, SelectInv, Selecting
      <3> QED
        BY <1>1, <1>2, <2>1, <3>1 DEF CountInv
    <2> QED
      BY <2>2, <2>3
  <1> QED
    BY <1>1, <1>2 DEF CountInv

LEMMA NextCounts == IInv /\ CountInv /\ TypeOK' /\ [Next]_vars => CountInv'
  <1> SUFFICES ASSUME IInv, CountInv, TypeOK', [Next]_vars PROVE CountInv'
    OBVIOUS
  <1>1. CASE SpillAndRetry
    <2>1. /\ colorPc = "select" /\ colorPc' = "build" /\ attempt > 0
          /\ UNCHANGED <<alias, used, span, savedFree, snapshot, snapSpan, final, attempt>>
      BY <1>1 DEF SpillAndRetry, input, table, saved, IInv, SelectInv, Selecting
    <2> QED
      BY <2>1 DEF CountInv, FreeVolatile
  <1>2. CASE UNCHANGED vars
    BY <1>2 DEF CountInv, Listed, Free, FreeVolatile, vars, input, simplify, table, saved
  <1> QED
    BY <1>1, <1>2, BeginCounts, BuildCounts, ScanCounts, RestartCounts, BeginSelectCounts,
       SelectCounts, CommitCounts DEF Next, Step, Terminated

(***************************************************************************)
(* For every graph and every table: no score divides by zero, the area     *)
(* that the prologue saves covers every saved register in an operand, and  *)
(* the count of free saved registers promises none that is taken.          *)
(***************************************************************************)
THEOREM Counts == Spec => []CountsAreRight
  <1>1. Spec => []CountInv
    <2>1. IInv => TypeOK
      BY DEF IInv
    <2> QED
      BY <2>1, InductiveInvariant, InitCounts, NextCounts, PTL DEF Spec
  <1>2. IInv /\ CountInv => ScoresAreDefined
    <2> SUFFICES ASSUME IInv, CountInv, colorPc = "scan", ~changed,
                        NEW i \in 1 .. Len(remaining)
                 PROVE  degree[remaining[i]] > 0
      BY DEF ScoresAreDefined
    <2>1. remaining[i] \in Listed
      BY DEF Listed
    <2>2. degree[remaining[i]] >= limit /\ limit > 0 /\ limit \in Nat
      BY <2>1 DEF CountInv, IInv, TypeOK
    <2>3. degree[remaining[i]] \in Int
      <3>1. remaining[i] \in Virtual
        BY DEF IInv, TypeOK
      <3> QED
        BY <3>1, Disjointness DEF IInv, TypeOK
    <2> QED
      BY <2>2, <2>3
  <1>3. IInv /\ CountInv => SaveAreaCovers
    <2> SUFFICES ASSUME IInv, CountInv, colorPc = "done",
                        NEW r \in Virtual, final[r] \in Saved
                 PROVE  final[r] \in used /\ final[r] >= NPhys - span
      BY DEF SaveAreaCovers
    <2>1. final[r] \in used \cap Saved /\ span = SpanOf(used)
      BY DEF CountInv
    <2>2. used \cap Saved \in SUBSET Nat
      BY Disjointness, RegistersAreNumbers
    <2>3. LowestOf(used \cap Saved) \in Nat /\ LowestOf(used \cap Saved) <= final[r]
      BY <2>1, <2>2, LowestIsMember
    <2>4. span = NPhys - LowestOf(used \cap Saved)
      BY <2>1 DEF SpanOf
    <2> QED
      BY <2>1, <2>2, <2>3, <2>4, PhysAssumption
  <1>4. CountInv => SavedCountNeverOverstates
    BY DEF CountInv, SavedCountNeverOverstates
  <1>5. IInv /\ CountInv => CountsAreRight
    BY <1>2, <1>3, <1>4 DEF CountsAreRight
  <1> QED
    BY <1>1, <1>5, InductiveInvariant, PTL
-----------------------------------------------------------------------------
(***************************************************************************)
(* The refinement.  A turn of the retry loop is Load, a node off the stack *)
(* is Assign or Spill, the commit is Commit, and the walks of the          *)
(* simplification are stuttering steps.                                    *)
(***************************************************************************)
LEMMA SameRegisters ==
    /\ Abstract!Reg = Reg /\ Abstract!Phys = Phys /\ Abstract!Virtual = Virtual
    /\ \A n : Abstract!Held(n) = Held(n)
  BY DEF Abstract!Reg, Abstract!Phys, Abstract!Virtual, Abstract!Held, Reg, Phys, Virtual, Held

\* With an empty stack no node waits for a register.
LEMMA NothingPending ==
    ASSUME IInv, Selecting, stack = <<>>
    PROVE  \A n \in Abstract!Reg : ~Abstract!Pending(n)
  <1> SUFFICES ASSUME NEW n \in Virtual, Root(n), color[n] = NoColor, n \notin spilled
               PROVE  FALSE
    BY SameRegisters DEF Abstract!Pending, Root
  <1>1. Stacked = {} /\ mask \subseteq Phys
    BY DEF Stacked, IInv, TypeOK
  <1> QED
    BY <1>1, Disjointness DEF IInv, SelectInv

\* What selection hands out before the mask is used up is assignable.
LEMMA AssignableRegisters ==
    ASSUME IInv, colorPc = "select"
    PROVE  /\ mask \subseteq Assignable
           /\ Assignable = FreeVolatile(snapshot) \cup (Saved \ snapshot)
           /\ Assignable \ mask = Saved \ used
           /\ Phase = "coloring"
  <1>1. /\ attempt > 0 /\ attempt \in Nat /\ snapshot \subseteq used
        /\ mask = FreeVolatile(snapshot) \cup (used \ snapshot)
        /\ used \ snapshot \subseteq Saved
    BY DEF IInv, SelectInv, Selecting, TableInv, TypeOK
  <1>2. Assignable = FreeVolatile(snapshot) \cup (Saved \ snapshot) /\ Phase = "coloring"
    BY <1>1 DEF Assignable, Phase
  <1>3. FreeVolatile(snapshot) \cap Saved = {}
    BY Disjointness DEF FreeVolatile
  <1> QED
    BY <1>1, <1>2, <1>3

LEMMA RefinesInit == Init => Abstract!Init
  BY SameRegisters DEF Init, Abstract!Init, Phase

\* The steps of a simplification and the request for spill code.
LEMMA Stuttering ==
    ASSUME UNCHANGED <<adj, alias, color, spilled, snapshot, attempt>>,
           colorPc \notin {"idle", "done", "error"}, colorPc' \notin {"idle", "done", "error"}
    PROVE  UNCHANGED Abstract!vars
  BY DEF Abstract!vars, Assignable, Phase, FreeVolatile

LEMMA RefinesBegin == ASSUME IInv, BeginClass PROVE [Abstract!Next]_(Abstract!vars)
  <1>1. /\ colorPc = "idle" /\ colorPc' \in {"done", "error", "build"} /\ attempt = 0
        /\ UNCHANGED <<adj, alias, color, spilled, attempt>>
    BY DEF BeginClass, input, select, IInv, TableInv
  <1>2. Phase = "idle" /\ Assignable = {} /\ Assignable' = {}
    BY <1>1 DEF Phase, Assignable
  <1>3. Phase' = IF colorPc' = "build" THEN "idle" ELSE colorPc'
    BY <1>1 DEF Phase
  <1>4. CASE colorPc' = "build"
    BY <1>1, <1>2, <1>3, <1>4 DEF Abstract!vars
  <1>5. CASE colorPc' # "build"
    BY <1>1, <1>2, <1>3, <1>5 DEF Abstract!Next, Abstract!Stop
  <1> QED
    BY <1>4, <1>5

LEMMA RefinesBuild == ASSUME IInv, BuildGraph PROVE Abstract!Load
  <1>1. /\ colorPc = "build" /\ colorPc' = "scan" /\ attempt' = attempt + 1
        /\ color' = StartColors(alias') /\ spilled' = {} /\ UNCHANGED snapshot
        /\ attempt \in Nat
    BY DEF BuildGraph, saved, IInv, TypeOK
  <1>2. Phase' = "coloring" /\ Phase = IF attempt = 0 THEN "idle" ELSE "coloring"
    BY <1>1 DEF Phase
  <1>3. ASSUME attempt # 0
        PROVE  spilled # {} /\ stack = <<>> /\ Selecting /\ Assignable' = Assignable
    <2>1. Selecting
      BY <1>1, <1>3 DEF Selecting
    <2> QED
      BY <1>1, <1>3, <2>1 DEF IInv, SelectInv, Assignable, FreeVolatile
  <1>4. attempt # 0 => \A n \in Abstract!Reg : ~Abstract!Pending(n)
    BY <1>3, NothingPending
  <1> QED
    BY <1>1, <1>2, <1>3, <1>4, SameRegisters DEF Abstract!Load, StartColors

LEMMA RefinesSelect == ASSUME IInv, SelectNode PROVE Abstract!Assign \/ Abstract!Spill
  <1> USE DEF IInv
  <1> DEFINE n == Head(stack)
             available == mask \ Held(n)
  <1>1. /\ colorPc = "select" /\ colorPc' = "select" /\ stack # <<>>
        /\ UNCHANGED <<adj, alias, snapshot, attempt>>
    BY DEF SelectNode, input, saved
  <1>2. n \in Stacked
    BY <1>1 DEF TypeOK, Stacked
  <1>3. Root(n) /\ n \in Reg /\ color[n] = NoColor /\ n \notin spilled
    BY <1>1, <1>2, Disjointness DEF StackInv, SelectInv, Selecting, Root
  <1>4. Abstract!Pending(n) /\ n \in Abstract!Reg
    BY <1>3, SameRegisters DEF Abstract!Pending, Root
  <1>5. /\ Phase = "coloring" /\ Phase' = Phase /\ Assignable' = Assignable
        /\ mask \subseteq Assignable /\ Assignable \ mask = Saved \ used
    BY <1>1, AssignableRegisters DEF Phase, Assignable, FreeVolatile
  <1> HIDE DEF n
  <1>6. ASSUME NEW c \in Assignable \ Held(n), color' = [color EXCEPT ![n] = c],
               UNCHANGED spilled
        PROVE  Abstract!Assign
    BY <1>1, <1>4, <1>5, <1>6, SameRegisters DEF Abstract!Assign
  <1>7. CASE available # {} /\ color' = [color EXCEPT ![n] = LowestOf(available)]
             /\ UNCHANGED spilled
    <2>1. available \in SUBSET Nat
      BY RegistersAreNumbers, Disjointness DEF TypeOK
    <2>2. LowestOf(available) \in available
      BY <1>7, <2>1, LowestIsMember
    <2> QED
      BY <1>5, <1>6, <1>7, <2>2
  <1>8. CASE available = {} /\ Saved \subseteq used /\ spilled' = spilled \cup {n}
             /\ UNCHANGED color
    <2>1. Assignable \subseteq Held(n)
      BY <1>5, <1>8
    <2> QED
      BY <1>1, <1>4, <1>5, <1>8, <2>1, SameRegisters DEF Abstract!Spill
  <1>9. CASE \E c \in Saved \ used : color' = [color EXCEPT ![n] = c] /\ UNCHANGED spilled
    BY <1>1, <1>3, <1>5, <1>6, <1>9, ClaimedIsFree
  <1> QED
    BY <1>7, <1>8, <1>9 DEF SelectNode, n

LEMMA RefinesCommit == ASSUME IInv, Commit PROVE Abstract!Commit
  <1>1. /\ colorPc = "select" /\ colorPc' = "done" /\ stack = <<>> /\ spilled = {}
        /\ UNCHANGED <<adj, alias, spilled, snapshot, attempt>> /\ owned \subseteq Virtual
        /\ color' = [r \in Reg |-> IF r \in owned /\ alias[r] # r
                      THEN ResolveCoalescedColor(color[r]) ELSE color[r]]
    BY DEF Commit, input, simplify, table, saved, IInv, TypeOK
  <1>2. Phase = "coloring" /\ Phase' = "done" /\ Assignable' = Assignable
    BY <1>1, AssignableRegisters DEF Phase, Assignable, FreeVolatile
  <1>3. \A n \in Abstract!Reg : ~Abstract!Pending(n)
    BY <1>1, NothingPending DEF Selecting
  <1>4. color' = [r \in Reg |-> IF r \in owned THEN color[alias[r]] ELSE color[r]]
    BY <1>1, Resolved
  <1> QED
    BY <1>1, <1>2, <1>3, <1>4, SameRegisters DEF Abstract!Commit

LEMMA RefinesNext == IInv /\ [Next]_vars => [Abstract!Next]_(Abstract!vars)
  <1> SUFFICES ASSUME IInv, [Next]_vars PROVE [Abstract!Next]_(Abstract!vars)
    OBVIOUS
  <1>1. CASE BeginClass
    BY <1>1, RefinesBegin
  <1>2. CASE BuildGraph
    BY <1>2, RefinesBuild DEF Abstract!Next
  <1>3. CASE ScanNode \/ RepeatScan \/ PushCandidate
    <2>1. /\ colorPc = "scan" /\ UNCHANGED <<adj, alias, color, spilled, snapshot, attempt, colorPc>>
      BY <1>3 DEF ScanNode, RepeatScan, PushCandidate, input, saved, select
    <2> QED
      BY <2>1, Stuttering
  <1>4. CASE BeginSelect
    BY <1>4, Stuttering DEF BeginSelect, input, saved
  <1>5. CASE SelectNode
    BY <1>5, RefinesSelect DEF Abstract!Next
  <1>6. CASE SpillAndRetry
    BY <1>6, Stuttering DEF SpillAndRetry, input, saved, select
  <1>7. CASE Commit
    BY <1>7, RefinesCommit DEF Abstract!Next
  <1>8. CASE UNCHANGED vars
    BY <1>8 DEF vars, input, saved, select, Abstract!vars, Assignable, Phase, FreeVolatile
  <1> QED
    BY <1>1, <1>2, <1>3, <1>4, <1>5, <1>6, <1>7, <1>8 DEF Next, Step, Terminated

(***************************************************************************)
(* Coloring.c implements the abstract colouring, for every graph, table of *)
(* used registers and number of attempts: a register is given out when no  *)
(* neighbour holds it, and a node spills only when its neighbours hold all.*)
(***************************************************************************)
THEOREM Refinement == Spec => RefinesGraphColoring
  <1> QED
    BY InductiveInvariant, RefinesInit, RefinesNext, PTL DEF RefinesGraphColoring, Abstract!Spec, Spec
-----------------------------------------------------------------------------
Model == INSTANCE ColoringModelProofs WITH
             FirstVirtual <- NPhys, FirstSavedColor <- FirstSaved

\* A snapshot of a graph of this class.
OfClass(s) ==
  /\ Model!IsSnapshot(s) /\ Model!AreRanks(s, ByNumber)
  /\ Model!Nodes(s) = Reg /\ s.active \subseteq Virtual
  /\ \A r \in Reg : s.parent[s.parent[r]] = s.parent[r]

\* The snapshot of a graph.
Snapshot(in) == [neighbors |-> in.adj, parent |-> in.alias, cost |-> in.cost,
                 extra |-> [r \in Reg |-> 0],
                 active |-> { r \in Virtual : in.alias[r] = r }]

LEMMA SnapshotOfClass ==
    ASSUME NEW in, IsInput(in)
    PROVE  OfClass(Snapshot(in))
  <1> DEFINE s == Snapshot(in)
  <1>1. /\ s.neighbors = in.adj /\ s.parent = in.alias /\ s.cost = in.cost
        /\ s.extra = [r \in Reg |-> 0] /\ s.active \subseteq Virtual
    BY DEF Snapshot
  <1>2. /\ in.adj \in [Reg -> SUBSET Reg] /\ in.alias \in [Reg -> Reg] /\ in.cost \in [Reg -> Nat]
        /\ \A r \in Reg : in.alias[in.alias[r]] = in.alias[r]
    BY DEF IsInput
  <1>3. Virtual \subseteq Reg /\ Reg \subseteq Nat
    BY RegistersAreNumbers
  <1>5. Model!IsFiniteSet(Reg)
    BY Model!NumbersAreFinite, RegAssumption DEF Reg
  <1> HIDE DEF s
  <1>4. Model!Nodes(s) = Reg
    BY <1>1, <1>2 DEF Model!Nodes
  <1>6. Model!IsSnapshot(s)
    <2>1. s.neighbors \in [Reg -> SUBSET Reg] /\ s.parent \in [Reg -> Reg]
      BY <1>1, <1>2
    <2>2. s.cost \in [Reg -> Nat] /\ s.extra \in [Reg -> Nat]
      BY <1>1, <1>2
    <2>3. s.active \subseteq Virtual
      BY <1>1
    <2>4. s.active \subseteq Reg
      BY <1>3, <2>3
    <2> QED
      BY <1>3, <1>4, <1>5, <2>1, <2>2, <2>4 DEF Model!IsSnapshot
  <1>7. Model!AreRanks(s, ByNumber)
    <2>1. s.active \subseteq Virtual
      BY <1>1
    <2>2. \A r \in Virtual : ByNumber[r] = r /\ r \in Int
      BY <1>3 DEF ByNumber
    <2> QED
      BY <2>1, <2>2 DEF Model!AreRanks
  <1> QED
    BY <1>1, <1>2, <1>4, <1>6, <1>7 DEF OfClass, s

LEMMA CapturedIsOfClass ==
    /\ TypeOK => OfClass(Captured)
    /\ TypeOK' => OfClass(Captured')
  <1> DEFINE in == [adj |-> adj, alias |-> alias, cost |-> cost]
  <1>1. Captured = Snapshot(in) /\ Captured' = Snapshot(in')
    BY DEF Captured, Snapshot
  <1>2. TypeOK => IsInput(in)
    BY DEF TypeOK
  <1>3. TypeOK' => IsInput(in')
    BY DEF TypeOK, IsInput
  <1> HIDE DEF in
  <1> QED
    BY <1>1, <1>2, <1>3, SnapshotOfClass
-----------------------------------------------------------------------------
(***************************************************************************)
(* The compiler's walk over the numbers and the tool's sweep over a queue. *)
(***************************************************************************)
Rest(s, o)     == s.active \ Model!ToSet(o)
Passed(s, o, c) == { y \in Rest(s, o) : y < c }
Turns(s, o, c) == Model!Cardinality(Passed(s, o, c))

\* The walk has come to c in the sweep that g unfolds, with line for a stack.
Walking(s, k, o, g, c, line, left, flag) ==
  /\ Model!Reaches(s, k, ByNumber, o)
  /\ Model!SweepRun(g, s, k, ByNumber, o)
  /\ g[Turns(s, o, c)] = [order |-> Model!Reverse(line), left |-> left, changed |-> flag]
  /\ Model!ToSet(line) \subseteq Model!ToSet(o) \cup 0 .. c - 1

LEMMA SameCardinality == \A S : Model!Cardinality(S) = Cardinality(S)
  BY SMT DEF Model!Cardinality, Cardinality

LEMMA SameFiniteSet == \A S : Model!IsFiniteSet(S) <=> IsFiniteSet(S)
  BY DEF Model!IsFiniteSet, IsFiniteSet

LEMMA QueueByNumber ==
    ASSUME NEW s, OfClass(s), NEW o
    PROVE  /\ Len(Model!Queue(s, ByNumber, o)) = Turns(s, o, RegCount)
           /\ Turns(s, o, NPhys) = 0
           /\ \A c \in Rest(s, o) :
                /\ Turns(s, o, c) + 1 \in 1 .. Len(Model!Queue(s, ByNumber, o))
                /\ Turns(s, o, c) \in 0 .. Len(Model!Queue(s, ByNumber, o))
                /\ Model!Queue(s, ByNumber, o)[Turns(s, o, c) + 1] = c
                /\ Turns(s, o, c + 1) = Turns(s, o, c) + 1
           /\ \A c \in Nat : c \notin Rest(s, o) => Turns(s, o, c + 1) = Turns(s, o, c)
  <1> DEFINE S == Rest(s, o)
             q == Model!Queue(s, ByNumber, o)
  <1>1. /\ Model!IsFiniteSet(S) /\ Model!Enumerates(q, S, ByNumber)
        /\ Len(q) = Model!Cardinality(S) /\ Model!Cardinality(S) \in Nat
    BY Model!QueueOfTheRest DEF OfClass, Rest
  <1>2. S \subseteq Virtual /\ Virtual \subseteq Nat /\ \A y \in S : NPhys <= y /\ y < RegCount
    BY RegistersAreNumbers, PhysAssumption, RegAssumption DEF OfClass, Rest, Virtual
  <1>3. \A y \in S : ByNumber[y] = y
    BY <1>2 DEF ByNumber
  <1> HIDE DEF S, q
  <1>4. \A c : Passed(s, o, c) = { y \in S : y < c }
    BY DEF Passed, S
  <1>5. Passed(s, o, RegCount) = S /\ Passed(s, o, NPhys) = {}
    <2>1. \A y \in S : y < RegCount /\ ~(y < NPhys)
      BY <1>2, PhysAssumption
    <2> QED
      BY <1>4, <2>1
  <1>6. ASSUME NEW c \in S
        PROVE  /\ Turns(s, o, c) + 1 \in 1 .. Len(q) /\ q[Turns(s, o, c) + 1] = c
               /\ Turns(s, o, c) \in Nat /\ Turns(s, o, c + 1) = Turns(s, o, c) + 1
    <2>1. Model!Earlier(S, ByNumber, c) = Passed(s, o, c)
      BY <1>2, <1>3, <1>4 DEF Model!Earlier
    <2>2. /\ Turns(s, o, c) + 1 \in 1 .. Model!Cardinality(S)
          /\ q[Turns(s, o, c) + 1] = c
      BY <1>1, <2>1 DEF Model!Enumerates, Turns
    <2>3. Passed(s, o, c + 1) = Passed(s, o, c) \cup {c} /\ c \notin Passed(s, o, c)
      <3>1. c \in Nat /\ \A y \in S : y < c + 1 <=> y < c \/ y = c
        BY <1>2
      <3>2. ~(c < c)
        BY <3>1
      <3> QED
        BY <1>4, <3>1, <3>2
    <2>4. Passed(s, o, c) \subseteq S
      BY <1>4
    <2>5. /\ IsFiniteSet(Passed(s, o, c)) /\ Cardinality(Passed(s, o, c)) \in Nat
      BY <1>1, <2>4, FS_Subset, FS_CardinalityType, SameFiniteSet
    <2>6. Cardinality(Passed(s, o, c + 1)) = Cardinality(Passed(s, o, c)) + 1
      BY <2>3, <2>5, FS_AddElement
    <2> QED
      BY <1>1, <2>2, <2>5, <2>6, SameCardinality DEF Turns
  <1>7. ASSUME NEW c \in Nat, c \notin S
        PROVE  Turns(s, o, c + 1) = Turns(s, o, c)
    <2>1. Passed(s, o, c + 1) = Passed(s, o, c)
      <3>1. \A y \in S : y < c + 1 <=> y < c
        BY <1>2, <1>7
      <3> QED
        BY <1>4, <3>1
    <2> QED
      BY <2>1 DEF Turns
  <1>8. Turns(s, o, RegCount) = Len(q) /\ Turns(s, o, NPhys) = 0
    <2>1. Cardinality({}) = 0
      BY FS_EmptySet
    <2> QED
      BY <1>1, <1>5, <2>1, SameCardinality DEF Turns
  <1>9. \A c \in S : Turns(s, o, c) \in 0 .. Len(q)
    BY <1>1, <1>6
  <1> QED
    BY <1>6, <1>7, <1>8, <1>9 DEF S, q

LEMMA WalkStarts ==
    ASSUME NEW s, OfClass(s), NEW k, NEW o, Model!Reaches(s, k, ByNumber, o),
           NEW line, Model!Reverse(line) = o, Model!ToSet(line) \subseteq Model!ToSet(o)
    PROVE  \E g : Walking(s, k, o, g, NPhys, line, <<>>, FALSE)
  <1>1. o \in Seq(s.active)
    BY DEF Model!Reaches, Model!IsOrder
  <1>2. PICK g : Model!SweepRun(g, s, k, ByNumber, o)
    BY <1>1, Model!SweepUnfolds DEF OfClass
  <1>3. g[0] = [order |-> o, left |-> <<>>, changed |-> FALSE]
    BY <1>2 DEF Model!SweepRun
  <1>4. Turns(s, o, NPhys) = 0
    BY QueueByNumber
  <1> QED
    BY <1>2, <1>3, <1>4 DEF Walking

LEMMA WalkPasses ==
    ASSUME NEW s, OfClass(s), NEW k, NEW o, NEW g, NEW c \in Nat, NEW line, NEW left, NEW flag,
           Walking(s, k, o, g, c, line, left, flag), c \notin Rest(s, o)
    PROVE  Walking(s, k, o, g, c + 1, line, left, flag)
  <1>1. Turns(s, o, c + 1) = Turns(s, o, c)
    BY QueueByNumber
  <1>2. 0 .. c - 1 \subseteq 0 .. (c + 1) - 1
    OBVIOUS
  <1> QED
    BY <1>1, <1>2 DEF Walking

LEMMA ReverseOfPushed ==
    ASSUME NEW S, NEW line \in Seq(S), NEW c \in S
    PROVE  Model!Reverse(<<c>> \o line) = Append(Model!Reverse(line), c)
  <1> DEFINE w == <<c>> \o line
             p == Model!Reverse(line)
             N == Len(line)
  <1>1. /\ w \in Seq(S) /\ Len(w) = N + 1 /\ w[1] = c
        /\ \A i \in 1 .. N : w[i + 1] = line[i]
    BY Model!PushedOne
  <1>2. p \in Seq(S) /\ Len(p) = N /\ \A i \in 1 .. N : p[i] = line[N - i + 1]
    BY Model!ReverseOfSequence
  <1>3. N \in Nat
    OBVIOUS
  <1> HIDE DEF w, p, N
  <1>4. /\ Model!Reverse(w) \in Seq(S) /\ Len(Model!Reverse(w)) = N + 1
        /\ \A i \in 1 .. N + 1 : Model!Reverse(w)[i] = w[(N + 1) - i + 1]
    BY <1>1, Model!ReverseOfSequence
  <1>5. /\ Append(p, c) \in Seq(S) /\ Len(Append(p, c)) = N + 1
        /\ \A i \in 1 .. N : Append(p, c)[i] = p[i]
        /\ Append(p, c)[N + 1] = c
    BY <1>2, Model!AppendedOne
  <1>6. ASSUME NEW i \in 1 .. N + 1 PROVE Model!Reverse(w)[i] = Append(p, c)[i]
    <2>1. CASE i = N + 1
      <3>1. (N + 1) - i + 1 = 1
        BY <1>3, <2>1
      <3> QED
        BY <1>1, <1>4, <1>5, <2>1, <3>1
    <2>2. CASE i # N + 1
      <3>1. i \in 1 .. N /\ (N + 1) - i + 1 = (N - i + 1) + 1 /\ N - i + 1 \in 1 .. N
        BY <1>3, <2>2
      <3> QED
        BY <1>1, <1>2, <1>4, <1>5, <3>1
    <2> QED
      BY <2>1, <2>2
  <1> QED
    BY <1>3, <1>4, <1>5, <1>6, Model!SameSequence DEF w, p

LEMMA WalkTurns ==
    ASSUME NEW s, OfClass(s), NEW k, NEW o, NEW g, NEW c \in Rest(s, o),
           NEW line \in Seq(s.active), NEW left, NEW flag,
           Walking(s, k, o, g, c, line, left, flag)
    PROVE  IF Model!Degree(s, Model!Reverse(line), c) < k
           THEN Walking(s, k, o, g, c + 1, <<c>> \o line, left, TRUE)
           ELSE Walking(s, k, o, g, c + 1, line, <<c>> \o left, flag)
  <1> DEFINE n == Turns(s, o, c)
             q == Model!Queue(s, ByNumber, o)
             x == [order |-> Model!Reverse(line), left |-> left, changed |-> flag]
  <1>1. /\ n + 1 \in 1 .. Len(q) /\ n \in 0 .. Len(q) /\ q[n + 1] = c
        /\ Turns(s, o, c + 1) = n + 1
    BY QueueByNumber
  <1>2. c \in s.active /\ c \in Nat
    BY RegistersAreNumbers DEF OfClass, Rest
  <1>3. g[n] = x /\ \A m \in 1 .. Len(q) : g[m] = Model!SweepOne(s, k, g[m - 1], q[m])
    BY DEF Walking, Model!SweepRun
  <1> HIDE DEF n, q
  <1>4. g[n + 1] = Model!SweepOne(s, k, x, c)
    <2>1. (n + 1) - 1 = n
      BY <1>1
    <2> QED
      BY <1>1, <1>3, <2>1
  <1>5. Model!ToSet(line) \subseteq Model!ToSet(o) \cup 0 .. (c + 1) - 1
    <2>1. 0 .. c - 1 \subseteq 0 .. (c + 1) - 1
      BY <1>2
    <2> QED
      BY <2>1 DEF Walking
  <1>6. Model!Reaches(s, k, ByNumber, o) /\ Model!SweepRun(g, s, k, ByNumber, o)
    BY DEF Walking
  <1>7. CASE Model!Degree(s, Model!Reverse(line), c) < k
    <2>1. g[n + 1] = [order |-> Append(Model!Reverse(line), c), left |-> left, changed |-> TRUE]
      BY <1>4, <1>7 DEF Model!SweepOne
    <2>2. Model!Reverse(<<c>> \o line) = Append(Model!Reverse(line), c)
      BY <1>2, ReverseOfPushed
    <2>3. Model!ToSet(<<c>> \o line) = Model!ToSet(line) \cup {c} /\ c \in 0 .. (c + 1) - 1
      BY <1>2, Model!PushedOne
    <2>4. Model!ToSet(<<c>> \o line) \subseteq Model!ToSet(o) \cup 0 .. (c + 1) - 1
      BY <1>5, <2>3
    <2>5. g[Turns(s, o, c + 1)] = [order |-> Model!Reverse(<<c>> \o line), left |-> left, changed |-> TRUE]
      BY <1>1, <2>1, <2>2
    <2> QED
      BY <1>6, <1>7, <2>4, <2>5 DEF Walking
  <1>8. CASE ~(Model!Degree(s, Model!Reverse(line), c) < k)
    <2>1. g[n + 1] = [order |-> Model!Reverse(line), left |-> <<c>> \o left, changed |-> flag]
      BY <1>4, <1>8 DEF Model!SweepOne
    <2> QED
      BY <1>1, <1>5, <1>6, <1>8, <2>1 DEF Walking
  <1> QED
    BY <1>7, <1>8

\* What a walk starts with stays removed.
LEMMA WalkGrows ==
    ASSUME NEW s, OfClass(s), NEW k, NEW o, NEW g, NEW c,
           NEW line \in Seq(s.active), NEW left, NEW flag,
           Walking(s, k, o, g, c, line, left, flag)
    PROVE  Model!ToSet(o) \subseteq Model!ToSet(line)
  <1> DEFINE n == Turns(s, o, c)
             q == Model!Queue(s, ByNumber, o)
             x == [order |-> Model!Reverse(line), left |-> left, changed |-> flag]
  <1>1. o \in Seq(s.active) /\ Model!Distinct(o) /\ Model!SweepRun(g, s, k, ByNumber, o)
    BY DEF Walking, Model!Reaches, Model!IsOrder
  <1>2. n \in 0 .. Len(q)
    <2>1. /\ Model!IsFiniteSet(Rest(s, o)) /\ Len(q) = Model!Cardinality(Rest(s, o))
      BY Model!QueueOfTheRest DEF OfClass, Rest
    <2>2. Passed(s, o, c) \subseteq Rest(s, o)
      BY DEF Passed
    <2>3. /\ IsFiniteSet(Rest(s, o)) /\ Len(q) = Cardinality(Rest(s, o))
          /\ n = Cardinality(Passed(s, o, c))
      BY <2>1, SameCardinality, SameFiniteSet DEF Turns
    <2> HIDE DEF n, q
    <2>4. n \in Nat /\ Len(q) \in Nat /\ n <= Len(q)
      BY <2>2, <2>3, FS_Subset, FS_CardinalityType
    <2> QED
      BY <2>4
  <1>3. \E Q : Model!Sorts(s, o, Q, g[n])
    <2>1. Model!IsSnapshot(s) /\ Model!AreRanks(s, ByNumber)
      BY DEF OfClass
    <2> HIDE DEF n
    <2>2. Model!Sorts(s, o, { Model!Queue(s, ByNumber, o)[i] : i \in 1 .. n }, g[n])
      BY <1>1, <1>2, <2>1, Model!SweepSorts, Zenon
    <2> QED
      BY <2>2
  <1>4. g[n] = x
    BY DEF Walking
  <1> HIDE DEF n, q
  <1>5. Model!ToSet(o) \subseteq Model!ToSet(Model!Reverse(line))
    BY <1>3, <1>4 DEF Model!Sorts
  <1> QED
    BY <1>5, Model!ReverseOfSequence

LEMMA WalkEnds ==
    ASSUME NEW s, OfClass(s), NEW k, NEW o, NEW g, NEW line, NEW left, NEW flag,
           Walking(s, k, o, g, RegCount, line, left, flag)
    PROVE  /\ Model!Sweep(s, k, ByNumber, o)
                = [order |-> Model!Reverse(line), left |-> left, changed |-> flag]
           /\ ~flag => Model!Reverse(line) = o
  <1> DEFINE x == Model!Sweep(s, k, ByNumber, o)
  <1>1. x = [order |-> Model!Reverse(line), left |-> left, changed |-> flag]
    BY QueueByNumber DEF Walking, Model!SweepRun
  <1>2. o \in Seq(s.active) /\ Model!Distinct(o)
    BY DEF Walking, Model!Reaches, Model!IsOrder
  <1>3. ~x.changed => x.order = o
    BY <1>2, Model!SweepIsSorted DEF OfClass
  <1> HIDE DEF x
  <1> QED
    BY <1>1, <1>3 DEF x
-----------------------------------------------------------------------------
LEMMA StackIsActive ==
    ASSUME IInv
    PROVE  /\ stack \in Seq(Captured.active) /\ Model!ToSet(stack) = Stacked
           /\ Model!ToSet(Model!Reverse(stack)) = Stacked
           /\ \A r : r \in Captured.active <=> Root(r)
  <1>1. \A r : r \in Captured.active <=> Root(r)
    BY DEF Captured, Root
  <1>2. stack \in Seq(simplified) /\ DOMAIN stack = 1 .. Len(stack)
    BY DEF IInv, TypeOK
  <1>3. \A i \in 1 .. Len(stack) : stack[i] \in Captured.active
    BY <1>1 DEF IInv, StackInv, Stacked
  <1>4. stack \in Seq(Captured.active)
    BY <1>2, <1>3
  <1>5. Model!ToSet(stack) = Stacked
    BY <1>2 DEF Model!ToSet, Stacked
  <1> QED
    BY <1>1, <1>4, <1>5, Model!ReverseOfSequence

LEMMA ReplayedDegree ==
    ASSUME IInv, LowInv, colorPc = "scan", NEW r \in Reg
    PROVE  Model!Degree(Captured, Model!Reverse(stack), r) = degree[r]
  <1> DEFINE R == Model!ToSet(Model!Reverse(stack))
  <1>1. R = simplified
    BY StackIsActive DEF IInv, ScanInv
  <1>2. Captured.neighbors[r] = adj[r] /\ Captured.extra[r] = 0
    BY DEF Captured
  <1>3. adj[r] \in SUBSET Reg
    BY Graph DEF IInv
  <1>4. IsFiniteSet(adj[r]) /\ Cardinality(adj[r]) \in Nat
    BY <1>3, RegistersAreFinite
  <1>5. Cardinality(adj[r] \ simplified) = Cardinality(adj[r]) - Cardinality(adj[r] \cap simplified)
    BY <1>4, FS_Difference
  <1>6. Cardinality(adj[r] \cap simplified) \in Nat
    <2>1. adj[r] \cap simplified \in SUBSET Reg
      BY <1>3
    <2> QED
      BY <2>1, RegistersAreFinite
  <1>7. degree[r] = Cardinality(adj[r] \ simplified)
    BY DEF LowInv
  <1>8. Model!Degree(Captured, Model!Reverse(stack), r)
          = Cardinality(adj[r]) + (0 - Cardinality(adj[r] \cap simplified))
    <2>1. Model!Degree(Captured, Model!Reverse(stack), r)
            = Model!Cardinality(Captured.neighbors[r]) + Captured.extra[r]
                - Model!Cardinality(Captured.neighbors[r] \cap R)
      BY DEF Model!Degree
    <2> HIDE DEF R
    <2> QED
      BY <1>1, <1>2, <2>1, SameCardinality
  <1> QED
    BY <1>4, <1>5, <1>6, <1>7, <1>8

(***************************************************************************)
(* In the walk, the sweep of the tool that has reached the same node has   *)
(* removed what is on the stack and kept what is listed.                   *)
(***************************************************************************)
ReplayScan ==
    colorPc = "scan" =>
        \E o, g : Walking(Captured, limit, o, g, cursor, stack, remaining, changed)

LEMMA BuildReplays == ASSUME TypeOK', BuildGraph PROVE ReplayScan'
  <1> DEFINE s == Captured'
  <1>1. OfClass(s)
    BY CapturedIsOfClass
  <1>2. stack' = <<>> /\ cursor' = NPhys /\ changed' = FALSE /\ remaining' = <<>>
    BY DEF BuildGraph, StartScan
  <1> HIDE DEF s
  <1>3. Model!Reaches(s, limit', ByNumber, <<>>)
    BY Model!ReachesStart
  <1>4. Model!Reverse(<<>>) = <<>> /\ Model!ToSet(<<>>) = {}
    BY DEF Model!Reverse, Model!ToSet
  <1>5. \E g : Walking(s, limit', <<>>, g, NPhys, <<>>, <<>>, FALSE)
    BY <1>1, <1>3, <1>4, WalkStarts
  <1>6. \E o, g : Walking(s, limit', o, g, cursor', stack', remaining', changed')
    BY <1>2, <1>5
  <1> QED
    BY <1>6 DEF ReplayScan, s

LEMMA ScanReplays == ASSUME IInv, LowInv, ReplayScan, ScanNode PROVE ReplayScan'
  <1> DEFINE s == Captured
  <1>1. colorPc = "scan" /\ cursor < RegCount /\ cursor' = cursor + 1
    BY DEF ScanNode
  <1>2. Captured' = Captured /\ limit' = limit /\ simplified = Stacked
    BY <1>1 DEF ScanNode, input, Captured, IInv, ScanInv
  <1>3. cursor \in Virtual /\ cursor \in Nat /\ cursor \in Reg
    BY <1>1, PhysAssumption, RegAssumption, RegistersAreNumbers DEF IInv, TypeOK, Virtual
  <1>4. OfClass(s) /\ stack \in Seq(s.active) /\ \A r : r \in s.active <=> Root(r)
    BY CapturedIsOfClass, StackIsActive DEF IInv
  <1>5. Model!ToSet(stack) = Stacked
    BY StackIsActive
  <1> HIDE DEF s
  <1>6. PICK o, g : Walking(s, limit, o, g, cursor, stack, remaining, changed)
    BY <1>1 DEF ReplayScan, s
  <1>7. cursor \in Rest(s, o) <=> Root(cursor) /\ cursor \notin simplified
    <2>1. Model!ToSet(stack) \subseteq Model!ToSet(o) \cup 0 .. cursor - 1
      BY <1>6 DEF Walking
    <2>2. cursor \in Stacked => cursor \in Model!ToSet(o)
      BY <1>3, <1>5, <2>1
    <2>3. Model!ToSet(o) \subseteq Stacked
      BY WalkGrows, <1>6, <1>4, <1>5
    <2> QED
      BY <1>2, <1>4, <2>2, <2>3 DEF Rest
  <1>8. CASE /\ cursor \in simplified \/ alias[cursor] # cursor
             /\ UNCHANGED <<degree, simplified, stack, low, changed, remaining>>
    <2>1. Walking(s, limit, o, g, cursor + 1, stack, remaining, changed)
      BY <1>3, <1>4, <1>6, <1>7, <1>8, WalkPasses DEF Root
    <2> QED
      BY <1>1, <1>2, <1>8, <2>1 DEF ReplayScan, s
  <1>9. CASE /\ cursor \notin simplified /\ alias[cursor] = cursor /\ degree[cursor] < limit
             /\ PushNode(cursor) /\ changed' = TRUE /\ UNCHANGED remaining
    <2>1. Model!Degree(s, Model!Reverse(stack), cursor) < limit
      BY <1>1, <1>3, <1>9, ReplayedDegree DEF s
    <2>2. cursor \in Rest(s, o)
      BY <1>3, <1>7, <1>9 DEF Root
    <2>3. Walking(s, limit, o, g, cursor + 1, <<cursor>> \o stack, remaining, TRUE)
      BY <1>4, <1>6, <2>1, <2>2, WalkTurns
    <2> QED
      BY <1>1, <1>2, <1>9, <2>3 DEF ReplayScan, PushNode, s
  <1>10. CASE /\ cursor \notin simplified /\ alias[cursor] = cursor /\ degree[cursor] >= limit
              /\ remaining' = <<cursor>> \o remaining
              /\ UNCHANGED <<degree, simplified, stack, low, changed>>
    <2>1. ~(Model!Degree(s, Model!Reverse(stack), cursor) < limit)
      <3>1. degree[cursor] \in Int /\ limit \in Nat
        BY <1>3 DEF IInv, TypeOK
      <3> QED
        BY <1>1, <1>3, <1>10, <3>1, ReplayedDegree DEF s
    <2>2. cursor \in Rest(s, o)
      BY <1>3, <1>7, <1>10 DEF Root
    <2>3. Walking(s, limit, o, g, cursor + 1, stack, <<cursor>> \o remaining, changed)
      BY <1>4, <1>6, <2>1, <2>2, WalkTurns
    <2> QED
      BY <1>1, <1>2, <1>10, <2>3 DEF ReplayScan, s
  <1> QED
    BY <1>8, <1>9, <1>10 DEF ScanNode

LEMMA RepeatReplays == ASSUME IInv, ReplayScan, RepeatScan PROVE ReplayScan'
  <1> DEFINE s == Captured
             o == Model!Reverse(stack)
  <1>1. /\ colorPc = "scan" /\ cursor = RegCount /\ changed
        /\ cursor' = NPhys /\ changed' = FALSE /\ remaining' = <<>>
        /\ Captured' = Captured /\ UNCHANGED <<limit, stack>>
    BY DEF RepeatScan, StartScan, input, Captured
  <1>2. OfClass(s) /\ stack \in Seq(s.active) /\ Model!ToSet(stack) = Model!ToSet(o)
    BY CapturedIsOfClass, StackIsActive DEF IInv
  <1> HIDE DEF s
  <1>3. PICK p, g : Walking(s, limit, p, g, RegCount, stack, remaining, changed)
    BY <1>1 DEF ReplayScan, s
  <1>4. Model!Sweep(s, limit, ByNumber, p) = [order |-> o, left |-> remaining, changed |-> changed]
    BY <1>2, <1>3, WalkEnds
  <1>5. Model!Reaches(s, limit, ByNumber, p)
    BY <1>3 DEF Walking
  <1> HIDE DEF o
  <1>6. Model!Reaches(s, limit, ByNumber, o)
    <2>1. Model!IsSnapshot(s) /\ Model!AreRanks(s, ByNumber)
      BY <1>2 DEF OfClass
    <2>2. Model!Sweep(s, limit, ByNumber, p).changed /\ Model!Sweep(s, limit, ByNumber, p).order = o
      BY <1>1, <1>4
    <2>3. Model!Reaches(s, limit, ByNumber, Model!Sweep(s, limit, ByNumber, p).order)
      BY <1>5, <2>1, <2>2, Model!ReachesAfterRemoval
    <2> QED
      BY <2>2, <2>3
  <1>7. \E g2 : Walking(s, limit, o, g2, NPhys, stack, <<>>, FALSE)
    BY <1>2, <1>6, WalkStarts DEF o
  <1> QED
    BY <1>1, <1>7 DEF ReplayScan, s

\* The compiler's list and the tool's have the same first cheapest node.
LEMMA ReplayedCandidate ==
    ASSUME IInv, LowInv, CountInv, colorPc = "scan", ~changed,
           NEW x, x = [order |-> Model!Reverse(stack), left |-> remaining, changed |-> changed],
           x \in Model!Sweeps(Captured.active), NEW i \in 1 .. Len(remaining), IsCandidate(i)
    PROVE  Model!Candidate(Captured, x) = remaining[i]
  <1> DEFINE s == Captured
             R == Model!Reverse(stack)
             N == Len(remaining)
  <1>1. /\ x.left = remaining /\ x.order = R /\ remaining \in Seq(Virtual)
        /\ N \in Nat /\ DOMAIN remaining = 1 .. N
    BY DEF IInv, TypeOK
  <1>2. \A j \in 1 .. N : remaining[j] \in Listed /\ remaining[j] \in Reg
    <2>1. \A j \in 1 .. N : remaining[j] \in Listed
      BY DEF Listed
    <2>2. \A j \in 1 .. N : remaining[j] \in Virtual
      BY <1>1, ElementOfSeq
    <2> QED
      BY <2>1, <2>2, RegistersAreNumbers
  <1>3. \A j \in 1 .. N : degree[remaining[j]] \in Int /\ degree[remaining[j]] > 0
    <2>1. limit \in Nat /\ limit > 0 /\ \A r \in Listed : degree[r] >= limit
      BY DEF CountInv, IInv, TypeOK
    <2>2. \A r \in Reg : degree[r] \in Int
      BY DEF IInv, TypeOK
    <2> QED
      BY <1>2, <2>1, <2>2
  <1>4. \A j \in 1 .. N : Model!Degree(s, R, remaining[j]) = degree[remaining[j]]
    BY <1>2, ReplayedDegree
  <1>5. s.cost = cost
    BY DEF Captured
  <1> HIDE DEF s, R, N
  <1>6. \A j, m \in 1 .. N : Model!Scores(s, R, remaining[j], remaining[m])
                                <=> Cheaper(remaining[j], remaining[m])
    BY <1>3, <1>4, <1>5 DEF Model!Scores, Cheaper
  <1>7. i \in 1 .. N
    BY DEF N
  <1>8. Model!IsFirst(s, x, i)
    <2>1. \A j \in 1 .. N : ~Model!Scores(s, R, remaining[j], remaining[i])
      BY <1>6, <1>7 DEF IsCandidate, N
    <2>2. \A j \in 1 .. i - 1 : Model!Scores(s, R, remaining[i], remaining[j])
      <3>1. \A j \in 1 .. i - 1 : j \in 1 .. N
        BY <1>1, <1>7
      <3> QED
        BY <1>6, <1>7, <3>1 DEF IsCandidate
    <2> QED
      BY <1>1, <1>7, <2>1, <2>2 DEF Model!IsFirst
  <1>9. remaining # <<>>
    BY <1>1, <1>7
  <1>10. Model!IsSnapshot(s)
    BY CapturedIsOfClass DEF OfClass, IInv, s
  <1> QED
    BY <1>1, <1>7, <1>8, <1>9, <1>10, Model!CandidateIsFirst DEF s

LEMMA CandidateReplays ==
    ASSUME IInv, LowInv, CountInv, ReplayScan, PushCandidate
    PROVE  ReplayScan'
  <1> DEFINE s == Captured
             o == Model!Reverse(stack)
  <1>1. /\ colorPc = "scan" /\ cursor = RegCount /\ ~changed
        /\ cursor' = NPhys /\ changed' = FALSE /\ remaining' = <<>>
        /\ Captured' = Captured /\ UNCHANGED limit
    BY DEF PushCandidate, StartScan, input, Captured
  <1>2. PICK i \in 1 .. Len(remaining) : IsCandidate(i) /\ PushNode(remaining[i])
    BY DEF PushCandidate
  <1>3. OfClass(s) /\ stack \in Seq(s.active) /\ \A r : r \in s.active <=> Root(r)
    BY CapturedIsOfClass, StackIsActive DEF IInv
  <1>4. Model!ToSet(Model!Reverse(stack')) = Model!ToSet(stack')
    <2>1. stack' = <<remaining[i]>> \o stack
      BY <1>2 DEF PushNode
    <2>2. remaining[i] \in s.active
      BY <1>1, <1>2, <1>3 DEF IInv, ScanInv, Listed
    <2>3. stack' \in Seq(s.active)
      BY <1>3, <2>1, <2>2, Model!PushedOne
    <2> QED
      BY <2>3, Model!ReverseOfSequence
  <1> HIDE DEF s
  <1>5. PICK p, g : Walking(s, limit, p, g, RegCount, stack, remaining, changed)
    BY <1>1 DEF ReplayScan, s
  <1>6. Model!Sweep(s, limit, ByNumber, p) = [order |-> o, left |-> remaining, changed |-> changed]
        /\ o = p
    BY <1>1, <1>3, <1>5, WalkEnds
  <1>7. Model!Reaches(s, limit, ByNumber, p) /\ Model!IsSnapshot(s) /\ Model!AreRanks(s, ByNumber)
    BY <1>3, <1>5 DEF Walking, OfClass
  <1> DEFINE x == Model!Sweep(s, limit, ByNumber, p)
  <1>8. x \in Model!Sweeps(s.active)
    <2>1. p \in Seq(s.active) /\ Model!Distinct(p)
      BY <1>7 DEF Model!Reaches, Model!IsOrder
    <2> QED
      BY <1>7, <2>1, Model!SweepIsSorted DEF Model!RankSorted
  <1>9. Model!Candidate(s, x) = remaining[i]
    BY <1>1, <1>2, <1>6, <1>8, ReplayedCandidate DEF s
  <1>10. Model!Reaches(s, limit, ByNumber, Append(p, Model!Candidate(s, x)))
    <2>1. remaining # <<>>
      BY <1>2
    <2>2. ~x.changed /\ x.left # <<>>
      BY <1>1, <1>6, <2>1
    <2> QED
      BY <1>7, <2>2, Model!ReachesAfterCandidate
  <1> HIDE DEF x
  <1>11. stack' = <<remaining[i]>> \o stack /\ remaining[i] \in s.active
    BY <1>1, <1>2, <1>3 DEF PushNode, IInv, ScanInv, Listed
  <1>12. Model!Reverse(stack') = Append(p, remaining[i])
    BY <1>3, <1>6, <1>11, ReverseOfPushed
  <1>13. \E g2 : Walking(s, limit, Model!Reverse(stack'), g2, NPhys, stack', <<>>, FALSE)
    BY <1>3, <1>4, <1>9, <1>10, <1>12, WalkStarts
  <1> QED
    BY <1>1, <1>13 DEF ReplayScan, s
-----------------------------------------------------------------------------
(***************************************************************************)
(* Selection, from the registers free at first that the tool takes.        *)
(***************************************************************************)
Usual == FreeVolatile(snapshot) = InitialColors /\ snapshot \cap Saved = {}

Order(s, k) == Model!Reverse(Model!RemovalOrder(s, k, ByNumber))

\* What the tool has selected in h is what the compiler has, with line left.
Painted(s, order, h, line, top, shades) ==
  /\ Model!SelectRun(h, s, order)
  /\ Len(line) <= Len(order)
  /\ \A i \in 1 .. Len(line) : line[i] = order[(Len(order) - Len(line)) + i]
  /\ h[Len(order) - Len(line)].mask = top
  /\ DOMAIN h[Len(order) - Len(line)].colors = Phys \cup (s.active \ Model!ToSet(line))
  /\ \A r \in DOMAIN h[Len(order) - Len(line)].colors :
       h[Len(order) - Len(line)].colors[r] = shades[r]

ReplaySelect ==
    colorPc = "select" /\ Usual =>
        \E h : Painted(Captured, Order(Captured, limit), h, stack, mask, color)

LEMMA ClassIsClassed == Model!Classed
  BY PhysAssumption, FileAssumption, ColorsAssumption
  DEF Model!Classed, Model!Physical, Phys

LEMMA OrderOfActive ==
    ASSUME NEW s, OfClass(s), NEW k
    PROVE  Order(s, k) \in Seq(s.active) /\ Model!ToSet(Order(s, k)) = s.active
  <1>1. Model!IsSnapshot(s) /\ Model!AreRanks(s, ByNumber)
    BY DEF OfClass
  <1>2. /\ Model!RemovalOrder(s, k, ByNumber) \in Seq(s.active)
        /\ Model!ToSet(Model!RemovalOrder(s, k, ByNumber)) = s.active
    BY <1>1, Model!RemovalIsAnOrder DEF Model!IsOrder
  <1> QED
    BY <1>2, Model!ReverseOfSequence DEF Order

LEMMA BeginReplays ==
    ASSUME IInv, ReplayScan, BeginSelect
    PROVE  ReplaySelect'
  <1> DEFINE s == Captured
             o == Model!Reverse(stack)
  <1>1. /\ colorPc = "scan" /\ cursor = RegCount /\ ~changed /\ remaining = <<>>
        /\ mask' = FreeVolatile(snapshot) /\ color' = color
        /\ Captured' = Captured /\ UNCHANGED <<limit, stack, snapshot>>
    BY DEF BeginSelect, input, simplify, saved, Captured
  <1>2. SUFFICES ASSUME Usual PROVE \E h : Painted(s, Order(s, limit), h, stack, InitialColors, color)
    BY <1>1 DEF ReplaySelect, Usual
  <1>3. OfClass(s) /\ stack \in Seq(s.active)
    BY CapturedIsOfClass, StackIsActive DEF IInv
  <1>4. Phys \subseteq Reg /\ \A r \in Phys : color[r] = r
    <2>1. color = StartColors(alias) /\ Phys \subseteq Reg
      BY <1>1, RegistersAreNumbers DEF IInv, ScanInv
    <2> QED
      BY <2>1 DEF StartColors
  <1> HIDE DEF s
  <1>5. PICK p, g : Walking(s, limit, p, g, RegCount, stack, remaining, changed)
    BY <1>1 DEF ReplayScan, s
  <1>6. Model!Sweep(s, limit, ByNumber, p) = [order |-> o, left |-> remaining, changed |-> changed]
        /\ o = p
    BY <1>1, <1>3, <1>5, WalkEnds
  <1>7. Model!RemovalOrder(s, limit, ByNumber) = o /\ Model!ToSet(o) = s.active
    <2>1. Model!Reaches(s, limit, ByNumber, p) /\ Model!IsSnapshot(s) /\ Model!AreRanks(s, ByNumber)
      BY <1>3, <1>5 DEF Walking, OfClass
    <2>2. ~Model!Sweep(s, limit, ByNumber, p).changed /\ Model!Sweep(s, limit, ByNumber, p).left = <<>>
      BY <1>1, <1>6
    <2> QED
      BY <1>6, <2>1, <2>2, Model!ReachesTheEnd
  <1> DEFINE w == Order(s, limit)
             N == Len(stack)
  <1>8. /\ w \in Seq(s.active) /\ Len(w) = N /\ \A i \in 1 .. N : w[i] = stack[i]
    <2>1. o \in Seq(s.active) /\ Len(o) = N /\ \A i \in 1 .. N : o[i] = stack[N - i + 1]
      BY <1>3, Model!ReverseOfSequence
    <2>2. w = Model!Reverse(o) /\ N \in Nat
      BY <1>3, <1>7 DEF Order
    <2> HIDE DEF o, w
    <2>3. w \in Seq(s.active) /\ Len(w) = N /\ \A i \in 1 .. N : w[i] = o[N - i + 1]
      BY <2>1, <2>2, Model!ReverseOfSequence
    <2> HIDE DEF N
    <2>4. \A i \in 1 .. N : N - i + 1 \in 1 .. N /\ N - (N - i + 1) + 1 = i
      BY <2>2
    <2> QED
      BY <2>1, <2>3, <2>4
  <1>9. PICK h : Model!SelectRun(h, s, w)
    BY <1>8, ClassIsClassed, Model!SelectionUnfolds
  <1>10. h[0] = [mask |-> InitialColors, colors |-> [r \in Phys |-> r]]
    BY <1>9 DEF Model!SelectRun, Model!Physical, Phys
  <1>11. Model!ToSet(stack) = s.active
    BY <1>3, <1>7, Model!ReverseOfSequence
  <1>12. N \in Nat /\ N - N = 0 /\ \A i \in 1 .. N : (N - N) + i = i
    BY <1>3
  <1> HIDE DEF w, N
  <1>13. Painted(s, w, h, stack, InitialColors, color)
    <2>1. Len(w) - Len(stack) = 0 /\ Len(stack) <= Len(w)
      BY <1>8, <1>12 DEF N
    <2>2. \A i \in 1 .. Len(stack) : stack[i] = w[0 + i]
      BY <1>8, <1>12 DEF N
    <2>3. h[0].mask = InitialColors /\ DOMAIN h[0].colors = Phys
          /\ \A r \in Phys : h[0].colors[r] = color[r]
      BY <1>4, <1>10
    <2>4. Phys \cup (s.active \ Model!ToSet(stack)) = Phys
      BY <1>11
    <2> QED
      BY <1>9, <2>1, <2>2, <2>3, <2>4 DEF Painted
  <1> QED
    BY <1>13 DEF w

\* The tool looks at the roots of the neighbours, the compiler at what the
\* neighbours hold: that is the same.
LEMMA BlockedIsHeld ==
    ASSUME IInv, colorPc = "select", NEW shades, DOMAIN shades = Phys \cup (Captured.active \ Stacked),
           \A r \in DOMAIN shades : shades[r] = color[r], NEW n, Root(n)
    PROVE  Model!Blocked(Captured, shades, n) = Held(n)
  <1> DEFINE s == Captured
  <1>1. \A r : r \in s.active <=> Root(r)
    BY StackIsActive
  <1>2. /\ n \in Virtual /\ n \in Reg /\ alias[n] = n /\ adj[n] \subseteq Reg
        /\ Phys \subseteq Reg /\ Phys \subseteq Nat /\ \A c \in Phys : c < NPhys /\ c >= 0
        /\ NPhys \in Nat /\ NPhys > 0
    BY Graph, RegistersAreNumbers, PhysAssumption DEF IInv, Root
  <1>3. \A m \in Reg : Model!Canonical(s, m) = alias[m]
    <2>1. /\ Model!IsSnapshot(s) /\ Model!Nodes(s) = Reg
          /\ \A r \in Reg : s.parent[s.parent[r]] = s.parent[r]
      BY CapturedIsOfClass DEF IInv, OfClass
    <2>2. s.parent = alias
      BY DEF Captured
    <2> HIDE DEF s
    <2> QED
      BY <2>1, <2>2, Model!CanonicalIsParent
  <1>4. \A c : c \in Model!Roots(s, n) <=> \E m \in adj[n] : c = alias[m]
    <2>1. s.neighbors[n] = adj[n]
      BY DEF Captured
    <2> HIDE DEF s
    <2> QED
      BY <1>2, <1>3, <2>1 DEF Model!Roots
  <1>5. \A m \in adj[n] : alias[m] \in adj[n] /\ alias[m] \in Reg
    <2>1. ASSUME NEW m \in adj[n] PROVE alias[m] \in adj[alias[n]] /\ alias[m] \in Reg
      BY <1>2, <2>1, Typed, AliasesDiffer, Graph DEF IInv
    <2> QED
      BY <1>2, <2>1
  <1>6. \A c \in Phys : c % NPhys = c
    <2>1. ASSUME NEW c \in Phys PROVE c % NPhys = c
      <3>1. c \in 0 .. NPhys - 1
        BY <1>2
      <3> QED
        BY <1>2, <3>1
    <2> QED
      BY <2>1
  <1>7. \A r \in DOMAIN shades : r \in Reg /\ (color[r] \in Phys \/ ~(color[r] >= 0))
    <2>1. ASSUME NEW r \in Phys PROVE color[r] \in Phys
      BY <2>1, Disjointness, Graph DEF IInv, SelectInv, Selecting, Root
    <2>2. ASSUME NEW r, Root(r), r \notin Stacked PROVE color[r] \in Phys \/ color[r] = NoColor
      BY <2>2 DEF IInv, SelectInv, Selecting, TypeOK, Root
    <2>3. ~(NoColor >= 0)
      BY DEF NoColor
    <2> QED
      BY <1>1, <2>1, <2>2, <2>3, Disjointness DEF Root
  <1>8. \A r \in Reg : ~Root(r) => color[r] = alias[r]
    BY DEF IInv, SelectInv, Selecting
  <1>9. \A r \in Stacked : color[r] = NoColor
    BY Disjointness DEF IInv, SelectInv, Selecting, StackInv, Root, TableInv, FreeVolatile, TypeOK
  <1>10. \A c : c \in Model!Blocked(s, shades, n) <=>
                  \E root \in Model!Roots(s, n) : /\ root \in DOMAIN shades /\ shades[root] >= 0
                                                  /\ c = shades[root] % NPhys
    BY Model!BlockedColors
  <1> HIDE DEF s
  <1>11. ASSUME NEW c \in Model!Blocked(s, shades, n) PROVE c \in Held(n)
    <2>1. PICK root \in Model!Roots(s, n) : root \in DOMAIN shades /\ shades[root] >= 0 /\ c = shades[root] % NPhys
      BY <1>10
    <2>2. root \in adj[n]
      BY <1>4, <1>5
    <2>3. shades[root] = color[root] /\ color[root] \in Phys
      BY <1>7, <2>1
    <2>4. c = color[root]
      BY <1>6, <2>1, <2>3
    <2> QED
      BY <2>2, <2>3, <2>4 DEF Held
  <1>12. ASSUME NEW c \in Held(n) PROVE c \in Model!Blocked(s, shades, n)
    <2>1. PICK m \in adj[n] : c = color[m] /\ c \in Phys
      BY DEF Held
    <2>2. alias[m] \in DOMAIN shades /\ shades[alias[m]] = c
      <3>1. CASE Root(m)
        <4>1. m \notin Stacked /\ alias[m] = m
          BY <1>9, <2>1, <3>1, Disjointness DEF Root
        <4> QED
          BY <1>1, <2>1, <3>1, <4>1 DEF s
      <3>2. CASE ~Root(m)
        <4>1. alias[m] = c
          BY <1>2, <1>8, <2>1, <3>2
        <4>2. color[c] = c
          BY <1>2, <1>8, <2>1, Disjointness, Graph DEF Root, IInv
        <4> QED
          BY <2>1, <4>1, <4>2
      <3> QED
        BY <3>1, <3>2
    <2>3. c >= 0 /\ c % NPhys = c /\ alias[m] \in Model!Roots(s, n)
      BY <1>2, <1>4, <1>6, <2>1
    <2> QED
      BY <1>10, <2>2, <2>3
  <1> QED
    BY <1>11, <1>12 DEF s

LEMMA SameChoice ==
    \A S : /\ Model!Smallest(S) = LowestOf(S) /\ Model!Greatest(S) = HighestOf(S)
  BY Zenon DEF Model!Smallest, Model!Greatest, LowestOf, HighestOf

\* The registers that are left to be claimed.
LEMMA ClaimsLeft ==
    ASSUME IInv, colorPc = "select", Usual
    PROVE  (FirstSaved .. NPhys - 1) \ mask = Saved \ used
  <1>1. /\ mask = FreeVolatile(snapshot) \cup (used \ snapshot)
        /\ used \ snapshot \subseteq Saved /\ snapshot \cap Saved = {}
        /\ snapshot \subseteq used
    BY DEF IInv, TableInv, Usual
  <1>2. FreeVolatile(snapshot) \cap Saved = {}
    BY Disjointness DEF FreeVolatile
  <1>3. FirstSaved .. NPhys - 1 = Saved
    BY DEF Saved
  <1> QED
    BY <1>1, <1>2, <1>3

LEMMA SelectsAlike ==
    ASSUME IInv, SelectNode, Usual, NEW shades,
           DOMAIN shades = Phys \cup (Captured.active \ Stacked),
           \A r \in DOMAIN shades : shades[r] = color[r]
    PROVE  LET n == Head(stack)
               x == Model!SelectColor(Captured, [mask |-> mask, colors |-> shades], n)
           IN  /\ x.mask = mask' /\ DOMAIN x.colors = DOMAIN shades \cup {n}
               /\ \A r \in DOMAIN x.colors : x.colors[r] = color'[r]
  <1> DEFINE n == Head(stack)
             s == Captured
             y == [mask |-> mask, colors |-> shades]
             x == Model!SelectColor(s, y, n)
             blocked == Model!Blocked(s, shades, n)
             available == mask \ Held(n)
  <1>1. colorPc = "select" /\ stack # <<>>
    BY DEF SelectNode
  <1>2. n \in Stacked /\ Root(n) /\ n \in Reg
    <2>1. stack \in Seq(simplified) /\ Len(stack) \in Nat
      BY DEF IInv, TypeOK
    <2>2. 1 \in 1 .. Len(stack) /\ n = stack[1]
      BY <1>1, <2>1
    <2> HIDE DEF n
    <2> QED
      BY <2>2, RegistersAreNumbers DEF Stacked, IInv, StackInv, Root
  <1>3. blocked = Held(n)
    BY <1>1, <1>2, BlockedIsHeld
  <1>4. (FirstSaved .. NPhys - 1) \ mask = Saved \ used
    BY <1>1, ClaimsLeft
  <1>5. color \in [Reg -> Reg \cup {NoColor}] /\ NoColor = -1
    BY DEF IInv, TypeOK, NoColor
  <1>6. color[n] = NoColor
    BY <1>1, <1>2, Disjointness DEF IInv, SelectInv, Selecting, Root
  <1>7. \A c \in Saved \ used : c \notin Held(n)
    BY <1>1, <1>2, ClaimedIsFree
  <1>8. n \notin DOMAIN shades
    BY <1>2, Disjointness, StackIsActive DEF Root
  <1>17. \A r \in DOMAIN shades : r \in Reg /\ r # n
    <2>1. \A r \in Captured.active : r \in Reg
      BY StackIsActive, Disjointness DEF Root
    <2> HIDE DEF n
    <2> QED
      BY <1>8, <2>1, Disjointness
  <1> HIDE DEF n, s, blocked, available
  <1>9. x = [mask |-> Model!Mask(s, y, n),
             colors |-> [r \in DOMAIN shades \cup {n} |->
                           IF r = n THEN Model!Shade(s, y, n) ELSE shades[r]]]
    BY Model!Shades
  <1>10. Model!Mask(s, y, n) = IF available = {} THEN mask \cup Model!Claim(mask) ELSE mask
    BY <1>3 DEF Model!Mask, blocked, available
  <1>11. Model!Shade(s, y, n) = IF Model!Mask(s, y, n) \ Held(n) = {} THEN -1
                                ELSE LowestOf(Model!Mask(s, y, n) \ Held(n))
    BY <1>3, SameChoice DEF Model!Shade, blocked
  <1>12. Model!Claim(mask) = IF Saved \ used = {} THEN {} ELSE { HighestOf(Saved \ used) }
    BY <1>4, SameChoice DEF Model!Claim
  <1>13. SUFFICES ASSUME TRUE
                  PROVE  /\ mask' = Model!Mask(s, y, n)
                         /\ color' = [color EXCEPT ![n] = Model!Shade(s, y, n)]
    <2> HIDE DEF x
    <2>1. ASSUME mask' = Model!Mask(s, y, n), color' = [color EXCEPT ![n] = Model!Shade(s, y, n)]
          PROVE  /\ x.mask = mask' /\ DOMAIN x.colors = DOMAIN shades \cup {n}
                 /\ \A r \in DOMAIN x.colors : x.colors[r] = color'[r]
      <3>1. x.mask = mask' /\ DOMAIN x.colors = DOMAIN shades \cup {n}
        BY <1>9, <2>1
      <3>2. color'[n] = Model!Shade(s, y, n) /\ \A r \in DOMAIN shades : color'[r] = color[r]
        BY <1>2, <1>5, <1>17, <2>1
      <3>3. \A r \in DOMAIN x.colors : x.colors[r] = color'[r]
        BY <1>8, <1>9, <3>1, <3>2
      <3> QED
        BY <3>1, <3>3
    <2> QED
      BY <2>1 DEF x, n, s
  <1> HIDE DEF x, y
  <1>14. CASE /\ available # {} /\ color' = [color EXCEPT ![n] = LowestOf(available)]
              /\ UNCHANGED mask
    <2>1. Model!Mask(s, y, n) = mask
      BY <1>10, <1>14
    <2> QED
      BY <1>11, <1>14, <2>1 DEF available
  <1>15. CASE available = {} /\ Saved \subseteq used /\ UNCHANGED <<mask, color>>
    <2>1. Model!Mask(s, y, n) = mask
      BY <1>10, <1>12, <1>15
    <2>2. Model!Shade(s, y, n) = NoColor
      BY <1>5, <1>11, <1>15, <2>1 DEF available
    <2>3. color = [color EXCEPT ![n] = NoColor]
      BY <1>5, <1>6
    <2> QED
      BY <1>15, <2>1, <2>2, <2>3
  <1>16. ASSUME available = {}, NEW c \in Saved \ used, ClaimColor(c),
                color' = [color EXCEPT ![n] = c], mask' = mask \cup {c}
         PROVE  mask' = Model!Mask(s, y, n) /\ color' = [color EXCEPT ![n] = Model!Shade(s, y, n)]
    <2>1. c = HighestOf(Saved \ used)
      BY <1>16 DEF ClaimColor
    <2>2. Model!Mask(s, y, n) = mask \cup {c}
      BY <1>10, <1>12, <1>16, <2>1
    <2>3. (mask \cup {c}) \ Held(n) = {c}
      BY <1>7, <1>16 DEF available
    <2>4. LowestOf({c}) = c
      <3>1. c \in Nat
        BY <1>16, Disjointness, RegistersAreNumbers
      <3>2. {c} \in SUBSET Nat /\ {c} # {}
        BY <3>1
      <3>3. LowestOf({c}) \in {c}
        BY <3>2, LowestIsMember
      <3> QED
        BY <3>3
    <2>5. Model!Shade(s, y, n) = c
      BY <1>11, <2>2, <2>3, <2>4
    <2> QED
      BY <1>16, <2>2, <2>5
  <1> QED
    BY <1>14, <1>15, <1>16 DEF SelectNode, available, n

LEMMA SelectReplays ==
    ASSUME IInv, ReplaySelect, SelectNode
    PROVE  ReplaySelect'
  <1> DEFINE s == Captured
             n == Head(stack)
             w == Order(s, limit)
             m == Len(w) - Len(stack)
  <1>1. /\ colorPc = "select" /\ stack # <<>> /\ stack' = Tail(stack)
        /\ Captured' = Captured /\ UNCHANGED <<limit, snapshot>>
    BY DEF SelectNode, input, saved, Captured
  <1>2. SUFFICES ASSUME Usual PROVE \E h : Painted(s, w, h, stack', mask', color')
    BY <1>1 DEF ReplaySelect, Usual
  <1>3. PICK h : Painted(s, w, h, stack, mask, color)
    BY <1>1, <1>2 DEF ReplaySelect
  <1>4. OfClass(s) /\ stack \in Seq(s.active)
    BY CapturedIsOfClass, StackIsActive DEF IInv
  <1>5. w \in Seq(s.active) /\ Len(w) \in Nat
    <2>1. w \in Seq(s.active)
      BY <1>4, OrderOfActive
    <2> HIDE DEF w
    <2> QED
      BY <2>1
  <1>6. /\ Len(stack) \in Nat /\ Len(stack) # 0 /\ n = stack[1]
        /\ Len(stack') \in Nat /\ Len(stack') = Len(stack) - 1
        /\ \A i \in 1 .. Len(stack') : stack'[i] = stack[i + 1]
    <2>1. Len(stack) \in Nat /\ Len(stack) # 0 /\ n = stack[1]
      BY <1>1, <1>4, EmptySeq, SMT
    <2> HIDE DEF n
    <2> QED
      BY <1>1, <1>4, <2>1, HeadTailProperties
  <1>7. Model!ToSet(stack) = Stacked /\ Model!ToSet(stack') = Stacked \ {n} /\ n \in Stacked
    <2>1. Model!ToSet(stack) = Stacked
      BY StackIsActive
    <2>2. Stacked' = Stacked \ {n} /\ n \in Stacked
      BY <1>1, PopStack DEF IInv
    <2>3. stack' \in Seq(s.active)
      BY <1>1, <1>4, HeadTailProperties
    <2>4. Model!ToSet(stack') = Stacked'
      BY <2>3 DEF Model!ToSet, Stacked
    <2> QED
      BY <2>1, <2>2, <2>4
  <1>8. n \in s.active /\ n \notin Phys
    BY <1>7, StackIsActive, Disjointness DEF IInv, StackInv, Root
  <1> HIDE DEF s, w
  <1>9. /\ Model!SelectRun(h, s, w) /\ Len(stack) <= Len(w)
        /\ \A i \in 1 .. Len(stack) : stack[i] = w[m + i]
        /\ h[m].mask = mask /\ DOMAIN h[m].colors = Phys \cup (s.active \ Stacked)
        /\ \A r \in DOMAIN h[m].colors : h[m].colors[r] = color[r]
    BY <1>3, <1>7 DEF Painted
  <1>10. /\ m \in Nat /\ m + 1 \in 1 .. Len(w) /\ m \in 0 .. Len(w) /\ (m + 1) - 1 = m
         /\ Len(w) - Len(stack') = m + 1 /\ Len(stack') <= Len(w)
    BY <1>5, <1>6, <1>9
  <1> HIDE DEF n, m
  <1>11. w[m + 1] = n
    <2>1. 1 \in 1 .. Len(stack)
      BY <1>6
    <2> QED
      BY <1>6, <1>9, <2>1
  <1>12. h[m + 1] = Model!SelectColor(s, h[m], n) /\ h[m] \in Model!Selecting(s)
    BY <1>9, <1>10, <1>11 DEF Model!SelectRun
  <1>13. h[m] = [mask |-> mask, colors |-> h[m].colors]
    BY <1>9, <1>12 DEF Model!Selecting
  <1>14. /\ h[m + 1].mask = mask' /\ DOMAIN h[m + 1].colors = DOMAIN h[m].colors \cup {n}
         /\ \A r \in DOMAIN h[m + 1].colors : h[m + 1].colors[r] = color'[r]
    <2> DEFINE shades == h[m].colors
    <2>1. DOMAIN shades = Phys \cup (Captured.active \ Stacked) /\ \A r \in DOMAIN shades : shades[r] = color[r]
      BY <1>9 DEF s
    <2>2. h[m + 1] = Model!SelectColor(Captured, [mask |-> mask, colors |-> shades], Head(stack))
      BY <1>12, <1>13 DEF s, n
    <2> HIDE DEF shades
    <2>3. /\ h[m + 1].mask = mask' /\ DOMAIN h[m + 1].colors = DOMAIN shades \cup {Head(stack)}
          /\ \A r \in DOMAIN h[m + 1].colors : h[m + 1].colors[r] = color'[r]
      BY <1>2, <2>1, <2>2, SelectsAlike
    <2> QED
      BY <2>3 DEF shades, n
  <1>15. Phys \cup (s.active \ Model!ToSet(stack')) = (Phys \cup (s.active \ Stacked)) \cup {n}
    BY <1>7, <1>8
  <1>16. \A i \in 1 .. Len(stack') : stack'[i] = w[(m + 1) + i]
    <2>1. ASSUME NEW i \in 1 .. Len(stack') PROVE stack'[i] = w[(m + 1) + i]
      <3>1. i + 1 \in 1 .. Len(stack) /\ m + (i + 1) = (m + 1) + i
        BY <1>6, <1>10
      <3>2. stack'[i] = stack[i + 1]
        BY <1>6
      <3> QED
        BY <1>9, <3>1, <3>2
    <2> QED
      BY <2>1
  <1>17. Painted(s, w, h, stack', mask', color')
    BY <1>9, <1>10, <1>14, <1>15, <1>16 DEF Painted
  <1> QED
    BY <1>17
-----------------------------------------------------------------------------
ReplayInv == ReplayScan /\ ReplaySelect

LEMMA NextReplays ==
    IInv /\ LowInv /\ CountInv /\ ReplayInv /\ TypeOK' /\ [Next]_vars => ReplayInv'
  <1> SUFFICES ASSUME IInv, LowInv, CountInv, ReplayInv, TypeOK', [Next]_vars PROVE ReplayInv'
    OBVIOUS
  <1> USE DEF ReplayInv
  <1>1. CASE BeginClass
    BY <1>1 DEF BeginClass, ReplayScan, ReplaySelect
  <1>2. CASE BuildGraph
    <2>1. colorPc' = "scan"
      BY <1>2 DEF BuildGraph
    <2> QED
      BY <1>2, <2>1, BuildReplays DEF ReplaySelect
  <1>3. CASE ScanNode
    <2>1. colorPc' = "scan"
      BY <1>3 DEF ScanNode
    <2> QED
      BY <1>3, <2>1, ScanReplays DEF ReplaySelect
  <1>4. CASE RepeatScan
    <2>1. colorPc' = "scan"
      BY <1>4 DEF RepeatScan
    <2> QED
      BY <1>4, <2>1, RepeatReplays DEF ReplaySelect
  <1>5. CASE PushCandidate
    <2>1. colorPc' = "scan"
      BY <1>5 DEF PushCandidate
    <2> QED
      BY <1>5, <2>1, CandidateReplays DEF ReplaySelect
  <1>6. CASE BeginSelect
    <2>1. colorPc' = "select"
      BY <1>6 DEF BeginSelect
    <2> QED
      BY <1>6, <2>1, BeginReplays DEF ReplayScan
  <1>7. CASE SelectNode
    <2>1. colorPc' = "select"
      BY <1>7 DEF SelectNode
    <2> QED
      BY <1>7, <2>1, SelectReplays DEF ReplayScan
  <1>8. CASE SpillAndRetry
    BY <1>8 DEF SpillAndRetry, ReplayScan, ReplaySelect
  <1>9. CASE Commit
    BY <1>9 DEF Commit, ReplayScan, ReplaySelect
  <1>10. CASE UNCHANGED vars
    <2>1. UNCHANGED <<colorPc, limit, cursor, stack, remaining, changed, snapshot, mask, color>>
          /\ Captured' = Captured
      BY <1>10 DEF vars, input, simplify, table, saved, select, Captured
    <2> QED
      BY <2>1 DEF ReplayScan, ReplaySelect, Usual
  <1> QED
    BY <1>1, <1>2, <1>3, <1>4, <1>5, <1>6, <1>7, <1>8, <1>9, <1>10 DEF Next, Step, Terminated
-----------------------------------------------------------------------------
(***************************************************************************)
(* The tool's replay is the one that the lemmas are about.                 *)
(***************************************************************************)
LEMMA SameRemovalOrder ==
    ASSUME NEW s, NEW k, NEW ranks
    PROVE  Tool!RemovalOrder(s, k, ranks) = Model!RemovalOrder(s, k, ranks)
  BY ZenonT(120)
  DEF Tool!RemovalOrder, Model!RemovalOrder, Tool!Candidate, Model!Candidate,
      Tool!Scores, Model!Scores, Tool!Sweep, Model!Sweep, Tool!SweepOne, Model!SweepOne,
      Tool!Ranked, Model!Ranked, Tool!Sorted, Model!Sorted, Tool!Degree, Model!Degree,
      Tool!Cardinality, Model!Cardinality, Tool!ToSet, Model!ToSet

LEMMA SameSelection ==
    ASSUME NEW s, NEW order
    PROVE  Tool!Selection(s, order) = Model!Selection(s, order)
  BY ZenonT(120)
  DEF Tool!Selection, Model!Selection, Tool!SelectColor, Model!SelectColor,
      Tool!Blocked, Model!Blocked, Tool!Canonical, Model!Canonical, Tool!Claim, Model!Claim,
      Tool!Greatest, Model!Greatest, Tool!Smallest, Model!Smallest,
      Tool!Cardinality, Model!Cardinality

LEMMA SameReplay ==
    ASSUME NEW s, NEW k, NEW ranks
    PROVE  Tool!Replay(s, k, ranks) = Model!Replay(s, k, ranks)
  <1>1. \A o : Tool!Reverse(o) = Model!Reverse(o)
    BY Zenon DEF Tool!Reverse, Model!Reverse
  <1> QED
    BY <1>1, SameRemovalOrder, SameSelection, Zenon DEF Tool!Replay, Model!Replay

LEMMA SelectedAsReplayed ==
    ASSUME IInv, ReplaySelect
    PROVE  ReplayAgrees
  <1> DEFINE s == Captured
             w == Order(s, limit)
  <1> SUFFICES ASSUME Selected, Usual
               PROVE  Agrees
    BY DEF ReplayAgrees, Usual
  <1>1. colorPc = "select" /\ stack = <<>> /\ Len(stack) = 0
    BY DEF Selected
  <1>2. OfClass(s)
    BY CapturedIsOfClass DEF IInv
  <1>3. Model!ToSet(stack) = {}
    BY <1>1 DEF Model!ToSet
  <1> HIDE DEF s
  <1>4. PICK h : Painted(s, w, h, stack, mask, color)
    BY <1>1 DEF ReplaySelect, s
  <1>5. w \in Seq(s.active) /\ Model!Selection(s, w) = Model!Replay(s, limit, ByNumber)
    BY <1>2, OrderOfActive DEF Order, Model!Replay
  <1> HIDE DEF w
  <1>6. Len(w) - Len(stack) = Len(w)
    BY <1>1, <1>5
  <1>7. Model!Selection(s, w) = h[Len(w)].colors
    BY <1>4 DEF Painted, Model!SelectRun
  <1>8. /\ DOMAIN h[Len(w)].colors = Phys \cup (s.active \ {})
        /\ \A r \in DOMAIN h[Len(w)].colors : h[Len(w)].colors[r] = color[r]
    BY <1>3, <1>4, <1>6 DEF Painted
  <1>9. \A r \in s.active : Model!Replay(s, limit, ByNumber)[r] = color[r]
    BY <1>5, <1>7, <1>8
  <1> QED
    BY <1>9, SameReplay DEF Agrees, s
-----------------------------------------------------------------------------
(***************************************************************************)
(* Renumbering the registers of the graph.                                 *)
(***************************************************************************)
Number(p) == [r \in Reg |-> IF r \in Virtual THEN p[r] ELSE r]
Former(p) == [r \in Reg |-> CHOOSE x \in Reg : Number(p)[x] = r]

Exchanges(q, back) ==
  /\ Model!Maps(q, Reg, Reg) /\ Model!Maps(back, Reg, Reg)
  /\ \A x \in Reg : back[q[x]] = x /\ q[back[x]] = x
  /\ \A x \in Phys : q[x] = x
  /\ \A x \in Virtual : q[x] \in Virtual

LEMMA NumbersAreExchanged ==
    ASSUME NEW p \in Renumberings
    PROVE  Exchanges(Number(p), Former(p)) /\ \A x \in Virtual : Number(p)[x] = p[x]
  <1> DEFINE q == Number(p)
             back == Former(p)
  <1>1. p \in [Virtual -> Virtual] /\ \A a, b \in Virtual : p[a] = p[b] => a = b
    BY DEF Renumberings
  <1>2. IsFiniteSet(Virtual) /\ Virtual \subseteq Reg /\ Phys \subseteq Reg
        /\ \A x \in Reg : x \in Virtual <=> x \notin Phys
    BY RegistersAreNumbers, RegistersAreFinite
  <1>3. \A b \in Virtual : \E a \in Virtual : p[a] = b
    <2>1. p \in Injection(Virtual, Virtual)
      BY <1>1 DEF Injection, IsInjective
    <2>2. p \in Surjection(Virtual, Virtual)
      BY <1>2, <2>1, FS_Injection
    <2> QED
      BY <2>2 DEF Surjection
  <1>4. /\ \A x \in Virtual : q[x] = p[x] /\ q[x] \in Virtual
        /\ \A x \in Phys : q[x] = x
    BY <1>1, <1>2 DEF Number
  <1>5. q \in [Reg -> Reg]
    BY <1>1, <1>2 DEF Number
  <1>6. back = [r \in Reg |-> CHOOSE x \in Reg : q[x] = r]
    BY DEF Former
  <1> HIDE DEF q, back
  <1>7. \A x, y \in Reg : q[x] = q[y] => x = y
    BY <1>1, <1>2, <1>4
  <1>8. \A r \in Reg : \E x \in Reg : q[x] = r
    BY <1>2, <1>3, <1>4
  <1>9. ASSUME NEW r \in Reg PROVE back[r] \in Reg /\ q[back[r]] = r
    <2>1. \E x \in Reg : q[x] = r
      BY <1>8
    <2> DEFINE y == CHOOSE x \in Reg : q[x] = r
    <2>2. y \in Reg /\ q[y] = r
      BY <2>1
    <2>3. back[r] = y
      BY <1>6
    <2> HIDE DEF y
    <2> QED
      BY <2>2, <2>3
  <1>10. \A x \in Reg : back[q[x]] = x
    <2>1. ASSUME NEW x \in Reg PROVE back[q[x]] = x
      <3>1. q[x] \in Reg
        BY <1>5
      <3>2. back[q[x]] \in Reg /\ q[back[q[x]]] = q[x]
        BY <1>9, <3>1
      <3> QED
        BY <1>7, <3>2
    <2> QED
      BY <2>1
  <1>11. back \in [Reg -> Reg]
    BY <1>6, <1>9
  <1> QED
    BY <1>4, <1>5, <1>9, <1>10, <1>11 DEF Exchanges, Model!Maps, q, back

\* The graph with its registers exchanged.
Exchanged(s, q, back) ==
  [neighbors |-> [r \in Reg |-> { q[x] : x \in s.neighbors[back[r]] }],
   parent |-> [r \in Reg |-> q[s.parent[back[r]]]],
   cost |-> [r \in Reg |-> s.cost[back[r]]],
   extra |-> [r \in Reg |-> 0],
   active |-> { q[r] : r \in s.active }]

LEMMA ExchangedParts ==
    ASSUME NEW s, OfClass(s), NEW q, NEW back, Exchanges(q, back), NEW t, t = Exchanged(s, q, back)
    PROVE  /\ \A a \in Reg : /\ t.neighbors[q[a]] = Model!All(q, s.neighbors[a])
                             /\ t.parent[q[a]] = q[s.parent[a]] /\ t.cost[q[a]] = s.cost[a]
                             /\ t.extra[q[a]] = 0
           /\ \A a, b \in Reg : /\ b \in s.neighbors[a] <=> q[b] \in t.neighbors[q[a]]
                                /\ q[a] = q[b] => a = b
           /\ t.active = Model!All(q, s.active)
           /\ OfClass(t)
  <1>1. /\ q \in [Reg -> Reg] /\ back \in [Reg -> Reg]
        /\ \A x \in Reg : back[q[x]] = x /\ q[back[x]] = x
        /\ \A x \in Virtual : q[x] \in Virtual
    BY DEF Exchanges, Model!Maps
  <1>2. /\ s.neighbors \in [Reg -> SUBSET Reg] /\ s.parent \in [Reg -> Reg]
        /\ s.cost \in [Reg -> Nat] /\ s.active \subseteq Virtual
        /\ \A r \in Reg : s.parent[s.parent[r]] = s.parent[r]
    BY DEF OfClass, Model!IsSnapshot
  <1>3. Model!IsFiniteSet(Reg) /\ Reg \subseteq Nat /\ Virtual \subseteq Reg
    BY RegistersAreNumbers DEF OfClass, Model!IsSnapshot
  <1>4. /\ t.neighbors = [r \in Reg |-> { q[x] : x \in s.neighbors[back[r]] }]
        /\ t.parent = [r \in Reg |-> q[s.parent[back[r]]]]
        /\ t.cost = [r \in Reg |-> s.cost[back[r]]]
        /\ t.extra = [r \in Reg |-> 0]
        /\ t.active = { q[r] : r \in s.active }
    BY DEF Exchanged
  <1>5. ASSUME NEW a \in Reg
        PROVE  /\ t.neighbors[q[a]] = Model!All(q, s.neighbors[a])
               /\ t.parent[q[a]] = q[s.parent[a]] /\ t.cost[q[a]] = s.cost[a]
               /\ t.extra[q[a]] = 0
    <2>1. q[a] \in Reg /\ back[q[a]] = a
      BY <1>1
    <2>2. t.neighbors[q[a]] = { q[x] : x \in s.neighbors[a] }
      BY <1>4, <2>1
    <2> QED
      BY <1>4, <2>1, <2>2 DEF Model!All
  <1>6. \A a, b \in Reg : q[a] = q[b] => a = b
    BY <1>1
  <1>7. ASSUME NEW a \in Reg, NEW b \in Reg
        PROVE  b \in s.neighbors[a] <=> q[b] \in t.neighbors[q[a]]
    <2>1. t.neighbors[q[a]] = Model!All(q, s.neighbors[a]) /\ s.neighbors[a] \subseteq Reg
      BY <1>2, <1>5
    <2> QED
      BY <1>6, <2>1 DEF Model!All
  <1>8. t.active = Model!All(q, s.active)
    BY <1>4 DEF Model!All
  <1>9. t.active \subseteq Virtual
    BY <1>1, <1>2, <1>4
  <1>10. /\ t.neighbors \in [Reg -> SUBSET Reg] /\ t.parent \in [Reg -> Reg]
    <2>1. \A r \in Reg : /\ back[r] \in Reg /\ s.neighbors[back[r]] \subseteq Reg
                         /\ s.parent[back[r]] \in Reg
      BY <1>1, <1>2
    <2>2. \A x \in Reg : q[x] \in Reg
      BY <1>1
    <2>3. \A r \in Reg : { q[x] : x \in s.neighbors[back[r]] } \subseteq Reg /\ q[s.parent[back[r]]] \in Reg
      BY <2>1, <2>2
    <2> QED
      BY <1>4, <2>3
  <1>11. t.cost \in [Reg -> Nat] /\ t.extra \in [Reg -> Nat]
    <2>1. \A r \in Reg : back[r] \in Reg /\ s.cost[back[r]] \in Nat
      BY <1>1, <1>2
    <2> QED
      BY <1>4, <2>1
  <1>12. Model!Nodes(t) = Reg
    BY <1>10 DEF Model!Nodes
  <1>13. t.active \subseteq Reg
    BY <1>3, <1>9
  <1>14. Model!IsSnapshot(t)
    BY <1>3, <1>10, <1>11, <1>12, <1>13 DEF Model!IsSnapshot
  <1>15. Model!AreRanks(t, ByNumber)
    <2>1. \A r \in Virtual : ByNumber[r] = r /\ r \in Int
      BY <1>3 DEF ByNumber
    <2> QED
      BY <1>9, <2>1 DEF Model!AreRanks
  <1>16. ASSUME NEW r \in Reg PROVE t.parent[t.parent[r]] = t.parent[r]
    <2> DEFINE a == back[r]
    <2>1. a \in Reg /\ q[a] = r /\ s.parent[a] \in Reg
      BY <1>1, <1>2
    <2> HIDE DEF a
    <2>2. t.parent[r] = q[s.parent[a]]
      BY <1>5, <2>1
    <2>3. t.parent[q[s.parent[a]]] = q[s.parent[s.parent[a]]]
      BY <1>5, <2>1
    <2> QED
      BY <1>2, <2>1, <2>2, <2>3
  <1> QED
    BY <1>5, <1>6, <1>7, <1>8, <1>9, <1>12, <1>14, <1>15, <1>16 DEF OfClass

LEMMA ExchangedAlike ==
    ASSUME NEW s, OfClass(s), \A r \in Reg : s.extra[r] = 0,
           NEW p \in Renumberings, NEW k
    PROVE  LET t == Exchanged(s, Number(p), Former(p))
           IN  \A r \in s.active : Model!Replay(s, k, p)[r] = Model!Replay(t, k, ByNumber)[p[r]]
  <1> DEFINE q == Number(p)
             back == Former(p)
             t == Exchanged(s, q, back)
             e == [a \in s.active |-> p[a]]
  <1>1. Exchanges(q, back) /\ \A x \in Virtual : q[x] = p[x]
    BY NumbersAreExchanged
  <1>2. p \in [Virtual -> Virtual] /\ \A a, b \in Virtual : p[a] = p[b] => a = b
    BY DEF Renumberings
  <1> HIDE DEF q, back
  <1>3. /\ \A a \in Reg : /\ t.neighbors[q[a]] = Model!All(q, s.neighbors[a])
                          /\ t.parent[q[a]] = q[s.parent[a]] /\ t.cost[q[a]] = s.cost[a]
                          /\ t.extra[q[a]] = 0
        /\ \A a, b \in Reg : /\ b \in s.neighbors[a] <=> q[b] \in t.neighbors[q[a]]
                             /\ q[a] = q[b] => a = b
        /\ t.active = Model!All(q, s.active)
        /\ OfClass(t)
    BY <1>1, ExchangedParts
  <1>4. /\ s.active \subseteq Virtual /\ t.active \subseteq Virtual
        /\ Virtual \subseteq Reg /\ Reg \subseteq Nat /\ Virtual \cap Phys = {}
        /\ Model!Physical = Phys
    BY <1>3, RegistersAreNumbers, Disjointness DEF OfClass, Model!Physical, Phys
  <1> HIDE DEF t
  <1>5. \A a \in s.active : e[a] = p[a] /\ e[a] = q[a] /\ a \in Virtual /\ a \in Reg /\ e[a] \in Nat
    BY <1>1, <1>2, <1>4
  <1>6. Model!Maps(e, s.active, t.active) /\ \A c \in t.active : \E a \in s.active : e[a] = c
    <2>1. \A a \in s.active : e[a] \in t.active
      BY <1>3, <1>5 DEF Model!All
    <2>2. \A c \in t.active : \E a \in s.active : e[a] = c
      BY <1>3, <1>5 DEF Model!All
    <2> QED
      BY <2>1, <2>2 DEF Model!Maps
  <1> HIDE DEF e
  <1>7. \A a, b \in s.active : e[a] = e[b] => a = b
    BY <1>3, <1>5
  <1>8. /\ Model!IsSnapshot(s) /\ Model!IsSnapshot(t) /\ Model!AreRanks(t, ByNumber)
        /\ Model!Nodes(s) = Reg /\ Model!Nodes(t) = Reg
        /\ \A r \in Reg : s.parent[s.parent[r]] = s.parent[r]
        /\ \A r \in Reg : t.parent[t.parent[r]] = t.parent[r]
    BY <1>3 DEF OfClass
  <1>9. Model!AreRanks(s, p)
    <2>1. \A a \in s.active : p[a] \in Int
      BY <1>5
    <2> QED
      BY <2>1 DEF Model!AreRanks
  <1>10. \A a \in s.active : s.neighbors[a] \in SUBSET Reg /\ s.parent[a] \in Reg
    BY <1>5, <1>8 DEF Model!IsSnapshot
  <1>11. ASSUME NEW a \in s.active
         PROVE  /\ Model!Cardinality(s.neighbors[a]) + s.extra[a]
                     = Model!Cardinality(t.neighbors[e[a]]) + t.extra[e[a]]
                /\ s.cost[a] = t.cost[e[a]]
    <2>1. Model!IsFiniteSet(s.neighbors[a])
      BY <1>5, <1>10, RegistersAreFinite, SameFiniteSet
    <2>2. Model!Maps(q, Reg, Reg) /\ \A x, y \in s.neighbors[a] : q[x] = q[y] => x = y
      BY <1>1, <1>3, <1>10 DEF Exchanges
    <2>3. Model!Cardinality(Model!All(q, s.neighbors[a])) = Model!Cardinality(s.neighbors[a])
      BY <1>10, <2>1, <2>2, Model!ImageSize
    <2> QED
      BY <1>3, <1>5, <2>3
  <1>12. ASSUME NEW a \in s.active, NEW b \in s.active
         PROVE  /\ b \in s.neighbors[a] <=> e[b] \in t.neighbors[e[a]]
                /\ Model!Before(p, a, b) <=> Model!Before(ByNumber, e[a], e[b])
    <2>1. b \in s.neighbors[a] <=> e[b] \in t.neighbors[e[a]]
      BY <1>3, <1>5
    <2>2. ByNumber[e[a]] = e[a] /\ ByNumber[e[b]] = e[b] /\ e[a] = p[a] /\ e[b] = p[b]
          /\ e[a] \in Nat /\ e[b] \in Nat /\ a \in Nat /\ b \in Nat
      BY <1>2, <1>4, <1>5 DEF ByNumber
    <2>3. e[a] = e[b] => a = b
      BY <1>7
    <2> QED
      BY <2>1, <2>2, <2>3 DEF Model!Before
  <1>13. Model!Alike(e, s, p, t, ByNumber)
    BY <1>6, <1>7, <1>8, <1>9, <1>11, <1>12 DEF Model!Alike, Model!Embeds
  <1>14. \A r \in Reg : Model!Canonical(s, r) = s.parent[r] /\ Model!Canonical(t, r) = t.parent[r]
    BY <1>8, Model!CanonicalIsParent
  <1>15. ASSUME NEW a \in s.active
         PROVE  /\ \A c : c \in Model!Roots(s, a) <=> \E m \in s.neighbors[a] : c = s.parent[m]
                /\ \A c : c \in Model!Roots(t, e[a]) <=> \E m \in s.neighbors[a] : c = q[s.parent[m]]
    <2>1. \A c : c \in Model!Roots(s, a) <=> \E m \in s.neighbors[a] : c = s.parent[m]
      BY <1>10, <1>14 DEF Model!Roots
    <2>2. e[a] \in Reg /\ t.neighbors[e[a]] \subseteq Reg
      BY <1>4, <1>5, <1>6, <1>8 DEF Model!Maps, Model!IsSnapshot
    <2>3. \A c : c \in Model!Roots(t, e[a]) <=> \E m \in t.neighbors[e[a]] : c = t.parent[m]
      BY <1>14, <2>2 DEF Model!Roots
    <2>4. \A m : m \in t.neighbors[e[a]] <=> \E x \in s.neighbors[a] : m = q[x]
      BY <1>3, <1>5 DEF Model!All
    <2>5. \A x \in s.neighbors[a] : t.parent[q[x]] = q[s.parent[x]]
      BY <1>3, <1>10
    <2> QED
      BY <2>1, <2>3, <2>4, <2>5
  <1>16. \A m \in Reg : s.parent[m] \in Reg
    BY <1>8 DEF Model!IsSnapshot
  <1>17. Model!SameRoots(e, s, t)
    <2>1. ASSUME NEW a \in s.active, NEW c \in Phys
          PROVE  c \in Model!Roots(s, a) <=> c \in Model!Roots(t, e[a])
      <3>1. q[c] = c /\ c \in Reg
        BY <1>1, Disjointness DEF Exchanges
      <3>2. \A m \in s.neighbors[a] : c = s.parent[m] <=> c = q[s.parent[m]]
        BY <1>3, <1>10, <1>16, <3>1
      <3> QED
        BY <1>15, <3>2
    <2>2. ASSUME NEW a \in s.active, NEW b \in s.active
          PROVE  b \in Model!Roots(s, a) <=> e[b] \in Model!Roots(t, e[a])
      <3>1. \A m \in s.neighbors[a] : b = s.parent[m] <=> e[b] = q[s.parent[m]]
        BY <1>3, <1>5, <1>10, <1>16
      <3> QED
        BY <1>15, <3>1
    <2> QED
      BY <1>4, <2>1, <2>2 DEF Model!SameRoots
  <1>18. Model!Separate(s) /\ Model!Separate(t)
    BY <1>4 DEF Model!Separate
  <1>19. \A a \in s.active : Model!Replay(t, k, ByNumber)[e[a]] = Model!Replay(s, k, p)[a]
    BY <1>13, <1>17, <1>18, ClassIsClassed, Model!ReplayedAlike
  <1>20. \A a \in s.active : Model!Replay(s, k, p)[a] = Model!Replay(t, k, ByNumber)[p[a]]
    BY <1>5, <1>19
  <1> QED
    BY <1>20 DEF t, q, back

LEMMA RenumberedAsRanked == ASSUME TypeOK PROVE RanksAreRenumberings
  <1>1. OfClass(Captured) /\ \A r \in Reg : Captured.extra[r] = 0
    BY CapturedIsOfClass DEF Captured
  <1>2. ASSUME NEW p \in Renumberings
        PROVE  Renumbered(p) = Exchanged(Captured, Number(p), Former(p))
    <2> DEFINE q == Number(p)
               back == Former(p)
    <2>1. Renumbered(p) = [neighbors |-> [r \in Reg |-> { q[x] : x \in adj[back[r]] }],
                           parent |-> [r \in Reg |-> q[alias[back[r]]]],
                           cost |-> [r \in Reg |-> cost[back[r]]],
                           extra |-> [r \in Reg |-> 0],
                           active |-> { q[r] : r \in Captured.active }]
      BY Zenon DEF Renumbered, Number, Former
    <2> HIDE DEF q, back
    <2>2. Captured.neighbors = adj /\ Captured.parent = alias /\ Captured.cost = cost
      BY DEF Captured
    <2>3. Renumbered(p) = Exchanged(Captured, q, back)
      BY <2>1, <2>2, Zenon DEF Exchanged
    <2> QED
      BY <2>3 DEF q, back
  <1>3. ASSUME NEW p \in Renumberings, NEW r \in Captured.active
        PROVE  Tool!Replay(Captured, limit, p)[r] = Tool!Replay(Renumbered(p), limit, ByNumber)[p[r]]
    BY <1>1, <1>2, <1>3, ExchangedAlike, SameReplay
  <1> QED
    BY <1>3 DEF RanksAreRenumberings

(***************************************************************************)
(* For every graph, table and number of attempts, the tool's replay gives  *)
(* every register the colour that the compiler's loops give it when the    *)
(* class begins with the tool's registers, and ranks stand for numbers.    *)
(***************************************************************************)
THEOREM ReplayFollows == Spec => []ReplayIsExact
  <1>1. Init => LowInv /\ CountInv /\ ReplayInv
    <2>1. ASSUME Init PROVE low = {} /\ colorPc = "idle"
      BY <2>1 DEF Init
    <2> QED
      BY <2>1, InitCounts DEF LowInv, ReplayInv, ReplayScan, ReplaySelect
  <1>2. IInv /\ ReplayInv => ReplayIsExact
    BY SelectedAsReplayed, RenumberedAsRanked DEF ReplayInv, ReplayIsExact, IInv
  <1>3. IInv => TypeOK
    BY DEF IInv
  <1> QED
    BY <1>1, <1>2, <1>3, InductiveInvariant, NextLow, NextCounts, NextReplays, PTL DEF Spec
=============================================================================
