------------------------------ MODULE Coloring ------------------------------
(***************************************************************************)
(* One register class of src/backend/Coloring.c: the spill-and-retry loop  *)
(* of Coloring_RunClass with graph simplification, colour selection and    *)
(* the commit, on the class's table of used physical registers             *)
(* (src/backend/Registers.c).  Building the graph is the subject of        *)
(* Liveness, Interference and Coalesce; here any graph of theirs is met.   *)
(***************************************************************************)
EXTENDS PCode, Integers, Sequences, FiniteSets

CONSTANTS
    LastVolatile,   \* the last register of the initial mask (12, 13, 19)
    FirstSaved,     \* the lowest register a claim may take (14, 14, 20)
    SavedFloor,     \* registers above it count as saved (15, 17, 19)
    Inputs,         \* the graphs that may be met: [adj, alias, cost]
    Owned,          \* the sets of nodes that belong to named objects
    MaxAttempts     \* bounds the attempts at the class

ASSUME FileAssumption ==
    /\ LastVolatile \in 0 .. NPhys - 1 /\ FirstSaved \in Nat
    /\ LastVolatile < FirstSaved /\ FirstSaved <= SavedFloor + 1
    /\ SavedFloor \in Nat /\ MaxAttempts \in Nat

NoColor == -1
Saved   == FirstSaved .. NPhys - 1

\* What MaterializeGraph leaves for the colouring (see Coalesce).
IsInput(in) ==
    /\ in.adj \in [Reg -> SUBSET Reg]
    /\ \A x \in Reg : x \notin in.adj[x]
    /\ \A x, y \in Reg : y \in in.adj[x] => x \in in.adj[y]
    /\ in.alias \in [Reg -> Reg]
    /\ \A x \in Reg : in.adj[x] \subseteq in.adj[in.alias[x]]
    /\ \A r \in Reg : in.alias[in.alias[r]] = in.alias[r]
    /\ \A r \in Phys : in.alias[r] = r
    /\ in.cost \in [Reg -> Nat]

ASSUME InputsAssumption == \A in \in Inputs : IsInput(in)
ASSUME OwnedAssumption  == Owned \subseteq SUBSET Virtual

VARIABLES
    adj, alias, cost, owned,    \* the graph met, and the objects' nodes
    degree, simplified, stack, low, cursor, changed, remaining, limit,
    used, span, savedFree,      \* gUsedPhysical*, g*SaveSpan, gAvailableSaved*
    snapshot, snapSpan,         \* the state Registers_Setup* saved
    mask, color, spilled,       \* color_mask and the nodes' results
    final,                      \* the register an operand naming r is given
    attempt, colorPc

input    == <<adj, alias, cost, owned>>
simplify == <<degree, simplified, stack, low, cursor, changed, remaining, limit>>
table    == <<used, span, savedFree>>
saved    == <<snapshot, snapSpan>>
select   == <<mask, color, spilled>>
vars     == <<input, simplify, table, saved, select, final, attempt, colorPc>>
-----------------------------------------------------------------------------
FreeWithReserved == Phys \ (used \cap Saved)   \* mutant: reserved ones count

\* Registers_CountFree and Registers_BuildColorMask
Free == Phys \ used
FreeVolatile(u) == (0 .. LastVolatile) \ u

LowestOf(S)  == CHOOSE x \in S : \A y \in S : x <= y
HighestOf(S) == CHOOSE x \in S : \A y \in S : x >= y

\* What Registers_RecordPhysicalUse derives from the table: the span from the
\* lowest used saved register up, and the count of free ones above the floor.
SpanOf(u)      == IF u \cap Saved = {} THEN 0 ELSE NPhys - LowestOf(u \cap Saved)
SavedFreeOf(u) == Cardinality({ r \in Phys : r > SavedFloor /\ r \notin u })

\* Registers_SetupVRs, Registers_SetupFPRs, Registers_SetupGPRs, with the
\* check of Coloring_AllocateRegisters that some register is free.
BeginClass ==
    /\ colorPc = "idle"
    /\ snapshot' = used /\ snapSpan' = span
    /\ colorPc' = IF RegCount = NPhys THEN "done"
                  ELSE IF Free = {} THEN "error" ELSE "build"
    /\ UNCHANGED <<input, simplify, table, select, final, attempt>>

\* The registers of the graph that colouring must not claim: a register of the
\* saved range that a virtual one meets or was coalesced into was recorded as
\* used when it was bound.
Admissible(in) ==
    \A v \in Virtual : (in.adj[v] \cup {in.alias[v]}) \cap Saved \subseteq snapshot

\* Coloring_SetupClass: physical registers are their own colours.
StartColors(a) == [r \in Reg |-> IF r \in Phys THEN r
                                 ELSE IF a[r] # r THEN a[r] ELSE NoColor]

StartScanUncleared ==   \* mutant: the flag survives the walk
    cursor' = NPhys /\ changed' = changed /\ remaining' = <<>>

StartScan == cursor' = NPhys /\ changed' = FALSE /\ remaining' = <<>>

(***************************************************************************)
(* One turn of the loop of Coloring_RunClass up to the simplification.     *)
(* The graph of a retry is a new one: spill code (external) went in.  The  *)
(* limit is counted here, before Coloring_SelectColors resets the table:   *)
(* on a retry it misses the registers that the failed attempt claimed.     *)
(***************************************************************************)
BuildGraph ==
    /\ colorPc = "build" /\ attempt < MaxAttempts
    /\ \E in \in Inputs, o \in Owned :
         /\ Admissible(in)
         /\ adj' = in.adj /\ alias' = in.alias /\ cost' = in.cost /\ owned' = o
         /\ degree' = [r \in Reg |-> Cardinality(in.adj[r])]
         /\ color' = StartColors(in.alias)
    /\ simplified' = {} /\ low' = {} /\ stack' = <<>> /\ StartScan
    /\ limit' = Cardinality(Free)
    /\ spilled' = {}
    /\ attempt' = attempt + 1 /\ colorPc' = "scan"
    /\ UNCHANGED <<table, saved, mask, final>>
-----------------------------------------------------------------------------
\* Coloring_DecrementNeighbors and the push
PushNode(n) ==
    /\ degree' = [r \in Reg |-> IF r \in adj[n] THEN degree[r] - 1 ELSE degree[r]]
    /\ simplified' = simplified \cup {n}
    /\ stack' = <<n>> \o stack

\* Coloring_SimplifyLowDegree, one node of the walk.
ScanNode ==
    /\ colorPc = "scan" /\ cursor < RegCount
    /\ cursor' = cursor + 1
    /\ \/ /\ cursor \in simplified \/ alias[cursor] # cursor
          /\ UNCHANGED <<degree, simplified, stack, low, changed, remaining>>
       \/ /\ cursor \notin simplified /\ alias[cursor] = cursor
          /\ degree[cursor] < limit
          /\ PushNode(cursor) /\ low' = low \cup {cursor} /\ changed' = TRUE
          /\ UNCHANGED remaining
       \/ /\ cursor \notin simplified /\ alias[cursor] = cursor
          /\ degree[cursor] >= limit
          /\ remaining' = <<cursor>> \o remaining
          /\ UNCHANGED <<degree, simplified, stack, low, changed>>
    /\ UNCHANGED <<input, limit, table, saved, select, final, attempt, colorPc>>

\* The walk is repeated while it pushes nodes.
RepeatScan ==
    /\ colorPc = "scan" /\ cursor = RegCount /\ changed
    /\ StartScan
    /\ UNCHANGED <<input, degree, simplified, stack, low, limit, table, saved,
                   select, final, attempt, colorPc>>

\* Coloring_SpillScore by cross-multiplication: cost / degree.
Cheaper(a, b) == cost[a] * degree[b] < cost[b] * degree[a]

\* The first node of the list with the smallest score.
IsCandidate(i) ==
    /\ \A j \in 1 .. Len(remaining) : ~Cheaper(remaining[j], remaining[i])
    /\ \A j \in 1 .. i - 1 : Cheaper(remaining[i], remaining[j])

PushCandidateOnly ==   \* mutant: the list is used up without another walk
    /\ colorPc = "scan" /\ cursor = RegCount /\ ~changed
    /\ \E i \in 1 .. Len(remaining) :
         /\ IsCandidate(i) /\ PushNode(remaining[i])
         /\ remaining' = [j \in 1 .. Len(remaining) - 1 |->
                            IF j < i THEN remaining[j] ELSE remaining[j + 1]]
    /\ UNCHANGED <<cursor, changed>>
    /\ UNCHANGED <<input, low, limit, table, saved, select, final, attempt, colorPc>>

\* Coloring_SimplifyGraph pushes a spill candidate when nothing else is left.
PushCandidate ==
    /\ colorPc = "scan" /\ cursor = RegCount /\ ~changed
    /\ \E i \in 1 .. Len(remaining) : IsCandidate(i) /\ PushNode(remaining[i])
    /\ StartScan
    /\ UNCHANGED <<input, low, limit, table, saved, select, final, attempt, colorPc>>

\* The end of simplification; Coloring_SelectColors starts from the saved
\* table (Coloring_Reset*Colors) and the free volatile registers.
BeginSelect ==
    /\ colorPc = "scan" /\ cursor = RegCount /\ ~changed /\ remaining = <<>>
    /\ used' = snapshot /\ span' = snapSpan
    /\ mask' = FreeVolatile(snapshot)
    /\ colorPc' = "select"
    /\ UNCHANGED <<input, simplify, savedFree, saved, color, spilled, final, attempt>>
-----------------------------------------------------------------------------
ClaimColorUnrecorded(c) ==   \* mutant: the table is not told
    c = HighestOf(Saved \ used) /\ UNCHANGED table

ClaimColorKeepsSpan(c) ==   \* mutant: the save area is not widened
    /\ c = HighestOf(Saved \ used)
    /\ used' = used \cup {c} /\ savedFree' = SavedFreeOf(used')
    /\ UNCHANGED span

ClaimColorKeepsCount(c) ==   \* mutant: the count of free registers is stale
    /\ c = HighestOf(Saved \ used)
    /\ used' = used \cup {c} /\ span' = SpanOf(used')
    /\ UNCHANGED savedFree

\* Registers_FindFree with its bind: take the highest unused saved register.
ClaimColor(c) ==
    /\ c = HighestOf(Saved \ used)
    /\ used' = used \cup {c}
    /\ span' = SpanOf(used')
    /\ savedFree' = SavedFreeOf(used')

Held(n) == { color[m] : m \in adj[n] } \cap Phys

SelectNodeWithoutClaim ==   \* mutant: the saved registers are never tried
    /\ colorPc = "select" /\ stack # <<>>
    /\ LET n == Head(stack)
           available == mask \ Held(n)
       IN  \/ /\ available # {}
              /\ color' = [color EXCEPT ![n] = LowestOf(available)]
              /\ UNCHANGED <<mask, spilled, table>>
           \/ /\ available = {}
              /\ spilled' = spilled \cup {n}
              /\ UNCHANGED <<mask, color, table>>
    /\ stack' = Tail(stack)
    /\ UNCHANGED <<input, degree, simplified, low, cursor, changed, remaining,
                   limit, saved, final, attempt, colorPc>>

\* Coloring_SelectColors, one node of the stack.
SelectNode ==
    /\ colorPc = "select" /\ stack # <<>>
    /\ LET n == Head(stack)
           available == mask \ Held(n)
       IN  \/ /\ available # {}
              /\ color' = [color EXCEPT ![n] = LowestOf(available)]
              /\ UNCHANGED <<mask, spilled, table>>
           \/ /\ available = {} /\ Saved \subseteq used
              /\ spilled' = spilled \cup {n}
              /\ UNCHANGED <<mask, color, table>>
           \/ /\ available = {}
              /\ \E c \in Saved \ used :
                   /\ ClaimColor(c)
                   /\ color' = [color EXCEPT ![n] = c]
                   /\ mask' = mask \cup {c}
              /\ UNCHANGED spilled
    /\ stack' = Tail(stack)
    /\ UNCHANGED <<input, degree, simplified, low, cursor, changed, remaining,
                   limit, saved, final, attempt, colorPc>>

\* A failed selection: spill code is inserted and the class starts again.
SpillAndRetry ==
    /\ colorPc = "select" /\ stack = <<>> /\ spilled # {}
    /\ colorPc' = "build"
    /\ UNCHANGED <<input, simplify, table, saved, select, final, attempt>>

UnresolvedColor(c) == c   \* mutant: the object keeps the root's number

\* Coloring_ResolveCoalescedColor: an alias is a root, so one look-up is enough.
ResolveCoalescedColor(c) == IF c >= NPhys THEN color[c] ELSE c

\* Coloring_CommitAssignments: the operands first, then the objects' nodes.  The
\* graph holds no instructions, so copies that become trivial are not deleted here.
Commit ==
    /\ colorPc = "select" /\ stack = <<>> /\ spilled = {}
    /\ final' = color
    /\ color' = [r \in Reg |-> IF r \in owned /\ alias[r] # r
                               THEN ResolveCoalescedColor(color[r]) ELSE color[r]]
    /\ colorPc' = "done"
    /\ UNCHANGED <<input, simplify, table, saved, mask, spilled, attempt>>
-----------------------------------------------------------------------------
\* A class starts with a table whose span covers what it records; the
\* registers between the volatile and the saved ones are reserved.  Binding
\* leaves some volatile register free, unless the class has none to give out.
Init ==
    /\ used \in SUBSET Phys
    /\ FreeVolatile(used) # {} \/ Free = {}
    /\ LastVolatile + 1 .. FirstSaved - 1 \subseteq used
    /\ span = SpanOf(used) /\ savedFree = SavedFreeOf(used)
    /\ snapshot = {} /\ snapSpan = 0
    /\ adj = [r \in Reg |-> {}] /\ alias = [r \in Reg |-> r]
    /\ cost = [r \in Reg |-> 0] /\ owned = {}
    /\ degree = [r \in Reg |-> 0] /\ simplified = {} /\ stack = <<>> /\ low = {}
    /\ cursor = NPhys /\ changed = FALSE /\ remaining = <<>> /\ limit = 0
    /\ mask = {} /\ spilled = {}
    /\ color = [r \in Reg |-> NoColor] /\ final = [r \in Reg |-> NoColor]
    /\ attempt = 0 /\ colorPc = "idle"

Step == \/ BeginClass \/ BuildGraph
        \/ ScanNode \/ RepeatScan \/ PushCandidate \/ BeginSelect
        \/ SelectNode \/ SpillAndRetry \/ Commit

Terminated == /\ \/ colorPc \in {"done", "error"}
                 \/ colorPc = "build" /\ attempt = MaxAttempts
              /\ UNCHANGED vars

Next == Step \/ Terminated

Spec == Init /\ [][Next]_vars

\* The loops are straight-line code of one thread: it never stops while a
\* step is left.
FairSpec == Spec /\ WF_vars(Step)
-----------------------------------------------------------------------------
(***************************************************************************)
(* Type correctness, with what the walk's lists hold.                      *)
(***************************************************************************)
TypeOK ==
    /\ IsInput([adj |-> adj, alias |-> alias, cost |-> cost])
    /\ owned \subseteq Virtual
    /\ degree \in [Reg -> Int] /\ limit \in Nat
    /\ simplified \subseteq Virtual /\ low \subseteq simplified
    /\ stack \in Seq(simplified) /\ remaining \in Seq(Virtual)
    /\ cursor \in NPhys .. RegCount /\ changed \in BOOLEAN
    /\ used \subseteq Phys /\ span \in Nat /\ savedFree \in Nat
    /\ snapshot \subseteq Phys /\ snapSpan \in Nat
    /\ mask \subseteq Phys /\ spilled \subseteq Virtual
    /\ color \in [Reg -> Reg \cup {NoColor}]
    /\ final \in [Reg -> Reg \cup {NoColor}]
    /\ attempt \in 0 .. MaxAttempts
    /\ colorPc \in {"idle", "build", "scan", "select", "done", "error"}

(***************************************************************************)
(* Neighbours in the graph never hold one physical register, in any        *)
(* attempt and also when a register is claimed without a look at the       *)
(* neighbours, as Coloring_SelectColors does.                              *)
(***************************************************************************)
ProperColoring ==
    \A a, b \in Reg : b \in adj[a] /\ color[a] \in Phys => color[a] # color[b]

(***************************************************************************)
(* A node pushed for its low degree never spills: the limit counts no      *)
(* register that selection cannot give out, degrees count every neighbour  *)
(* that may be coloured, and selection undoes the pushes in order.         *)
(***************************************************************************)
LowDegreeNeverSpills == low \cap spilled = {}

(***************************************************************************)
(* Simplification puts every node that was not coalesced on the stack once *)
(* (a node can be on the list of the remaining ones and be pushed later),  *)
(* so that a commit leaves no node without a register.                     *)
(***************************************************************************)
EveryNodeStackedOnce ==
    /\ \A i, j \in 1 .. Len(stack) : stack[i] = stack[j] => i = j
    /\ colorPc = "scan" => simplified = { stack[i] : i \in 1 .. Len(stack) }
    /\ colorPc \in {"select", "done"} =>
         \A r \in Virtual :
           alias[r] = r /\ attempt > 0 =>
             \/ \E i \in 1 .. Len(stack) : stack[i] = r
             \/ color[r] \in Phys \/ r \in spilled

(***************************************************************************)
(* The score divides by the degree: no candidate has degree zero, although *)
(* other candidates and late pushes lower the degrees of nodes listed.     *)
(***************************************************************************)
ScoresAreDefined ==
    colorPc = "scan" /\ cursor = RegCount /\ ~changed =>
        \A i \in 1 .. Len(remaining) : degree[remaining[i]] > 0

(***************************************************************************)
(* The registers from 32 - span up are the ones the prologue saves: they   *)
(* hold every saved register that an operand was given, although a failed  *)
(* attempt claimed others and selection resets the table.                  *)
(***************************************************************************)
SaveAreaCovers ==
    colorPc = "done" =>
        \A r \in Reg : r \in Virtual /\ final[r] \in Saved =>
                         final[r] \in used /\ final[r] >= NPhys - span

(***************************************************************************)
(* The count of free saved registers is not reset with the table.  It may  *)
(* then be too small, never too large: Registers_AllocateGPRPair takes two *)
(* registers on its word.                                                  *)
(***************************************************************************)
SavedCountNeverOverstates == savedFree <= Cardinality(Saved \ used)

(***************************************************************************)
(* What is counted beside the sets stays right when nodes are pushed early *)
(* and attempts fail: degrees, the span to be saved, the saved registers   *)
(* that are free.                                                          *)
(***************************************************************************)
CountsAreRight == ScoresAreDefined /\ SaveAreaCovers /\ SavedCountNeverOverstates

(***************************************************************************)
(* A named object's register is the one that the operands naming its node  *)
(* were given: operands name roots, objects may name coalesced nodes.      *)
(***************************************************************************)
ObjectsFollowOperands ==
    colorPc = "done" /\ attempt > 0 =>
        \A r \in owned : color[r] \in Phys /\ color[r] = final[alias[r]]

(***************************************************************************)
(* Every attempt ends: in a commit, or asking for spill code.              *)
(***************************************************************************)
AttemptsEnd == colorPc = "scan" ~> colorPc \in {"build", "done"}

(***************************************************************************)
(* The class implements GraphColoring.                                     *)
(***************************************************************************)
Assignable == IF attempt = 0 THEN {}
              ELSE FreeVolatile(snapshot) \cup (Saved \ snapshot)

Phase == IF colorPc \in {"done", "error"} THEN colorPc
         ELSE IF attempt = 0 THEN "idle" ELSE "coloring"

Abstract == INSTANCE GraphColoring WITH assignable <- Assignable, phase <- Phase

RefinesGraphColoring == Abstract!Spec
=============================================================================
