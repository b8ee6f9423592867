----------------------------- MODULE LoopMotion -----------------------------
(***************************************************************************)
(* Loop code motion over the tree of loops (src/backend/CodeMotion.c):     *)
(* three recursive walks summarise the loops, move instructions out of     *)
(* them and visit the leaves.  The index of MotionIndex is built first.    *)
(* The tests for what may move and the move itself (COpt_00526d80,         *)
(* 005266e0, 00526500, 00525fc0, 00526230) are not in the repository: the  *)
(* tests may answer anything; a move takes the instruction out of its loop *)
(* to the end of the block in front of it.                                 *)
(***************************************************************************)
EXTENDS MotionIndex, FiniteSetsExt

CONSTANTS
    Node,       \* the loops
    NoNode,     \* a null CodeMotionNode pointer
    Shapes,     \* the trees and flow graphs considered
    SizeLimit   \* 0x19

ASSUME NodeAssumption == NoNode \notin Node /\ SizeLimit \in Nat

\* The block in front of a loop lies only in loops that hold the whole loop.
ASSUME ShapeAssumption ==
    \A s \in Shapes :
        /\ s.root \in Node /\ {s.child, s.sibling} \subseteq [Node -> Node \cup {NoNode}]
        /\ DOMAIN s.succ \subseteq Nat /\ s.front \in [Node -> DOMAIN s.succ]
        /\ s.blocks \in [Node -> Seq(DOMAIN s.succ)]
        /\ \A m, n \in Node : s.front[n] \in SeqExt!ToSet(s.blocks[m]) =>
                SeqExt!ToSet(s.blocks[n]) \subseteq SeqExt!ToSet(s.blocks[m])

\* u[n] is what a walk over the list of loops that begins with n comes to.
LoopsUnder(u, s) ==
    /\ u[NoNode] = {} /\ u[s.root] = Node
    /\ \A n \in Node :
          LET inner == u[s.child[n]]
              later == u[s.sibling[n]]
          IN  /\ u[n] = {n} \cup inner \cup later
              /\ n \notin inner \cup later /\ inner \cap later = {}
              /\ inner = { m \in Node \ {n} :
                             SeqExt!ToSet(s.blocks[m]) \subseteq SeqExt!ToSet(s.blocks[n]) }

\* The tree holds each loop once, the loops inside a loop under its child.
ASSUME TreeAssumption ==
    \A s \in Shapes : \E u \in [Node \cup {NoNode} -> SUBSET Node] : LoopsUnder(u, s)

VARIABLES
    shape,      \* the tree of loops and the flow graph
    blocks,     \* the instructions of each block, in order
    fact,       \* what COpt_00521bb0 notes in a node
    walk,       \* "index", "summary", "motion", "leaf", "done"
    stack,      \* the calls of the recursive walk, innermost last
    scanPc,     \* COpt_00524d90: "none", "block", "instruction"
    blockAt, todo, changed, available,    \* its locals
    start, passed, refused, moves, visits   \* history

svars == <<scanPc, blockAt, todo, changed, available, start, passed, refused>>
mvars == <<shape, blocks, fact, walk, stack, svars, moves, visits>>
vars  == <<ivars, mvars>>

Block == DOMAIN shape.succ

Top  == stack[Len(stack)]
Loop == Top.node
LoopBlocks(n) == SeqExt!ToSet(shape.blocks[n])
Inside(n) == { i \in Positions : code[i].block \in LoopBlocks(n) }

\* A call for the list of loops that begins with n.
Frame(n) == [node |-> n, entered |-> FALSE]
-----------------------------------------------------------------------------
Size(n) == MapThenSumSet(LAMBDA b : Len(blocks[b]), LoopBlocks(n))

\* COpt_00521bb0.  The counter opcodes are tested before the memory flags, a
\* barrier after them; the two indexed facts are set but never reset.
Summary(n) ==
    LET inside    == { code[i] : i \in Inside(n) }
        Counts(i) == i.opcode = "counter"
        Loads(i)  == ~Counts(i) /\ "ImplicitUse" \in i.flags
        Stores(i) == ~Counts(i) /\ ~Loads(i) /\ "ImplicitDefinition" \in i.flags
    IN  [ size |-> Size(n),
          call |-> \E i \in inside : "Call" \in i.flags,
          counter |-> \E i \in inside : Counts(i),
          skipLeaf |-> \A b \in LoopBlocks(n) \ {shape.entry[n]} :
                          Len(shape.succ[b]) <= 1 /\ Len(shape.pred[b]) <= 1,
          flag40 |-> LoopBlocks(n) \cap shape.flag40 # {},
          indexedLoad |-> fact[n].indexedLoad
                          \/ \E i \in inside : Loads(i) /\ i.opcode = "indexedLoad",
          indexedStore |-> fact[n].indexedStore
                          \/ \E i \in inside : Stores(i) /\ i.opcode = "indexedStore",
          barrier |-> \E i \in inside : i.opcode = "barrier" /\ ~Loads(i) /\ ~Stores(i) ]

KillsAnyDefinition(d) == SeqExt!ToSet(ListOf(entry.def[d]))   \* mutant

\* What a definition takes out of the available ones: all of its register, or
\* of its object when the instruction names it.
Kills(d) == IF entry.def[d].implicit THEN {} ELSE SeqExt!ToSet(ListOf(entry.def[d]))

\* The definitions available after instruction i; its entries lie together.
After(set, i) ==
    LET f == first[i].def
        step[k \in Nat] ==
            IF k = 0 THEN set
            ELSE IF entry.def[f + k - 1].instr # i THEN step[k - 1]
            ELSE (step[k - 1] \ Kills(f + k - 1)) \cup {f + k - 1}
    IN  step[count.def - f]
-----------------------------------------------------------------------------
Init ==
    /\ IndexInit
    /\ shape \in Shapes
    /\ blocks = [b \in Block |-> Chosen([i \in Positions |-> i], { i \in Positions : code[i].block = b })]
    /\ \E stale \in BOOLEAN :
         fact = [n \in Node |-> [size |-> 0, indexedLoad |-> stale, indexedStore |-> stale]]
    /\ walk = "index" /\ stack = <<>>
    /\ scanPc = "none" /\ blockAt = 1 /\ todo = 0 /\ changed = FALSE /\ available = {}
    /\ start = {} /\ passed = <<>> /\ refused = {} /\ moves = {}
    /\ visits = [w \in {"summary", "motion", "leaf"} |-> <<>>]

BuildIndex == walk = "index" /\ IndexNext /\ UNCHANGED mvars

StartWalk(from, to) ==
    /\ walk = from /\ stack = <<>> /\ (from = "index" => Indexed)
    /\ mode = 0 <=> from = "index" /\ to = "done"
    /\ walk' = to
    /\ stack' = IF to = "done" THEN <<>> ELSE <<Frame(shape.root)>>
    /\ UNCHANGED <<ivars, shape, blocks, fact, svars, moves, visits>>

\* COpt_00521a10, COpt_00524bd0; an index of mode 0 is for another pass.
NextWalk == \/ StartWalk("index", "done")
            \/ StartWalk("index", "summary") \/ StartWalk("summary", "motion")
            \/ StartWalk("motion", "leaf") \/ StartWalk("leaf", "done")

Walking == stack # <<>> /\ scanPc = "none"

DescendLate ==   \* mutant: a loop is finished before its children are visited
    /\ Walking /\ ~Top.entered
    /\ stack' = [stack EXCEPT ![Len(stack)].entered = TRUE]
    /\ UNCHANGED <<ivars, shape, blocks, fact, walk, svars, moves, visits>>

\* The children of a loop come before it.
Descend ==
    /\ Walking /\ ~Top.entered
    /\ stack' = [stack EXCEPT ![Len(stack)].entered = TRUE]
                \o IF shape.child[Loop] = NoNode THEN <<>> ELSE <<Frame(shape.child[Loop])>>
    /\ UNCHANGED <<ivars, shape, blocks, fact, walk, svars, moves, visits>>

\* Done with a loop: on to its sibling, or back to the caller.
Leave ==
    stack' = SeqExt!Front(stack)
             \o IF shape.sibling[Loop] = NoNode THEN <<>> ELSE <<Frame(shape.sibling[Loop])>>

Visit == visits' = [visits EXCEPT ![walk] = Append(@, Loop)]

\* COpt_00521a30
Summarize ==
    /\ walk = "summary" /\ Walking /\ Top.entered
    /\ fact' = [fact EXCEPT ![Loop] = Summary(Loop)]
    /\ Leave /\ Visit /\ UNCHANGED <<ivars, shape, blocks, walk, svars, moves>>

\* COpt_00525070; the leaf pass COpt_00525200 is external.
LeafPass ==
    /\ walk = "leaf" /\ Walking /\ Top.entered
    /\ Leave
    /\ IF shape.child[Loop] = NoNode /\ ~fact[Loop].skipLeaf THEN Visit ELSE UNCHANGED visits
    /\ UNCHANGED <<ivars, shape, blocks, fact, walk, svars, moves>>
-----------------------------------------------------------------------------
\* COpt_00524c10 calls COpt_00524d90.
StartScan ==
    /\ walk = "motion" /\ Walking /\ Top.entered
    /\ scanPc' = "block" /\ blockAt' = 1 /\ changed' = FALSE /\ refused' = {}
    /\ UNCHANGED <<ivars, shape, blocks, fact, walk, stack, todo, available, start, passed,
                   moves, visits>>

NextOf(i, b) ==
    LET later == { k \in DOMAIN blocks[b] : k > 1 /\ blocks[b][k - 1] = i }
    IN  IF later = {} THEN 0 ELSE blocks[b][CHOOSE k \in later : TRUE]

\* The definitions that reach a block are computed elsewhere (external): all or none.
ScanBlock ==
    /\ scanPc = "block" /\ blockAt <= Len(shape.blocks[Loop])
    /\ LET b == shape.blocks[Loop][blockAt]
       IN  /\ todo' = IF blocks[b] = <<>> THEN 0 ELSE blocks[b][1]
           /\ available' \in {{}, 0 .. count.def - 1}
    /\ start' = available' /\ passed' = <<>> /\ scanPc' = "instruction"
    /\ UNCHANGED <<ivars, shape, blocks, fact, walk, stack, blockAt, changed, refused, moves, visits>>

EndBlock ==
    /\ scanPc = "instruction" /\ todo = 0
    /\ scanPc' = "block" /\ blockAt' = blockAt + 1
    /\ UNCHANGED <<ivars, shape, blocks, fact, walk, stack, todo, changed, available, start, passed,
                   refused, moves, visits>>

Skip ==
    /\ scanPc = "instruction" /\ todo # 0 /\ code[todo].skip
    /\ todo' = NextOf(todo, code[todo].block)
    /\ UNCHANGED <<ivars, shape, blocks, fact, walk, stack, scanPc, blockAt, changed, available, start,
                   passed, refused, moves, visits>>

\* What this repository's part of the direct test demands.
MayMoveDirectly(i, invariant, movable, escapes) ==
    /\ code[i].flags \cap {"ObjectFlag2", "CoalesceDisabled", "NullObjectMemory", "GPRFixedRange"} = {}
    /\ invariant /\ SingleDefinition(i, LoopBlocks(Loop)) /\ movable
    /\ code[i].block \in shape.always[Loop] \/ ~escapes
    /\ code[i].opcode = "op89" => fact[Loop].size <= SizeLimit

\* An instruction is offered; moved or not, its definitions are now available.
Offer(i) ==
    /\ todo' = NextOf(i, code[i].block)
    /\ passed' = Append(passed, i)
    /\ available' = After(available, i)
    /\ UNCHANGED <<shape, fact, walk, stack, scanPc, blockAt, start, visits>>

Refuse(i) ==
    /\ Offer(i)
    /\ refused' = refused \cup {i}
    /\ UNCHANGED <<ivars, blocks, changed, moves>>

Move(i, direct) ==
    LET from == code[i].block
        to   == shape.front[Loop]
        out  == [blocks EXCEPT ![from] = Chosen(@, { k \in DOMAIN @ : @[k] # i })]
    IN  /\ code' = [code EXCEPT ![i].block = to]
        /\ blocks' = [out EXCEPT ![to] = Append(@, i)]
        /\ moves' = moves \cup {[instr |-> i, loop |-> Loop, direct |-> direct]}

MoveOutQuietly(i, direct) ==   \* mutant: a move does not ask for another pass
    /\ Offer(i) /\ Move(i, direct)
    /\ refused' = {} /\ UNCHANGED changed
    /\ UNCHANGED <<mode, indexPc, at, tree, list, first, count, entry, links>>

MoveOut(i, direct) ==
    /\ Offer(i) /\ Move(i, direct)
    /\ changed' = TRUE /\ refused' = {}
    /\ UNCHANGED <<mode, indexPc, at, tree, list, first, count, entry, links>>

\* The four external tests; the last one is asked when the direct test fails.
ScanInstruction ==
    /\ scanPc = "instruction" /\ todo # 0 /\ ~code[todo].skip
    /\ \E invariant, movable, escapes, fallback \in BOOLEAN :
         LET direct == MayMoveDirectly(todo, invariant, movable, escapes)
         IN  IF direct \/ fallback THEN MoveOut(todo, direct) ELSE Refuse(todo)

RepeatUnreset ==   \* mutant: changed is cleared once, before the loop
    /\ scanPc = "block" /\ blockAt > Len(shape.blocks[Loop]) /\ changed
    /\ blockAt' = 1 /\ UNCHANGED changed
    /\ UNCHANGED <<ivars, shape, blocks, fact, walk, stack, scanPc, todo, available, start, passed,
                   refused, moves, visits>>

\* A pass over the loop in which something moved is followed by another.
Repeat ==
    /\ scanPc = "block" /\ blockAt > Len(shape.blocks[Loop]) /\ changed
    /\ blockAt' = 1 /\ changed' = FALSE
    /\ UNCHANGED <<ivars, shape, blocks, fact, walk, stack, scanPc, todo, available, start, passed,
                   refused, moves, visits>>

EndScan ==
    /\ scanPc = "block" /\ blockAt > Len(shape.blocks[Loop]) /\ ~changed
    /\ scanPc' = "none" /\ Leave /\ Visit
    /\ UNCHANGED <<ivars, shape, blocks, fact, walk, blockAt, todo, changed, available, start, passed,
                   refused, moves>>

Terminated == walk = "done" /\ UNCHANGED vars

Next == \/ BuildIndex \/ NextWalk \/ Descend \/ Summarize \/ LeafPass
        \/ StartScan \/ ScanBlock \/ EndBlock \/ Skip \/ ScanInstruction \/ Repeat \/ EndScan
        \/ Terminated

Spec == Init /\ [][Next]_vars
FairSpec == Spec /\ WF_vars(Next)
-----------------------------------------------------------------------------
Inner(n) == { m \in Node : LoopBlocks(m) \subseteq LoopBlocks(n) /\ m # n }
Count(seq, x) == Cardinality({ k \in DOMAIN seq : seq[k] = x })

(***************************************************************************)
(* Types; the cursor stays in the loop, its saved next instruction in the  *)
(* block it scans, even when the instruction before it has moved away.     *)
(***************************************************************************)
TypeOK ==
    /\ shape \in Shapes /\ \A b \in Block : blocks[b] \in Seq(Positions)
    /\ walk \in {"index", "summary", "motion", "leaf", "done"}
    /\ \A k \in DOMAIN stack : stack[k].node \in Node /\ stack[k].entered \in BOOLEAN
    /\ scanPc \in {"none", "block", "instruction"} /\ changed \in BOOLEAN
    /\ available \subseteq 0 .. count.def - 1 /\ refused \subseteq Positions
    /\ scanPc # "none" => blockAt \in 1 .. Len(shape.blocks[Loop]) + 1
    /\ scanPc = "instruction" /\ todo # 0 => code[todo].block = shape.blocks[Loop][blockAt]

(***************************************************************************)
(* At every instruction offered, the set handed to the external tests is   *)
(* what a definition's fate says: it stood in the set at the block's start *)
(* or was passed, and nothing passed since takes it out.  An object that   *)
(* an instruction only may touch takes nothing out.                        *)
(***************************************************************************)
SurvivesFrom(d, k, after) ==
    ~ \E j \in k .. Len(passed) : \E e \in Own("def", passed[j]) :
        /\ entry.def[e].names = entry.def[d].names /\ ~entry.def[e].implicit
        /\ j = k => e > after

AvailableIsExact ==
    scanPc = "instruction" =>
        available = { d \in DOMAIN entry.def :
                        \/ d \in start /\ SurvivesFrom(d, 1, -1)
                        \/ \E k \in DOMAIN passed :
                              d \in Own("def", passed[k]) /\ SurvivesFrom(d, k, d) }

(***************************************************************************)
(* The scan of a loop ends only when every instruction left in it has been *)
(* offered, and refused, after the last move out of it.                    *)
(***************************************************************************)
FixedPoint ==
    [][scanPc = "block" /\ scanPc' = "none" => Inside(Loop) \cap Kept \subseteq refused]_vars

(***************************************************************************)
(* Each loop is summarised once and scanned once, after the loops inside   *)
(* it; the leaf pass sees exactly the leaves whose guard is not set.       *)
(***************************************************************************)
WalksAreComplete ==
    /\ \A w \in {"summary", "motion"} : \A k \in DOMAIN visits[w] :
          Inner(visits[w][k]) \subseteq { visits[w][j] : j \in 1 .. k - 1 }
    /\ walk = "done" /\ mode = 1 => \A n \in Node :
          /\ Count(visits.summary, n) = 1 /\ Count(visits.motion, n) = 1
          /\ Count(visits.leaf, n) = IF Inner(n) = {} /\ ~fact[n].skipLeaf THEN 1 ELSE 0

(***************************************************************************)
(* What an instruction that the direct test let out of a loop defines has  *)
(* no other definition left in the loop, after all later moves as well.    *)
(***************************************************************************)
DirectMovesAreAlone ==
    \A m \in moves : m.direct =>
        \E d \in Own("def", m.instr) :
            /\ Own("def", m.instr) = {d}
            /\ \A j \in (Inside(m.loop) \cap Kept) \ {m.instr} : \A e \in Own("def", j) :
                  entry.def[e].names # entry.def[d].names

(***************************************************************************)
(* The passes over a loop end: every one but the last moves something out. *)
(***************************************************************************)
MotionEnds == <>(walk = "done")
==============================================================================
