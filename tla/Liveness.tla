------------------------------ MODULE Liveness ------------------------------
(***************************************************************************)
(* Register liveness for one register class: SpillCode_InitializeLiveness, *)
(* SpillCode_BuildLocalLiveness, SpillCode_SeedReturnRegisters and the     *)
(* round-robin solver SpillCode_SolveLiveness of src/backend/SpillCode.c.  *)
(***************************************************************************)
EXTENDS PCode, Naturals, Sequences

CONSTANT Programs   \* the functions considered

ASSUME ProgramsAssumption == Programs \subseteq Program
ASSUME OrderAssumption    == \A p \in Programs : OrderCovers(p)

VARIABLES
    prog,       \* the function being compiled
    use,        \* per block: upward-exposed uses
    def,        \* per block: registers defined before any use
    liveIn,
    liveOut,
    changed,    \* the solver's flag for the current round
    orderIndex, \* order_index, 1-based; 0 when a round is over
    livePc      \* "local", "seed", "solve", "done"

lvars == <<use, def, liveIn, liveOut, changed, orderIndex, livePc>>
vars  == <<prog, lvars>>

\* The blocks the solver visits: the non-null entries of gPCodeBlockOrder.
Ordered == { prog.order[k] : k \in 1 .. Len(prog.order) } \ {NoBlock}
-----------------------------------------------------------------------------
(***************************************************************************)
(* Instructions are visited forwards, the uses of one before its           *)
(* definitions, and a register enters only the set that sees it first: use *)
(* when a read comes before every write, def when a write comes before     *)
(* every read.                                                             *)
(***************************************************************************)
LocalUseOfAnyRead(code) ==   \* mutant: reads after a write count as exposed
    { r \in Reg : \E i \in 1 .. Len(code) : r \in Uses(code[i]) }

LocalUse(code) ==
    { r \in Reg : \E i \in 1 .. Len(code) :
                    /\ r \in Uses(code[i])
                    /\ \A j \in 1 .. i-1 : r \notin Defs(code[j]) }

LocalDef(code) ==
    { r \in Reg : \E i \in 1 .. Len(code) :
                    /\ r \in Defs(code[i])
                    /\ \A j \in 1 .. i : r \notin Uses(code[j]) }

\* SpillCode_SeedReturnRegisters: the first result register becomes a use of
\* gReturnBlock, the second one (8-byte results) a use of gCurrentBlock.
Seeds(b) == { prog.results[k] : k \in { j \in 1 .. Len(prog.results) :
                                          b = IF j = 1 THEN prog.ret
                                                       ELSE prog.cur } }
-----------------------------------------------------------------------------
Empty == [b \in Block |-> {}]

LivenessStart ==
    /\ use = Empty /\ def = Empty /\ liveIn = Empty /\ liveOut = Empty
    /\ changed = FALSE
    /\ orderIndex = 0
    /\ livePc = "local"

BuildLocalLiveness ==
    /\ livePc = "local"
    /\ use' = [b \in Block |-> LocalUse(prog.code[b])]
    /\ def' = [b \in Block |-> LocalDef(prog.code[b])]
    /\ livePc' = "seed"
    /\ UNCHANGED <<prog, liveIn, liveOut, changed, orderIndex>>

SeedReturnRegisters ==
    /\ livePc = "seed"
    /\ use' = [b \in Block |-> use[b] \cup Seeds(b)]
    /\ livePc' = "solve"
    /\ orderIndex' = Len(prog.order)
    /\ changed' = FALSE
    /\ UNCHANGED <<prog, def, liveIn, liveOut>>

\* SpillCode_CollectSuccessorLiveIn: without successors live_out is left alone.
SuccessorLiveIn(b) ==
    IF prog.succ[b] = {} THEN liveOut[b]
                         ELSE UNION { liveIn[s] : s \in prog.succ[b] }

VisitBlockWithoutKill ==   \* mutant: the block's definitions are not taken out
    /\ livePc = "solve" /\ orderIndex > 0
    /\ LET b   == prog.order[orderIndex]
           out == SuccessorLiveIn(b)
           in  == out \cup use[b]
       IN  IF b = NoBlock
           THEN UNCHANGED <<liveIn, liveOut, changed>>
           ELSE /\ liveOut' = [liveOut EXCEPT ![b] = out]
                /\ liveIn'  = [liveIn EXCEPT ![b] = in]
                /\ changed' = (changed \/ in # liveIn[b])
    /\ orderIndex' = orderIndex - 1
    /\ UNCHANGED <<prog, use, def, livePc>>

VisitBlockComparingOut ==   \* mutant: the change is looked for in the wrong set
    /\ livePc = "solve" /\ orderIndex > 0
    /\ LET b   == prog.order[orderIndex]
           out == SuccessorLiveIn(b)
           in  == (out \ def[b]) \cup use[b]
       IN  IF b = NoBlock
           THEN UNCHANGED <<liveIn, liveOut, changed>>
           ELSE /\ liveOut' = [liveOut EXCEPT ![b] = out]
                /\ liveIn'  = [liveIn EXCEPT ![b] = in]
                /\ changed' = (changed \/ in # liveOut[b])
    /\ orderIndex' = orderIndex - 1
    /\ UNCHANGED <<prog, use, def, livePc>>

\* One iteration of the inner loop: SuccessorLiveIn, then SpillCode_UpdateLiveIn.
VisitBlock ==
    /\ livePc = "solve" /\ orderIndex > 0
    /\ LET b   == prog.order[orderIndex]
           out == SuccessorLiveIn(b)
           in  == (out \ def[b]) \cup use[b]
       IN  IF b = NoBlock
           THEN UNCHANGED <<liveIn, liveOut, changed>>
           ELSE /\ liveOut' = [liveOut EXCEPT ![b] = out]
                /\ liveIn'  = [liveIn EXCEPT ![b] = in]
                /\ changed' = (changed \/ in # liveIn[b])
    /\ orderIndex' = orderIndex - 1
    /\ UNCHANGED <<prog, use, def, livePc>>

\* The do-while test after a full round.
EndRound ==
    /\ livePc = "solve" /\ orderIndex = 0
    /\ IF changed
       THEN orderIndex' = Len(prog.order) /\ changed' = FALSE /\ livePc' = livePc
       ELSE livePc' = "done" /\ UNCHANGED <<orderIndex, changed>>
    /\ UNCHANGED <<prog, use, def, liveIn, liveOut>>

LivenessNext == \/ BuildLocalLiveness
                \/ SeedReturnRegisters
                \/ VisitBlock
                \/ EndRound

Init == prog \in Programs /\ LivenessStart

Spec == Init /\ [][LivenessNext]_vars

\* The solver is a loop of one thread: it never stops with work left.
FairSpec == Spec /\ WF_vars(LivenessNext)
-----------------------------------------------------------------------------
(***************************************************************************)
(* The data-flow equations.  A solution assigns to every block a set of    *)
(* registers live at its entry; blocks without successors keep the empty   *)
(* live-out set they were allocated with.                                  *)
(***************************************************************************)
Out(in, b) == UNION { in[s] : s \in prog.succ[b] }

Transfer(in, b) == (Out(in, b) \ def[b]) \cup use[b]

PreSolution(in) == \A b \in Block : Transfer(in, b) \subseteq in[b]

(***************************************************************************)
(* Type correctness of the liveness records and of the solver's cursor.    *)
(***************************************************************************)
TypeOK ==
    /\ use \in [Block -> SUBSET Reg] /\ def \in [Block -> SUBSET Reg]
    /\ liveIn \in [Block -> SUBSET Reg] /\ liveOut \in [Block -> SUBSET Reg]
    /\ changed \in BOOLEAN
    /\ orderIndex \in 0 .. Len(prog.order)
    /\ livePc \in {"local", "seed", "solve", "done"}

(***************************************************************************)
(* Soundness of every intermediate state: whatever the visiting order, the *)
(* solver never claims a register live that some solution of the equations *)
(* (SpillCode_UpdateLiveIn, SpillCode_CollectSuccessorLiveIn) leaves out.  *)
(***************************************************************************)
BelowEverySolution ==
    livePc \in {"solve", "done"} =>
        \A S \in [Block -> SUBSET Reg] :
            PreSolution(S) =>
                \A b \in Block : /\ liveIn[b] \subseteq S[b]
                                 /\ liveOut[b] \subseteq Out(S, b)

(***************************************************************************)
(* The do-while loop of SpillCode_SolveLiveness may stop after a round     *)
(* that changed nothing: the equations then hold at every visited block.   *)
(***************************************************************************)
SolvedWhenDone ==
    livePc = "done" => \A b \in Ordered : /\ liveOut[b] = Out(liveIn, b)
                                         /\ liveIn[b] = Transfer(liveIn, b)

(***************************************************************************)
(* A register once found live stays live: no step of the solver takes a    *)
(* register out of a live set.                                             *)
(***************************************************************************)
LiveSetsGrow ==
    [][\A b \in Block : /\ liveIn[b] \subseteq liveIn'[b]
                        /\ liveOut[b] \subseteq liveOut'[b]]_<<liveIn, liveOut>>

(***************************************************************************)
(* The solver reaches its fixed point for every control-flow graph, loops  *)
(* and unreachable blocks included.                                        *)
(***************************************************************************)
SolverTerminates == <>(livePc = "done")

(***************************************************************************)
(* What liveness means, independently of the equations: r is live at the   *)
(* entry of b when some path from b reaches a block that reads it (or      *)
(* returns it) before any block on the way writes it.  The set reached     *)
(* from b is the least one closed under the successors of the blocks that  *)
(* do not write r.                                                         *)
(***************************************************************************)
Writes(b, r)  == \E i \in 1 .. Len(prog.code[b]) : r \in Defs(prog.code[b][i])
Exposes(b, r) ==
    \/ \E i \in 1 .. Len(prog.code[b]) :
          /\ r \in Uses(prog.code[b][i])
          /\ \A j \in 1 .. i-1 : r \notin Defs(prog.code[b][j])
    \/ r \in Seeds(b)

LiveOnSomePath(b, r) ==
    \A S \in SUBSET Block :
        (b \in S /\ \A a \in S : ~Writes(a, r) => prog.succ[a] \subseteq S)
            => \E u \in S : Exposes(u, r)

(***************************************************************************)
(* The solver's answer is exact on the blocks it visits: live_in holds the *)
(* registers that are live on some path and no other.                      *)
(***************************************************************************)
LiveInIsExact ==
    livePc = "done" =>
        \A b \in Ordered : liveIn[b] = { r \in Reg : LiveOnSomePath(b, r) }

(***************************************************************************)
(* docs/DATA_MODEL.md:444: the result registers "are inserted as           *)
(* upward-exposed uses in the return block before liveness propagation".   *)
(* The code puts the second one in gCurrentBlock instead.                  *)
(***************************************************************************)
ResultsUsedInReturnBlock ==
    livePc = "solve" /\ prog.ret # NoBlock =>
        \A k \in 1 .. Len(prog.results) : prog.results[k] \in use[prog.ret]
=============================================================================
