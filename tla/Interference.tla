---------------------------- MODULE Interference ----------------------------
(***************************************************************************)
(* The two backward walks of SpillCode_BuildInterference over the code,    *)
(* after the liveness solver: SpillCode_MarkLastUses, which deletes dead   *)
(* instructions and flags last uses, and SpillCode_ConstructInterference,  *)
(* which fills the interference matrix (src/backend/SpillCode.c).          *)
(***************************************************************************)
EXTENDS Liveness, InterferenceMatrix

CONSTANTS
    DeleteDead,  \* gDeleteDeadInstructions > 0
    IsGPR,       \* reg_class == 0: the class with target constraints
    FixedFrom,   \* operands beyond this many are in a fixed range (50)
    FixedRange   \* the physical registers these may not get (r3 .. r12)

ASSUME FlagAssumption  == DeleteDead \in BOOLEAN /\ IsGPR \in BOOLEAN
ASSUME FixedAssumption == FixedFrom \in Nat /\ FixedRange \subseteq Phys

\* The first two operands of such an instruction get different registers.
PairIsKeptApart(instr) ==
    HasAny(instr, GPRResultMask) /\ Has(instr, "GPRPairInterference")

ASSUME PairAssumption ==
    \A p \in Programs : \A pt \in Points(p) :
        PairIsKeptApart(At(p, pt)) => Len(At(p, pt).operands) >= 2

VARIABLES
    walkPc,     \* "mark", "edges", "done"
    at,         \* <<block, instruction>> next to visit, instruction 0: none left
    live,       \* the walk's live bitset
    removed,    \* points deleted by PCode_RemoveRedundantInstruction
    lastUse,    \* <<block, instruction, operand>> with flag 0x04
    matrix      \* gInterferenceBits

wvars == <<walkPc, at, live, removed, lastUse, matrix>>

Interferes(a, b) == InterferesIn(matrix, a, b)
-----------------------------------------------------------------------------
\* SpillCode_IsDeadInstruction, with the live set after the instruction.
IsDead(b, instr, alive) ==
    /\ ~HasAny(instr, DeadCodeBarrierMask)
    /\ b \notin prog.barrier
    /\ ~Has(instr, "OtherClassDefinition")
    /\ Defs(instr) \cap alive = {}
    /\ DeleteDead

\* The operands flagged as last uses: the first read of a register that is
\* not live once the instruction's definitions are taken out.
LastUses(instr, alive) ==
    { k \in Positions(instr) :
        LET o == instr.operands[k]
        IN  /\ o.use
            /\ o.reg \notin alive \ Defs(instr)
            /\ \A j \in 1 .. k-1 : ~(instr.operands[j].use
                                       /\ instr.operands[j].reg = o.reg) }

BeforeWithoutUses(instr, alive) == alive \ Defs(instr)   \* mutant

Before(instr, alive) == (alive \ Defs(instr)) \cup Uses(instr)

\* SpillCode_CopySourceExcluded
CopySource(instr) ==
    IF Has(instr, "CopySourceExclusion") THEN {instr.operands[2].reg} ELSE {}

DefinitionEdgesAfterAll(instr, alive) ==   \* mutant: all results die first
    Defs(instr) \X ((alive \ Defs(instr)) \ CopySource(instr))

\* SpillCode_AddDefinitionEdges: each definition leaves the live set before
\* its edges are drawn, so a definition sees the later ones still live.
DefinitionEdges(instr, alive) ==
    UNION { LET d == instr.operands[k].reg
                cleared == { instr.operands[j].reg :
                               j \in { m \in 1 .. k : instr.operands[m].def } }
            IN  {d} \X ((alive \ cleared) \ CopySource(instr)) :
            k \in { m \in Positions(instr) : instr.operands[m].def } }

\* The operand whose register SpillCode_AddGPRConstraints marks constrained.
Constrained(instr) ==
    IF HasAny(instr, GPRResultMask) \/ instr.opcode = "base1"
    THEN {instr.operands[2].reg}
    ELSE IF instr.opcode = "base0" THEN {instr.operands[1].reg} ELSE {}

FixedOperands(instr) ==
    IF Has(instr, "GPRFixedRange")
    THEN { instr.operands[k].reg : k \in FixedFrom + 1 .. Len(instr.operands) }
    ELSE {}

DiagonalBitsAboveFirst(regs) ==   \* mutant: the first virtual register is missed
    { MatrixIndex(r, r) : r \in { v \in regs : v > NPhys } }

\* SpillCode_MarkConstrainedRegister sets a bit on the diagonal.
DiagonalBits(regs) == { MatrixIndex(r, r) : r \in regs \cap Virtual }

PairEdges(instr) ==
    IF PairIsKeptApart(instr)
    THEN {<<instr.operands[1].reg, instr.operands[2].reg>>} ELSE {}

ConstraintBits(instr) ==
    IF ~IsGPR THEN {}
    ELSE DiagonalBits(Constrained(instr) \cup FixedOperands(instr))
           \cup EdgeBits(PairEdges(instr))
           \cup EdgeBits(FixedOperands(instr) \X FixedRange)
-----------------------------------------------------------------------------
LastOf(b) == <<b, Len(prog.code[b])>>

\* Both walks start at the first block of gPCodeBlocks, from its live-out set.
WalkStart == /\ walkPc = "mark"
             /\ at = <<0, 0>>
             /\ live = {}
             /\ removed = {} /\ lastUse = {} /\ matrix = {}

BuildInit == Init /\ WalkStart

Visiting(phase) == livePc = "done" /\ walkPc = phase /\ at[2] > 0

Flagged(instr) == { <<at[1], at[2], k>> : k \in LastUses(instr, live) }

MarkInstruction ==
    /\ Visiting("mark")
    /\ LET instr == At(prog, at)
       IN  IF IsDead(at[1], instr, live)
           THEN removed' = removed \cup {at} /\ UNCHANGED <<live, lastUse>>
           ELSE /\ live' = Before(instr, live)
                /\ lastUse' = lastUse \cup Flagged(instr)
                /\ UNCHANGED removed
    /\ at' = <<at[1], at[2] - 1>>
    /\ UNCHANGED <<vars, walkPc, matrix>>

\* Deleted instructions have left the list that this walk follows.
AddInstructionEdges ==
    /\ Visiting("edges")
    /\ LET instr == At(prog, at)
       IN  IF at \in removed
           THEN UNCHANGED <<live, lastUse, matrix>>
           ELSE /\ matrix' = matrix \cup EdgeBits(DefinitionEdges(instr, live))
                                    \cup ConstraintBits(instr)
                /\ live' = Before(instr, live)
                /\ lastUse' = lastUse \cup Flagged(instr)
    /\ at' = <<at[1], at[2] - 1>>
    /\ UNCHANGED <<vars, walkPc, removed>>

NextBlockFromEntry ==   \* mutant: the walk starts from the live-in set
    /\ livePc = "done" /\ walkPc # "done"
    /\ at[2] = 0 /\ at[1] < NBlocks
    /\ at' = LastOf(at[1] + 1)
    /\ live' = liveIn[at[1] + 1]
    /\ UNCHANGED <<vars, walkPc, removed, lastUse, matrix>>

NextBlock ==
    /\ livePc = "done" /\ walkPc # "done"
    /\ at[2] = 0 /\ at[1] < NBlocks
    /\ at' = LastOf(at[1] + 1)
    /\ live' = liveOut[at[1] + 1]
    /\ UNCHANGED <<vars, walkPc, removed, lastUse, matrix>>

\* SpillCode_ConstructInterference begins with an empty matrix in which only
\* the physical registers interfere.
EndWalk ==
    /\ livePc = "done" /\ walkPc # "done"
    /\ at = <<NBlocks, 0>>
    /\ IF walkPc = "mark"
       THEN walkPc' = "edges" /\ matrix' = EdgeBits(Phys \X Phys)
       ELSE walkPc' = "done"  /\ UNCHANGED matrix
    /\ at' = <<0, 0>>
    /\ UNCHANGED <<vars, live, removed, lastUse>>

WalkNext == MarkInstruction \/ AddInstructionEdges \/ NextBlock \/ EndWalk

BuildNext == \/ LivenessNext /\ UNCHANGED wvars
             \/ WalkNext

BuildSpec == BuildInit /\ [][BuildNext]_<<vars, wvars>>
-----------------------------------------------------------------------------
(***************************************************************************)
(* Liveness after a point of the code that is left once the dead           *)
(* instructions are gone, told from the paths of the flow graph and not    *)
(* from the solver's sets.                                                 *)
(***************************************************************************)
Kept(b) == { i \in 1 .. Len(prog.code[b]) : <<b, i>> \notin removed }

ReadsFirst(b, i, r) ==
    \E j \in Kept(b) :
        /\ j > i /\ r \in Uses(prog.code[b][j])
        /\ \A k \in Kept(b) : i < k /\ k < j => r \notin Defs(prog.code[b][k])

WritesBeyond(b, i, r) ==
    \E j \in Kept(b) : j > i /\ r \in Defs(prog.code[b][j])

EntryLive(b, r) ==
    \A S \in SUBSET Block :
        (b \in S /\ \A a \in S : ~WritesBeyond(a, 0, r) => prog.succ[a] \subseteq S)
            => \E u \in S : ReadsFirst(u, 0, r) \/ r \in Seeds(u)

LiveAfter(pt, r) ==
    \/ ReadsFirst(pt[1], pt[2], r)
    \/ /\ ~WritesBeyond(pt[1], pt[2], r)
       /\ \E s \in prog.succ[pt[1]] : EntryLive(s, r)

\* The points that control flow reaches: the blocks that the solver visits.
ReachedPoints == { pt \in Points(prog) : pt[1] \in Ordered }

(***************************************************************************)
(* Type correctness of the walks' state.                                   *)
(***************************************************************************)
WalkTypeOK ==
    /\ walkPc \in {"mark", "edges", "done"}
    /\ at[1] \in 0 .. NBlocks /\ at[2] \in Nat
    /\ live \subseteq Reg
    /\ removed \subseteq Points(prog)
    /\ \A f \in lastUse : <<f[1], f[2]>> \in Points(prog)
    /\ \A bit \in matrix : bit < MatrixBitCount(RegCount)

(***************************************************************************)
(* Deleting is safe: what a deleted instruction wrote is read on no path   *)
(* of the code that is left, nor returned (SpillCode_IsDeadInstruction).   *)
(***************************************************************************)
RemovedAreDead ==
    walkPc # "mark" =>
        \A pt \in removed \cap ReachedPoints : \A d \in Defs(At(prog, pt)) : ~LiveAfter(pt, d)

(***************************************************************************)
(* An operand flagged as a last use really is one: unless its instruction  *)
(* also writes the register, no path reads the value afterwards.           *)
(***************************************************************************)
LastUseIsLast ==
    walkPc = "done" =>
        \A f \in lastUse :
            LET pt == <<f[1], f[2]>>
                r  == At(prog, pt).operands[f[3]].reg
            IN  pt \in ReachedPoints /\ r \notin Defs(At(prog, pt)) => ~LiveAfter(pt, r)

(***************************************************************************)
(* Enough edges: a register written while another one is live interferes   *)
(* with it, unless the instruction is a copy from that one.  Of two        *)
(* registers written by one instruction this only holds when both are live *)
(* afterwards: SpillCode_AddDefinitionEdges gives a dead result no edge    *)
(* with a live one that precedes it.                                       *)
(***************************************************************************)
OverlapInterferes ==
    walkPc = "done" =>
        \A pt \in ReachedPoints \ removed :
            LET instr == At(prog, pt)
            IN  \A d \in Defs(instr), r \in Reg :
                    /\ r # d /\ LiveAfter(pt, r)
                    /\ r \in Defs(instr) => LiveAfter(pt, d) /\ d \notin CopySource(instr)
                    /\ r \notin CopySource(instr)
                    => Interferes(d, r)

(***************************************************************************)
(* A base operand can never be given r0, which the machine would read as   *)
(* the constant zero: the diagonal bit of a constrained register is the    *)
(* very bit of its pair with register 0.                                   *)
(***************************************************************************)
BaseAvoidsZero ==
    walkPc = "done" /\ IsGPR =>
        \A pt \in Points(prog) \ removed :
            \A r \in (Constrained(At(prog, pt)) \cup FixedOperands(At(prog, pt)))
                       \cap Virtual : Interferes(r, 0)

(***************************************************************************)
(* The matrix has every edge that colouring needs, for the values that are *)
(* live together and for the registers that an operand may not have.       *)
(***************************************************************************)
EdgesAreEnough == OverlapInterferes /\ BaseAvoidsZero
=============================================================================
