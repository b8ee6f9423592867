------------------------------- MODULE PCode -------------------------------
(***************************************************************************)
(* The PCode intermediate form as the register allocator sees it           *)
(* (include/mwcc/backend_types.h): basic blocks of instructions whose      *)
(* operands name registers of the one class being coloured.  Operands of   *)
(* other kinds only matter when they are definitions, because a definition *)
(* of another class keeps an instruction alive; the instruction then       *)
(* carries the pseudo flag "OtherClassDefinition".                         *)
(***************************************************************************)
LOCAL INSTANCE Naturals
LOCAL INSTANCE Sequences

CONSTANTS
    NPhys,      \* number of physical registers of the class (32 in the code)
    RegCount,   \* register_count: physical plus virtual registers
    NBlocks     \* gPCodeBlockCount

ASSUME PhysAssumption  == NPhys \in Nat \ {0}
ASSUME RegAssumption   == RegCount \in Nat /\ NPhys <= RegCount
ASSUME BlockAssumption == NBlocks \in Nat \ {0}

Reg     == 0 .. RegCount - 1
Phys    == 0 .. NPhys - 1
Virtual == NPhys .. RegCount - 1
Block   == 1 .. NBlocks

NoBlock == 0   \* a null PCodeBlock pointer

(***************************************************************************)
(* Instruction flags, by the bit they stand for.                           *)
(***************************************************************************)
InstrFlag == { "SkipCodeMotion",            \* 0x0004
               "ImplicitUse",               \* 0x0008
               "ImplicitDefinition",        \* 0x0010
               "GPRFixedRange",             \* 0x0020
               "CoalesceDisabled",          \* 0x0400
               "CopySourceExclusion",       \* 0x0800
               "GPRPairInterference",       \* 0x8000
               "ObjectFlag2",               \* 0x20000
               "OtherClassDefinition" }

GPRResultMask == { "ImplicitUse", "ImplicitDefinition" }           \* 0x00018
DeadCodeBarrierMask == { "SkipCodeMotion", "ImplicitDefinition",   \* 0x20434
                         "GPRFixedRange", "CoalesceDisabled", "ObjectFlag2" }

\* The opcodes that the allocator distinguishes: the class's register copy,
\* the two groups that constrain a base operand, and everything else.
Opcode == { "copy", "base0", "base1", "other" }

Operand     == [reg : Reg, use : BOOLEAN, def : BOOLEAN]
Instruction == [opcode : Opcode, operands : Seq(Operand),
                flags : SUBSET InstrFlag]

(***************************************************************************)
(* A function: the blocks' code and successors, the order in which the     *)
(* liveness solver visits them, the blocks flagged as barriers (flags_2e & *)
(* 3), gReturnBlock, gCurrentBlock and the result registers of the ABI.    *)
(***************************************************************************)
Program == [code    : [Block -> Seq(Instruction)],
            succ    : [Block -> SUBSET Block],
            order   : Seq(Block \cup {NoBlock}),
            barrier : SUBSET Block,
            ret     : Block \cup {NoBlock},
            cur     : Block \cup {NoBlock},
            results : Seq(Reg)]

\* The visiting order of SpillCode_BuildBlockOrder (external) leaves out no
\* block that control flow reaches from a visited one.
OrderCovers(p) ==
    LET visited == { p.order[k] : k \in 1 .. Len(p.order) } \ {NoBlock}
    IN  \A b \in visited : p.succ[b] \subseteq visited

Has(instr, flag)  == flag \in instr.flags
HasAny(instr, fs) == instr.flags \cap fs # {}

Positions(instr) == 1 .. Len(instr.operands)

\* The registers an instruction reads (operand flag 0x01) and writes (0x02).
Uses(instr) == { instr.operands[k].reg :
                   k \in { j \in Positions(instr) : instr.operands[j].use } }
Defs(instr) == { instr.operands[k].reg :
                   k \in { j \in Positions(instr) : instr.operands[j].def } }

\* The points of a program: instruction i of block b.
Points(p) == UNION { { <<b, i>> : i \in 1 .. Len(p.code[b]) } : b \in Block }
At(p, pt) == p.code[pt[1]][pt[2]]
=============================================================================
