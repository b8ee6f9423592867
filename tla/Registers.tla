------------------------------ MODULE Registers ------------------------------
(***************************************************************************)
(* Which registers named objects and temporaries get before colouring:     *)
(* src/backend/Registers.c with the object walks of src/backend/CodeGen.c. *)
(* The callers that are not in the repository (CodeGen_Generator) bind     *)
(* arguments, checkpoint the window, lower one item after the other and    *)
(* close the window, in the order of docs/DATA_MODEL.md.                   *)
(***************************************************************************)
EXTENDS Integers, Sequences, FiniteSets

CONSTANTS
    Object,       \* compiler objects
    NPhys,        \* physical registers of a class (32)
    ScanFrom,     \* per class, the lowest register that is handed out (14, 14, 20)
    SavedFloor,   \* per class, registers above it count as saved (15, 17, 19)
    CounterLimit, \* a counter above it is rolled back (0x100)
    ArgRegs,      \* the registers that arguments may be bound to
    Reserved,     \* per class, registers that the target may keep
    MaxCounter,   \* bounds, per class, the numbers given to temporaries
    SoftFloat,    \* gColoringGuard_00584244: floats live in the GPR class
    Inputs        \* the functions considered: [kind, lists, virtual]

Class == {"GPR", "FPR", "VR"}
Phys  == 0 .. NPhys - 1
Walks == <<1, 2, 3, 3, 4>>   \* the lists in the order they are walked
Kind  == {"word", "wide", "float", "vector", "skip"}

ASSUME ObjectAssumption == IsFiniteSet(Object)
ASSUME FileAssumption ==
    /\ NPhys \in Nat \ {0} /\ CounterLimit \in Nat /\ CounterLimit >= NPhys
    /\ ScanFrom \in [Class -> 1 .. NPhys - 1]
    /\ SavedFloor \in [Class -> 0 .. NPhys - 1]
    /\ \A c \in Class : ScanFrom[c] <= SavedFloor[c] + 1
    /\ ArgRegs \subseteq 1 .. NPhys - 1 /\ Reserved \in [Class -> SUBSET Phys]
    /\ MaxCounter \in [Class -> Nat] /\ SoftFloat \in BOOLEAN
ASSUME InputsAssumption ==
    Inputs \subseteq [kind : [Object -> Kind], lists : [1 .. 4 -> Seq(Object)],
                      virtual : BOOLEAN]

VARIABLES
    in,                          \* the function; in.virtual is gUseVirtualRegisterNumbers
    used, span, savedFree,       \* gUsedPhysical*, g*SaveSpan, gAvailableSaved*
    counter,                     \* gUsedVirtualRegisters*
    first, last, checkpoint, initialLast,  \* the windows and landmarks
    reg, second, bank,           \* RegisterInfo: physical and secondary register, class
    walk, pos, regPc,            \* where CodeGen is
    issued                       \* history: the numbers given to temporaries

table  == <<used, span, savedFree>>
window == <<first, last, checkpoint, initialLast>>
info   == <<reg, second, bank>>
vars   == <<in, table, counter, window, info, walk, pos, regPc, issued>>
-----------------------------------------------------------------------------
LowestOf(S)  == CHOOSE x \in S : \A y \in S : x <= y
HighestOf(S) == CHOOSE x \in S : \A y \in S : x >= y

SpanOf(c, u) == LET s == { r \in u : r >= ScanFrom[c] }
                IN  IF s = {} THEN 0 ELSE NPhys - LowestOf(s)
SavedFreeOf(c, u) == Cardinality({ r \in Phys : r > SavedFloor[c] /\ r \notin u })

\* Registers_RecordPhysicalUse of a set of registers: one already used leaves
\* everything alone, and the last one's totals stand.
Record(c, regs) ==
    IF regs \subseteq used[c] THEN UNCHANGED table
    ELSE /\ used' = [used EXCEPT ![c] = @ \cup regs]
         /\ span' = [span EXCEPT ![c] = SpanOf(c, used[c] \cup regs)]
         /\ savedFree' = [savedFree EXCEPT ![c] = SavedFreeOf(c, used[c] \cup regs)]

\* What Registers_FindFree chooses from.
Unused(c) == { r \in Phys : r >= ScanFrom[c] /\ r \notin used[c] }
-----------------------------------------------------------------------------
\* The same three without an object: the target keeps a register.
Reserve(c, r) ==
    /\ regPc = "bind" /\ r \in Reserved[c]
    /\ Record(c, {r})
    /\ UNCHANGED <<in, counter, window, info, walk, pos, regPc, issued>>

\* The class whose registers an object of one register lives in.
ClassOf(o) == CASE in.kind[o] = "word"   -> "GPR"
                [] in.kind[o] = "float"  -> IF SoftFloat THEN "GPR" ELSE "FPR"
                [] in.kind[o] = "vector" -> "VR"

Single(o) == in.kind[o] \in {"word", "float", "vector"}

\* Registers_BindGPR, Registers_BindFPR, Registers_BindVR
Bind(o, c, r) ==
    /\ regPc = "bind" /\ Single(o) /\ c = ClassOf(o) /\ reg[o] = 0
    /\ r \in ArgRegs \ used[c]
    /\ Record(c, {r})
    /\ reg' = [reg EXCEPT ![o] = r] /\ bank' = [bank EXCEPT ![o] = c]
    /\ UNCHANGED <<in, counter, window, second, walk, pos, regPc, issued>>

\* Registers_BindGPRPair
BindPair(o, r1, r2) ==
    /\ regPc = "bind" /\ in.kind[o] = "wide" /\ reg[o] = 0
    /\ {r1, r2} \subseteq ArgRegs \ used["GPR"] /\ r1 # r2
    /\ Record("GPR", {r1, r2})
    /\ reg' = [reg EXCEPT ![o] = r1] /\ second' = [second EXCEPT ![o] = r2]
    /\ bank' = [bank EXCEPT ![o] = "GPR"]
    /\ UNCHANGED <<in, counter, window, walk, pos, regPc, issued>>

\* CodeGen_PreallocateObjectRegisters is entered.
BeginWalks ==
    /\ regPc = "bind" /\ regPc' = "walk"
    /\ UNCHANGED <<in, table, counter, window, info, walk, pos, issued>>

\* Registers_AllocateGPR, Registers_AllocateFPR, Registers_AllocateVR: without
\* a free register the object keeps none.
AllocateOne(c, o) ==
    /\ bank' = [bank EXCEPT ![o] = c]
    /\ \/ /\ in.virtual
          /\ reg' = [reg EXCEPT ![o] = counter[c]]
          /\ counter' = [counter EXCEPT ![c] = @ + 1]
          /\ UNCHANGED table
       \/ /\ ~in.virtual /\ Unused(c) # {}
          /\ reg' = [reg EXCEPT ![o] = HighestOf(Unused(c))]
          /\ Record(c, {HighestOf(Unused(c))})
          /\ UNCHANGED counter
       \/ /\ ~in.virtual /\ Unused(c) = {}
          /\ UNCHANGED <<reg, table, counter>>
    /\ UNCHANGED <<second, regPc>>

AllocatePairCountingOne(o) ==   \* mutant: the counter moves by one
    \/ /\ in.virtual
       /\ reg' = [reg EXCEPT ![o] = counter["GPR"]]
       /\ second' = [second EXCEPT ![o] = counter["GPR"] + 1]
       /\ counter' = [counter EXCEPT !["GPR"] = @ + 1]
       /\ bank' = [bank EXCEPT ![o] = "GPR"]
       /\ UNCHANGED <<table, regPc>>
    \/ ~in.virtual /\ UNCHANGED <<info, table, counter, regPc>>

\* Registers_AllocateGPRPair; a failed Registers_Require stops the compiler.
AllocatePair(o) ==
    LET free == Unused("GPR")
        one  == HighestOf(free)
        two  == HighestOf(free \ {one})
    IN  \/ /\ in.virtual
           /\ reg' = [reg EXCEPT ![o] = counter["GPR"]]
           /\ second' = [second EXCEPT ![o] = counter["GPR"] + 1]
           /\ counter' = [counter EXCEPT !["GPR"] = @ + 2]
           /\ bank' = [bank EXCEPT ![o] = "GPR"]
           /\ UNCHANGED <<table, regPc>>
        \/ /\ ~in.virtual /\ savedFree["GPR"] >= 2
           /\ reg' = [reg EXCEPT ![o] = one] /\ second' = [second EXCEPT ![o] = two]
           /\ Record("GPR", {one, two})
           /\ bank' = [bank EXCEPT ![o] = "GPR"]
           /\ UNCHANGED <<counter, regPc>>
        \/ /\ ~in.virtual /\ savedFree["GPR"] < 2
           /\ regPc' = "assert"
           /\ UNCHANGED <<info, table, counter>>

\* Not a candidate, excluded, a second half, or numbered by an earlier walk.
Skipped(o) == in.kind[o] = "skip" \/ reg[o] # 0

\* codegen_preallocate_object; vectors are numbered by walks 2 to 4 only.
PreallocateObject(o) ==
    IF Skipped(o) \/ (in.kind[o] = "vector" /\ walk \notin 2 .. 4)
    THEN UNCHANGED <<info, table, counter, regPc>>
    ELSE IF in.kind[o] = "wide" THEN AllocatePair(o)
                                ELSE AllocateOne(ClassOf(o), o)

VisitObject ==
    /\ regPc = "walk" /\ walk <= Len(Walks) /\ pos <= Len(in.lists[Walks[walk]])
    /\ PreallocateObject(in.lists[Walks[walk]][pos])
    /\ pos' = pos + 1
    /\ UNCHANGED <<in, window, walk, issued>>

BeginAfterPostInitial == 2   \* mutant: the window opens a list too early

\* Registers_BeginCoalesceWindow comes between the walks of the local list.
WindowOpensAfter == 3

\* Registers_SnapshotInitialObjectRange follows the first walk.
EndWalk ==
    /\ regPc = "walk" /\ walk <= Len(Walks) /\ pos > Len(in.lists[Walks[walk]])
    /\ initialLast' = IF walk = 1 THEN [c \in Class |-> counter[c] - 1]
                                  ELSE initialLast
    /\ IF walk = WindowOpensAfter THEN first' = counter /\ last' = counter
                                  ELSE UNCHANGED <<first, last>>
    /\ walk' = walk + 1 /\ pos' = 1
    /\ UNCHANGED <<in, table, counter, checkpoint, info, regPc, issued>>

\* Registers_CheckpointCoalesceWindow, before the first item is lowered.
CheckpointCoalesceWindow ==
    /\ regPc = "walk" /\ walk > Len(Walks)
    /\ last' = counter /\ checkpoint' = counter
    /\ regPc' = "lower"
    /\ UNCHANGED <<in, table, counter, first, initialLast, info, walk, pos, issued>>

\* Lowering takes the next number of a class (external).
NewTemporary(c) ==
    /\ regPc = "lower" /\ counter[c] < MaxCounter[c]
    /\ issued' = [issued EXCEPT ![c] = @ \cup {counter[c]}]
    /\ counter' = [counter EXCEPT ![c] = @ + 1]
    /\ UNCHANGED <<in, table, window, info, walk, pos, regPc>>

Larger(a, b) == IF a > b THEN a ELSE b

\* Registers_UpdateCoalesceWindow, after an item.  With virtual numbers for
\* objects it does nothing.
UpdateCoalesceWindow ==
    /\ regPc = "lower" /\ ~in.virtual
    /\ last' = [c \in Class |-> Larger(last[c], counter[c])]
    /\ counter' = [c \in Class |-> IF counter[c] > CounterLimit THEN checkpoint[c]
                                   ELSE counter[c]]
    /\ UNCHANGED <<in, table, first, checkpoint, initialLast, info, walk, pos,
                   regPc, issued>>

CloseKeepingCounter ==   \* mutant: the counter stays where a rollback left it
    /\ regPc = "lower"
    /\ last' = [c \in Class |-> Larger(last[c], counter[c])]
    /\ regPc' = "closed"
    /\ UNCHANGED <<in, table, counter, first, checkpoint, initialLast, info, walk,
                   pos, issued>>

\* Registers_CloseCoalesceWindow, after the last item.
CloseCoalesceWindow ==
    /\ regPc = "lower"
    /\ last' = [c \in Class |-> Larger(last[c], counter[c])]
    /\ counter' = last'
    /\ regPc' = "closed"
    /\ UNCHANGED <<in, table, first, checkpoint, initialLast, info, walk, pos, issued>>
-----------------------------------------------------------------------------
\* A function starts with its counters behind the physical registers.
Init ==
    /\ in \in Inputs
    /\ used = [c \in Class |-> {}] /\ span = [c \in Class |-> 0]
    /\ savedFree = [c \in Class |-> SavedFreeOf(c, {})]
    /\ counter = [c \in Class |-> NPhys]
    /\ first = counter /\ last = counter /\ checkpoint = counter
    /\ initialLast = [c \in Class |-> NPhys - 1]
    /\ reg = [o \in Object |-> 0] /\ second = [o \in Object |-> 0]
    /\ bank = [o \in Object |-> "none"]
    /\ walk = 1 /\ pos = 1 /\ regPc = "bind"
    /\ issued = [c \in Class |-> {}]

Terminated == regPc \in {"closed", "assert"} /\ UNCHANGED vars

Next == \/ \E o \in Object, c \in Class, r \in Phys : Bind(o, c, r)
        \/ \E o \in Object, r1, r2 \in Phys : BindPair(o, r1, r2)
        \/ \E c \in Class, r \in Phys : Reserve(c, r)
        \/ BeginWalks \/ VisitObject \/ EndWalk
        \/ CheckpointCoalesceWindow
        \/ \E c \in Class : NewTemporary(c)
        \/ UpdateCoalesceWindow \/ CloseCoalesceWindow
        \/ Terminated

Spec == Init /\ [][Next]_vars
-----------------------------------------------------------------------------
RegsOf(o) == {reg[o], second[o]} \ {0}

(***************************************************************************)
(* Type correctness, with the landmarks below the counters they came from. *)
(***************************************************************************)
TypeOK ==
    /\ in \in Inputs
    /\ used \in [Class -> SUBSET Phys]
    /\ span \in [Class -> 0 .. NPhys] /\ savedFree \in [Class -> Nat]
    /\ counter \in [Class -> Nat] /\ last \in [Class -> Nat]
    /\ first \in [Class -> Nat] /\ checkpoint \in [Class -> Nat]
    /\ initialLast \in [Class -> Nat]
    /\ reg \in [Object -> Nat] /\ second \in [Object -> Nat]
    /\ bank \in [Object -> Class \cup {"none"}]
    /\ walk \in 1 .. Len(Walks) + 1 /\ pos \in Nat \ {0}
    /\ regPc \in {"bind", "walk", "lower", "closed", "assert"}
    /\ issued \in [Class -> SUBSET Nat]
    /\ \A c \in Class : first[c] <= counter[c] /\ checkpoint[c] <= counter[c]

(***************************************************************************)
(* Two objects of a class never share a register, nor an object and a      *)
(* temporary: however numbers, pairs and physical registers are handed out *)
(* over the walks, and whatever a rollback gives out again.                *)
(***************************************************************************)
NobodySharesARegister ==
    /\ \A a, b \in Object : a # b /\ bank[a] = bank[b] => RegsOf(a) \cap RegsOf(b) = {}
    /\ \A o \in Object : bank[o] # "none" => RegsOf(o) \cap issued[bank[o]] = {}

(***************************************************************************)
(* A register given to an object before colouring is never changed by a    *)
(* later walk (the local objects are walked twice).                        *)
(***************************************************************************)
NumbersAreKept ==
    [][\A o \in Object : reg[o] # 0 => reg'[o] = reg[o] /\ second'[o] = second[o]]_info

(***************************************************************************)
(* Colouring sizes its bitsets and its graph with the counter: when the    *)
(* window is closed every number ever given out lies below it, the ones    *)
(* before a rollback included.                                             *)
(***************************************************************************)
RegisterCountCovers ==
    regPc = "closed" =>
        /\ \A c \in Class : \A n \in issued[c] : n < counter[c]
        /\ \A o \in Object : bank[o] # "none" =>
                             \A n \in RegsOf(o) : n < counter[bank[o]]

(***************************************************************************)
(* Every temporary may be coalesced: it lies in the closed window.         *)
(***************************************************************************)
WindowCoversLowering ==
    regPc = "closed" =>
        \A c \in Class : \A n \in issued[c] : first[c] <= n /\ n < last[c]

(***************************************************************************)
(* The landmarks separate the strata of objects (CodeGen.c:36-51): numbers *)
(* of the initial list lie up to initialLast, those of the first three     *)
(* lists below the window, and those first met in the last list within it. *)
(***************************************************************************)
In(o, l) == \E i \in 1 .. Len(in.lists[l]) : in.lists[l][i] = o

Earliest(o, l) == in.kind[o] # "vector" /\ In(o, l) /\ \A k \in 1 .. l - 1 : ~In(o, k)

StrataAreSeparated ==
    regPc \in {"lower", "closed"} /\ in.virtual =>
        \A o \in Object : reg[o] >= NPhys =>
            /\ Earliest(o, 1) => reg[o] <= initialLast[bank[o]]
            /\ Earliest(o, 2) \/ Earliest(o, 3) =>
                  initialLast[bank[o]] < reg[o] /\ reg[o] < first[bank[o]]
            /\ Earliest(o, 4) => first[bank[o]] <= reg[o]

(***************************************************************************)
(* The physical register of an object is reserved: colouring finds it used *)
(* and the prologue's save area reaches down to it.                        *)
(***************************************************************************)
ObjectsAreReserved ==
    \A o \in Object : \A r \in RegsOf(o) \cap Phys :
        /\ r \in used[bank[o]]
        /\ r >= ScanFrom[bank[o]] => r >= NPhys - span[bank[o]]
=============================================================================
