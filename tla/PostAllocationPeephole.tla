------------------------ MODULE PostAllocationPeephole ------------------------
(***************************************************************************)
(* The ADDI combine rule of the post-allocation peephole pass, as          *)
(* tools/post_allocation_peephole.py decides it, and the two ways the tool *)
(* replays it: on a captured stage alone, and with a trace that the        *)
(* breakpoint of tools/gdb/allocator_snapshot.py writes.                   *)
(*                                                                         *)
(* The pass itself (compiler code at 0x004c7a30, described in              *)
(* docs/PASS_PIPELINE.md) walks a block backwards with the registers that  *)
(* are live, removes dead instructions, and calls the rule again on an     *)
(* instruction that it rewrote.  A block is straight-line code of ADDIs    *)
(* (dest := base + immediate), of instructions that only set a register    *)
(* ("set") and go when it is dead, and of all others, which have effects   *)
(* and stay: uses, loads and stores with update, calls, instructions with  *)
(* two definitions.  The registers are those of one class.                 *)
(***************************************************************************)
EXTENDS Integers, FiniteSets, SequencesExt

CONSTANTS
  Registers,     \* the machine's registers
  Blocks,        \* the blocks of code that the pass may meet
  LiveOuts,      \* the sets of registers live at the end of the block
  MinImmediate,  \* the smallest value of the immediate field, ...
  MaxImmediate   \* ... and the largest

(* What the rule and its replays read of an instruction.  The third        *)
(* operand of an ADDI is a constant or stands for a symbol; of any other   *)
(* instruction the operands are told apart by whether the register that    *)
(* they define is the first operand ("first") or a later one ("rest").     *)
Addis ==
  [id : Nat \ {0}, op : {"addi"}, dest : Registers, base : Registers,
   imm : Int, constant : BOOLEAN, blocked : BOOLEAN]
FirstOperands == {{}} \cup {{r} : r \in Registers}
Sets == [id : Nat \ {0}, op : {"set"}, first : FirstOperands, rest : {{}}, uses : {{}}]
Others ==
  [id : Nat \ {0}, op : {"other"}, first : FirstOperands, rest : SUBSET Registers,
   uses : SUBSET Registers]
Instructions == Addis \cup Sets \cup Others

(* An instruction is known by its address, which is not null.              *)
ASSUME BlockAssumption ==
  /\ \A b \in Blocks : /\ b \in Seq(Instructions)
                        /\ \A j, k \in DOMAIN b : b[j].id = b[k].id => j = k
  /\ LiveOuts \subseteq SUBSET Registers
  /\ MinImmediate \in Int /\ MaxImmediate \in Int

VARIABLES
  snapshot, liveOut,       \* the block before the pass, and what lives on after it
  code, at, live, table,   \* the pass: the block now, the instruction it is at, ...
  events                   \* the trace that the breakpoint records

vars == <<snapshot, liveOut, code, at, live, table, events>>

DefinesFirst(i) == IF i.op = "addi" THEN {i.dest} ELSE i.first
Defines(i) == IF i.op = "addi" THEN {i.dest} ELSE i.first \cup i.rest
Uses(i) == IF i.op = "addi" THEN {i.base} ELSE i.uses

(* The instruction of a block with this id (its address), and its place.   *)
Place(block, id) == SelectInSeq(block, LAMBDA i : i.id = id)
Instruction(block, id) == block[Place(block, id)]

(* Mutant: a use of the register counts as its definition.                 *)
InferredDefinitionByName(block, candidate) ==
  LET before == SubSeq(block, 1, Place(block, candidate.id) - 1)
      n      == SelectLastInSubSeq(before, 1, Len(before),
                                   LAMBDA i : candidate.base \in DefinesFirst(i) \cup Uses(i))
  IN  IF n = 0 THEN 0 ELSE before[n].id

(* What the tool infers where no table was captured: the nearest           *)
(* instruction before the candidate whose first operand defines the base   *)
(* register; 0 if there is none.                                           *)
InferredDefinition(block, candidate) ==
  LET before == SubSeq(block, 1, Place(block, candidate.id) - 1)
      n      == SelectLastInSubSeq(before, 1, Len(before),
                                   LAMBDA i : candidate.base \in DefinesFirst(i))
  IN  IF n = 0 THEN 0 ELSE before[n].id

InstructionsBetween(block, earlier, later) ==
  SubSeq(block, Place(block, earlier) + 1, Place(block, later) - 1)

(* Mutant: a use of the predecessor's destination in between is ignored.   *)
RejectedByWithoutUses(block, candidate, definition, reserved) ==
  IF Place(block, definition) = 0 THEN "no_reaching_definition"
  ELSE LET a    == Instruction(block, definition)
           span == Range(InstructionsBetween(block, a.id, candidate.id))
       IN  IF a.op # "addi" THEN "reaching_definition_not_addi"
           ELSE IF a.dest # candidate.dest /\ a.dest \in reserved THEN "destination_reserved"
           ELSE IF a.blocked THEN "reaching_definition_blocked"
           ELSE IF Place(block, a.id) >= Place(block, candidate.id) THEN "predecessor_unreachable"
           ELSE IF \E i \in span : a.base \in Defines(i) THEN "base_redefined"
           ELSE IF ~(candidate.constant /\ a.constant) THEN "immediate_not_constant"
           ELSE IF candidate.imm + a.imm \notin MinImmediate..MaxImmediate THEN "immediate_out_of_range"
           ELSE "none"

(* Mutant: a redefinition of the predecessor's base in between is ignored. *)
RejectedByWithoutBase(block, candidate, definition, reserved) ==
  IF Place(block, definition) = 0 THEN "no_reaching_definition"
  ELSE LET a    == Instruction(block, definition)
           span == Range(InstructionsBetween(block, a.id, candidate.id))
       IN  IF a.op # "addi" THEN "reaching_definition_not_addi"
           ELSE IF a.dest # candidate.dest /\ a.dest \in reserved THEN "destination_reserved"
           ELSE IF a.blocked THEN "reaching_definition_blocked"
           ELSE IF Place(block, a.id) >= Place(block, candidate.id) THEN "predecessor_unreachable"
           ELSE IF \E i \in span : a.dest \in Uses(i) THEN "destination_used"
           ELSE IF ~(candidate.constant /\ a.constant) THEN "immediate_not_constant"
           ELSE IF candidate.imm + a.imm \notin MinImmediate..MaxImmediate THEN "immediate_out_of_range"
           ELSE "none"

(* The preconditions of the rule for a candidate, its reaching definition  *)
(* and the registers reserved after it, in the order they are tested; the  *)
(* first that fails names the rejection.  An ADDI has its three operands,  *)
(* so that they are counted for nothing here.                              *)
RejectedBy(block, candidate, definition, reserved) ==
  IF Place(block, definition) = 0 THEN "no_reaching_definition"
  ELSE LET a    == Instruction(block, definition)
           span == Range(InstructionsBetween(block, a.id, candidate.id))
       IN  IF a.op # "addi" THEN "reaching_definition_not_addi"
           ELSE IF a.dest # candidate.dest /\ a.dest \in reserved THEN "destination_reserved"
           ELSE IF a.blocked THEN "reaching_definition_blocked"
           ELSE IF Place(block, a.id) >= Place(block, candidate.id) THEN "predecessor_unreachable"
           ELSE IF \E i \in span : a.base \in Defines(i) THEN "base_redefined"
           ELSE IF \E i \in span : a.dest \in Uses(i) THEN "destination_used"
           ELSE IF ~(candidate.constant /\ a.constant) THEN "immediate_not_constant"
           ELSE IF candidate.imm + a.imm \notin MinImmediate..MaxImmediate THEN "immediate_out_of_range"
           ELSE "none"

Evaluate(block, candidate, definition, reserved) ==
  LET by == RejectedBy(block, candidate, definition, reserved)
      a  == Instruction(block, definition)
  IN  [candidate |-> candidate.id,
       fires     |-> by = "none",
       rejected  |-> by,
       rewrite   |-> IF by # "none" THEN <<>>
                     ELSE <<[base |-> a.base, immediate |-> candidate.imm + a.imm,
                             removes |-> a.id]>>]

(* Every ADDI of a stage on its own, with what the tool knows there.       *)
ReplayStage(block, reserved) ==
  [n \in {k \in DOMAIN block : block[k].op = "addi"} |->
     Evaluate(block, block[n], InferredDefinition(block, block[n]), reserved)]

(* Mutant: the recorded mask of live registers is not applied.             *)
ReplayTraceWithoutMask(block, trace) ==
  [n \in DOMAIN trace |->
     IF Place(block, trace[n].candidate) = 0
     THEN [candidate |-> trace[n].candidate, fires |-> FALSE,
           rejected |-> "candidate_not_in_snapshot", rewrite |-> <<>>]
     ELSE Evaluate(block, Instruction(block, trace[n].candidate), trace[n].definition, {})]

(* Every invocation of a trace, with the inputs recorded there, on the     *)
(* stage before the pass.                                                  *)
ReplayTrace(block, trace) ==
  [n \in DOMAIN trace |->
     IF Place(block, trace[n].candidate) = 0
     THEN [candidate |-> trace[n].candidate, fires |-> FALSE,
           rejected |-> "candidate_not_in_snapshot", rewrite |-> <<>>]
     ELSE Evaluate(block, Instruction(block, trace[n].candidate),
                   trace[n].definition, trace[n].live)]

(******************************** the pass *********************************)

(* The definitions that the pass records before it starts: for every       *)
(* instruction the nearest one before it that defines what it uses, in     *)
(* whichever operand.                                                      *)
TableOf(block) ==
  [id \in {i.id : i \in Range(block)} |->
     LET n     == Place(block, id)
         prior == {k \in 1..(n - 1) : Defines(block[k]) \cap Uses(block[n]) # {}}
     IN  IF prior = {} THEN 0
         ELSE block[CHOOSE k \in prior : \A j \in prior : j <= k].id]

Init ==
  /\ code \in Blocks
  /\ liveOut \in LiveOuts /\ live = liveOut
  /\ snapshot = code
  /\ at = Len(code)
  /\ table = TableOf(code)
  /\ events = <<>>

Dead(i) == i.op \in {"addi", "set"} /\ Defines(i) \cap live = {}

(* Dead code goes without the rule being asked, but for an instruction     *)
(* that the rule has just rewritten.                                       *)
DeleteDead ==
  /\ at > 0 /\ Dead(code[at])
  /\ code' = RemoveAt(code, at)
  /\ at' = at - 1
  /\ UNCHANGED <<snapshot, liveOut, live, table, events>>

(* The breakpoint at the entry of the rule.                                *)
Recorded(fires) ==
  Append(events, [candidate |-> code[at].id, live |-> live,
                  definition |-> table[code[at].id], fired |-> fires])

Decision == Evaluate(code, code[at], table[code[at].id], live)

(* A fold: the candidate takes over base, immediate and reaching           *)
(* definition, the predecessor is deleted, the rule is called again.       *)
Fold ==
  /\ at > 0 /\ code[at].op = "addi" /\ ~Dead(code[at])
  /\ Decision.fires
  /\ LET rewrite == Decision.rewrite[1]
         b == [code[at] EXCEPT !.base = rewrite.base, !.imm = rewrite.immediate]
     IN  /\ code' = RemoveAt([code EXCEPT ![at] = b], Place(code, rewrite.removes))
         /\ table' = [table EXCEPT ![b.id] = table[rewrite.removes]]
  /\ at' = at - 1
  /\ events' = Recorded(TRUE)
  /\ UNCHANGED <<snapshot, liveOut, live>>

(* The registers live before the instruction, and on to the one before it. *)
StepBack ==
  /\ at > 0 /\ ~Dead(code[at])
  /\ code[at].op = "addi" => ~Decision.fires
  /\ live' = (live \ Defines(code[at])) \cup Uses(code[at])
  /\ at' = at - 1
  /\ events' = IF code[at].op = "addi" THEN Recorded(FALSE) ELSE events
  /\ UNCHANGED <<snapshot, liveOut, code, table>>

Next == DeleteDead \/ Fold \/ StepBack

Spec == Init /\ [][Next]_vars

(******************************* properties ********************************)

(* A register holds what an instruction (0: the block's entry) put there,  *)
(* with what ADDIs have added to it: an offset, and the symbols by the     *)
(* ADDIs that add them.                                                    *)
Fresh(id, r) == <<<<id, r>>, 0, {}>>
Sum(value, addi) ==
  <<value[1], value[2] + addi.imm, IF addi.constant THEN value[3] ELSE value[3] \cup {addi.id}>>

Effect(i, values) ==
  [r \in Registers |-> IF r \notin Defines(i) THEN values[r]
                       ELSE IF i.op = "addi" THEN Sum(values[i.base], i)
                       ELSE Fresh(i.id, r)]

(* The registers' values after each instruction of a block.                *)
Values(block) ==
  LET after[n \in 0..Len(block)] ==
        IF n = 0 THEN [r \in Registers |-> Fresh(0, r)]
        ELSE Effect(block[n], after[n - 1])
  IN  after

(* What an instruction that stays reads.                                   *)
Reads(i) == IF i.op = "other" THEN i.uses ELSE {}

(* What a block computes: the values that its effects see and that its     *)
(* live registers hold at the end.                                         *)
Result(block, outs) ==
  LET after == Values(block)
  IN  [seen |-> UNION {{<<block[n].id, r, after[n - 1][r]>> : r \in Reads(block[n])} :
                         n \in DOMAIN block},
       held |-> [r \in outs |-> after[Len(block)][r]]]

(* Whatever the rule folds and the pass deletes, at every point of the     *)
(* walk, the block computes what it did.                                   *)
FoldsKeepTheBlock == Result(code, liveOut) = Result(snapshot, liveOut)

(* The table, recorded once and only ever inherited, says at every point   *)
(* of the walk what it would say if it were built from the code of that    *)
(* moment, for the ADDIs ahead and for those already passed.               *)
TableStaysCurrent ==
  \A n \in DOMAIN code : code[n].op = "addi" => table[code[n].id] = TableOf(code)[code[n].id]

(* A chain of folds is sound in both: neither the block computes anything  *)
(* else, nor does the rule, asked again, read a stale entry.               *)
FoldsAreSound == FoldsKeepTheBlock /\ TableStaysCurrent

(* Between the definition that the tool infers and the candidate another   *)
(* instruction defines the base register, not in its first operand.        *)
DefinedBetween(block, candidate) ==
  \E i \in Range(InstructionsBetween(block, InferredDefinition(block, candidate), candidate.id)) :
    candidate.base \in Defines(i)

(* The tool's inference is not the compiler's table.  At every point of    *)
(* the walk, and whether the live registers are known or not, it errs one  *)
(* way: a fold that the table decides is decided alike, and a fold that    *)
(* the tool alone would make is one over a definition that it skips.       *)
InferenceErrsOneWay ==
  \A n \in DOMAIN code : code[n].op = "addi" =>
    \A reserved \in {live, {}} :
      LET c        == code[n]
          inferred == Evaluate(code, c, InferredDefinition(code, c), reserved)
          decided  == Evaluate(code, c, table[c.id], reserved)
      IN  /\ decided.fires => inferred.rewrite = decided.rewrite
          /\ inferred.fires => (decided.fires <=> ~DefinedBetween(code, c))

(* Up to and including the first fold, the trace replayed on the stage     *)
(* before the pass decides as the rule did; replayed without a trace, the  *)
(* stage accepts at least as much.                                         *)
TraceDecidesTheFirstFold ==
  \A n \in DOMAIN events :
    (\A k \in 1..(n - 1) : ~events[k].fired) =>
      LET place == Place(snapshot, events[n].candidate)
      IN  /\ ReplayTrace(snapshot, events)[n].fires = events[n].fired
          /\ events[n].fired => ReplayStage(snapshot, {})[place].fires

(* The comments of the tool and of the breakpoint say that the inputs      *)
(* recorded decide every invocation: the rest "is a function of the        *)
(* captured instruction stream".                                           *)
TraceDecides ==
  \A n \in DOMAIN events : ReplayTrace(snapshot, events)[n].fires = events[n].fired

(* That the inference is the table does not hold: the tool's docstring     *)
(* warns of it.                                                            *)
InferenceIsTheTable ==
  \A n \in DOMAIN code : code[n].op = "addi" =>
    table[code[n].id] = InferredDefinition(code, code[n])
=============================================================================
