---------------------------- MODULE CaptureSession ----------------------------
(***************************************************************************)
(* The automatic capture of tools/gdb/allocator_snapshot.py: breakpoints   *)
(* in a running compiler whose handlers fill a CaptureSession and write    *)
(* files at the stages of code generation.                                 *)
(*                                                                         *)
(* The compiler is the environment: it compiles one function after the     *)
(* other, reuses its arena and its counters, and stops at the breakpoints  *)
(* in an order that only its control flow fixes.  A handler is an operator *)
(* from the session to the session after it; every action is one stretch   *)
(* of the compiler up to a breakpoint, with the whole handler.             *)
(***************************************************************************)
EXTENDS Provenance, StackFrameTrace

CONSTANTS
  Functions,   \* how many functions the compiler compiles
  FunctionAt,  \* the object of each function ...
  Objects,     \* ... and the memory that holds these objects
  Targets,     \* what may be captured: an index (0: any) and a name ("": any)
  Budgets,     \* what the compiler may do in each function, at most
  Classes,     \* register classes
  Opcodes,     \* opcodes of instructions
  Graphs       \* interference graphs that a selection may start from

ASSUME FunctionsAssumption == Functions \in Nat \ {0} /\ FunctionAt \in [1..Functions -> DOMAIN Objects]

(* A translation unit defines a function once.                             *)
ASSUME NamesAssumption ==
  \A m, n \in 1..Functions : m # n =>
    LET name == FunctionIdentity(Objects, FunctionAt[m]).name
    IN  name = "" \/ name # FunctionIdentity(Objects, FunctionAt[n]).name

(* What a budget is: numbers of operations, and the locals of the frame.   *)
LocalRecord == [object : Nat \ {0}, register : Nat, type : Nat, size : Nat \ {0},
                alignment : {n \in Nat : IsPowerOfTwo(n)}, info26 : Nat, info2e : Nat]

ASSUME BudgetsAssumption ==
  \A b \in Budgets :
    /\ DOMAIN b = {"temps", "objects", "emits", "clones", "others", "deletes", "motions",
                   "selections", "locals"}
    /\ b.locals \in Seq(LocalRecord)
    /\ \A n \in DOMAIN b.locals : (b.locals[n].register = 0) = Homed(b.locals[n])
    /\ \A m, n \in DOMAIN b.locals : b.locals[m].object = b.locals[n].object => m = n

(* A graph that a selection starts from: neighbours are nodes, every       *)
(* register of the coalescing map has a root in it, and the stack lists    *)
(* nodes.                                                                  *)
ASSUME GraphsAssumption ==
  \A g \in Graphs :
    /\ \A r \in DOMAIN g.neighbors : g.neighbors[r] \subseteq DOMAIN g.neighbors
    /\ ~BadParents(g.parents)
    /\ IsFiniteSet(DOMAIN g.next) /\ DOMAIN g.next \subseteq DOMAIN g.neighbors \ {0}
    /\ \A r \in DOMAIN g.next : g.next[r] \in DOMAIN g.next \cup {0}
    /\ g.stack \in DOMAIN g.next \cup {0}

VARIABLES
  function, epoch, code, heap, counts, call, left, frame, facts, \* the compiler
  target, session, disk                                          \* the capture

compiler == <<function, epoch, code, heap, counts, call, left, frame, facts>>
captureVars == <<compiler, target, session, disk>>

Idle == [kind |-> "none"]

NoCounts == [c \in Classes |-> FirstVirtualRegister]

(* The stretches of code generation, in order; the session's epochs have   *)
(* the same names.                                                         *)
Epochs == <<"frontend", "initial_lowering", "backend_optimization", "post_optimization",
            "forward_peephole", "register_allocation", "epilogue_prologue",
            "epilogue_merge", "post_allocation_peephole", "final_scheduling", "final">>

After(e) == Epochs[1 + CHOOSE n \in 1..(Len(Epochs) - 1) : Epochs[n] = e]

(* The stage that the breakpoint at the end of a stretch is named for.     *)
Stage(e) ==
  CASE e = "initial_lowering" -> "initial"
    [] e = "backend_optimization" -> "optimized"
    [] e = "post_optimization" -> "scheduled"
    [] e = "register_allocation" -> "register_coloring"
    [] e = "final_scheduling" -> "final"
    [] OTHER -> e

(*************************** the capture session ***************************)

NewSession ==
  [index |-> 0, identity |-> [object |-> 0, canonical |-> 0, name |-> ""],
   active |-> FALSE, capture |-> FALSE, epoch |-> "initial_lowering",
   creations |-> <<>>, pendingCreations |-> <<>>,
   allocations |-> <<>>, clones |-> <<>>, pendingClones |-> <<>>, tracing |-> FALSE,
   registers |-> <<>>, objectEvent |-> <<>>, frontend |-> <<>>,
   boundaries |-> <<>>, previous |-> NoCounts,
   attempts |-> [c \in Classes |-> 0], returns |-> {},
   motion |-> <<>>, pendingMotion |-> <<>>,
   slots |-> <<>>, pendingSlot |-> <<>>, checkpoints |-> <<>>, raised |-> FALSE]

(* Appends an event with its sequence number.                              *)
Log(events, event) == Append(events, [event EXCEPT !.sequence = Len(events)])

(* Mutant: creations and stack slots of the function before stay.          *)
BeginFunctionStale(s, identity) ==
  [s EXCEPT !.index = @ + 1, !.identity = identity, !.active = TRUE,
            !.capture = /\ target.index \in {0, s.index + 1}
                        /\ target.name \in {"", identity.name},
            !.epoch = "initial_lowering", !.allocations = <<>>, !.clones = <<>>,
            !.registers = s.frontend, !.frontend = <<>>, !.boundaries = <<>>,
            !.previous = NoCounts, !.attempts = [c \in Classes |-> 0],
            !.motion = <<>>, !.checkpoints = <<>>]

(* The function is captured if the index and the name agree with what was  *)
(* asked for.  Buffered front-end events go to a captured function only.   *)
BeginFunction(s, identity) ==
  LET index    == s.index + 1
      captured == /\ target.index \in {0, index}
                  /\ target.name \in {"", identity.name}
      buffered == [n \in DOMAIN s.frontend |-> [s.frontend[n] EXCEPT !.sequence = n - 1]]
  IN  [NewSession EXCEPT !.index = index, !.identity = identity, !.active = TRUE,
                         !.capture = captured,
                         !.registers = IF captured THEN buffered ELSE <<>>,
                         !.objectEvent = s.objectEvent, !.returns = s.returns,
                         !.raised = s.raised]

(* Mutant: a reset keeps what was buffered for a function not captured.    *)
OnCounterResetKeeping(s) == [s EXCEPT !.registers = IF s.capture THEN <<>> ELSE @]

OnCounterReset(s) ==
  [s EXCEPT !.frontend = <<>>, !.registers = IF s.capture THEN <<>> ELSE @]

(* A direct increment is buffered for the function to come unless a        *)
(* function is being captured.                                             *)
OnDirectRegister(s, class, number) ==
  LET event == [sequence |-> 0, epoch |-> s.epoch, class |-> class,
                numbers |-> {number}, object |-> FALSE]
  IN  IF s.capture THEN [s EXCEPT !.registers = Log(@, event)]
                   ELSE [s EXCEPT !.frontend = Append(@, event)]

OnObjectRegister(s, class) ==
  IF ~s.capture THEN s
  ELSE [s EXCEPT !.objectEvent = <<[sequence |-> 0, epoch |-> s.epoch, class |-> class,
                                    numbers |-> {}, object |-> TRUE]>>]

(* The numbers are read from the object when the allocator returns.        *)
OnObjectRegisterReturn(s, numbers) ==
  IF s.objectEvent = <<>> THEN s
  ELSE IF ~s.capture THEN [s EXCEPT !.objectEvent = <<>>]
  ELSE [s EXCEPT !.registers = Log(@, [s.objectEvent[1] EXCEPT !.numbers = numbers]),
                 !.objectEvent = <<>>]

(* Creations nest: a wrapper's entry is matched with the next return of    *)
(* the builder.                                                            *)
OnWrapper(s, opcode) ==
  IF ~s.capture THEN s
  ELSE [s EXCEPT !.pendingCreations =
          Append(@, [sequence |-> 0, epoch |-> s.epoch, opcode |-> opcode, address |-> 0])]

OnBuilderReturn(s, instruction) ==
  IF ~s.capture \/ s.pendingCreations = <<>> THEN s
  ELSE LET pending == Last(s.pendingCreations)
       IN  IF pending.opcode # instruction.opcode
           THEN [s EXCEPT !.pendingCreations = Front(@), !.raised = TRUE]
           ELSE [s EXCEPT !.pendingCreations = Front(@),
                          !.creations = Log(@, [pending EXCEPT !.address = instruction.address])]

(* Allocations and clones are watched only between the initial and the     *)
(* optimized stage.                                                        *)
Optimizing(s) == s.tracing /\ s.capture /\ s.epoch = "backend_optimization"

OnArenaReturn(s, address) ==
  IF ~Optimizing(s) THEN s
  ELSE [s EXCEPT !.allocations = Log(@, [sequence |-> 0, address |-> address])]

OnClone(s, source) ==
  IF ~Optimizing(s) THEN s
  ELSE [s EXCEPT !.pendingClones = Append(@, [sequence |-> 0, source |-> source, address |-> 0])]

OnCloneReturn(s, address) ==
  IF ~(s.tracing /\ s.capture) \/ s.pendingClones = <<>> THEN s
  ELSE [s EXCEPT !.pendingClones = Front(@),
                 !.clones = Log(@, [Last(s.pendingClones) EXCEPT !.address = address])]

(* Mutant: a finished row stays pending.                                   *)
FinishMotionTwice(s) == [s EXCEPT !.motion = @ \o s.pendingMotion]

(* Rows of the loop-motion trace: one per instruction considered.          *)
FinishMotion(s) == [s EXCEPT !.motion = @ \o s.pendingMotion, !.pendingMotion = <<>>]

OnConsider(s, address) ==
  IF ~s.capture THEN s
  ELSE LET f == FinishMotion(s)
       IN  [f EXCEPT !.pendingMotion =
              <<[sequence |-> Len(f.motion), address |-> address,
                 results |-> <<>>, moved |-> FALSE, path |-> "none"]>>]

OnPredicate(s, name, result) ==
  IF s.capture /\ s.pendingMotion # <<>>
  THEN [s EXCEPT !.pendingMotion[1].results = Append(@, <<name, result>>)]
  ELSE s

OnAccept(s) ==
  IF s.capture /\ s.pendingMotion # <<>>
  THEN [s EXCEPT !.pendingMotion[1].moved = TRUE,
                 !.pendingMotion[1].path =
                   IF \E r \in Range(s.pendingMotion[1].results) : r[1] = "00525fc0"
                   THEN "fallback" ELSE "direct"]
  ELSE s

OnMotionFinish(s) == IF s.capture THEN FinishMotion(s) ELSE s

(* Mutant: one count of attempts for both classes.                         *)
OnSelectShared(s, class) ==
  IF ~s.capture THEN s
  ELSE LET attempt == 1 + CHOOSE n \in Range(s.attempts) : \A k \in Range(s.attempts) : k <= n
       IN  [s EXCEPT !.attempts[class] = attempt,
                     !.returns = @ \cup {[class |-> class, attempt |-> attempt, index |-> s.index]}]

(* Attempts are numbered per class; a return breakpoint of its own waits   *)
(* for the end of each.                                                    *)
OnSelect(s, class) ==
  IF ~s.capture THEN s
  ELSE LET attempt == s.attempts[class] + 1
       IN  [s EXCEPT !.attempts[class] = attempt,
                     !.returns = @ \cup {[class |-> class, attempt |-> attempt, index |-> s.index]}]

OnSelectReturn(s) == IF s.capture THEN [s EXCEPT !.returns = {}] ELSE s

RecordBoundary(s, phase) ==
  [s EXCEPT !.boundaries = Append(@, Boundary(phase, counts, s.previous)),
            !.previous = counts,
            !.raised = @ \/ MovedBackward(counts, s.previous)]

OnAllocate(s, identity) ==
  LET b == IF s.active THEN s ELSE BeginFunction(s, identity)
  IN  IF ~b.capture THEN b
      ELSE RecordBoundary([b EXCEPT !.attempts = [c \in Classes |-> 0]], "allocator")

OnSlot(s, local) ==
  IF ~s.capture THEN s
  ELSE [s EXCEPT !.raised = @ \/ s.pendingSlot # <<>>,
                 !.pendingSlot = <<[sequence |-> 0, object |-> local.object, type |-> local.type,
                                    size |-> local.size, before |-> frame.cursor,
                                    alignment |-> 0, slot |-> 0, after |-> 0]>>]

OnAlignment(s, alignment) ==
  IF s.capture /\ s.pendingSlot # <<>>
  THEN [s EXCEPT !.pendingSlot[1].alignment = alignment] ELSE s

OnSlotReturn(s, slot, cursor) ==
  IF ~s.capture \/ s.pendingSlot = <<>> THEN s
  ELSE [s EXCEPT !.slots = Log(@, [s.pendingSlot[1] EXCEPT !.slot = slot, !.after = cursor]),
                 !.raised = @ \/ s.pendingSlot[1].alignment = 0,
                 !.pendingSlot = <<>>]

(* The entry of the frame routine starts a new list of checkpoints, the    *)
(* last one writes the trace.                                              *)
OnCheckpoint(s, at, state) ==
  IF ~s.capture THEN s
  ELSE [s EXCEPT !.checkpoints = IF at = "entry" THEN <<state>> ELSE Append(@, state),
                 !.raised = \/ @
                            \/ at # "entry" /\ s.checkpoints = <<>>
                            \/ at = "return" /\ s.pendingSlot # <<>>]

(* The stage breakpoints: the session after one, whatever was written.     *)
OnStage(s, phase, next) ==
  IF ~s.capture THEN s
  ELSE LET recorded == RecordBoundary(s, phase)
           finished == IF phase = "optimized" THEN FinishMotion(recorded) ELSE recorded
       IN  [finished EXCEPT !.epoch = next,
                            !.tracing = IF phase = "optimized" THEN FALSE
                                        ELSE IF phase = "initial" THEN TRUE ELSE @]

(* The contents of a creation trace; allocations that became live          *)
(* instructions without a wrapper are told apart.                          *)
CreationTrace(s, snapshot) ==
  [creations  |-> s.creations,
   clones     |-> s.clones,
   registers  |-> s.registers,
   boundaries |-> s.boundaries,
   unwrapped  |-> {a.address : a \in Range(s.allocations)}
                    \cap ({snapshot[n].address : n \in DOMAIN snapshot}
                          \ {c.address : c \in Range(s.creations)}),
   pending    |-> Len(s.pendingCreations) + Len(s.pendingClones)]

(******************************** the files ********************************)

StageFile(s, phase) ==
  LET recorded == RecordBoundary(s, phase)
  IN  [phase |-> phase, capture |-> s.index, identity |-> s.identity, counts |-> counts,
       code |-> code, trace |-> CreationTrace(recorded, code)]

WithStage(s, phase) ==
  [disk EXCEPT !.stage = IF s.capture THEN <<StageFile(s, phase)>> ELSE @,
               !.motion = IF s.capture /\ phase = "optimized"
                          THEN <<FinishMotion(s).motion>> ELSE @]

(* A file of a function, a class, an attempt and a phase replaces an       *)
(* earlier one of the same name.                                           *)
Named(f) == <<f.capture, f.class, f.attempt, f.phase>>

WithColoring(files) ==
  [disk EXCEPT !.coloring = {f \in @ : \A g \in files : Named(f) # Named(g)} \cup files]

ColoringFile(graph, stack, capture, class, attempt, phase) ==
  LET s == ColoringSnapshot(class, graph, stack)
  IN  [class |-> s.class, count |-> s.count, neighbors |-> s.neighbors, parents |-> s.parents,
       groups |-> s.groups, order |-> s.order,
       capture |-> capture, attempt |-> attempt, phase |-> phase]

(******************************* the compiler ******************************)

CaptureInit ==
  /\ function = 0
  /\ epoch = "final"
  /\ code = <<>>
  /\ heap = 1
  /\ counts = NoCounts
  /\ call = Idle
  /\ left \in Budgets
  /\ frame = [cursor |-> 0, slots |-> {}]
  /\ facts = [origin |-> <<>>, moves |-> <<>>, selections |-> [c \in Classes |-> 0], done |-> {}]
  /\ target \in Targets
  /\ session = NewSession
  /\ disk = [stage |-> <<>>, motion |-> <<>>, homes |-> <<>>, frames |-> <<>>, coloring |-> {}]

(* The front end of the next function begins: counters and arena restart.  *)
(* The names of files carry the index of their function; those of the      *)
(* functions before are not written again and drop out of the model, but   *)
(* for the frame traces, which are compared with each other.               *)
ResetCounters ==
  /\ epoch = "final" /\ function < Functions
  /\ function' = function + 1
  /\ epoch' = "frontend"
  /\ code' = <<>>
  /\ heap' = 1
  /\ counts' = NoCounts
  /\ left' \in Budgets
  /\ frame' = [cursor |-> 0, slots |-> {}]
  /\ facts' = [origin |-> <<>>, moves |-> <<>>, selections |-> [c \in Classes |-> 0], done |-> {}]
  /\ session' = OnCounterReset(session)
  /\ disk' = [disk EXCEPT !.stage = <<>>, !.motion = <<>>, !.homes = <<>>, !.coloring = {}]
  /\ UNCHANGED <<call, target>>

EnterCodeGen ==
  /\ epoch = "frontend"
  /\ epoch' = "initial_lowering"
  /\ session' = BeginFunction(session, FunctionIdentity(Objects, FunctionAt[function]))
  /\ UNCHANGED <<function, code, heap, counts, call, left, frame, facts, target, disk>>

(* A temporary register, given out by an increment in the compiler's code. *)
DirectRegister(c) ==
  /\ call = Idle /\ left.temps > 0
  /\ epoch \in {"frontend", "initial_lowering", "backend_optimization", "register_allocation"}
  /\ left' = [left EXCEPT !.temps = @ - 1]
  /\ counts' = [counts EXCEPT ![c] = @ + 1]
  /\ session' = OnDirectRegister(session, c, counts[c])
  /\ UNCHANGED <<function, epoch, code, heap, call, frame, facts, target, disk>>

(* A register, or a pair, for an object: entry and return of the           *)
(* allocator; its own increment is not a site of direct registers.         *)
EnterObjectRegister(c, width) ==
  /\ call = Idle /\ left.objects > 0 /\ epoch = "initial_lowering"
  /\ left' = [left EXCEPT !.objects = @ - 1]
  /\ call' = [kind |-> "object", class |-> c, width |-> width]
  /\ session' = OnObjectRegister(session, c)
  /\ UNCHANGED <<function, epoch, code, heap, counts, frame, facts, target, disk>>

ReturnObjectRegister ==
  /\ call.kind = "object"
  /\ call' = Idle
  /\ counts' = [counts EXCEPT ![call.class] = @ + call.width]
  /\ session' = OnObjectRegisterReturn(session, counts[call.class]..(counts'[call.class] - 1))
  /\ UNCHANGED <<function, epoch, code, heap, left, frame, facts, target, disk>>

(* An instruction made through a wrapper, by lowering, by the optimizer,   *)
(* as spill code or in the prologue: its entry, the arena, and the return  *)
(* of the builder.                                                         *)
EnterWrapper(opcode) ==
  /\ call = Idle /\ left.emits > 0
  /\ epoch \in {"initial_lowering", "backend_optimization", "register_allocation",
                "epilogue_prologue"}
  /\ left' = [left EXCEPT !.emits = @ - 1]
  /\ call' = [kind |-> "wrapper", opcode |-> opcode]
  /\ session' = OnWrapper(session, opcode)
  /\ UNCHANGED <<function, epoch, code, heap, counts, frame, facts, target, disk>>

EnterClone(n) ==
  /\ call = Idle /\ left.clones > 0 /\ epoch = "backend_optimization"
  /\ left' = [left EXCEPT !.clones = @ - 1]
  /\ call' = [kind |-> "clone", of |-> code[n]]
  /\ session' = OnClone(session, code[n].address)
  /\ UNCHANGED <<function, epoch, code, heap, counts, frame, facts, target, disk>>

(* The arena also serves requests that are not for instructions.           *)
ReturnFromArena ==
  /\ \/ call.kind \in {"wrapper", "clone"} /\ UNCHANGED left
        /\ call' = [kind |-> "filled", for |-> call, address |-> heap]
     \/ call = Idle /\ left.others > 0 /\ epoch = "backend_optimization"
        /\ left' = [left EXCEPT !.others = @ - 1] /\ UNCHANGED call
  /\ heap' = heap + 1
  /\ session' = OnArenaReturn(session, heap)
  /\ UNCHANGED <<function, epoch, code, counts, frame, facts, target, disk>>

(* What an instruction was made from: 0, or the instruction it is a clone  *)
(* of.                                                                     *)
WithOrigin(origin, address, source) ==
  [a \in DOMAIN origin \cup {address} |-> IF a = address THEN source ELSE origin[a]]

ReturnBuilder(registers) ==
  /\ call.kind = "filled" /\ call.for.kind = "wrapper"
  /\ LET instruction == [address |-> call.address, opcode |-> call.for.opcode,
                         registers |-> registers]
     IN  /\ code' = Append(code, instruction)
         /\ session' = OnBuilderReturn(session, instruction)
  /\ facts' = [facts EXCEPT !.origin = WithOrigin(@, call.address, 0)]
  /\ call' = Idle
  /\ UNCHANGED <<function, epoch, heap, counts, left, frame, target, disk>>

ReturnClone ==
  /\ call.kind = "filled" /\ call.for.kind = "clone"
  /\ code' = Append(code, [call.for.of EXCEPT !.address = call.address])
  /\ facts' = [facts EXCEPT !.origin = WithOrigin(@, call.address, call.for.of.address)]
  /\ session' = OnCloneReturn(session, call.address)
  /\ call' = Idle
  /\ UNCHANGED <<function, epoch, heap, counts, left, frame, target, disk>>

(* Passes unlink instructions; no breakpoint sees it.                      *)
Unlink(n) ==
  /\ call = Idle /\ left.deletes > 0
  /\ epoch \in {"backend_optimization", "post_allocation_peephole"}
  /\ left' = [left EXCEPT !.deletes = @ - 1]
  /\ code' = RemoveAt(code, n)
  /\ UNCHANGED <<function, epoch, heap, counts, call, frame, facts, target, session, disk>>

(* Loop motion, the condition of CodeMotion's scan in the order of its     *)
(* short circuit: the flags, three tests, a fourth for instructions        *)
(* outside the block set, the opcode with the size of the loop; then the   *)
(* fallback test if one of them has ruled out the direct move.             *)
Consider(n) ==
  /\ call = Idle /\ left.motions > 0 /\ epoch = "backend_optimization"
  /\ left' = [left EXCEPT !.motions = @ - 1]
  /\ call' = [kind |-> "motion", address |-> code[n].address, passed |-> 0, direct |-> TRUE,
              moved |-> FALSE, over |-> FALSE]
  /\ session' = OnConsider(session, code[n].address)
  /\ UNCHANGED <<function, epoch, code, heap, counts, frame, facts, target, disk>>

Tests == <<"00526d80", "00526b50", "005266e0", "00526500">>

Test(result) ==
  /\ call.kind = "motion" /\ ~call.over /\ call.direct /\ call.passed < 4
  /\ LET passes == (call.passed < 3) = result   \* the fourth must answer no
     IN  call' = [call EXCEPT !.passed = IF passes THEN @ + 1 ELSE @, !.direct = passes]
  /\ session' = OnPredicate(session, Tests[call.passed + 1], result)
  /\ UNCHANGED <<function, epoch, code, heap, counts, left, frame, facts, target, disk>>

(* The flags (before any test) or the size of the loop (after the last)    *)
(* rule out a direct move without a test.                                  *)
TestFallback(result) ==
  /\ call.kind = "motion" /\ ~call.over
  /\ ~call.direct \/ call.passed \in {0, 3, 4}
  /\ call' = [call EXCEPT !.direct = FALSE, !.moved = result, !.over = TRUE]
  /\ session' = OnPredicate(session, "00525fc0", result)
  /\ UNCHANGED <<function, epoch, code, heap, counts, left, frame, facts, target, disk>>

AcceptMotion ==
  /\ call.kind = "motion"
  /\ \/ call.over /\ call.moved /\ call.passed # 9
     \/ ~call.over /\ call.direct /\ call.passed \in {3, 4}
  /\ call' = [call EXCEPT !.moved = TRUE, !.over = TRUE, !.passed = 9]
  /\ session' = OnAccept(session)
  /\ UNCHANGED <<function, epoch, code, heap, counts, left, frame, facts, target, disk>>

FinishConsidered ==
  /\ call.kind = "motion" /\ call.over
  /\ call.moved => call.passed = 9
  /\ facts' = [facts EXCEPT !.moves =
                 Append(@, [address |-> call.address,
                            path |-> IF ~call.moved THEN "none"
                                     ELSE IF call.direct THEN "direct" ELSE "fallback"])]
  /\ call' = Idle
  /\ session' = OnMotionFinish(session)
  /\ UNCHANGED <<function, epoch, code, heap, counts, left, frame, target, disk>>

(* Register allocation: the entry, then selections of colours with spill   *)
(* code in between, for one class after the other.                         *)
EnterAllocateRegisters ==
  /\ call = Idle /\ epoch = "register_allocation" /\ "allocated" \notin facts.done
  /\ facts' = [facts EXCEPT !.done = @ \cup {"allocated"}]
  /\ LET s == OnAllocate(session, FunctionIdentity(Objects, FunctionAt[function]))
     IN  /\ session' = s
         /\ disk' = [disk EXCEPT !.stage =
                       IF s.capture
                       THEN <<[phase |-> "allocator", capture |-> s.index,
                               identity |-> s.identity, counts |-> counts, code |-> code,
                               trace |-> CreationTrace(s, code)]>>
                       ELSE @]
  /\ UNCHANGED <<function, epoch, code, heap, counts, call, left, frame, target>>

Select(c, graph) ==
  /\ call = Idle /\ left.selections > 0 /\ "allocated" \in facts.done
  /\ epoch = "register_allocation"
  /\ left' = [left EXCEPT !.selections = @ - 1]
  /\ call' = [kind |-> "select", class |-> c, graph |-> graph]
  /\ facts' = [facts EXCEPT !.selections[c] = @ + 1]
  /\ session' = OnSelect(session, c)
  /\ disk' = IF session.capture
             THEN WithColoring({ColoringFile(graph, graph.stack, session.index, c,
                                             session'.attempts[c], "before")})
             ELSE disk
  /\ UNCHANGED <<function, epoch, code, heap, counts, frame, target>>

ReturnSelect ==
  /\ call.kind = "select"
  /\ call' = Idle
  /\ session' = OnSelectReturn(session)
  /\ disk' = IF session.capture
             THEN WithColoring({ColoringFile(call.graph, 0, r.index, r.class,
                                             r.attempt, "after") : r \in session.returns})
             ELSE disk
  /\ UNCHANGED <<function, epoch, code, heap, counts, left, frame, facts, target>>

(* The locals without a register, in the order of the list.                *)
WithoutRegister(locals) ==
  LET kept[n \in 0..Len(locals)] ==
        IF n = 0 THEN <<>>
        ELSE IF locals[n].register = 0 THEN Append(kept[n - 1], locals[n]) ELSE kept[n - 1]
  IN  kept[Len(locals)]

(* The loop that gives homes to locals without a register: the list is     *)
(* recorded at its start, every home by the three breakpoints of the slot  *)
(* allocator.                                                              *)
EnterHomingLoop ==
  /\ call = Idle /\ epoch = "initial_lowering"
  /\ left.locals # <<>> /\ "homed" \notin facts.done
  /\ facts' = [facts EXCEPT !.done = @ \cup {"homed"}]
  /\ call' = [kind |-> "homing",
              rest |-> WithoutRegister(left.locals)]
  /\ disk' = [disk EXCEPT !.homes = IF session.capture THEN <<left.locals>> ELSE @]
  /\ UNCHANGED <<function, epoch, code, heap, counts, left, frame, target, session>>

EnterSlot ==
  /\ call.kind = "homing" /\ call.rest # <<>>
  /\ call' = [kind |-> "slot", of |-> Head(call.rest), rest |-> Tail(call.rest), at |-> "entry"]
  /\ session' = OnSlot(session, Head(call.rest))
  /\ UNCHANGED <<function, epoch, code, heap, counts, left, frame, facts, target, disk>>

ReturnAlignment ==
  /\ call.kind = "slot" /\ call.at = "entry"
  /\ call' = [call EXCEPT !.at = "aligned"]
  /\ session' = OnAlignment(session, call.of.alignment)
  /\ UNCHANGED <<function, epoch, code, heap, counts, left, frame, facts, target, disk>>

ReturnSlot ==
  /\ call.kind = "slot" /\ call.at = "aligned"
  /\ LET slot == SlotFor(frame.cursor, call.of.alignment)
         next == slot + call.of.size
     IN  /\ frame' = [cursor |-> next, slots |-> frame.slots \cup {<<call.of.object, slot>>}]
         /\ session' = OnSlotReturn(session, slot, next)
  /\ call' = [kind |-> "homing", rest |-> call.rest]
  /\ UNCHANGED <<function, epoch, code, heap, counts, left, facts, target, disk>>

LeaveHomingLoop ==
  /\ call.kind = "homing" /\ call.rest = <<>>
  /\ call' = Idle
  /\ UNCHANGED <<function, epoch, code, heap, counts, left, frame, facts, target, session, disk>>

(* The frame routine, by its entry, a point in between and its return.     *)
FrameCheckpoint(at) ==
  /\ epoch = "epilogue_prologue"
  /\ \/ at = "entry" /\ call = Idle /\ "framed" \notin facts.done
        /\ call' = [kind |-> "frame", next |-> "middle"]
     \/ at = "middle" /\ call.kind = "frame" /\ call.next = at
        /\ call' = [call EXCEPT !.next = "return"]
     \/ at = "return" /\ call.kind = "frame" /\ call.next = at /\ call' = Idle
  /\ facts' = [facts EXCEPT !.done = @ \cup {"framed"}]
  /\ LET state == [linkage |-> IF at = "entry" THEN 0 ELSE 8, outgoing |-> 0]
     IN  /\ session' = OnCheckpoint(session, at, state)
         /\ disk' = IF session.capture /\ at = "return"
                    THEN [disk EXCEPT !.frames =
                            Append(@, [capture |-> session.index, allocations |-> session.slots,
                                       checkpoints |-> session'.checkpoints])]
                    ELSE disk
  /\ UNCHANGED <<function, epoch, code, heap, counts, left, frame, target>>

(* The end of a stretch, with its stage breakpoint.                        *)
EndEpoch ==
  /\ call = Idle /\ epoch \notin {"frontend", "final"}
  /\ epoch = "register_allocation" => "allocated" \in facts.done
  /\ epoch = "epilogue_prologue" => "framed" \in facts.done
  /\ epoch' = After(epoch)
  /\ disk' = WithStage(session, Stage(epoch))
  /\ session' = OnStage(session, Stage(epoch), After(epoch))
  /\ UNCHANGED <<function, code, heap, counts, call, left, frame, facts, target>>

CaptureNext ==
  \/ ResetCounters \/ EnterCodeGen \/ ReturnFromArena \/ ReturnClone
  \/ ReturnObjectRegister \/ AcceptMotion \/ FinishConsidered
  \/ EnterAllocateRegisters \/ ReturnSelect
  \/ EnterHomingLoop \/ EnterSlot \/ ReturnAlignment \/ ReturnSlot \/ LeaveHomingLoop
  \/ EndEpoch
  \/ \E c \in Classes : \/ DirectRegister(c)
                        \/ \E width \in 1..2 : EnterObjectRegister(c, width)
                        \/ \E graph \in Graphs : Select(c, graph)
  \/ \E opcode \in Opcodes : EnterWrapper(opcode)
  \/ \E registers \in {{}} \cup {{<<c, counts[c] - 1>>} : c \in {d \in Classes : counts[d] > FirstVirtualRegister}} :
       ReturnBuilder(registers)
  \/ \E n \in DOMAIN code : EnterClone(n) \/ Unlink(n) \/ Consider(n)
  \/ \E result \in BOOLEAN : Test(result) \/ TestFallback(result)
  \/ \E at \in {"entry", "middle", "return"} : FrameCheckpoint(at)

CaptureSpec == CaptureInit /\ [][CaptureNext]_captureVars

(******************************* properties ********************************)

(* The function that the stage file on disk is about is still compiled.    *)
Current(file) == session.capture /\ file.capture = function

(* Every instruction of a captured stage goes back to its own creation, or *)
(* to the clone that made it, never to both, to none, or to an event of an *)
(* instruction that stood at the same address before; the allocations      *)
(* reported as made without a wrapper are those of the clones.             *)
LinksAreExact ==
  \A file \in Range(disk.stage) :
    Current(file) =>
      LET join     == JoinInstructions(file.code, file.trace)
          live     == {file.code[n].address : n \in DOMAIN file.code}
          made     == {a \in live : facts.origin[a] = 0}
      IN  /\ {l[1] : l \in join.createdBy} = made
          /\ \A n \in DOMAIN file.code : \A e \in Range(file.trace.creations) :
               <<file.code[n].address, e.sequence>> \in join.createdBy =>
                 e.opcode = file.code[n].opcode
          /\ {<<l[1], l[2]>> : l \in join.derivedFrom} =
               {<<a, facts.origin[a]>> : a \in live \ made}
          /\ Cardinality(join.derivedFrom) = Cardinality(live \ made)
          /\ join.unlinked = {} /\ file.trace.pending = 0
          /\ file.trace.unwrapped = live \ made

(* Every number that the compiler gave out in the function has exactly one *)
(* event, in order, inside the range of the stage that its epoch belongs   *)
(* to; the ranges follow each other; and every virtual register in the     *)
(* code has one origin.                                                    *)
RegistersAreAccounted(file) ==
  /\ \A c \in Classes :
       LET events == {n \in DOMAIN file.trace.registers : file.trace.registers[n].class = c}
           numbers(n) == file.trace.registers[n].numbers
       IN  /\ UNION {numbers(n) : n \in events} = FirstVirtualRegister..(file.counts[c] - 1)
           /\ \A j, k \in events : j < k => \A x \in numbers(j), y \in numbers(k) : x < y
  /\ \A n \in DOMAIN file.trace.registers :
       LET e == file.trace.registers[n]
       IN  /\ e.sequence = n - 1
           /\ \E b \in Range(file.trace.boundaries) :
                /\ e.numbers \subseteq b.ranges[e.class]
                /\ IF b.phase = "allocator" THEN e.epoch = "register_allocation"
                                            ELSE Stage(e.epoch) = b.phase
  /\ LET origins == JoinRegisters(file.code, file.trace)
     IN  \A r \in RegistersOf(file.code) :
           r[2] >= FirstVirtualRegister => Cardinality({o \in origins : o[1] = r}) = 1

(* ... in a function whose front end did not run inside a capture.         *)
RegistersHaveOrigins ==
  \A file \in Range(disk.stage) :
    Current(file) /\ (file.capture = 1 \/ target.index # 0 \/ target.name # "") =>
      RegistersAreAccounted(file)

(* ... and in every captured function.  The documentation says that the    *)
(* trace buffers front-end events between the reset and CodeGen.           *)
FrontEndIsBuffered ==
  \A file \in Range(disk.stage) : Current(file) => RegistersAreAccounted(file)

(* Selections and their files: one file before and one after each, with    *)
(* the attempts numbered from 1 per class, the same graph in both, and     *)
(* nothing overwritten.                                                    *)
AttemptsPair ==
  /\ \A f \in disk.coloring : ValidColoring(f)
  /\ session.capture /\ session.index = function =>
      \A c \in Classes :
        LET own(phase) == {f \in disk.coloring :
                             f.capture = function /\ f.class = c /\ f.phase = phase}
            running    == IF call.kind = "select" /\ call.class = c THEN 1 ELSE 0
            edges(f)   == {e[4] : e \in FlattenColoring({f}).edges}
            roots(f)   == {<<e[4], e[5]>> : e \in FlattenColoring({f}).coalesces}
        IN  /\ {f.attempt : f \in own("before")} = 1..facts.selections[c]
            /\ {f.attempt : f \in own("after")} = 1..(facts.selections[c] - running)
            /\ \A b \in own("before"), a \in own("after") : a.attempt = b.attempt =>
                 /\ edges(a) = edges(b) /\ roots(a) = roots(b)
                 /\ a.parents = b.parents
            /\ \A file \in Range(disk.stage), f \in own("before") : SameCapture(file, f)

(* The loop-motion trace has one row per instruction considered, in order, *)
(* which says whether and on which path it moved.                          *)
MotionRowsAreExact ==
  disk.motion # <<>> /\ session.capture /\ session.index = function
    /\ epoch \notin {"frontend", "initial_lowering", "backend_optimization"} =>
    LET rows == disk.motion[1]
    IN  /\ Len(rows) = Len(facts.moves)
        /\ \A n \in DOMAIN rows :
             /\ rows[n].sequence = n - 1
             /\ [address |-> rows[n].address, path |-> rows[n].path] = facts.moves[n]
             /\ rows[n].moved = (rows[n].path # "none")

(* Frame traces are accepted by the tool that reads them, hold the homes   *)
(* of their own function only, in disjoint places, one for each local that *)
(* the recorded list shows without a register; a comparison of two pairs   *)
(* each home at most once; no handler raises an error.                     *)
FramesAreSound ==
  /\ ~session.raised
  /\ \A f \in Range(disk.frames) :
       /\ ValidTrace(f)
       /\ \A d, e \in Range(f.allocations) :
            d # e => d.after <= e.slot \/ e.after <= d.slot
       /\ f.capture = function =>
            /\ {<<e.object, e.slot>> : e \in Range(f.allocations)} = frame.slots
            /\ \A h \in Range(disk.homes) : left.locals = h =>
                 {e.object : e \in Range(f.allocations)} = {l.object : l \in {m \in Range(h) : Homed(m)}}
  /\ \A f, g \in Range(disk.frames) :
       LET uses  == [o \in {l.object : l \in UNION {Range(b.locals) : b \in Budgets}} |-> 0]
           pairs == CompareTraces(f, g, uses, uses).matched
       IN  \A p, q \in pairs : (p.before = q.before) = (p.after = q.after)

(* The files of a stage and of the frame say what was done in their own    *)
(* function, whatever was captured before it.                              *)
FilesAreSound == LinksAreExact /\ FramesAreSound
=============================================================================
