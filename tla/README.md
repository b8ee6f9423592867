# The MWCC back end in TLA+: allocator, optimiser frame and the tools that observe them

This directory specifies the reconstructed back end of the GC/1.2.5 MWCC
compiler (`src/backend/*.c`) and the tools written around the original compiler
(`tools/*.py`, `tools/gdb/allocator_snapshot.py`).  The back end part says how a
function in PCode form is given physical registers, in which order the global
optimiser calls its passes, and how loop code motion indexes and scans the
code.  The tools part says what a capture of a running compiler may contain,
what is inferred from it, and what the searches and alignments computed from it
are worth.  The modules are written from the code; where a document or a
comment of the repository says something else, a configuration shows the
difference.

## 1. Inventory: the system's parts

| Part | State it keeps | Operations | Hard about it |
|---|---|---|---|
| Liveness (`SpillCode.c`) | per block `use`, `def`, `live_in`, `live_out`; block order | `InitializeLiveness`, `BuildLocalLiveness`, `SeedReturnRegisters`, `SolveLiveness` | a fixed point over any flow graph in an order fixed elsewhere |
| Last uses and interference (`SpillCode.c`) | the walk's live set, `gInterferenceBits`, operand flags, the code itself | `MarkLastUses`, `ConstructInterference` | code is deleted during the walk that uses liveness of the undeleted code; order of definitions; a triangular bit index shared with target constraints |
| Coalescing (`SpillCode.c`) | `gCoalescedRegisters`, the bits | `CoalesceCopies`, `MaterializeGraph` | decisions on roots rest on all earlier merges |
| Colouring (`Coloring.c`) | nodes (degree, flags, register), simplify stack, colour mask | `SimplifyGraph`, `SelectColors`, `CommitAssignments`, retry loop | degrees and limits used after they have become stale; a partial failure followed by another attempt |
| Register state (`Registers.c`) | tables of used physical registers, save spans, counts of free saved registers, virtual counters, coalescing windows, snapshot | `Bind*`, `Allocate*`, `Claim*`, masks, `Setup*`/`Reset*`, window operations | three views of one table that must agree; the snapshot restores only two of them |
| Numbering (`CodeGen.c`) | the objects' `RegisterInfo` | `CodeGen_PreallocateObjectRegisters` | several walks, one list twice, a window opened in between |
| Stack slots and frame traces (`StackFrameEABI.c`, `stack_frame_trace.py`, `home_list_trace.py`) | `gStackLocalObjectAreaSize`, `stack_offset`; files of recorded events | `AllocateObjectSlot`; validation and comparison of traces | alignment arithmetic; a trace must be accepted exactly when its numbers follow from each other |
| Optimiser driver (`COptimizer.c`) | the passes' change flags | `Optimize`, `Level3`, `Level4` | a pass runs or not by flags other passes left behind |
| Code motion (`CodeMotion.c`) | use/definition census, object index, reaching sets, moved instructions | setup, census and builder, fixed-point motion | two walks must number entries alike; sets are patched after each move |
| Operand construction (`Operands.c`, `PCodeUtilities.c`, `PCode.c`) | PCode lists | force to register, build and clone instructions | immediate splitting; variable-length operands |
| Use counting (`COptimizerExpressions.c`) | `weight_04`, `flags_22`, `flags_23` | recursive walk over expressions | recursion over shared objects |
| Capture session (`tools/gdb/allocator_snapshot.py`) | target, identity of the function, buffered and recorded events, counters, files written | one handler per breakpoint of the compiler | events come in any order the compiler allows; arena addresses and register numbers are reused from function to function; only one function is wanted |
| Snapshot reader (`tools/allocator_snapshot.py`) | none: functions of memory | lists, coalescing map, boundaries, validation | memory that holds cycles, stale links or another function's data |
| Provenance join (`allocator_provenance.py`) | none | joins creations, clones, register events and graphs with the code | an address names several instructions over time |
| Replay and register searches (`coloring_model.py`, `inverse_coloring.py`, `source_rank_solver.py`) | the hypotheses tried, the best so far | replay of simplification and selection; searches over numberings, orders, degrees | "none exists" must hold for all that was not tried; the replay must agree with the C code |
| Web alignment (`align_register_webs.py`) | potentials, matching and tree of the Hungarian method | profiles, scores, assignment, report | an incremental algorithm that is right only through its potentials; numbering must not matter |
| Post-allocation peephole (`post_allocation_peephole.py`) | none; the compiler's pass has a block, a live set and a table | preconditions of the ADDI fold, replay of a stage or of a trace | a stage shows the code before the pass, the rule sees it during the pass |
| Scheduler (`Scheduler.c`), IR optimiser (`IrOptimizer.c`) | none: declarations only | none | no code |

How they interact.  `CodeGen` first numbers the objects (each gets a virtual
register from the class's counter, the window of coalescing is opened between
two walks) and binds some to physical registers (which marks the used tables).
`Coloring_AllocateRegisters` then takes one class after the other; a class
saves its used table and repeats: build liveness, delete dead instructions,
build the matrix, coalesce copies, make the graph, simplify, select; on failure
spill code goes in and all of it is repeated from the saved table, on success
the registers are written into operands and objects.  Before all that,
`COptimizer_Optimize` calls the passes of the global optimiser; code motion
builds an index of definitions and uses, summarises the loops of the tree that
an external pass found, and scans them innermost first.  Everything is called
synchronously from one thread.  What makes the back end hard is therefore not
concurrency but *ordering and staleness*: state computed by one pass is used by
a later one after a third has changed what it was computed from.

The tools stand outside.  The capture session runs inside gdb: the compiler
stops at a breakpoint, a handler reads registers and memory (through the
snapshot reader), changes the session and may write a file, and the compiler
goes on.  Files of one capture are joined by the provenance tool, replayed by
the colouring model and the peephole tool, searched by the two solvers, and two
captures are aligned with each other.  Here the hazards are those of an
observer: events of another function, addresses and numbers that mean something
else than they did, and conclusions about what was not observed.

What makes each part correct is listed in `PROJECT.json` under `hazards`, at
the line where it could go wrong, with the property that would show it.

## 2. Modules

| Module | Models | State and actions in the code |
|---|---|---|
| `PCode` | the records of `backend_types.h` | programs, operands, flags as sets of named bits |
| `Liveness` | liveness of one class | `use`, `def`, `liveIn`, `liveOut` are the bitsets; `orderIndex`, `changed` the solver's locals; one action per visited block |
| `InterferenceMatrix` | the triangular bit matrix | a matrix is the set of its 1 bits |
| `Interference` | the two backward walks | composes `Liveness` (EXTENDS: the walks run after the solver and leave its records alone); one action per instruction; `removed` are the deleted instructions |
| `Coalesce` | copy coalescing | `parent` is `gCoalescedRegisters`, `adj` the matrix as a graph, `name` what an operand reads after renaming |
| `Registers` | `Registers.c` and the numbering walks of `CodeGen.c`, all three classes | `used`, `span`, `savedFree` are a class's table; `counter`, `first`, `last`, `checkpoint` the window's globals; `reg`, `second`, `bank` an object's `RegisterInfo`; one action per binding, visited object, temporary and window operation; `issued` remembers the temporaries |
| `OptimizerPipeline` | `COptimizer.c` call by call | `changed` are the `g...Changed` flags, `loops` tells whether there is a tree of loops, `pc` is the next call, `calls` the history |
| `ObjectAccess` | the predicate `COpt_005248c0`: may an access through a pointer touch an object of this type? | no state |
| `MotionIndex` | `COpt_SetLoopCodeMotionMode` with collection, census and builder | `tree` and `list` are the object tree (a map from paths to objects) and the allocation list; `first`, `count`, `entry` the numbers and arrays; `links` the reverse lists; one action per visited instruction and walk |
| `LoopMotion` | the three tree walks and the motion scan, on top of `MotionIndex` | `stack` are the recursive calls under way, `blockAt`, `todo`, `changed`, `available` the locals of `COpt_00524d90`, `fact` the summary in the node; one action per node, block or instruction |
| `ColoringModel` | the replay of `tools/coloring_model.py` as functions of a snapshot | no state; a sweep or the selection is a recursive function over the registers in order |
| `ColoringReplay` | `Coloring` with that replay beside it | no state of its own |
| `AllocatorHypotheses` | what a search may change in a captured graph (numbers, removed slots, degrees, order) and what the replay answers | no state |
| `RegisterSearch` | the searches of `source_rank_solver.py` and `inverse_coloring.py` | `families` and `pending` are what is left to try, `best`, `always`, `exhaustive` what the loops keep; one action per hypothesis |
| `MaximumAssignment` | `maximum_weight_assignment`: the Hungarian method, and what the best pairing is | `potentialsRows`, `potentialsColumns`, `matching`, `minimum`, `predecessor`, `used` are the function's arrays (`matching[0]` is the row being placed); one action per column reached and per column of the augmenting path |
| `WebAlignment` | profiles, scores, report and the comparison around it | composes `MaximumAssignment` (EXTENDS); `report` is what is returned |
| `PostAllocationPeephole` | the ADDI rule and the tool's two replays | the pass is external, taken from how the tool and its document describe the order of calls; the rule and the replays are the tool's |
| `AllocatorSnapshot` | `allocator_snapshot.py`: reading lists, groups, boundaries, and the checks | no state; memory is a function from addresses |
| `StackFrameTrace` | the slot arithmetic and the two trace tools | no state |
| `Provenance` | the joins of `allocator_provenance.py` | no state |
| `CaptureSession` | the capture session, beside a compiler that is its environment | `session` and `disk` are the tool's; `function`, `epoch`, `code`, `heap`, `counts`, ... the compiler's; a handler is an operator from session to session, an action is a stretch of the compiler up to a breakpoint with the whole handler |
| `GraphColoring` | abstract specification of a class | only colours, spills and phases, no order of visits |
| `Coloring` | `Coloring_RunClass` and the register table | one action per node visited by a walk or selected; `Abstract` is the refinement mapping |

`Coloring` takes the graphs it colours from a set `Inputs`; what it assumes of
them (`IsInput`) is what the other modules establish: symmetric and irreflexive
is `Coalesce!TypeOK`, aliases being roots is `OperandsAreCanonical`, and "a root
has all the edges of its members" is `RootsCarryEdges`.  What `Coalesce` assumes
of its graph (`IsInterferenceGraph`) holds by the shape of the matrix
(`InterferesIn` is symmetric and never true of equal arguments) and because
`EndWalk` of `Interference` starts from the clique of physical registers.  The
window (`First`, `Last`) that `Coalesce` gets as a constant is the one that
`Registers` closes, and the counter it closes with is the number of nodes that
`Coloring` builds (`RegisterCountCovers`).  The number of free saved registers
that a pair needs in `Registers` is never overstated after colouring has reset
the table (`SavedCountNeverOverstates` of `Coloring`).

What is assumed of code outside the repository is named where the constants are
declared.  `OrderAssumption` of `Liveness`: the visiting order leaves out no
block that control flow reaches from a visited one (`OrderCovers`).
`PairAssumption` of `Interference`: an instruction whose first two operands must get
different registers has two operands.  `CodeAssumption` of `MotionIndex`: a function
is a non-empty list of instructions.  `ShapeAssumption` and `TreeAssumption` of
`LoopMotion`, about the tree that `COpt_00522990` builds: child and sibling
pointers hold each loop once, the loops inside a loop hang under its child, and
the block in front of a loop lies only in loops that hold the whole loop.
`BlockAssumption` of `PostAllocationPeephole`: the instructions of a block have
different addresses, none of them null, which is how `instruction_index` and
`reaching_definition` use them.

`MotionIndex` has no run of its own: `LoopMotion` contains its steps, and
`MCLoopMotion` checks the properties of both.  `CaptureSession` builds on
`AllocatorSnapshot`, `Provenance` and `StackFrameTrace`: what a handler writes
is computed with their operators from the compiler's memory, and the properties
compare it with what the compiler did.

Modules whose name begins with `MC` give the constants values for TLC; modules
that end in `Proofs` hold the theorems.  Definitions marked "mutant" are
plausible wrong versions of the definition that follows them; substituted for
it, each makes some property of a run fail.

## 3. Runs

| Run | Question | Bounds, and why they are enough |
|---|---|---|
| `liveness` | is the fixed point exact, for every order? | all flow graphs of 3 blocks (two successors each, so branches, loops, irreducible loops, unreachable blocks and endless loops), 5 bodies per block; one virtual register: registers do not influence each other in a bit-vector analysis |
| `interference` | do deletion, last-use flags and edges agree with the paths? | three flow graphs, with branches and loops, the third with a block that control flow never reaches (the properties speak of reached points); two virtual registers, every instruction form the walks distinguish; the range of fixed registers is shortened from r3-r12 to two registers and begins after operand 3 instead of 50 |
| `coalesce` | do merges in any order stay sound and exact? | every symmetric graph on 2 physical and 3 virtual registers, every sequence of copies with up to 3 removals, a window of two registers |
| `coloring` | does a class with spills and retries implement graph colouring, and do the tools replay it? | 4 physical registers (one volatile, one reserved, two saved), every graph on four virtual registers with and without edges to physical ones, with a node coalesced into a volatile, a saved or a virtual one, uneven costs, any saved registers bound before, two attempts: enough for low-degree pushes, candidates, several claims, spills and a retry on another graph; every renumbering of the virtual registers |
| `registers` | does every owner get registers of its own, and does the counter cover all numbers? | three objects of any kind, in lists of their own or shared by two lists; four physical registers per class; counters rolled back above 5, the GPR counter up to three virtual registers, so that pairs, failures to allocate and roll-backs happen |
| `optimizer_pipeline` | are copies settled, and is the index fresh, where it is needed? | no bound: every level, every option, any results of the passes |
| `array_to_register` | PASS_PIPELINE.md:313 on level 4 | refuted: the propagation stands in the block of the dump switch |
| `loop_motion` | do collection, census and builder agree, are the available definitions exact, does the motion end at a fixed point? | functions of four instructions out of 11 forms, three objects, two blocks, both modes, with and without a tree left by an earlier round; a static word, a local double that no pointer reaches and a local structure, so that accesses through pointers reach some objects and not others; a loop with an inner loop and a sibling, any answer of the external tests; a loop is small up to 2 instructions instead of 0x19, so both sides of the test occur |
| `capture` | do files say what the compiler did in the captured function, and nothing of another? | two functions, the second reusing arena and counters, every order of events; what the compiler does in a function is one of six budgets, each about one part of the session; targets by index, by name, or any |
| `peephole` | are the preconditions sufficient, is the table never stale, where does the tool's inference leave it, and do the replays decide as the pass does? | blocks of four instructions over two interchangeable registers, every set of live registers: at least two plain additions, at most one that is blocked or holds a symbol, and any settings, uses, loads and stores with update, calls and instructions with two definitions between them; immediates -1 and 1 in a field from -1 to 1, so sums leave it at both ends. A chain of two folds with an instruction in between needs four; two registers are what a definition in a later operand needs to differ from the first one. 1.9 million states, over two minutes |
| `search` | are the verdicts of the searches true? | 4 physical registers, 5 virtual ones, every subset of 6 edges, a coalesced, an unused and a temporary web, none or one object pinned, four colour targets; some searches larger than the number of permutations that is tried |
| `alignment` | is the pairing of greatest score, and is a renumbering invisible? | three general-purpose webs and a floating-point one, a missing instruction on either side, clones of each other and of themselves, records of a first attempt that differ from the last ones and between the captures, every renumbering |

Some properties are conjunctions of parts that have names of their own beside
them: `CountsAreRight`, `ReplayIsExact`, `EdgesAreEnough`,
`CopiesAreSettled`, `IndexIsRight`, `FilesAreSound`, `PotentialsCertify`,
`RemovedCopiesNameOneRoot`, `FoldsAreSound`.

**Further configurations.**  Statements of documents and comments that the code
does not keep, as definitions beside the runs; TLC finds a state that violates
each:

* `MCLivenessPair.cfg` (`ResultsUsedInReturnBlock`, docs/DATA_MODEL.md:444): the
  second result register is made live in `gCurrentBlock`, which need not be the
  block of the return.
* `MCStrata.cfg` (`EarlierStrataStayApart`, docs/DATA_MODEL.md:305): two registers
  below the window meet through a physical register.
* `MCCaptureAll.cfg` (`FrontEndIsBuffered`, docs/CAPTURE_EXPERIMENTS.md:219): when
  every function is captured, front-end events between the reset and the
  start of code generation are not kept for functions after the first.
* `ReplayFollowsTheCode` of `ColoringReplay` (tools/coloring_model.py:4; put it in
  place of the properties of `MCColoring.cfg`): the replay claims saved registers
  that were bound before the class began, which the compiler passes over.
* `TraceDecides` of `PostAllocationPeephole` (in `MCPeephole.cfg`): after the first
  fold the trace's stage no longer is the block that the rule saw.
* `InferenceIsTheTable` of `PostAllocationPeephole` (in `MCPeephole.cfg`), of which the
  tool's docstring warns (tools/post_allocation_peephole.py:81): a definition in a
  later operand, such as the base of a load with update or a register that a call
  clobbers, is in the table and skipped by the inference.  `InferenceErrsOneWay` says
  how far this goes.
* `PinnedVerdictIsExact` of `RegisterSearch` (in `MCSearch.cfg`): with a pinned object
  between movable ones the search does not reach every admissible numbering.

**Fairness.**  `FairSpec` of `Liveness`, `Coloring` and `LoopMotion`, and `Spec` of
`WebAlignment`, assume weak fairness of the module's own steps: each is a loop of straight-line code in one thread
without waiting, so a step that is possible is taken.  Nothing is assumed about
which step.  `Coloring` stops at a bound on attempts, so its liveness property
is only that each *attempt* ends.  In `LoopMotion` the choice of an external
test is part of the step; no test is assumed to answer yes or no eventually.

**Deadlock** is looked for where the module has a terminal stuttering step
(`Coloring`, `Registers`, `OptimizerPipeline`, `LoopMotion`); the other walks and
searches, and the compiler under capture, stop when they are finished, and
their configurations say so.

`Registers` has two ends: the window is closed, or the code's assertion that a
register is left fails (`regPc = "assert"`); after that nothing is claimed.

## 4. Proofs

All theorems hold for every number of registers and blocks, every program and
graph, under the named assumptions of the modules (`PhysAssumption`,
`FileAssumption`, `InputsAssumption`, ...).

* `InterferenceProofs`.  First the solver.  The inductive invariant keeps `liveIn`
  and `liveOut` below every pre-solution of the equations, because the transfer
  function is monotone; `SolvedAtTheEnd` needs in addition that, while `changed`
  is FALSE, the equations hold for the blocks visited in this round *with the
  present sets* (visiting another block without a change does not disturb them).
  `ExactLiveness` brings in the paths: the points from which a register is read
  before it is written are the least set closed under one backward step, so a
  solution of the equations is closed, and the least one is below it.
  Then the arithmetic of the triangular index: rows do not
  overlap although each one is only `n*n/2` apart, and the last index fits.
  The target constraints set diagonal bits, which docs/DATA_MODEL.md:489 calls
  otherwise unused; `MatrixAnswersExactly` says what they do: the matrix answers for
  every two registers exactly what was set for the pair, but for r0, which
  interferes with each constrained virtual register as well.  Then the two walks.
  They leave the solver's records alone, so its theorems hold during them.  Their
  invariant says of the part of a block already walked that the live set lies
  above what the paths of the *remaining* code read, although it started from
  the liveness of the undeleted code; a deleted instruction is therefore dead in
  what is left, a flagged operand is read by no path, and a definition meets
  every register live after it (`EnoughEdges`).
* `BackendProofs`, first part (coalescing).  The invariant states `QuotientIsExact` together with
  parents pointing downwards, which makes the recursive root function well
  defined (`RegInduction`, from the least-element principle).  Absence of
  interference within a class is then a corollary: two roots are merged only
  when they do not interfere, and their edges are exact.
* `BackendProofs`, second part (the optimiser's driver, whose `DriverSpec` shares
  nothing with coalescing).  The invariant ties the history of calls to the point
  the driver has reached: which flags can still be set there, which pass was the
  last to rewrite code, in which mode the last index was built.  `Copies` and
  `Indexes` read their properties off it at the calls they are about.
* `ColoringProofs`.  One invariant per phase: in the scan, degrees count the
  unsimplified neighbours, stack and `simplified` are one set, and a node of
  `low` had fewer than `limit` such neighbours; in the selection, colours lie
  in the mask or among the claimed registers, and the neighbours already
  coloured are those above the node on the stack.  `LowDegreeNeverSpills`
  follows by counting: a spilled node's neighbours would hold all registers
  that are free or claimable, of which there are at least `limit`.
  `Counts` adds the bookkeeping: the span covers the saved registers in use, the
  count of free ones never exceeds those that are free, and a score is taken
  only of candidates, whose degree is not zero.  `Refinement` shows that
  the module implements `GraphColoring`: the walks of the simplification are
  stuttering steps; a register is given out or refused by what the neighbours
  hold at that moment (`AssignableRegisters`), and a class commits or tries again
  only when no node is pending, because the stack is empty by then
  (`NothingPending`).
  The last part, `ReplayFollows`, sets the tools' replay beside the walks.  The
  replay sorts what is left before every sweep and the compiler walks a list; the
  invariant (`ReplayScan`) says that the node under the cursor is the next one of
  the sorted queue, that the stack holds what the sweep removed so far, and that
  degrees are those the replay computes.  In the selection (`ReplaySelect`) the
  colours given so far are the replay's after as many nodes, and the free and the
  claimed registers lie in the replay's mask.  That ranks stand for numbers
  (`RanksAreRenumberings`) is no matter of steps: it is the lemma `ReplayedAlike` of
  `ColoringModelProofs`, for any one-to-one map between two snapshots that keeps
  edges, parents, costs, ranks and the physical registers.
* `ColoringModelProofs` has the facts about the replay that need no compiler: what
  `Ranked` enumerates, that a sweep is a walk over the queue, which candidate is
  the first, that a replay ends with every active register removed, and that two
  snapshots that are images of each other are replayed alike (`RemovedAlike`,
  `SelectedAlike`, `ReplayedAlike`).  The recursive functions of `ColoringModel` are
  unfolded with the existence lemmas of `NaturalProofs`.
* `RegistersProofs`.  The invariant ties the three views of a table together
  (`span` and `savedFree` are those of `used`), orders the landmarks of a window
  below its counter, and says where a held register can lie: among the used
  physical ones, or behind them and below the counter, below the checkpoint
  once temporaries are given out.  Whatever is given out next is therefore
  held by nobody, although roll-backs give numbers out again.
  `StrataAreSeparated` needs in addition which walk numbered an object.
  The second part is the capture session, for any number of functions, stages
  within any budget, and graphs.  `Base` types the compiler and the session and
  says which function and which epoch the session believes in (`Timeline`: those of
  the compiler, except in a front end, where it still is in the function before).
  On top of it stands one invariant for each part of the session, each proved
  beside `Base` alone or beside the ones before it: `MotionInv` (the rows so far
  are the fates of the calls so far, and the pending row is the one under way),
  `SelectInv` (attempts are numbered without a gap, and only the running one lacks
  its second file), `RegisterInv` (the events recorded enumerate the numbers below
  the counter in ascending order: what was given out before the capture is in the
  front end's buffer), `PendingInv` (each stack of pending calls holds just the
  call that the compiler is in; without it a return could be taken for
  another call's), `LinksInv` (a creation or a clone is recorded for every
  instruction that ever stood in the arena, so that addresses name one event),
  `FrameInv` (homes lie one above the other below the cursor, and with those
  still to come they are the locals without a register).
  They give `MotionRowsAreExact`, `AttemptsPair`, `RegistersHaveOrigins` and
  `FilesAreSound`.  The assumptions are what the
  compiler and the model of its memory guarantee: a function is defined once, so no
  two have the same name; a local has an alignment that is a power of two,
  and either a register or a home; the neighbours in a graph are nodes of it, the
  coalescing map has roots, and the stack is a list of nodes.
* `ToolProofs`, first part (the pairing of columns).  `PairingIsCertified`: potentials are feasible at every
  moment, and between two searches they prove that no assignment of the rows
  placed is better.  The strengthening says that the pairing is one-to-one but
  for the column that the augmenting path is being copied through, that its
  pairs are tight, that every minimum is attained by a step from its
  predecessor, and that the columns reached form a tree of tight edges in the
  order in which they were reached; moving all potentials of the tree by the
  smallest minimum keeps the tight edges tight and no edge becomes negative.
  `NoBetterPairing` is weak duality on top of it: a pairing's scores sum to at
  most the potentials, and the certified one attains them.  The sums are
  recursive functions (`SumTo`); what is needed of them (additive, monotone, equal
  under a one-to-one choice of columns) goes by least elements.
* `ToolProofs`, second part (the peephole).  A block is run on the values of its
  registers.  The invariant (`BlockInv`) says that what lives at the cursor decides
  the rest: two runs that agree on the live registers there see the same at every
  use after it and end with the same (`LiveDecides`).  A deletion and a fold only
  move that rest up by a place.  Between the predecessor and the candidate the
  runs before and after a fold differ in one register, which nobody reads or
  writes there: this is where the preconditions `base_redefined` and
  `destination_used` are needed, and that the table still names the *nearest*
  definition (`TableIsNearest`).  A fold preserves this by letting the candidate
  inherit the entry of the predecessor: `base_redefined` says that nothing in between
  defines the new base, and no other addition has the predecessor for its nearest
  definition: `destination_used` excludes those in between, and behind the candidate
  a register that is used before it is defined is live (`UsedIsLive`), while the
  predecessor's destination is dead there or is the candidate's own
  (`TableIsNeverStale`).  After the candidate they agree but for
  that register, which `destination_reserved` keeps out of the live ones
  (`FoldsPreserveTheBlock`).  The tool's inference looks at first operands only; its
  definition lies at or before the one of the table, and before it only if the
  latter defines the base in a later operand.  Such a definition is no ADDI, so the
  table decides no fold there, and the preconditions that the tool tests agree
  otherwise (`InferenceOnlyOverlooks`).  As long as nothing was folded, the code
  before the cursor is the snapshot's; the preconditions look at nothing else
  (`TraceReplays`).
* `ToolProofs`, third part (the searches).  `NearestFound`: the invariant
  (`OrdersTried`) says that `best` is the least by score of the solutions among the
  orders no longer pending, and `always` the pairs that all of them have; the
  reversals of an order are its pairs that the baseline has not.  `DegreesFound`:
  a search for degrees adds numbers to a graph, and the report speaks of live
  ranges.  The layers of the cover hold a web as often as its addition says, no
  fewer sets do, and two sets of `a` and `b` layers out of `n` share at least
  `a + b - n`.  Putting the layers into the graph gives every web the degree that
  the number gave it and leaves the roots as they were, since a new node has the
  highest number and is its own root (`Grown`, by induction over the layers); so
  the two graphs are replayed alike (`DegreesAreWindows`, from `ReplayedAlike` of
  `ColoringModelProofs`).  `VerdictFound`: as long as the search is exhaustive,
  every hypothesis that meets the targets is still to be tried (`RanksTried`).  What
  is tried stands for the numberings of edited sources: a permutation of the
  objects is the places they change to, read from the highest down
  (`PlacesHaveAnOrder`, `OrderHasPlaces`), and the ranks order the registers as their
  births do (`BirthsAreOrdered`), since one band of objects that may move lies
  between what is pinned and the temporaries.  The slots removed are nodes
  without edges whose ranks mean nothing: two orders that agree on all other
  registers are replayed alike (`ReplaysMatch` of `ColoringModelProofs`), because
  such a node leaves degrees alone and finds a register of the initial mask free
  without a claim.
  The assumptions are on the captures, as the compiler leaves them behind
  coalescing: their fields have one domain, chains of parents end, a root has
  the neighbours of its members (`RootsCarryEdges` of `Coalesce`, a theorem),
  neighbours are mutual, no hypothesis has added to a degree yet, and what is
  selected is a virtual register and a root (`Coloring_SimplifyGraph` passes over
  coalesced nodes).  A class offers a colour, and its initial colours lie below
  its saved ones.  The command line demands a target.
* `LoopMotionProofs`.  The index first: the walk down the object tree ends at the
  object or at the place where it is inserted, and stays right when the tree
  grows; every instruction owns the stretch of numbers that the census counted
  for it, the stretches are apart, and the entries that the builder wrote there
  are the ones of the objects it accesses or may touch; the reverse lists hold
  each entry with their name once.  All of it (`IndexInv`) is about operands and
  objects and not about blocks, so it outlives every move.  `IInv` adds that each
  block lists its instructions once, that the cursor and its saved successor
  stay in the scanned block, that `available` is what the fates of the
  definitions passed say, and that what was passed since the last move, or lies
  in blocks scanned since, was refused: at the end of a scan without a change
  that is the whole loop (`FixedPoint`).  A direct move stays the only definition
  in its loop because later moves take instructions out of the scanned loop into
  a block that lies in an outer loop only if the scanned loop does.
  `EveryLoopIsVisited` follows from what each call on the stack still has to
  visit: these sets are apart, and with the loops visited they are all loops.
* `NaturalProofs` has the lemmas shared by them: least elements, which stand in
  for induction, and the existence of recursively defined functions.

Some properties are proved and not run, because the proof covers every
instance: the type invariants of `Liveness`, `Interference` (`WalkTypeOK`, with the
bound of the matrix), `Coalesce`, `Coloring`, `Registers` and `LoopMotion`, `SolvedWhenDone`, `LiveSetsGrow`, `RootsCarryEdges`, `EveryNodeStackedOnce`,
`WindowCoversLowering`, `ObjectsAreReserved` and `NumbersAreKept`.

Only model-checked:

* termination and progress (`SolverTerminates`, `AttemptsEnd`, `MotionEnds`): liveness is
  beyond the prover;
* `RenumberingIsInvisible`, which compares two whole computations.

## 5. Not modelled, and why

* Code that the repository only declares or calls by address.  It enters the
  models as an input or as an external action: the block order
  (`SpillCode_BuildBlockOrder`) is any order of the reachable blocks; spill
  insertion (`SpillCode_00531800`) is another graph for the next attempt;
  lowering (`CodeGen_Generator`) is a sequence of `NewTemporary` steps; an
  optimiser pass reports any result (`Call`); the tree of loops is there or not
  (`FindLoops`), and in `LoopMotion` its shape is an input; a move (`Move`)
  takes an instruction out of the loop into the block in front, and the tests
  that allow it (`COpt_00526d80` and the others named in the module) answer
  anything.
* `LoopMotion` takes a loop's two block bitsets as the loop's blocks and the
  blocks that are executed in every iteration; the code that fills them is not
  in the repository.
* The compiler under capture: `CaptureSession` lets it create, clone, delete and
  number in any order within a budget, and move from stretch to stretch.
* The peephole pass of the compiler, of which the tool holds the rule only: in the
  model it deletes dead additions and dead settings and nothing else, and its block
  has the registers of one class.  Every ADDI has its three operands, so the tool's
  rejection `operand_count` does not occur.
* `Commit` of `Coloring` gives colours to nodes and objects; the graph has no
  instructions, so the deletion of the copies that become trivial there
  (Coloring.c:285) is left out, as are the branches for spilled nodes and for second
  halves of pairs, which no graph of the model has at that point.
* The definitions that reach a block in `LoopMotion` are computed outside the
  repository; a scan starts with all of them or none, the two ends of what it can be
  given.
* Messages, dumps, assertion texts and memory pools.
* `Scheduler.c` and `IrOptimizer.c`, which hold declarations only.
* Decoding of raw memory and of file formats, command lines and printing; the
  scripts that print what other tools computed or compare text
  (`compare_pcode_stages.py`, `explain_register.py`, `vreg_numbering.py`); the Ghidra
  script; the checks of the repository and the readers of object files and discs.
* The scores of an alignment are integers (the tool's are floats, rounded); an
  addition to a score that is below the rounding can order pairs differently.
* The cursor of the stack area has no width in the models: a frame large enough
  to wrap it is left out.
* Not modelled *yet*: see the plan.

## 6. Plan

The order follows the importance for the code that comes out.  Done: the
allocator of one class from liveness to commit and its refinement, the register
tables and numbering, stack slots, the optimiser's driver, code motion, the
replay, the searches, the alignment, the peephole rule, the capture session
with the readers and joins behind it.

1. *Expressions and construction.*  `UseCounting` (the recursive walk of
   `COptimizerExpressions.c` over shared objects, with the case in which its
   default assertion returns and the walk repeats for ever), `OperandForm`
   (`Operands.c`: the upper and lower halves of an immediate add up to it, at
   width 32 with a sign), `InstructionBuilder` (`PCodeUtilities.c`, `PCode.c`:
   the form interpreter fills exactly the operands it counted; a clone with
   extra operands keeps order and links).
2. *Composition.*  `Allocator`: `Registers`, then the three classes in order,
   each one `GraphColoring`; a 64-bit object's two nodes.  Abstract
   specification: every object ends in registers of its class that no
   simultaneously live object holds.
3. *Proofs.*  `RenumberingIsInvisible`: that a pairing found on one numbering is
   found on every other.
