--------------------------- MODULE StackFrameTrace ---------------------------
(***************************************************************************)
(* Stack homes of objects: the allocator StackFrameEABI_AllocateObjectSlot *)
(* (src/backend/StackFrameEABI.c), and what tools/stack_frame_trace.py and *)
(* tools/home_list_trace.py make of a capture of it.                       *)
(***************************************************************************)
EXTENDS Integers, FiniteSets, SequencesExt

(* The cursor rounded up to the alignment, a power of two: the C code      *)
(* masks with ~(alignment - 1).                                            *)
SlotFor(cursor, alignment) == cursor + ((-cursor) % alignment)

IsPowerOfTwo(n) == n \in {1, 2, 4, 8, 16, 32, 64, 128}

(* The geometry that the tool demands of every event of a trace.           *)
ValidTrace(trace) ==
  /\ \A n \in DOMAIN trace.allocations :
       LET event == trace.allocations[n]
       IN  /\ event.sequence = n - 1
           /\ IsPowerOfTwo(event.alignment)
           /\ event.slot >= event.before
           /\ event.slot % event.alignment = 0
           /\ event.after = event.slot + event.size
  /\ Len(trace.checkpoints) > 0

(* Local offsets are biased by the linkage area and the outgoing           *)
(* arguments, as the last checkpoint has them.                             *)
LocalBandBase(trace) ==
  LET state == trace.checkpoints[Len(trace.checkpoints)]
  IN  state.linkage + state.outgoing

(* What stands for an object in a comparison: its type, size and           *)
(* alignment, and the bag of its uses in PCode (here: their number).       *)
SemanticSignature(event, uses) ==
  <<event.type, event.size, event.alignment, uses[event.object]>>

(* Only signatures that one object has on each side are paired; the others *)
(* that both sides have are ambiguous.  uses counts the live uses of each  *)
(* object on either side.                                                  *)
GroupBySignature(trace, uses) ==
  LET events == Range(trace.allocations)
      sign(e) == SemanticSignature(e, uses)
  IN  [s \in {sign(e) : e \in events} |-> {e \in events : sign(e) = s}]

CompareTraces(before, after, usesBefore, usesAfter) ==
  LET old    == GroupBySignature(before, usesBefore)
      new    == GroupBySignature(after, usesAfter)
      common == DOMAIN old \cap DOMAIN new
      single == {s \in common : Cardinality(old[s]) = 1 /\ Cardinality(new[s]) = 1}
      paired(o, n) ==
        [before |-> o, after |-> n,
         delta |-> (n.slot + LocalBandBase(after)) - (o.slot + LocalBandBase(before))]
      pairs  == UNION {{paired(o, n) : o \in old[s], n \in new[s]} : s \in single}
  IN  [matched   |-> pairs,
       ambiguous |-> common \ single,
       unmatchedBefore |-> Range(before.allocations) \ {p.before : p \in pairs},
       unmatchedAfter  |-> Range(after.allocations) \ {p.after : p \in pairs}]

(* A local is committed to the first register that one of its two records  *)
(* of register information holds; without one it gets a home.              *)
Homed(entry) == entry.info26 = 0 /\ entry.info2e = 0
=============================================================================
