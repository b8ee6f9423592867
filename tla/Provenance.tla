----------------------------- MODULE Provenance -----------------------------
(***************************************************************************)
(* The join of a capture into facts, tools/allocator_provenance.py: which  *)
(* recorded event an instruction, a register or a web of the captured code *)
(* goes back to.                                                           *)
(***************************************************************************)
EXTENDS AllocatorSnapshot

(* The registers that the operands of the code name.                       *)
RegistersOf(code) == UNION {code[n].registers : n \in DOMAIN code}

(* What a dictionary keyed by address holds after all events were entered: *)
(* the last event of each address.                                         *)
ByAddress(events) ==
  [a \in {events[n].address : n \in DOMAIN events} |->
     events[CHOOSE n \in DOMAIN events :
              /\ events[n].address = a
              /\ \A k \in DOMAIN events : events[k].address = a => k <= n].sequence]

(* The links of the live instructions (given by their addresses) to        *)
(* creations and to clones, and the instructions that have neither.        *)
JoinInstructions(code, trace) ==
  LET live     == {code[n].address : n \in DOMAIN code}
      creation == ByAddress(trace.creations)
      clone    == ByAddress(trace.clones)
  IN  [createdBy   |-> {<<a, creation[a]>> : a \in live \cap DOMAIN creation},
       derivedFrom |-> {<<e.address, e.source, e.sequence>> :
                          e \in {f \in Range(trace.clones) : f.address \in live}},
       unlinked    |-> live \ (DOMAIN creation \cup DOMAIN clone),
       dead        |-> DOMAIN creation \ live]

(* The links of the registers of the code to the events that gave out      *)
(* their numbers; a pair has a primary and a secondary number.             *)
JoinRegisters(code, trace) ==
  UNION {{<<r, e.sequence>> :
            r \in {q \in RegistersOf(code) : q[1] = e.class /\ q[2] \in e.numbers}} :
           e \in Range(trace.registers)}

(* A coloring snapshot belongs to an allocator snapshot of its function.   *)
SameCapture(allocator, coloring) == allocator.capture = coloring.capture

(* The webs of coloring snapshots: one edge for both entries of the        *)
(* neighbour lists, and the root of every register that is not one.        *)
FlattenColoring(snapshots) ==
  [edges     |-> UNION {UNION {{<<s.class, s.phase, s.attempt, {l, r}>> : r \in s.neighbors[l]} :
                                 l \in DOMAIN s.neighbors} :
                          s \in snapshots},
   coalesces |-> UNION {{<<s.class, s.phase, s.attempt, r, RootIn(s.parents, r)>> :
                           r \in {q \in DOMAIN s.parents : s.parents[q] # q}} :
                          s \in snapshots}]
=============================================================================
