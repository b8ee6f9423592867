------------------------- MODULE InterferenceProofs -------------------------
(***************************************************************************)
(* Proofs about SpillCode_BuildInterference, for every set of programs,    *)
(* every number of blocks and registers and every visiting order: first    *)
(* the liveness solver, then the bit positions of the triangular matrix,   *)
(* then the two walks that use both.                                       *)
(***************************************************************************)
EXTENDS Interference, NaturalProofs

\* The registers of the class are numbers, the physical ones the lowest.
LEMMA RegistersAreNumbers ==
    /\ Reg \subseteq Nat /\ Phys \subseteq Reg /\ Virtual \subseteq Reg
    /\ \A r \in Reg : r \in Phys <=> r < NPhys
    /\ \A r \in Reg : r \in Virtual <=> r \notin Phys
  BY PhysAssumption, RegAssumption DEF Reg, Phys, Virtual

-----------------------------------------------------------------------------
ProgOK == prog \in Programs

\* Before the solver runs, the live sets are as they were allocated.
Untouched ==
    livePc \in {"local", "seed"} => liveIn = Empty /\ liveOut = Empty

\* Each live set is below what the equations give for it.
Growing ==
    livePc \in {"solve", "done"} =>
        \A b \in Block : /\ liveIn[b] \subseteq Transfer(liveIn, b)
                         /\ liveOut[b] \subseteq Out(liveIn, b)

EquationsAt(b) == /\ liveOut[b] = Out(liveIn, b)
                  /\ liveIn[b] = Transfer(liveIn, b)

\* While a round has changed nothing, the blocks it has visited satisfy the
\* equations.
Settled ==
    livePc = "solve" /\ ~changed =>
        \A k \in orderIndex + 1 .. Len(prog.order) :
            prog.order[k] # NoBlock => EquationsAt(prog.order[k])

IInv == /\ TypeOK /\ ProgOK
        /\ Untouched /\ Growing
        /\ BelowEverySolution
        /\ Settled /\ SolvedWhenDone
-----------------------------------------------------------------------------
\* Facts about the program's fields that the steps use.
LEMMA ProgramFields ==
    ASSUME ProgOK
    PROVE  /\ prog.code \in [Block -> Seq(Instruction)]
           /\ prog.succ \in [Block -> SUBSET Block]
           /\ prog.order \in Seq(Block \cup {NoBlock})
           /\ prog.results \in Seq(Reg)
  BY ProgramsAssumption DEF ProgOK, Program

\* A larger assignment has larger transfers.
LEMMA TransferMonotone ==
    ASSUME ProgOK, TypeOK,
           NEW S \in [Block -> SUBSET Reg], NEW T \in [Block -> SUBSET Reg],
           \A b \in Block : S[b] \subseteq T[b]
    PROVE  \A b \in Block : /\ Out(S, b) \subseteq Out(T, b)
                            /\ Transfer(S, b) \subseteq Transfer(T, b)
  <1>1. ASSUME NEW b \in Block
        PROVE  Out(S, b) \subseteq Out(T, b)
    BY <1>1, ProgramFields DEF Out
  <1>2. QED
    BY <1>1 DEF Transfer

\* What the equations yield stays within the registers of the class.
LEMMA TransferType ==
    ASSUME ProgOK, TypeOK, NEW S \in [Block -> SUBSET Reg], NEW b \in Block
    PROVE  /\ Out(S, b) \in SUBSET Reg
           /\ Transfer(S, b) \in SUBSET Reg
  <1>1. Out(S, b) \in SUBSET Reg
    BY ProgramFields DEF Out
  <1>2. QED
    BY <1>1 DEF Transfer, TypeOK

\* Leaving live_out alone without successors agrees with the equations,
\* because live_out is then still empty.
LEMMA SuccessorLiveInIsOut ==
    ASSUME ProgOK, TypeOK, Growing, livePc = "solve", NEW b \in Block
    PROVE  SuccessorLiveIn(b) = Out(liveIn, b)
  <1>1. liveOut[b] \subseteq Out(liveIn, b)
    BY DEF Growing
  <1>2. CASE prog.succ[b] = {}
    <2>1. Out(liveIn, b) = {}
      BY <1>2 DEF Out
    <2>2. QED
      BY <1>1, <1>2, <2>1 DEF SuccessorLiveIn
  <1>3. CASE prog.succ[b] # {}
    BY <1>3 DEF SuccessorLiveIn, Out
  <1>4. QED
    BY <1>2, <1>3
-----------------------------------------------------------------------------
LEMMA InitIInv == Init => IInv
  <1> SUFFICES ASSUME Init PROVE IInv
    OBVIOUS
  <1> USE DEF Init, LivenessStart
  <1>1. ProgOK
    BY DEF ProgOK
  <1>2. TypeOK
    <2>1. Len(prog.order) \in Nat
      BY <1>1, ProgramFields
    <2>2. Empty \in [Block -> SUBSET Reg]
      BY DEF Empty
    <2>3. orderIndex \in 0 .. Len(prog.order)
      BY <2>1
    <2>4. QED
      BY <2>2, <2>3 DEF TypeOK
  <1>3. QED
    BY <1>1, <1>2 DEF IInv, Untouched, Growing, BelowEverySolution, Settled,
                      SolvedWhenDone

LEMMA LocalStep ==
    ASSUME IInv, BuildLocalLiveness PROVE IInv'
  <1> USE DEF BuildLocalLiveness
  <1>1. ProgOK'
    BY DEF IInv, ProgOK
  <1>2. TypeOK'
    <2>1. use' \in [Block -> SUBSET Reg] /\ def' \in [Block -> SUBSET Reg]
      BY DEF LocalUse, LocalDef
    <2>2. QED
      BY <2>1 DEF IInv, TypeOK
  <1>3. Untouched'
    BY DEF IInv, Untouched, Empty
  <1>4. QED
    BY <1>1, <1>2, <1>3 DEF IInv, Growing, BelowEverySolution, Settled,
                            SolvedWhenDone

LEMMA SeedStep ==
    ASSUME IInv, SeedReturnRegisters PROVE IInv'
  <1> USE DEF SeedReturnRegisters
  <1>1. ProgOK'
    BY DEF IInv, ProgOK
  <1>2. TypeOK'
    <2>1. \A b \in Block : Seeds(b) \in SUBSET Reg
      BY ProgramFields DEF IInv, Seeds
    <2>2. Len(prog.order) \in Nat
      BY ProgramFields DEF IInv
    <2>3. use' \in [Block -> SUBSET Reg]
      BY <2>1 DEF IInv, TypeOK
    <2>4. orderIndex' \in 0 .. Len(prog'.order)
      BY <2>2
    <2>5. QED
      BY <2>3, <2>4 DEF IInv, TypeOK
  <1>3. \A b \in Block : liveIn'[b] = {} /\ liveOut'[b] = {}
    BY DEF IInv, Untouched, Empty
  <1>4. Growing' /\ BelowEverySolution'
    BY <1>3 DEF Growing, BelowEverySolution
  <1>5. Settled'
    <2>1. Len(prog.order) \in Nat
      BY ProgramFields DEF IInv
    <2>2. orderIndex' + 1 .. Len(prog.order) = {}
      BY <2>1
    <2>3. QED
      BY <2>2 DEF Settled
  <1>6. QED
    BY <1>1, <1>2, <1>4, <1>5 DEF IInv, Untouched, SolvedWhenDone

LEMMA EndRoundStep ==
    ASSUME IInv, EndRound PROVE IInv'
  <1> USE DEF EndRound
  <1>0. Len(prog.order) \in Nat
    BY ProgramFields DEF IInv
  <1>1. ProgOK' /\ Untouched'
    BY DEF IInv, ProgOK, Untouched
  <1>2. TypeOK'
    <2>1. orderIndex' \in 0 .. Len(prog'.order)
      BY <1>0 DEF IInv, TypeOK
    <2>2. QED
      BY <2>1 DEF IInv, TypeOK
  <1>3. Growing'
    BY DEF IInv, Growing, Transfer, Out
  <1>4. BelowEverySolution'
    BY DEF IInv, BelowEverySolution, PreSolution, Transfer, Out
  <1>5. Settled'
    <2>1. CASE changed
      <3>1. orderIndex' + 1 .. Len(prog'.order) = {}
        BY <1>0, <2>1
      <3>2. QED
        BY <3>1 DEF Settled
    <2>2. CASE ~changed
      BY <2>2 DEF Settled
    <2>3. QED
      BY <2>1, <2>2
  <1>6. SolvedWhenDone'
    <2>1. CASE changed
      BY <2>1 DEF SolvedWhenDone
    <2>2. CASE ~changed
      <3>1. ASSUME NEW b \in Ordered PROVE EquationsAt(b)
        <4>1. PICK k \in 1 .. Len(prog.order) : prog.order[k] = b /\ b # NoBlock
          BY <3>1 DEF Ordered
        <4>2. k \in orderIndex + 1 .. Len(prog.order)
          BY <4>1, <1>0
        <4>3. QED
          BY <2>2, <4>1, <4>2 DEF IInv, Settled
      <3>2. Ordered' = Ordered
        BY DEF Ordered
      <3>3. \A b \in Ordered : EquationsAt(b)'
        BY <2>2, <3>1 DEF EquationsAt, Transfer, Out
      <3>4. QED
        BY <3>2, <3>3 DEF SolvedWhenDone, EquationsAt
    <2>3. QED
      BY <2>1, <2>2
  <1>7. QED
    BY <1>1, <1>2, <1>3, <1>4, <1>5, <1>6 DEF IInv

LEMMA VisitStep ==
    ASSUME IInv, VisitBlock PROVE IInv'
  <1> DEFINE b == prog.order[orderIndex]
  <1> USE DEF VisitBlock
  <1>0. Len(prog.order) \in Nat /\ orderIndex \in 1 .. Len(prog.order)
    BY ProgramFields DEF IInv, TypeOK
  <1>b. b \in Block \cup {NoBlock}
    BY <1>0, ProgramFields DEF IInv
  <1>1. ProgOK' /\ Untouched' /\ SolvedWhenDone'
    BY DEF IInv, ProgOK, Untouched, SolvedWhenDone
  <1>i. orderIndex' \in 0 .. Len(prog'.order)
    BY <1>0
  <1>2. CASE b = NoBlock
    <2>1. UNCHANGED <<liveIn, liveOut, changed>>
      BY <1>2
    <2>2. TypeOK'
      BY <1>i, <2>1 DEF IInv, TypeOK
    <2>3. Growing' /\ BelowEverySolution'
      BY <2>1 DEF IInv, Growing, BelowEverySolution, PreSolution, Transfer, Out
    <2>4. Settled'
      <3>1. SUFFICES ASSUME ~changed',
                            NEW k \in orderIndex' + 1 .. Len(prog'.order),
                            prog.order[k] # NoBlock
                     PROVE  EquationsAt(prog.order[k])'
        BY DEF Settled
      <3>2. k \in orderIndex + 1 .. Len(prog.order)
        BY <1>0, <1>2, <3>1
      <3>3. EquationsAt(prog.order[k])
        BY <2>1, <3>1, <3>2 DEF IInv, Settled
      <3>4. QED
        BY <2>1, <3>3 DEF EquationsAt, Transfer, Out
    <2>5. QED
      BY <1>1, <2>2, <2>3, <2>4 DEF IInv
  <1>3. CASE b # NoBlock
    <2> DEFINE out == Out(liveIn, b)
               in  == Transfer(liveIn, b)
    <2>0. b \in Block
      BY <1>b, <1>3
    <2>1. SuccessorLiveIn(b) = out
      BY <2>0, SuccessorLiveInIsOut DEF IInv
    <2>2. /\ liveOut' = [liveOut EXCEPT ![b] = out]
          /\ liveIn'  = [liveIn EXCEPT ![b] = in]
          /\ changed' = (changed \/ in # liveIn[b])
          /\ UNCHANGED <<prog, use, def, livePc>>
      BY <1>3, <2>1 DEF Transfer
    <2>3. out \in SUBSET Reg /\ in \in SUBSET Reg
      BY <2>0, TransferType DEF IInv, TypeOK
    <2>4. TypeOK'
      <3>1. /\ liveIn' \in [Block -> SUBSET Reg]
            /\ liveOut' \in [Block -> SUBSET Reg]
            /\ changed' \in BOOLEAN
        BY <2>0, <2>2, <2>3 DEF IInv, TypeOK
      <3>2. QED
        BY <1>i, <2>2, <3>1 DEF IInv, TypeOK
    \* The live sets only grow.
    <2>5. \A x \in Block : liveIn[x] \subseteq liveIn'[x]
      BY <2>0, <2>2 DEF IInv, Growing, TypeOK
    <2>6. \A x \in Block : /\ Out(liveIn, x) \subseteq Out(liveIn, x)'
                          /\ Transfer(liveIn, x) \subseteq Transfer(liveIn, x)'
      <3>1. \A x \in Block : /\ Out(liveIn, x) \subseteq Out(liveIn', x)
                            /\ Transfer(liveIn, x) \subseteq Transfer(liveIn', x)
        BY <2>4, <2>5, TransferMonotone DEF IInv, TypeOK
      <3>2. \A x \in Block : /\ Out(liveIn', x) = Out(liveIn, x)'
                            /\ Transfer(liveIn', x) = Transfer(liveIn, x)'
        BY <2>2 DEF Out, Transfer
      <3>3. QED
        BY <3>1, <3>2
    <2>7. Growing'
      <3>1. SUFFICES ASSUME NEW x \in Block
                     PROVE  /\ liveIn'[x] \subseteq Transfer(liveIn, x)
                            /\ liveOut'[x] \subseteq Out(liveIn, x)
        BY <2>2, <2>6 DEF Growing
      <3>2. CASE x = b
        BY <2>0, <2>2, <3>2 DEF IInv, TypeOK
      <3>3. CASE x # b
        BY <2>0, <2>2, <3>3 DEF IInv, TypeOK, Growing
      <3>4. QED
        BY <3>2, <3>3
    <2>8. BelowEverySolution'
      <3>1. SUFFICES ASSUME NEW S \in [Block -> SUBSET Reg], PreSolution(S)',
                            NEW x \in Block
                     PROVE  /\ liveIn'[x] \subseteq S[x]
                            /\ liveOut'[x] \subseteq Out(S, x)'
        BY DEF BelowEverySolution
      <3>2. PreSolution(S) /\ Out(S, x)' = Out(S, x)
        BY <2>2, <3>1 DEF PreSolution, Transfer, Out
      <3>3. \A y \in Block : liveIn[y] \subseteq S[y] /\ liveOut[y] \subseteq Out(S, y)
        BY <3>1, <3>2 DEF IInv, BelowEverySolution
      <3>4. out \subseteq Out(S, b) /\ in \subseteq Transfer(S, b)
        BY <2>0, <3>3, TransferMonotone DEF IInv, TypeOK
      <3>5. in \subseteq S[b]
        BY <2>0, <3>2, <3>4 DEF PreSolution
      <3>6. QED
        BY <2>0, <2>2, <3>2, <3>3, <3>4, <3>5 DEF IInv, TypeOK
    <2>9. Settled'
      <3>1. SUFFICES ASSUME ~changed',
                            NEW k \in orderIndex' + 1 .. Len(prog'.order),
                            prog.order[k] # NoBlock
                     PROVE  EquationsAt(prog.order[k])'
        BY <2>2 DEF Settled
      <3>2. ~changed /\ in = liveIn[b]
        BY <2>2, <3>1
      <3>3. liveIn' = liveIn
        BY <2>0, <2>2, <3>2 DEF IInv, TypeOK
      <3>4. \A x \in Block : Out(liveIn, x)' = Out(liveIn, x)
                           /\ Transfer(liveIn, x)' = Transfer(liveIn, x)
        BY <2>2, <3>3 DEF Out, Transfer
      <3>5. prog.order[k] \in Block
        BY <1>0, <2>2, <3>1, ProgramFields DEF IInv
      <3>6. CASE prog.order[k] = b
        <4>1. liveOut'[b] = out /\ liveIn'[b] = in
          BY <2>0, <2>2, <3>2, <3>3 DEF IInv, TypeOK
        <4>2. QED
          BY <2>0, <2>2, <3>4, <3>6, <4>1 DEF EquationsAt
      <3>7. CASE prog.order[k] # b
        <4>1. k # orderIndex
          BY <3>7
        <4>2. k \in orderIndex + 1 .. Len(prog.order)
          BY <1>0, <2>2, <3>1, <4>1
        <4>3. EquationsAt(prog.order[k])
          BY <3>1, <3>2, <4>2 DEF IInv, Settled
        <4>4. liveOut'[prog.order[k]] = liveOut[prog.order[k]]
          BY <2>0, <2>2, <3>5, <3>7 DEF IInv, TypeOK
        <4>5. QED
          BY <2>2, <3>3, <3>4, <3>5, <4>3, <4>4 DEF EquationsAt
      <3>8. QED
        BY <3>6, <3>7
    <2>10. QED
      BY <1>1, <2>4, <2>7, <2>8, <2>9 DEF IInv
  <1>4. QED
    BY <1>2, <1>3
-----------------------------------------------------------------------------
LEMMA NextIInv == IInv /\ [LivenessNext]_vars => IInv'
  <1> SUFFICES ASSUME IInv, [LivenessNext]_vars PROVE IInv'
    OBVIOUS
  <1>1. CASE BuildLocalLiveness
    BY <1>1, LocalStep
  <1>2. CASE SeedReturnRegisters
    BY <1>2, SeedStep
  <1>3. CASE VisitBlock
    BY <1>3, VisitStep
  <1>4. CASE EndRound
    BY <1>4, EndRoundStep
  <1>5. CASE UNCHANGED vars
    <2> USE <1>5 DEF vars, lvars
    <2>1. TypeOK' /\ ProgOK' /\ Untouched'
      BY DEF IInv, TypeOK, ProgOK, Untouched
    <2>2. Growing'
      BY DEF IInv, Growing, Transfer, Out
    <2>3. BelowEverySolution'
      BY DEF IInv, BelowEverySolution, PreSolution, Transfer, Out
    <2>4. \A b : EquationsAt(b)' <=> EquationsAt(b)
      BY DEF EquationsAt, Transfer, Out
    <2>5. Settled'
      BY <2>4 DEF IInv, Settled
    <2>6. SolvedWhenDone'
      BY DEF IInv, SolvedWhenDone, Ordered, Transfer, Out
    <2>7. QED
      BY <2>1, <2>2, <2>3, <2>5, <2>6 DEF IInv
  <1>6. QED
    BY <1>1, <1>2, <1>3, <1>4, <1>5 DEF LivenessNext

(***************************************************************************)
(* The inductive invariant holds in every reachable state.                 *)
(***************************************************************************)
THEOREM InductiveInvariant == Spec => []IInv
  BY InitIInv, NextIInv, PTL DEF Spec

(***************************************************************************)
(* Type correctness of the solver's records.                               *)
(***************************************************************************)
THEOREM TypeCorrect == Spec => []TypeOK
  <1>1. IInv => TypeOK
    BY DEF IInv
  <1>2. QED
    BY <1>1, InductiveInvariant, PTL

(***************************************************************************)
(* No register is ever claimed live that some solution leaves out: with    *)
(* SolvedAtTheEnd, the solver of SpillCode_SolveLiveness stops exactly at  *)
(* the least solution, for every flow graph and visiting order.            *)
(***************************************************************************)
THEOREM BelowEvery == Spec => []BelowEverySolution
  <1>1. IInv => BelowEverySolution
    BY DEF IInv
  <1>2. QED
    BY <1>1, InductiveInvariant, PTL

(***************************************************************************)
(* When the do-while loop stops, the equations hold at every visited       *)
(* block.                                                                  *)
(***************************************************************************)
THEOREM SolvedAtTheEnd == Spec => []SolvedWhenDone
  <1>1. IInv => SolvedWhenDone
    BY DEF IInv
  <1>2. QED
    BY <1>1, InductiveInvariant, PTL

(***************************************************************************)
(* No step of the solver takes a register out of a live set.               *)
(***************************************************************************)
THEOREM Growth == Spec => LiveSetsGrow
  <1>1. IInv /\ [LivenessNext]_vars =>
          [\A b \in Block : /\ liveIn[b] \subseteq liveIn'[b]
                            /\ liveOut[b] \subseteq liveOut'[b]]_<<liveIn, liveOut>>
    <2> SUFFICES ASSUME IInv, LivenessNext, NEW x \in Block
                 PROVE  /\ liveIn[x] \subseteq liveIn'[x]
                        /\ liveOut[x] \subseteq liveOut'[x]
      BY DEF vars, lvars
    <2>1. CASE UNCHANGED <<liveIn, liveOut>>
      BY <2>1
    <2>2. CASE VisitBlock
      <3> DEFINE b == prog.order[orderIndex]
      <3>1. CASE b = NoBlock
        BY <2>2, <3>1 DEF VisitBlock
      <3>2. CASE b # NoBlock
        <4>1. b \in Block
          <5>1. orderIndex \in 1 .. Len(prog.order)
            BY <2>2, ProgramFields DEF VisitBlock, IInv, TypeOK
          <5>2. QED
            BY <3>2, <5>1, ProgramFields DEF IInv
        <4>2. SuccessorLiveIn(b) = Out(liveIn, b)
          BY <2>2, <4>1, SuccessorLiveInIsOut DEF IInv, VisitBlock
        <4>3. /\ liveOut' = [liveOut EXCEPT ![b] = Out(liveIn, b)]
              /\ liveIn'  = [liveIn EXCEPT ![b] = Transfer(liveIn, b)]
          BY <2>2, <3>2, <4>2 DEF VisitBlock, Transfer
        <4>4. /\ liveIn[b] \subseteq Transfer(liveIn, b)
              /\ liveOut[b] \subseteq Out(liveIn, b)
          BY <2>2, <4>1 DEF IInv, Growing, VisitBlock
        <4>5. QED
          BY <4>1, <4>3, <4>4 DEF IInv, TypeOK
      <3>3. QED
        BY <3>1, <3>2
    <2>3. QED
      BY <2>1, <2>2 DEF LivenessNext, BuildLocalLiveness, SeedReturnRegisters,
                        EndRound
  <1>2. QED
    BY <1>1, InductiveInvariant, PTL DEF Spec, LiveSetsGrow
-----------------------------------------------------------------------------
\* What the local sets are, from the walk over the code to the seeds.
LocalSets ==
    /\ livePc # "local" => def = [b \in Block |-> LocalDef(prog.code[b])]
    /\ livePc = "seed" => use = [b \in Block |-> LocalUse(prog.code[b])]
    /\ livePc \in {"solve", "done"} =>
           use = [b \in Block |-> LocalUse(prog.code[b]) \cup Seeds(b)]

LEMMA LocalSetsInvariant == Spec => []LocalSets
  <1>1. Init => LocalSets
    BY DEF Init, LivenessStart, LocalSets
  <1>2. IInv /\ LocalSets /\ [LivenessNext]_vars => LocalSets'
    <2> SUFFICES ASSUME IInv, LocalSets, [LivenessNext]_vars PROVE LocalSets'
      OBVIOUS
    <2>1. CASE BuildLocalLiveness
      BY <2>1 DEF BuildLocalLiveness, LocalSets
    <2>2. CASE SeedReturnRegisters
      <3>1. /\ use = [b \in Block |-> LocalUse(prog.code[b])]
            /\ use' = [b \in Block |-> use[b] \cup Seeds(b)]
            /\ livePc' = "solve" /\ UNCHANGED <<prog, def>>
        BY <2>2 DEF SeedReturnRegisters, LocalSets
      <3>2. use' = [b \in Block |-> LocalUse(prog.code[b]) \cup Seeds(b)]
        BY <3>1
      <3>3. \A b : Seeds(b)' = Seeds(b)
        BY <3>1 DEF Seeds
      <3> QED
        BY <2>2, <3>1, <3>2, <3>3 DEF SeedReturnRegisters, LocalSets
    <2>3. CASE VisitBlock \/ EndRound \/ UNCHANGED vars
      <3>1. /\ UNCHANGED <<prog, use, def>>
            /\ livePc \in {"solve", "done"} \/ UNCHANGED livePc
            /\ livePc' \in {"solve", "done"} \/ UNCHANGED livePc
        BY <2>3 DEF VisitBlock, EndRound, vars, lvars
      <3>2. \A b : Seeds(b)' = Seeds(b)
        BY <3>1 DEF Seeds
      <3> QED
        BY <3>1, <3>2 DEF LocalSets
    <2> QED
      BY <2>1, <2>2, <2>3 DEF LivenessNext
  <1> QED
    BY <1>1, <1>2, InductiveInvariant, PTL DEF Spec

\* A register that a block writes is read before that, or in its def set.
LEMMA WrittenIsDefOrUse ==
    ASSUME ProgOK, NEW b \in Block, NEW r \in Reg, Writes(b, r)
    PROVE  r \in LocalDef(prog.code[b]) \cup LocalUse(prog.code[b])
  <1> DEFINE code == prog.code[b]
             D    == { i \in 1 .. Len(code) : r \in Defs(code[i]) }
             U(i) == { j \in 1 .. i : r \in Uses(code[j]) }
  <1>1. Len(code) \in Nat /\ D \in SUBSET Nat /\ D # {}
    BY ProgramFields DEF Writes
  <1>2. PICK i \in D : \A k \in D : i <= k
    BY <1>1, LeastElement
  <1>3. \A j \in 1 .. i - 1 : r \notin Defs(code[j])
    BY <1>1, <1>2
  <1>4. CASE U(i) = {}
    BY <1>2, <1>4 DEF LocalDef
  <1>5. CASE U(i) # {}
    <2>1. PICK j \in U(i) : TRUE
      BY <1>5
    <2>2. j \in 1 .. Len(code) /\ \A k \in 1 .. j - 1 : k \in 1 .. i - 1
      BY <1>1, <1>2, <2>1
    <2> QED
      BY <1>3, <2>1, <2>2 DEF LocalUse
  <1> QED
    BY <1>4, <1>5

\* What a block exposes and writes, in terms of its sets.
LEMMA SetsAreLocal ==
    ASSUME IInv, LocalSets, livePc = "done", NEW b \in Block, NEW r \in Reg
    PROVE  /\ Exposes(b, r) <=> r \in use[b]
           /\ r \in def[b] => Writes(b, r)
           /\ Writes(b, r) => r \in def[b] \cup use[b]
  <1>1. /\ use[b] = LocalUse(prog.code[b]) \cup Seeds(b)
        /\ def[b] = LocalDef(prog.code[b])
    BY DEF LocalSets
  <1>2. Exposes(b, r) <=> r \in use[b]
    BY <1>1 DEF Exposes, LocalUse
  <1>3. r \in def[b] => Writes(b, r)
    BY <1>1 DEF Writes, LocalDef
  <1>4. Writes(b, r) => r \in def[b] \cup use[b]
    BY <1>1, WrittenIsDefOrUse DEF IInv
  <1> QED
    BY <1>2, <1>3, <1>4

\* The registers live on some path satisfy the equations, ...
LEMMA PathsSolve ==
    ASSUME IInv, LocalSets, livePc = "done"
    PROVE  PreSolution([b \in Block |-> { r \in Reg : LiveOnSomePath(b, r) }])
  <1> DEFINE Sol == [b \in Block |-> { r \in Reg : LiveOnSomePath(b, r) }]
  <1> SUFFICES ASSUME NEW b \in Block, NEW r \in Transfer(Sol, b)
               PROVE  r \in Reg /\ LiveOnSomePath(b, r)
    BY DEF PreSolution
  <1>1. Sol \in [Block -> SUBSET Reg]
    OBVIOUS
  <1> HIDE DEF Sol
  <1>2. r \in Reg
    BY <1>1, TransferType DEF IInv
  <1> SUFFICES ASSUME NEW S \in SUBSET Block, b \in S,
                      \A a \in S : ~Writes(a, r) => prog.succ[a] \subseteq S
               PROVE  \E u \in S : Exposes(u, r)
    BY <1>2 DEF LiveOnSomePath
  <1>3. CASE r \in use[b]
    BY <1>2, <1>3, SetsAreLocal
  <1>4. CASE r \notin use[b]
    <2>1. r \notin def[b] /\ r \in Out(Sol, b)
      BY <1>4 DEF Transfer
    <2>2. ~Writes(b, r)
      BY <1>2, <1>4, <2>1, SetsAreLocal
    <2>3. PICK s \in prog.succ[b] : r \in Sol[s]
      BY <2>1 DEF Out
    <2>4. s \in S /\ LiveOnSomePath(s, r)
      BY <2>2, <2>3 DEF Sol
    <2> QED
      BY <2>4 DEF LiveOnSomePath
  <1> QED
    BY <1>3, <1>4

\* ... and the solution that the solver reaches does not leave one out.
LEMMA SolutionHasPaths ==
    ASSUME IInv, LocalSets, livePc = "done", NEW b \in Ordered, NEW r \in Reg,
           LiveOnSomePath(b, r)
    PROVE  r \in liveIn[b]
  <1> SUFFICES ASSUME r \notin liveIn[b] PROVE FALSE
    OBVIOUS
  <1> DEFINE S == { a \in Ordered : r \notin liveIn[a] }
  <1>1. Ordered \subseteq Block /\ \A a \in Ordered : prog.succ[a] \subseteq Ordered
    <2>1. Ordered \subseteq Block
      BY ProgramFields DEF IInv, Ordered
    <2>2. OrderCovers(prog)
      BY OrderAssumption DEF IInv, ProgOK
    <2> QED
      BY <2>1, <2>2 DEF Ordered, OrderCovers
  <1>2. \A a \in Ordered : liveIn[a] = (Out(liveIn, a) \ def[a]) \cup use[a]
    BY DEF IInv, SolvedWhenDone, Transfer
  <1>3. ASSUME NEW a \in S, ~Writes(a, r) PROVE prog.succ[a] \subseteq S
    <2>1. r \notin def[a] /\ r \notin liveIn[a]
      BY <1>1, <1>3, SetsAreLocal
    <2>2. r \notin Out(liveIn, a)
      BY <1>2, <2>1
    <2> QED
      BY <1>1, <2>2 DEF Out
  <1>4. S \in SUBSET Block /\ b \in S
    BY <1>1
  <1> HIDE DEF S
  <1>5. PICK u \in S : Exposes(u, r)
    BY <1>3, <1>4 DEF LiveOnSomePath
  <1>6. u \in Ordered /\ r \notin liveIn[u] /\ u \in Block
    BY <1>4, <1>5 DEF S
  <1>7. r \in use[u]
    BY <1>5, <1>6, SetsAreLocal
  <1> QED
    BY <1>2, <1>6, <1>7

(***************************************************************************)
(* At the end live_in of a visited block holds exactly the registers that  *)
(* are live on some path: SpillCode_InitializeLiveness computes liveness,  *)
(* for every function and every order that leaves out no reached block.    *)
(***************************************************************************)
THEOREM ExactLiveness == Spec => []LiveInIsExact
  <1>1. IInv /\ LocalSets => LiveInIsExact
    <2> SUFFICES ASSUME IInv, LocalSets, livePc = "done", NEW b \in Ordered
                 PROVE  liveIn[b] = { r \in Reg : LiveOnSomePath(b, r) }
      BY DEF LiveInIsExact
    <2>1. b \in Block /\ liveIn[b] \subseteq Reg
      BY ProgramFields DEF IInv, TypeOK, Ordered
    <2> DEFINE Sol == [c \in Block |-> { r \in Reg : LiveOnSomePath(c, r) }]
    <2>2. Sol \in [Block -> SUBSET Reg] /\ PreSolution(Sol)
      BY PathsSolve
    <2> HIDE DEF Sol
    <2>3. liveIn[b] \subseteq Sol[b]
      BY <2>1, <2>2 DEF IInv, BelowEverySolution
    <2> QED
      BY <2>1, <2>3, SolutionHasPaths DEF Sol
  <1> QED
    BY <1>1, InductiveInvariant, LocalSetsInvariant, PTL
-----------------------------------------------------------------------------
\* Halving: the quotient lies between (x - 1) / 2 and x / 2.
LEMMA Half ==
    ASSUME NEW x \in Nat
    PROVE  x \div 2 \in Nat /\ 2 * (x \div 2) <= x /\ x <= 2 * (x \div 2) + 1
  BY SMT

LEMMA SquareType ==
    ASSUME NEW n \in Nat
    PROVE  n * n \in Nat /\ (n + 1) * (n + 1) = n * n + 2 * n + 1
  BY SMT

LEMMA SquareMonotone ==
    ASSUME NEW m \in Nat, NEW n \in Nat, m <= n
    PROVE  m * m <= n * n
  BY SMT

\* The row of register n has room for all the smaller registers.
LEMMA RowRoom ==
    ASSUME NEW m \in Nat, NEW n \in Nat, m < n
    PROVE  (m * m) \div 2 + m <= (n * n) \div 2
  <1>1. (m + 1) * (m + 1) <= n * n
    BY SquareMonotone
  <1>2. m * m + 2 * m + 1 <= n * n
    BY <1>1, SquareType
  <1> DEFINE p == m * m
             q == n * n
  <1>3. p \in Nat /\ q \in Nat
    BY SquareType
  <1>4. p + 2 * m + 1 <= q
    BY <1>2
  <1> HIDE DEF p, q
  <1>5. p \div 2 + m <= q \div 2
    BY <1>3, <1>4, Half
  <1>6. QED
    BY <1>5 DEF p, q

(***************************************************************************)
(* Two different pairs of registers never share a bit.                     *)
(***************************************************************************)
THEOREM PairsHaveOwnBits ==
    ASSUME NEW a \in Nat, NEW b \in Nat, a # b,
           NEW c \in Nat, NEW d \in Nat, c # d,
           MatrixIndex(a, b) = MatrixIndex(c, d)
    PROVE  {a, b} = {c, d}
  <1> DEFINE l == Larger(a, b)
             s == Smaller(a, b)
             k == Larger(c, d)
             t == Smaller(c, d)
  <1>1. l \in Nat /\ s \in Nat /\ s < l /\ {a, b} = {l, s}
    BY DEF Larger, Smaller
  <1>2. k \in Nat /\ t \in Nat /\ t < k /\ {c, d} = {k, t}
    BY DEF Larger, Smaller
  <1>3. (l * l) \div 2 + s = (k * k) \div 2 + t
    BY DEF MatrixIndex
  <1> HIDE DEF l, s, k, t
  <1>4. l * l \in Nat /\ k * k \in Nat
    BY <1>1, <1>2, SquareType
  <1>5. (l * l) \div 2 \in Nat /\ (k * k) \div 2 \in Nat
    BY <1>4, Half
  <1>6. ~(l < k)
    <2>1. SUFFICES ASSUME l < k PROVE FALSE
      OBVIOUS
    <2>2. (l * l) \div 2 + l <= (k * k) \div 2
      BY <1>1, <1>2, <2>1, RowRoom
    <2>3. QED
      BY <1>1, <1>2, <1>3, <1>5, <2>2
  <1>7. ~(k < l)
    <2>1. SUFFICES ASSUME k < l PROVE FALSE
      OBVIOUS
    <2>2. (k * k) \div 2 + k <= (l * l) \div 2
      BY <1>1, <1>2, <2>1, RowRoom
    <2>3. QED
      BY <1>1, <1>2, <1>3, <1>5, <2>2
  <1>8. l = k
    BY <1>1, <1>2, <1>6, <1>7
  <1>9. s = t
    BY <1>1, <1>2, <1>3, <1>5, <1>8
  <1>10. QED
    BY <1>1, <1>2, <1>8, <1>9

(***************************************************************************)
(* The diagonal bit of a constrained register is the bit of its pair with  *)
(* register 0, so a constrained register interferes with r0.               *)
(***************************************************************************)
LEMMA DiagonalIsPairWithZero ==
    ASSUME NEW r \in Nat, r # 0
    PROVE  MatrixIndex(r, r) = MatrixIndex(r, 0)
  <1>1. (r * r) \div 2 \in Nat
    BY SquareType, Half
  <1>2. QED
    BY <1>1 DEF MatrixIndex, Larger, Smaller

(***************************************************************************)
(* Nothing else is there to be read: whatever pairs are set and whatever   *)
(* registers are constrained, SpillCode_Interferes answers for two         *)
(* registers exactly whether their pair was set, in either order, or one   *)
(* of them is r0 and the other a virtual register that is constrained.     *)
(***************************************************************************)
THEOREM MatrixAnswersExactly ==
    ASSUME NEW pairs \in SUBSET (Nat \X Nat), NEW marked,
           NEW a \in Nat, NEW b \in Nat, a # b
    PROVE  InterferesIn(EdgeBits(pairs) \cup DiagonalBits(marked), a, b) <=>
             \/ <<a, b>> \in pairs \/ <<b, a>> \in pairs
             \/ a = 0 /\ b \in marked \cap Virtual
             \/ b = 0 /\ a \in marked \cap Virtual
  <1>1. \A c, d \in Nat : c # d => (MatrixIndex(a, b) = MatrixIndex(c, d) <=> {a, b} = {c, d})
    <2>1. ASSUME NEW c \in Nat, NEW d \in Nat, c # d, {a, b} = {c, d}
          PROVE  MatrixIndex(a, b) = MatrixIndex(c, d)
      <3>1. (a = c /\ b = d) \/ (a = d /\ b = c)
        BY <2>1
      <3> QED
        BY <2>1, <3>1 DEF MatrixIndex, Larger, Smaller
    <2>2. ASSUME NEW c \in Nat, NEW d \in Nat, c # d, MatrixIndex(a, b) = MatrixIndex(c, d)
          PROVE  {a, b} = {c, d}
      BY <2>2, PairsHaveOwnBits
    <2> QED
      BY <2>1, <2>2, Zenon
  <1>2. MatrixIndex(a, b) \in EdgeBits(pairs) <=> <<a, b>> \in pairs \/ <<b, a>> \in pairs
    <2>1. MatrixIndex(a, b) \in EdgeBits(pairs)
            <=> \E p \in pairs : p[1] # p[2] /\ MatrixIndex(a, b) = MatrixIndex(p[1], p[2])
      BY DEF EdgeBits
    <2>2. ASSUME NEW p \in pairs, p[1] # p[2]
          PROVE  MatrixIndex(a, b) = MatrixIndex(p[1], p[2]) <=> p = <<a, b>> \/ p = <<b, a>>
      <3>1. p[1] \in Nat /\ p[2] \in Nat /\ p = <<p[1], p[2]>>
        OBVIOUS
      <3>2. {a, b} = {p[1], p[2]} <=> p = <<a, b>> \/ p = <<b, a>>
        BY <3>1
      <3> QED
        BY <1>1, <2>2, <3>1, <3>2
    <2>3. ASSUME <<a, b>> \in pairs \/ <<b, a>> \in pairs
          PROVE  \E p \in pairs : p[1] # p[2] /\ (p = <<a, b>> \/ p = <<b, a>>)
      BY <2>3
    <2> QED
      BY <2>1, <2>2, <2>3
  <1>3. MatrixIndex(a, b) \in DiagonalBits(marked)
          <=> (a = 0 /\ b \in marked \cap Virtual) \/ (b = 0 /\ a \in marked \cap Virtual)
    <2>1. MatrixIndex(a, b) \in DiagonalBits(marked)
            <=> \E r \in marked \cap Virtual : MatrixIndex(a, b) = MatrixIndex(r, r)
      BY DEF DiagonalBits
    <2>2. ASSUME NEW r \in marked \cap Virtual
          PROVE  MatrixIndex(a, b) = MatrixIndex(r, r) <=> {a, b} = {r, 0}
      <3>1. r \in Nat /\ r # 0
        BY PhysAssumption, RegAssumption DEF Virtual
      <3>2. MatrixIndex(r, r) = MatrixIndex(r, 0)
        BY <3>1, DiagonalIsPairWithZero
      <3> QED
        BY <1>1, <3>1, <3>2
    <2>3. \A r \in marked : {a, b} = {r, 0} <=> (a = 0 /\ b = r) \/ (b = 0 /\ a = r)
      OBVIOUS
    <2> QED
      BY <2>1, <2>2, <2>3
  <1> QED
    BY <1>2, <1>3 DEF InterferesIn

(***************************************************************************)
(* No bit lies outside the matrix_bit_count bits that                      *)
(* SpillCode_ConstructInterference allocates.                              *)
(***************************************************************************)
THEOREM IndexInBounds ==
    ASSUME NEW n \in Nat, n >= 2, NEW a \in 0 .. n-1, NEW b \in 0 .. n-1
    PROVE  MatrixIndex(a, b) < MatrixBitCount(n)
  <1>1. ASSUME NEW m \in 0 .. n-1, NEW s \in Nat, s <= m, s < m \/ s = 0
        PROVE  (m * m) \div 2 + s < (n * n) \div 2
    <2>1. (m * m) \div 2 + m <= (n * n) \div 2
      BY <1>1, RowRoom
    <2>2. (m * m) \div 2 \in Nat /\ (n * n) \div 2 \in Nat
      BY SquareType, Half
    <2>3. CASE m > 0
      BY <1>1, <2>1, <2>2, <2>3
    <2>4. CASE m = 0
      <3>1. n * n >= 4
        BY SquareMonotone
      <3>2. (n * n) \div 2 >= 1
        BY <3>1, SquareType, Half
      <3>3. (m * m) \div 2 = 0
        BY <2>4
      <3>4. QED
        BY <1>1, <2>2, <2>4, <3>2, <3>3
    <2>5. QED
      BY <1>1, <2>3, <2>4
  <1>2. CASE a = b
    <2>1. (a * a) \div 2 + 0 < (n * n) \div 2
      BY <1>1
    <2>2. (a * a) \div 2 \in Nat
      BY SquareType, Half
    <2>3. QED
      BY <1>2, <2>1, <2>2 DEF MatrixIndex, MatrixBitCount
  <1>3. CASE a # b
    <2>1. /\ Larger(a, b) \in 0 .. n-1
          /\ Smaller(a, b) \in Nat
          /\ Smaller(a, b) < Larger(a, b)
      BY <1>3 DEF Larger, Smaller
    <2>2. QED
      BY <1>1, <1>3, <2>1 DEF MatrixIndex, MatrixBitCount
  <1>4. QED
    BY <1>2, <1>3
-----------------------------------------------------------------------------
(***************************************************************************)
(* The registers live after instruction i of block b in the code that is   *)
(* left, when liveOut[b] are those live at its end: what the walk's bitset *)
(* holds there.                                                            *)
(***************************************************************************)
InsideLive(b, i) ==
    { r \in Reg : \/ ReadsFirst(b, i, r)
                  \/ ~WritesBeyond(b, i, r) /\ r \in liveOut[b] }

LEMMA CodeOfBlock ==
    ASSUME ProgOK, NEW b \in Block
    PROVE  /\ Len(prog.code[b]) \in Nat
           /\ \A i \in 1 .. Len(prog.code[b]) :
                 /\ prog.code[b][i] \in Instruction
                 /\ <<b, i>> \in Points(prog)
                 /\ At(prog, <<b, i>>) = prog.code[b][i]
  BY ProgramFields DEF Points, At

LEMMA RegistersOfInstruction ==
    ASSUME NEW instr \in Instruction
    PROVE  /\ \A k \in Positions(instr) : instr.operands[k].reg \in Reg
           /\ Uses(instr) \subseteq Reg /\ Defs(instr) \subseteq Reg
  <1>1. instr.operands \in Seq(Operand)
    BY DEF Instruction
  <1>2. \A k \in Positions(instr) : instr.operands[k] \in Operand
    BY <1>1 DEF Positions
  <1>3. \A k \in Positions(instr) : instr.operands[k].reg \in Reg
    BY <1>2 DEF Operand
  <1> QED
    BY <1>3 DEF Uses, Defs

LEMMA InsideAtEnd ==
    ASSUME ProgOK, TypeOK, NEW b \in Block
    PROVE  InsideLive(b, Len(prog.code[b])) = liveOut[b]
  <1>1. Len(prog.code[b]) \in Nat /\ liveOut[b] \subseteq Reg
    BY CodeOfBlock DEF TypeOK
  <1>2. \A j \in Kept(b) : ~(j > Len(prog.code[b]))
    BY <1>1 DEF Kept
  <1> QED
    BY <1>1, <1>2 DEF InsideLive, ReadsFirst, WritesBeyond

\* One kept instruction further back.
LEMMA InsideKept ==
    ASSUME ProgOK, NEW b \in Block, NEW i \in 1 .. Len(prog.code[b]),
           <<b, i>> \notin removed
    PROVE  InsideLive(b, i - 1) = Before(prog.code[b][i], InsideLive(b, i))
  <1> DEFINE instr == prog.code[b][i]
  <1>1. Len(prog.code[b]) \in Nat /\ i \in Kept(b) /\ Kept(b) \subseteq Nat
    BY CodeOfBlock DEF Kept
  <1>2. Uses(instr) \subseteq Reg
    BY CodeOfBlock, RegistersOfInstruction
  <1>3. ASSUME NEW r \in Reg
        PROVE  ReadsFirst(b, i - 1, r)
                 <=> r \in Uses(instr) \/ (r \notin Defs(instr) /\ ReadsFirst(b, i, r))
    <2>1. CASE r \in Uses(instr)
      <3>1. i > i - 1 /\ \A k \in Kept(b) : ~(i - 1 < k /\ k < i)
        BY <1>1
      <3> QED
        BY <1>1, <2>1, <3>1 DEF ReadsFirst
    <2>2. CASE r \notin Uses(instr)
      <3>1. ASSUME ReadsFirst(b, i - 1, r)
            PROVE  r \notin Defs(instr) /\ ReadsFirst(b, i, r)
        <4>1. PICK j \in Kept(b) :
                 /\ j > i - 1 /\ r \in Uses(prog.code[b][j])
                 /\ \A k \in Kept(b) : i - 1 < k /\ k < j => r \notin Defs(prog.code[b][k])
          BY <3>1 DEF ReadsFirst
        <4>2. j > i
          BY <1>1, <2>2, <4>1
        <4>3. r \notin Defs(instr)
          BY <1>1, <4>1, <4>2
        <4>4. \A k \in Kept(b) : i < k /\ k < j => r \notin Defs(prog.code[b][k])
          BY <1>1, <4>1
        <4> QED
          BY <4>1, <4>2, <4>3, <4>4 DEF ReadsFirst
      <3>2. ASSUME r \notin Defs(instr), ReadsFirst(b, i, r)
            PROVE  ReadsFirst(b, i - 1, r)
        <4>1. PICK j \in Kept(b) :
                 /\ j > i /\ r \in Uses(prog.code[b][j])
                 /\ \A k \in Kept(b) : i < k /\ k < j => r \notin Defs(prog.code[b][k])
          BY <3>2 DEF ReadsFirst
        <4>2. \A k \in Kept(b) : i - 1 < k /\ k < j => r \notin Defs(prog.code[b][k])
          <5> SUFFICES ASSUME NEW k \in Kept(b), i - 1 < k, k < j
                       PROVE  r \notin Defs(prog.code[b][k])
            OBVIOUS
          <5>1. k = i \/ i < k
            BY <1>1
          <5> QED
            BY <3>2, <4>1, <5>1
        <4>3. j > i - 1
          BY <1>1, <4>1
        <4> QED
          BY <4>1, <4>2, <4>3 DEF ReadsFirst
      <3> QED
        BY <2>2, <3>1, <3>2
    <2> QED
      BY <2>1, <2>2
  <1>4. ASSUME NEW r \in Reg
        PROVE  WritesBeyond(b, i - 1, r) <=> r \in Defs(instr) \/ WritesBeyond(b, i, r)
    <2>1. \A j \in Kept(b) : j > i - 1 <=> j = i \/ j > i
      BY <1>1
    <2> QED
      BY <1>1, <2>1 DEF WritesBeyond
  <1> QED
    BY <1>2, <1>3, <1>4 DEF InsideLive, Before

\* A deleted one makes no difference.
LEMMA InsideRemoved ==
    ASSUME ProgOK, NEW b \in Block, NEW i \in 1 .. Len(prog.code[b]),
           <<b, i>> \in removed
    PROVE  InsideLive(b, i - 1) = InsideLive(b, i)
  <1>1. \A j \in Kept(b) : /\ j > i - 1 <=> j > i
                           /\ i - 1 < j <=> i < j
    BY CodeOfBlock DEF Kept
  <1> QED
    BY <1>1 DEF InsideLive, ReadsFirst, WritesBeyond
-----------------------------------------------------------------------------
\* The walks run over the solver's result: they are steps that leave the
\* liveness records alone.
LEMMA WalksKeepLiveness == BuildSpec => Spec
  <1>1. BuildInit => Init
    BY DEF BuildInit
  <1>2. [BuildNext]_<<vars, wvars>> => [LivenessNext]_vars
    BY DEF BuildNext, WalkNext, MarkInstruction, AddInstructionEdges, NextBlock,
           EndWalk
  <1> QED
    BY <1>1, <1>2, PTL DEF BuildSpec, Spec

\* What both walks keep about their cursor and about what they delete.
CursorOK ==
    /\ walkPc \in {"mark", "edges", "done"}
    /\ at \in (0 .. NBlocks) \X Nat
    /\ at[1] = 0 => at[2] = 0
    /\ at[1] # 0 => at[2] <= Len(prog.code[at[1]])

\* The points that a walk has behind it when its cursor is at `at'.
Passed(pt) == pt[1] < at[1] \/ (pt[1] = at[1] /\ pt[2] > at[2])

\* Until the first block is entered nothing has been deleted or flagged.
NotBegun == livePc # "done" \/ (walkPc = "mark" /\ at[1] = 0)

DeletedOK ==
    /\ removed \subseteq Points(prog)
    /\ NotBegun => walkPc = "mark" /\ at = <<0, 0>> /\ removed = {} /\ lastUse = {}
    /\ walkPc = "mark" => \A pt \in removed : Passed(pt)

\* The bitset of the walk is what is live in the code that is left.
LiveIsInside == at[1] # 0 => live = InsideLive(at[1], at[2])

\* The solver's sets stay above what is live in the code that is left.
EntryCovers ==
    ~NotBegun => \A b \in Ordered : Seeds(b) \cup InsideLive(b, 0) \subseteq liveIn[b]

DeletedAreDead ==
    \A pt \in removed : Defs(At(prog, pt)) \cap InsideLive(pt[1], pt[2]) = {}

FlagsAreLast ==
    \A f \in lastUse :
        LET instr == At(prog, <<f[1], f[2]>>)
        IN  /\ <<f[1], f[2]>> \in Points(prog)
            /\ f[3] \in Positions(instr)
            /\ instr.operands[f[3]].reg \notin InsideLive(f[1], f[2]) \ Defs(instr)

\* The edges that the instructions behind the cursor call for are drawn.
DrawnEdges ==
    \A pt \in Points(prog) \ removed :
        walkPc = "done" \/ (walkPc = "edges" /\ Passed(pt)) =>
            /\ EdgeBits(DefinitionEdges(At(prog, pt), InsideLive(pt[1], pt[2])))
                 \subseteq matrix
            /\ ConstraintBits(At(prog, pt)) \subseteq matrix

WalkInv == /\ CursorOK /\ DeletedOK /\ LiveIsInside /\ EntryCovers
           /\ DeletedAreDead /\ FlagsAreLast /\ DrawnEdges
-----------------------------------------------------------------------------
\* Where the cursor stands while an instruction is visited.
LEMMA CursorAtInstruction ==
    ASSUME IInv, WalkInv, at[2] > 0
    PROVE  /\ at[1] \in Block /\ at[2] \in 1 .. Len(prog.code[at[1]])
           /\ at = <<at[1], at[2]>> /\ at \in Points(prog)
           /\ At(prog, at) = prog.code[at[1]][at[2]]
           /\ At(prog, at) \in Instruction
           /\ ~NotBegun
  <1>1. at = <<at[1], at[2]>> /\ at[1] \in 0 .. NBlocks /\ at[2] \in Nat
    BY DEF WalkInv, CursorOK
  <1>2. at[1] # 0 /\ at[2] <= Len(prog.code[at[1]])
    BY DEF WalkInv, CursorOK
  <1>3. at[1] \in Block
    BY <1>1, <1>2, BlockAssumption DEF Block
  <1>4. at[2] \in 1 .. Len(prog.code[at[1]])
    BY <1>1, <1>2, <1>3, CodeOfBlock DEF IInv
  <1>5. ~NotBegun
    BY <1>1, <1>2 DEF WalkInv, DeletedOK
  <1> QED
    BY <1>1, <1>3, <1>4, <1>5, CodeOfBlock DEF IInv

LEMMA PointShape ==
    ASSUME ProgOK, NEW pt \in Points(prog)
    PROVE  /\ pt[1] \in Block /\ pt[2] \in 1 .. Len(prog.code[pt[1]])
           /\ pt = <<pt[1], pt[2]>> /\ pt[2] \in Nat
           /\ At(prog, pt) \in Instruction
  <1>1. PICK b \in Block : \E i \in 1 .. Len(prog.code[b]) : pt = <<b, i>>
    BY DEF Points
  <1> QED
    BY <1>1, CodeOfBlock

LEMMA InsideUnchanged ==
    ASSUME UNCHANGED <<prog, liveOut, removed>>
    PROVE  \A b, i : InsideLive(b, i)' = InsideLive(b, i)
  BY DEF InsideLive, ReadsFirst, WritesBeyond, Kept

\* Behind the cursor lies one instruction more.
LEMMA PassedStep ==
    ASSUME IInv, WalkInv, at[2] > 0, at' = <<at[1], at[2] - 1>>,
           NEW pt \in Points(prog)
    PROVE  Passed(pt)' <=> Passed(pt) \/ pt = at
  <1>1. /\ pt[1] \in Nat /\ pt[2] \in Nat /\ pt = <<pt[1], pt[2]>>
        /\ at[1] \in Nat /\ at[2] \in Nat /\ at = <<at[1], at[2]>>
    BY PointShape, CursorAtInstruction, CodeOfBlock DEF IInv, Block
  <1>2. at'[1] = at[1] /\ at'[2] = at[2] - 1
    OBVIOUS
  <1>3. pt = at <=> pt[1] = at[1] /\ pt[2] = at[2]
    BY <1>1
  <1>4. at[2] - 1 < pt[2] <=> at[2] < pt[2] \/ at[2] = pt[2]
    BY <1>1
  <1> QED
    BY <1>2, <1>3, <1>4 DEF Passed

\* Deleting a dead instruction makes no register live anywhere.
LEMMA DeletingShrinks ==
    ASSUME IInv, WalkInv, Visiting("mark"), removed' = removed \cup {at},
           UNCHANGED <<prog, liveOut>>, Defs(At(prog, at)) \cap live = {}
    PROVE  \A b \in Block : \A i \in Nat : InsideLive(b, i)' \subseteq InsideLive(b, i)
  <1> SUFFICES ASSUME NEW b \in Block, NEW i \in Nat, NEW r \in InsideLive(b, i)'
               PROVE  r \in InsideLive(b, i)
    OBVIOUS
  <1>0. /\ at[2] > 0 /\ at[1] # 0
        /\ at[1] \in Block /\ at = <<at[1], at[2]>>
        /\ at[2] \in 1 .. Len(prog.code[at[1]])
        /\ At(prog, at) = prog.code[at[1]][at[2]]
    BY CursorAtInstruction DEF Visiting, WalkInv, CursorOK
  <1>p. PICK c, n : c = at[1] /\ n = at[2]
    OBVIOUS
  <1>1. /\ at[1] = c /\ at[2] = n /\ at[1] # 0
        /\ c \in Block /\ n \in 1 .. Len(prog.code[c]) /\ at = <<c, n>>
        /\ At(prog, at) = prog.code[c][n]
    BY <1>0, <1>p
  <1> DEFINE K == Kept(c)
             uses(j) == Uses(prog.code[c][j])
             defs(j) == Defs(prog.code[c][j])
  <1>2. r \in Reg /\ defs(n) \cap InsideLive(c, n) = {}
    BY <1>1 DEF WalkInv, LiveIsInside, InsideLive
  <1>3. \A a : Kept(a)' = IF a = c THEN K \ {n} ELSE Kept(a)
    BY <1>1 DEF Kept
  <1>4. CASE b # c
    BY <1>3, <1>4 DEF InsideLive, ReadsFirst, WritesBeyond
  <1>5. CASE b = c
    <2>1. K \subseteq Nat /\ n \in Nat
      BY <1>1, CodeOfBlock DEF Kept, IInv
    <2>2. /\ InsideLive(c, n) = { x \in Reg : ReadsFirst(c, n, x) \/ (~WritesBeyond(c, n, x) /\ x \in liveOut[c]) }
          /\ InsideLive(c, i) = { x \in Reg : ReadsFirst(c, i, x) \/ (~WritesBeyond(c, i, x) /\ x \in liveOut[c]) }
      BY DEF InsideLive
    <2>3. ReadsFirst(c, i, r)' \/ (~WritesBeyond(c, i, r)' /\ r \in liveOut[c])
      BY <1>5 DEF InsideLive
    <2>4. /\ ReadsFirst(c, i, r)' <=> \E j \in K \ {n} :
               /\ j > i /\ r \in uses(j)
               /\ \A k \in K \ {n} : i < k /\ k < j => r \notin defs(k)
          /\ WritesBeyond(c, i, r)' <=> \E j \in K \ {n} : j > i /\ r \in defs(j)
      BY <1>3 DEF ReadsFirst, WritesBeyond
    <2>5. \A m : /\ ReadsFirst(c, m, r) <=> \E j \in K :
                       /\ j > m /\ r \in uses(j)
                       /\ \A k \in K : m < k /\ k < j => r \notin defs(k)
                 /\ WritesBeyond(c, m, r) <=> \E j \in K : j > m /\ r \in defs(j)
      BY DEF ReadsFirst, WritesBeyond
    <2> HIDE DEF K, uses, defs
    <2>6. CASE ReadsFirst(c, i, r)'
      <3>1. PICK j \in K \ {n} :
               /\ j > i /\ r \in uses(j)
               /\ \A k \in K \ {n} : i < k /\ k < j => r \notin defs(k)
        BY <2>4, <2>6
      <3>2. CASE r \in defs(n) /\ i < n /\ n < j
        <4>1. \A k \in K : n < k /\ k < j => r \notin defs(k)
          BY <2>1, <3>1, <3>2
        <4>2. ReadsFirst(c, n, r)
          BY <2>1, <2>5, <3>1, <3>2, <4>1
        <4> QED
          BY <1>2, <2>2, <3>2, <4>2
      <3>3. CASE ~(r \in defs(n) /\ i < n /\ n < j)
        <4>1. \A k \in K : i < k /\ k < j => r \notin defs(k)
          BY <3>1, <3>3
        <4>2. ReadsFirst(c, i, r)
          BY <2>5, <3>1, <4>1
        <4> QED
          BY <1>2, <1>5, <2>2, <4>2
      <3> QED
        BY <3>2, <3>3
    <2>7. CASE ~WritesBeyond(c, i, r)' /\ r \in liveOut[c]
      <3>1. \A j \in K \ {n} : j > i => r \notin defs(j)
        BY <2>4, <2>7
      <3>2. CASE r \in defs(n) /\ n > i
        <4>1. \A j \in K : j > n => r \notin defs(j)
          BY <2>1, <3>1, <3>2
        <4>2. ~WritesBeyond(c, n, r)
          BY <2>5, <4>1
        <4> QED
          BY <1>2, <2>2, <2>7, <3>2, <4>2
      <3>3. CASE ~(r \in defs(n) /\ n > i)
        <4>1. ~WritesBeyond(c, i, r)
          BY <2>5, <3>1, <3>3
        <4> QED
          BY <1>2, <1>5, <2>2, <2>7, <4>1
      <3> QED
        BY <3>2, <3>3
    <2> QED
      BY <2>3, <2>6, <2>7
  <1> QED
    BY <1>4, <1>5
-----------------------------------------------------------------------------
LEMMA InitWalkInv == BuildInit => WalkInv
  <1> SUFFICES ASSUME BuildInit PROVE WalkInv
    OBVIOUS
  <1> USE DEF BuildInit, WalkStart
  <1>1. CursorOK
    BY BlockAssumption DEF CursorOK
  <1>2. DeletedOK /\ NotBegun
    BY DEF DeletedOK, NotBegun
  <1> QED
    BY <1>1, <1>2 DEF WalkInv, LiveIsInside, EntryCovers, DeletedAreDead,
                      FlagsAreLast, DrawnEdges

\* While the solver runs the walks have not begun.
LEMMA SolverStep ==
    ASSUME IInv, WalkInv, LivenessNext, UNCHANGED wvars
    PROVE  WalkInv'
  <1>1. /\ livePc # "done" /\ prog' = prog
    BY DEF LivenessNext, BuildLocalLiveness, SeedReturnRegisters, VisitBlock, EndRound
  <1>2. /\ walkPc = "mark" /\ at = <<0, 0>> /\ removed = {} /\ lastUse = {}
        /\ UNCHANGED <<walkPc, at, removed, lastUse>>
    BY <1>1 DEF WalkInv, DeletedOK, NotBegun, wvars
  <1>3. CursorOK'
    BY <1>1, <1>2 DEF WalkInv, CursorOK
  <1>4. NotBegun' /\ DeletedOK'
    BY <1>1, <1>2 DEF DeletedOK, NotBegun
  <1> QED
    BY <1>2, <1>3, <1>4 DEF WalkInv, LiveIsInside, EntryCovers, DeletedAreDead,
                            FlagsAreLast, DrawnEdges

\* The cursor after one more instruction.
LEMMA CursorStep ==
    ASSUME IInv, WalkInv, at[2] > 0, at' = <<at[1], at[2] - 1>>,
           UNCHANGED <<prog, walkPc, livePc>>
    PROVE  CursorOK' /\ ~NotBegun'
  <1>1. at[2] \in Nat /\ at[1] \in 0 .. NBlocks /\ at[1] # 0 /\ ~NotBegun
    BY CursorAtInstruction, RegAssumption, BlockAssumption
       DEF WalkInv, CursorOK
  <1>2. at[2] - 1 \in Nat /\ at'[1] = at[1] /\ at'[2] = at[2] - 1
    BY <1>1
  <1>3. at[2] <= Len(prog.code[at[1]]) /\ Len(prog.code[at[1]]) \in Nat
    BY <1>1, CursorAtInstruction, CodeOfBlock DEF WalkInv, CursorOK, IInv
  <1> QED
    BY <1>1, <1>2, <1>3 DEF WalkInv, CursorOK, NotBegun

LEMMA DeleteStep ==
    ASSUME IInv, WalkInv, MarkInstruction, IsDead(at[1], At(prog, at), live)
    PROVE  WalkInv'
  <1>1. /\ at[2] > 0 /\ walkPc = "mark" /\ livePc = "done"
        /\ removed' = removed \cup {at} /\ at' = <<at[1], at[2] - 1>>
        /\ UNCHANGED <<live, lastUse, vars, walkPc, matrix>>
    BY DEF MarkInstruction, Visiting
  <1>2. UNCHANGED <<prog, liveIn, liveOut, livePc>>
    BY <1>1 DEF vars, lvars
  <1>3. CursorOK' /\ ~NotBegun'
    BY <1>1, <1>2, CursorStep
  <1>4. /\ at[1] \in Block /\ at[2] \in 1 .. Len(prog.code[at[1]])
        /\ at = <<at[1], at[2]>> /\ at \in Points(prog) /\ ~NotBegun
    BY <1>1, CursorAtInstruction
  <1>5. /\ live = InsideLive(at[1], at[2])
        /\ Defs(At(prog, at)) \cap live = {}
    BY <1>4, BlockAssumption DEF WalkInv, LiveIsInside, IsDead, Block
  <1>6. \A b \in Block : \A i \in Nat : InsideLive(b, i)' \subseteq InsideLive(b, i)
    BY <1>1, <1>2, <1>5, DeletingShrinks DEF Visiting
  <1>7. \A pt \in Points(prog) : Passed(pt)' <=> Passed(pt) \/ pt = at
    BY <1>1, PassedStep
  <1>8. DeletedOK'
    BY <1>1, <1>2, <1>3, <1>4, <1>7 DEF WalkInv, DeletedOK
  <1>9. LiveIsInside'
    <2>1. PICK c, n : c = at[1] /\ n = at[2]
      OBVIOUS
    <2>2. n \in 1 .. Len(prog.code[c]) /\ at = <<c, n>> /\ c \in Block
      BY <1>4, <2>1
    <2>3. Kept(c)' = Kept(c) \ {n} /\ Kept(c) \subseteq Nat /\ n \in Nat
      BY <1>1, <1>2, <2>2, CodeOfBlock DEF Kept, IInv
    <2>4. \A j \in Kept(c)' : /\ j > n - 1 <=> j > n
                              /\ n - 1 < j <=> n < j
      BY <2>3
    <2>5. \A j \in Kept(c) : j > n => j \in Kept(c)'
      BY <2>3
    <2>6. ASSUME NEW r
          PROVE  /\ ReadsFirst(c, n - 1, r)' <=> ReadsFirst(c, n, r)
                 /\ WritesBeyond(c, n - 1, r)' <=> WritesBeyond(c, n, r)
      BY <1>2, <2>3, <2>4, <2>5 DEF ReadsFirst, WritesBeyond
    <2>7. InsideLive(c, n - 1)' = InsideLive(c, n)
      BY <1>2, <2>6 DEF InsideLive
    <2>8. at'[1] = c /\ at'[2] = n - 1 /\ live' = live
      BY <1>1, <2>1
    <2> QED
      BY <1>5, <2>1, <2>7, <2>8 DEF LiveIsInside
  <1>10. EntryCovers'
    <2>1. Ordered' = Ordered /\ \A b : Seeds(b)' = Seeds(b)
      BY <1>2 DEF Ordered, Seeds
    <2>2. Ordered \subseteq Block
      BY ProgramFields DEF Ordered, IInv
    <2>3. \A b \in Ordered : InsideLive(b, 0)' \subseteq InsideLive(b, 0)
      BY <1>6, <2>2
    <2> QED
      BY <1>2, <1>4, <2>1, <2>3 DEF WalkInv, EntryCovers
  <1>11. DeletedAreDead'
    <2> SUFFICES ASSUME NEW pt \in removed \cup {at}
                 PROVE  Defs(At(prog, pt)) \cap InsideLive(pt[1], pt[2])' = {}
      BY <1>1, <1>2 DEF DeletedAreDead
    <2>1. pt \in Points(prog) /\ pt[1] \in Block /\ pt[2] \in Nat
      BY <1>4, PointShape DEF WalkInv, DeletedOK, IInv
    <2>2. Defs(At(prog, pt)) \cap InsideLive(pt[1], pt[2]) = {}
      BY <1>5 DEF WalkInv, DeletedAreDead
    <2> QED
      BY <1>6, <2>1, <2>2
  <1>12. FlagsAreLast'
    <2> SUFFICES ASSUME NEW f \in lastUse
                 PROVE  LET instr == At(prog, <<f[1], f[2]>>)
                        IN  /\ <<f[1], f[2]>> \in Points(prog)
                            /\ f[3] \in Positions(instr)
                            /\ instr.operands[f[3]].reg \notin InsideLive(f[1], f[2])' \ Defs(instr)
      BY <1>1, <1>2 DEF FlagsAreLast
    <2> DEFINE pt == <<f[1], f[2]>>
    <2>1. pt \in Points(prog) /\ f[1] \in Block /\ f[2] \in Nat
      BY PointShape DEF WalkInv, FlagsAreLast, IInv
    <2> QED
      BY <1>6, <2>1 DEF WalkInv, FlagsAreLast
  <1>13. DrawnEdges'
    BY <1>1 DEF DrawnEdges
  <1> QED
    BY <1>3, <1>8, <1>9, <1>10, <1>11, <1>12, <1>13 DEF WalkInv

\* Either walk passes an instruction that stays: the flags it sets and the
\* bitset it goes on with are right.
LEMMA PassingStep ==
    ASSUME IInv, WalkInv, Visiting(walkPc), at \notin removed,
           at' = <<at[1], at[2] - 1>>,
           live' = Before(At(prog, at), live),
           lastUse' = lastUse \cup Flagged(At(prog, at)),
           UNCHANGED <<vars, walkPc, removed>>
    PROVE  /\ CursorOK' /\ DeletedOK' /\ LiveIsInside' /\ EntryCovers'
           /\ DeletedAreDead' /\ FlagsAreLast'
  <1>1. UNCHANGED <<prog, liveIn, liveOut, livePc>> /\ at[2] > 0 /\ livePc = "done"
    BY DEF vars, lvars, Visiting
  <1>2. CursorOK' /\ ~NotBegun'
    BY <1>1, CursorStep
  <1>3. /\ at[1] \in Block /\ at[2] \in 1 .. Len(prog.code[at[1]])
        /\ at = <<at[1], at[2]>> /\ at \in Points(prog) /\ ~NotBegun
        /\ At(prog, at) = prog.code[at[1]][at[2]]
    BY <1>1, CursorAtInstruction
  <1>4. live = InsideLive(at[1], at[2])
    BY <1>3, BlockAssumption DEF WalkInv, LiveIsInside, Block
  <1>5. \A b, i : InsideLive(b, i)' = InsideLive(b, i)
    BY <1>1, InsideUnchanged
  <1>6. \A pt \in Points(prog) : Passed(pt)' <=> Passed(pt) \/ pt = at
    BY <1>1, PassedStep
  <1>7. DeletedOK'
    BY <1>1, <1>2, <1>6 DEF WalkInv, DeletedOK
  <1>8. LiveIsInside'
    <2>1. InsideLive(at[1], at[2] - 1) = live'
      BY <1>3, <1>4, InsideKept DEF IInv
    <2>2. at'[1] = at[1] /\ at'[2] = at[2] - 1
      OBVIOUS
    <2>3. InsideLive(at'[1], at'[2]) = live'
      BY <2>1, <2>2
    <2>4. PICK c, n : c = at'[1] /\ n = at'[2]
      OBVIOUS
    <2>5. InsideLive(c, n)' = live'
      BY <1>5, <2>3, <2>4
    <2> QED
      BY <2>4, <2>5 DEF LiveIsInside
  <1>9. EntryCovers'
    <2>1. Ordered' = Ordered /\ \A b : Seeds(b)' = Seeds(b)
      BY <1>1 DEF Ordered, Seeds
    <2> QED
      BY <1>1, <1>3, <1>5, <2>1 DEF WalkInv, EntryCovers
  <1>10. DeletedAreDead'
    BY <1>1, <1>5 DEF WalkInv, DeletedAreDead
  <1>11. FlagsAreLast'
    <2> SUFFICES ASSUME NEW f \in lastUse \cup Flagged(At(prog, at))
                 PROVE  LET instr == At(prog, <<f[1], f[2]>>)
                        IN  /\ <<f[1], f[2]>> \in Points(prog)
                            /\ f[3] \in Positions(instr)
                            /\ instr.operands[f[3]].reg \notin InsideLive(f[1], f[2]) \ Defs(instr)
      BY <1>1, <1>5 DEF FlagsAreLast
    <2>1. CASE f \in lastUse
      BY <2>1 DEF WalkInv, FlagsAreLast
    <2>2. CASE f \in Flagged(At(prog, at))
      <3>1. PICK k \in LastUses(At(prog, at), live) : f = <<at[1], at[2], k>>
        BY <2>2 DEF Flagged
      <3>2. f[1] = at[1] /\ f[2] = at[2] /\ f[3] = k /\ <<f[1], f[2]>> = at
        BY <1>3, <3>1
      <3>3. /\ k \in Positions(At(prog, at))
            /\ At(prog, at).operands[k].reg \notin live \ Defs(At(prog, at))
        BY <3>1 DEF LastUses
      <3> QED
        BY <1>3, <1>4, <3>2, <3>3
    <2> QED
      BY <2>1, <2>2
  <1> QED
    BY <1>2, <1>7, <1>8, <1>9, <1>10, <1>11

LEMMA KeepStep ==
    ASSUME IInv, WalkInv, MarkInstruction, ~IsDead(at[1], At(prog, at), live)
    PROVE  WalkInv'
  <1>1. /\ Visiting("mark") /\ walkPc = "mark" /\ at[2] > 0 /\ at' = <<at[1], at[2] - 1>>
        /\ live' = Before(At(prog, at), live)
        /\ lastUse' = lastUse \cup Flagged(At(prog, at))
        /\ UNCHANGED <<vars, walkPc, removed, matrix>>
    BY DEF MarkInstruction, Visiting
  <1>2. at[1] \in Nat /\ at[2] \in Nat
    BY DEF WalkInv, CursorOK
  <1>3. at \notin removed
    BY <1>1, <1>2 DEF WalkInv, DeletedOK, Passed
  <1>4. DrawnEdges'
    BY <1>1 DEF DrawnEdges
  <1> QED
    BY <1>1, <1>3, <1>4, PassingStep DEF WalkInv

LEMMA EdgesStep ==
    ASSUME IInv, WalkInv, AddInstructionEdges
    PROVE  WalkInv'
  <1>1. /\ Visiting("edges") /\ walkPc = "edges" /\ at[2] > 0 /\ livePc = "done"
        /\ at' = <<at[1], at[2] - 1>>
        /\ UNCHANGED <<vars, walkPc, removed>>
    BY DEF AddInstructionEdges, Visiting
  <1>2. UNCHANGED <<prog, liveIn, liveOut, livePc>>
    BY <1>1 DEF vars, lvars
  <1>3. /\ at[1] \in Block /\ at[2] \in 1 .. Len(prog.code[at[1]])
        /\ at = <<at[1], at[2]>> /\ at \in Points(prog) /\ ~NotBegun
    BY <1>1, CursorAtInstruction
  <1>4. live = InsideLive(at[1], at[2])
    BY <1>3, BlockAssumption DEF WalkInv, LiveIsInside, Block
  <1>5. \A b, i : InsideLive(b, i)' = InsideLive(b, i)
    BY <1>1, <1>2, InsideUnchanged
  <1>6. \A pt \in Points(prog) : Passed(pt)' <=> Passed(pt) \/ pt = at
    BY <1>1, PassedStep
  <1>7. CASE at \in removed
    <2>1. UNCHANGED <<live, lastUse, matrix>>
      BY <1>7 DEF AddInstructionEdges
    <2>2. CursorOK' /\ ~NotBegun'
      BY <1>1, <1>2, CursorStep
    <2>3. DeletedOK'
      BY <1>1, <1>2, <1>6, <2>1, <2>2 DEF WalkInv, DeletedOK
    <2>4. LiveIsInside'
      <3>1. InsideLive(at[1], at[2] - 1) = live
        BY <1>3, <1>4, <1>7, InsideRemoved DEF IInv
      <3>2. PICK c, n : c = at'[1] /\ n = at'[2]
        OBVIOUS
      <3>3. c = at[1] /\ n = at[2] - 1
        BY <1>1, <3>2
      <3>4. InsideLive(c, n)' = live'
        BY <1>5, <2>1, <3>1, <3>3
      <3> QED
        BY <3>2, <3>4 DEF LiveIsInside
    <2>5. EntryCovers'
      <3>1. Ordered' = Ordered /\ \A b : Seeds(b)' = Seeds(b)
        BY <1>2 DEF Ordered, Seeds
      <3> QED
        BY <1>2, <1>3, <1>5, <3>1 DEF WalkInv, EntryCovers
    <2>6. DeletedAreDead' /\ FlagsAreLast'
      BY <1>1, <1>2, <1>5, <2>1 DEF WalkInv, DeletedAreDead, FlagsAreLast
    <2>7. DrawnEdges'
      <3> SUFFICES ASSUME NEW pt \in Points(prog) \ removed, Passed(pt)'
                   PROVE  /\ EdgeBits(DefinitionEdges(At(prog, pt), InsideLive(pt[1], pt[2])))
                                \subseteq matrix
                          /\ ConstraintBits(At(prog, pt)) \subseteq matrix
        BY <1>1, <1>2, <1>5, <2>1 DEF DrawnEdges
      <3>1. Passed(pt)
        BY <1>6, <1>7
      <3> QED
        BY <1>1, <3>1 DEF WalkInv, DrawnEdges
    <2> QED
      BY <2>2, <2>3, <2>4, <2>5, <2>6, <2>7 DEF WalkInv
  <1>8. CASE at \notin removed
    <2> DEFINE Bits(pt, alive) == EdgeBits(DefinitionEdges(At(prog, pt), alive))
                                    \cup ConstraintBits(At(prog, pt))
    <2>1. /\ live' = Before(At(prog, at), live)
          /\ lastUse' = lastUse \cup Flagged(At(prog, at))
          /\ matrix' = matrix \cup Bits(at, live)
      BY <1>8 DEF AddInstructionEdges
    <2>2. /\ CursorOK' /\ DeletedOK' /\ LiveIsInside' /\ EntryCovers'
          /\ DeletedAreDead' /\ FlagsAreLast'
      BY <1>1, <1>8, <2>1, PassingStep
    <2>3. DrawnEdges'
      <3>1. SUFFICES ASSUME NEW pt \in Points(prog) \ removed, Passed(pt)'
                     PROVE  Bits(pt, InsideLive(pt[1], pt[2])) \subseteq matrix'
        <4>1. \A pt \in Points(prog) \ removed : Passed(pt)' =>
                  Bits(pt, InsideLive(pt[1], pt[2])) \subseteq matrix'
          BY <3>1
        <4> QED
          BY <1>1, <1>2, <1>5, <4>1 DEF DrawnEdges
      <3>2. CASE pt = at
        BY <1>4, <2>1, <3>2
      <3>3. CASE pt # at
        <4>1. Passed(pt)
          BY <1>6, <3>1, <3>3
        <4> QED
          BY <1>1, <2>1, <4>1 DEF WalkInv, DrawnEdges
      <3> QED
        BY <3>2, <3>3
    <2> QED
      BY <2>2, <2>3 DEF WalkInv
  <1> QED
    BY <1>7, <1>8

\* Where the solver ends, its live-in sets cover the undeleted code: what a
\* block reads first it exposes, what it does not write it lets through.
LEMMA SolutionCovers ==
    ASSUME IInv, LocalSets, livePc = "done", removed = {}, NEW b \in Ordered
    PROVE  Seeds(b) \cup InsideLive(b, 0) \subseteq liveIn[b]
  <1>1. b \in Block
    BY ProgramFields DEF Ordered, IInv
  <1>2. liveIn[b] = (liveOut[b] \ def[b]) \cup use[b]
    BY DEF IInv, SolvedWhenDone, Transfer
  <1>3. Kept(b) = 1 .. Len(prog.code[b]) /\ Len(prog.code[b]) \in Nat
    BY <1>1, CodeOfBlock DEF Kept, IInv
  <1>4. Seeds(b) \subseteq use[b]
    BY <1>1 DEF LocalSets
  <1>5. ASSUME NEW r \in Reg, ReadsFirst(b, 0, r) PROVE r \in use[b]
    <2>1. PICK j \in Kept(b) :
             /\ r \in Uses(prog.code[b][j])
             /\ \A k \in Kept(b) : 0 < k /\ k < j => r \notin Defs(prog.code[b][k])
      BY <1>5 DEF ReadsFirst
    <2>2. \A k \in 1 .. j - 1 : k \in Kept(b) /\ 0 < k /\ k < j
      BY <1>3, <2>1
    <2>3. Exposes(b, r)
      BY <1>3, <2>1, <2>2 DEF Exposes
    <2> QED
      BY <1>1, <2>3, SetsAreLocal
  <1>6. ASSUME NEW r \in Reg, ~WritesBeyond(b, 0, r) PROVE r \notin def[b]
    <2>1. ~Writes(b, r)
      BY <1>3, <1>6 DEF WritesBeyond, Writes
    <2> QED
      BY <1>1, <2>1, SetsAreLocal
  <1> QED
    BY <1>2, <1>4, <1>5, <1>6 DEF InsideLive

LEMMA NextBlockStep ==
    ASSUME IInv, LocalSets, WalkInv, NextBlock
    PROVE  WalkInv'
  <1>1. /\ livePc = "done" /\ walkPc # "done" /\ at[2] = 0 /\ at[1] < NBlocks
        /\ at' = LastOf(at[1] + 1) /\ live' = liveOut[at[1] + 1]
        /\ UNCHANGED <<vars, walkPc, removed, lastUse, matrix>>
    BY DEF NextBlock
  <1>2. UNCHANGED <<prog, liveIn, liveOut, livePc>>
    BY <1>1 DEF vars, lvars
  <1>3. at[1] \in Nat /\ NBlocks \in Nat /\ at = <<at[1], at[2]>>
    BY BlockAssumption DEF WalkInv, CursorOK
  <1>4. PICK c : c = at[1] + 1
    OBVIOUS
  <1>5. c \in Block /\ c \in Nat /\ c # 0 /\ c \in 0 .. NBlocks
    BY <1>1, <1>3, <1>4 DEF Block
  <1>6. PICK n : n = Len(prog.code[c])
    OBVIOUS
  <1>7. n \in Nat /\ at' = <<c, n>> /\ at'[1] = c /\ at'[2] = n /\ live' = liveOut[c]
    BY <1>1, <1>4, <1>5, <1>6, CodeOfBlock DEF LastOf, IInv
  <1>8. CursorOK' /\ ~NotBegun'
    BY <1>1, <1>2, <1>5, <1>6, <1>7 DEF WalkInv, CursorOK, NotBegun
  <1>9. ASSUME NEW pt \in Points(prog) PROVE Passed(pt)' <=> Passed(pt)
    <2>1. /\ pt[1] \in Nat /\ pt[2] \in 1 .. Len(prog.code[pt[1]])
          /\ Len(prog.code[pt[1]]) \in Nat
      BY PointShape, CodeOfBlock DEF IInv, Block
    <2>2. ~(pt[1] = c /\ pt[2] > n)
      BY <1>6, <2>1
    <2>3. Passed(pt)' <=> pt[1] < c
      BY <1>7, <2>2 DEF Passed
    <2>4. pt[1] < c <=> pt[1] < at[1] \/ pt[1] = at[1]
      BY <1>3, <1>4, <2>1
    <2>5. pt[2] > at[2]
      BY <1>1, <2>1
    <2> QED
      BY <2>3, <2>4, <2>5 DEF Passed
  <1>10. \A b, i : InsideLive(b, i)' = InsideLive(b, i)
    BY <1>1, <1>2, InsideUnchanged
  <1>11. DeletedOK'
    BY <1>1, <1>2, <1>8, <1>9 DEF WalkInv, DeletedOK
  <1>12. LiveIsInside'
    <2>1. InsideLive(c, n) = liveOut[c]
      BY <1>5, <1>6, InsideAtEnd DEF IInv
    <2> QED
      BY <1>7, <1>10, <2>1 DEF LiveIsInside
  <1>13. EntryCovers'
    <2>1. Ordered' = Ordered /\ \A b : Seeds(b)' = Seeds(b)
      BY <1>2 DEF Ordered, Seeds
    <2>2. \A b \in Ordered : Seeds(b) \cup InsideLive(b, 0) \subseteq liveIn[b]
      <3>1. CASE NotBegun
        <4>1. removed = {}
          BY <3>1 DEF WalkInv, DeletedOK
        <4> QED
          BY <1>1, <4>1, SolutionCovers
      <3>2. CASE ~NotBegun
        BY <3>2 DEF WalkInv, EntryCovers
      <3> QED
        BY <3>1, <3>2
    <2> QED
      BY <1>2, <1>10, <2>1, <2>2 DEF EntryCovers
  <1>14. DeletedAreDead' /\ FlagsAreLast'
    BY <1>1, <1>2, <1>10 DEF WalkInv, DeletedAreDead, FlagsAreLast
  <1>15. DrawnEdges'
    <2> SUFFICES ASSUME NEW pt \in Points(prog) \ removed,
                        walkPc = "edges" /\ Passed(pt)'
                 PROVE  /\ EdgeBits(DefinitionEdges(At(prog, pt), InsideLive(pt[1], pt[2])))
                              \subseteq matrix
                        /\ ConstraintBits(At(prog, pt)) \subseteq matrix
      BY <1>1, <1>2, <1>10 DEF DrawnEdges
    <2> QED
      BY <1>9 DEF WalkInv, DrawnEdges
  <1> QED
    BY <1>8, <1>11, <1>12, <1>13, <1>14, <1>15 DEF WalkInv

LEMMA EndWalkStep ==
    ASSUME IInv, WalkInv, EndWalk
    PROVE  WalkInv'
  <1>1. /\ livePc = "done" /\ walkPc \in {"mark", "edges"} /\ at = <<NBlocks, 0>>
        /\ at' = <<0, 0>>
        /\ walkPc' = IF walkPc = "mark" THEN "edges" ELSE "done"
        /\ walkPc = "edges" => matrix' = matrix
        /\ UNCHANGED <<vars, live, removed, lastUse>>
    BY DEF EndWalk, WalkInv, CursorOK
  <1>2. UNCHANGED <<prog, liveIn, liveOut, livePc>>
    BY <1>1 DEF vars, lvars
  <1>3. NBlocks \in Nat \ {0} /\ at[1] # 0 /\ ~NotBegun /\ ~NotBegun'
    BY <1>1, <1>2, BlockAssumption DEF NotBegun
  <1>4. CursorOK'
    BY <1>1, <1>3 DEF CursorOK
  <1>5. ASSUME NEW pt \in Points(prog) PROVE Passed(pt) /\ ~Passed(pt)'
    <2>1. pt[1] \in 1 .. NBlocks /\ pt[2] \in Nat /\ pt[2] > 0
      BY PointShape, CodeOfBlock DEF IInv, Block
    <2> QED
      BY <1>1, <1>3, <2>1 DEF Passed
  <1>6. \A b, i : InsideLive(b, i)' = InsideLive(b, i)
    BY <1>1, <1>2, InsideUnchanged
  <1>7. DeletedOK' /\ LiveIsInside'
    BY <1>1, <1>2, <1>3 DEF WalkInv, DeletedOK, LiveIsInside
  <1>8. EntryCovers'
    <2>1. Ordered' = Ordered /\ \A b : Seeds(b)' = Seeds(b)
      BY <1>2 DEF Ordered, Seeds
    <2> QED
      BY <1>2, <1>3, <1>6, <2>1 DEF WalkInv, EntryCovers
  <1>9. DeletedAreDead' /\ FlagsAreLast'
    BY <1>1, <1>2, <1>6 DEF WalkInv, DeletedAreDead, FlagsAreLast
  <1>10. DrawnEdges'
    <2> SUFFICES ASSUME NEW pt \in Points(prog) \ removed,
                        walkPc' = "done" \/ (walkPc' = "edges" /\ Passed(pt)')
                 PROVE  /\ EdgeBits(DefinitionEdges(At(prog, pt), InsideLive(pt[1], pt[2])))
                              \subseteq matrix'
                        /\ ConstraintBits(At(prog, pt)) \subseteq matrix'
      BY <1>1, <1>2, <1>6 DEF DrawnEdges
    <2>1. walkPc = "edges" /\ matrix' = matrix /\ Passed(pt)
      BY <1>1, <1>5
    <2> QED
      BY <2>1 DEF WalkInv, DrawnEdges
  <1> QED
    BY <1>4, <1>7, <1>8, <1>9, <1>10 DEF WalkInv

LEMMA NextWalkInv ==
    ASSUME IInv, LocalSets, WalkInv, [BuildNext]_<<vars, wvars>>
    PROVE  WalkInv'
  <1>1. CASE LivenessNext /\ UNCHANGED wvars
    BY <1>1, SolverStep
  <1>2. CASE MarkInstruction
    BY <1>2, DeleteStep, KeepStep
  <1>3. CASE AddInstructionEdges
    BY <1>3, EdgesStep
  <1>4. CASE NextBlock
    BY <1>4, NextBlockStep
  <1>5. CASE EndWalk
    BY <1>5, EndWalkStep
  <1>6. CASE UNCHANGED <<vars, wvars>>
    <2>1. UNCHANGED <<prog, liveIn, liveOut, livePc>>
             /\ UNCHANGED <<walkPc, at, live, removed, lastUse, matrix>>
      BY <1>6 DEF vars, lvars, wvars
    <2>2. \A b, i : InsideLive(b, i)' = InsideLive(b, i)
      BY <2>1, InsideUnchanged
    <2>3. /\ Ordered' = Ordered /\ \A b : Seeds(b)' = Seeds(b)
          /\ NotBegun' = NotBegun /\ \A pt : Passed(pt)' = Passed(pt)
      BY <2>1 DEF Ordered, Seeds, NotBegun, Passed
    <2>4. CursorOK' /\ DeletedOK'
      BY <2>1, <2>3 DEF WalkInv, CursorOK, DeletedOK
    <2>5. PICK c, n : c = at[1] /\ n = at[2]
      OBVIOUS
    <2>6. LiveIsInside'
      BY <2>1, <2>2, <2>5 DEF WalkInv, LiveIsInside
    <2>7. EntryCovers' /\ DeletedAreDead' /\ FlagsAreLast'
      BY <2>1, <2>2, <2>3 DEF WalkInv, EntryCovers, DeletedAreDead, FlagsAreLast
    <2>8. DrawnEdges'
      BY <2>1, <2>2, <2>3 DEF WalkInv, DrawnEdges
    <2> QED
      BY <2>4, <2>6, <2>7, <2>8 DEF WalkInv
  <1> QED
    BY <1>1, <1>2, <1>3, <1>4, <1>5, <1>6 DEF BuildNext, WalkNext

LEMMA WalkInvariant == BuildSpec => [](IInv /\ LocalSets /\ WalkInv)
  <1>1. Spec => []IInv
    BY InductiveInvariant
  <1>2. Spec => []LocalSets
    BY LocalSetsInvariant
  <1> QED
    BY <1>1, <1>2, WalksKeepLiveness, InitWalkInv, NextWalkInv, PTL DEF BuildSpec
-----------------------------------------------------------------------------
\* A register live on a path is in the bitset of the walk: the blocks that do
\* not have it in live_in are closed under the successors it passes through.
LEMMA PathsAreInside ==
    ASSUME IInv, WalkInv, ~NotBegun,
           NEW pt \in ReachedPoints, NEW r \in Reg, LiveAfter(pt, r)
    PROVE  r \in InsideLive(pt[1], pt[2])
  <1> DEFINE b == pt[1]
  <1>1. /\ b \in Ordered /\ Ordered \subseteq Block
        /\ \A a \in Ordered : prog.succ[a] \subseteq Ordered
    <2>1. Ordered \subseteq Block
      BY ProgramFields DEF IInv, Ordered
    <2>2. OrderCovers(prog)
      BY OrderAssumption DEF IInv, ProgOK
    <2> QED
      BY <2>1, <2>2 DEF Ordered, OrderCovers, ReachedPoints
  <1>2. \A a \in Ordered : \A s \in prog.succ[a] : liveIn[s] \subseteq liveOut[a]
    BY DEF NotBegun, IInv, SolvedWhenDone, Out
  <1>3. \A a \in Ordered : Seeds(a) \cup InsideLive(a, 0) \subseteq liveIn[a]
    BY DEF WalkInv, EntryCovers
  <1>4. CASE ReadsFirst(b, pt[2], r)
    BY <1>4 DEF InsideLive
  <1>5. CASE ~ReadsFirst(b, pt[2], r)
    <2>1. ~WritesBeyond(b, pt[2], r)
      BY <1>5 DEF LiveAfter
    <2>2. PICK s \in prog.succ[b] : EntryLive(s, r)
      BY <1>5 DEF LiveAfter
    <2>3. r \in liveIn[s]
      <3> SUFFICES ASSUME r \notin liveIn[s] PROVE FALSE
        OBVIOUS
      <3> DEFINE S == { a \in Ordered : r \notin liveIn[a] }
      <3>1. S \in SUBSET Block /\ s \in S
        BY <1>1, <2>2
      <3>2. ASSUME NEW a \in S, ~WritesBeyond(a, 0, r) PROVE prog.succ[a] \subseteq S
        <4>1. r \notin liveOut[a]
          BY <1>3, <3>2 DEF InsideLive
        <4> QED
          BY <1>1, <1>2, <4>1
      <3> HIDE DEF S
      <3>3. PICK u \in S : ReadsFirst(u, 0, r) \/ r \in Seeds(u)
        BY <2>2, <3>1, <3>2 DEF EntryLive
      <3>4. u \in Ordered /\ r \notin liveIn[u]
        BY <3>3 DEF S
      <3> QED
        BY <1>3, <3>3, <3>4 DEF InsideLive
    <2> QED
      BY <1>1, <1>2, <2>1, <2>2, <2>3 DEF InsideLive
  <1> QED
    BY <1>4, <1>5

(***************************************************************************)
(* Deleting is safe for every function: what a deleted instruction wrote   *)
(* is read on no path of the code that the walk leaves, nor returned.      *)
(***************************************************************************)
THEOREM DeletingIsSafe == BuildSpec => []RemovedAreDead
  <1>1. IInv /\ WalkInv => RemovedAreDead
    <2> SUFFICES ASSUME IInv, WalkInv, walkPc # "mark",
                        NEW pt \in removed \cap ReachedPoints,
                        NEW d \in Defs(At(prog, pt)), LiveAfter(pt, d)
                 PROVE  FALSE
      BY DEF RemovedAreDead
    <2>1. ~NotBegun
      BY DEF WalkInv, DeletedOK
    <2>2. d \in Reg
      BY PointShape, RegistersOfInstruction DEF ReachedPoints, IInv
    <2>3. d \in InsideLive(pt[1], pt[2])
      BY <2>1, <2>2, PathsAreInside
    <2> QED
      BY <2>3 DEF WalkInv, DeletedAreDead
  <1> QED
    BY <1>1, WalkInvariant, PTL

(***************************************************************************)
(* A last use is a last use for every function: no path reads the value    *)
(* after an operand that either walk has flagged.                          *)
(***************************************************************************)
THEOREM FlagsAreRight == BuildSpec => []LastUseIsLast
  <1>1. IInv /\ WalkInv => LastUseIsLast
    <2> SUFFICES ASSUME IInv, WalkInv, walkPc = "done", NEW f \in lastUse,
                        NEW pt, pt = <<f[1], f[2]>>,
                        NEW r, r = At(prog, pt).operands[f[3]].reg,
                        pt \in ReachedPoints, r \notin Defs(At(prog, pt)),
                        LiveAfter(pt, r)
                 PROVE  FALSE
      BY DEF LastUseIsLast
    <2>1. ~NotBegun
      BY DEF WalkInv, DeletedOK
    <2>2. /\ pt \in Points(prog) /\ f[3] \in Positions(At(prog, pt))
          /\ r \notin InsideLive(f[1], f[2]) \ Defs(At(prog, pt))
      BY DEF WalkInv, FlagsAreLast
    <2>3. r \in Reg
      BY <2>2, PointShape, RegistersOfInstruction DEF IInv
    <2>4. r \in InsideLive(pt[1], pt[2])
      BY <2>1, <2>3, PathsAreInside
    <2> QED
      BY <2>2, <2>4
  <1> QED
    BY <1>1, WalkInvariant, PTL

LEMMA IndexIsSymmetric ==
    ASSUME NEW a \in Nat, NEW b \in Nat
    PROVE  MatrixIndex(a, b) = MatrixIndex(b, a)
  BY DEF MatrixIndex, Larger, Smaller

\* The edges of one instruction: each register that it writes and each other
\* one live after it, of two written ones provided both are live.
LEMMA DefinitionsMeetTheLive ==
    ASSUME NEW instr \in Instruction, NEW alive \in SUBSET Reg,
           NEW d \in Defs(instr), NEW r \in alive, r # d,
           r \notin CopySource(instr),
           r \in Defs(instr) => d \in alive /\ d \notin CopySource(instr)
    PROVE  MatrixIndex(d, r) \in EdgeBits(DefinitionEdges(instr, alive))
  <1> DEFINE reg(k) == instr.operands[k].reg
             D      == { k \in Positions(instr) : instr.operands[k].def }
             first(x) == { k \in D : reg(k) = x }
             cleared(k) == { reg(j) : j \in { m \in 1 .. k : instr.operands[m].def } }
  <1>1. Positions(instr) \subseteq Nat /\ D \subseteq Nat
    BY DEF Positions, Instruction
  <1>2. \A k \in D : \A x \in (alive \ cleared(k)) \ CopySource(instr) :
            <<reg(k), x>> \in DefinitionEdges(instr, alive)
    BY DEF DefinitionEdges
  <1>3. \A m, k : k \in D /\ m \in 1 .. k => m \in Positions(instr)
    <2>1. Len(instr.operands) \in Nat
      BY DEF Instruction
    <2> QED
      BY <2>1 DEF Positions
  <1>4. \A k, x : k \in D /\ x \in cleared(k) =>
            \E j \in D : j <= k /\ reg(j) = x
    BY <1>1, <1>3
  <1>5. Defs(instr) = { reg(k) : k \in D }
    BY DEF Defs
  <1> HIDE DEF D, reg, cleared
  <1>6. \A x, y : x # y /\ <<x, y>> \in DefinitionEdges(instr, alive) =>
            MatrixIndex(x, y) \in EdgeBits(DefinitionEdges(instr, alive))
    BY DEF EdgeBits
  <1>7. d \in Nat /\ r \in Nat
    BY RegistersOfInstruction, RegistersAreNumbers
  <1>8. first(d) \in SUBSET Nat /\ first(d) # {}
    BY <1>1, <1>5
  <1>9. PICK k \in first(d) : \A j \in first(d) : k <= j
    BY <1>8, LeastElement
  <1>10. CASE r \notin cleared(k)
    BY <1>2, <1>6, <1>9, <1>10
  <1>11. CASE r \in cleared(k)
    <2>1. PICK m \in D : m <= k /\ reg(m) = r
      BY <1>4, <1>9, <1>11
    <2>2. d \notin cleared(m)
      <3> SUFFICES ASSUME d \in cleared(m) PROVE FALSE
        OBVIOUS
      <3>1. PICK j \in D : j <= m /\ reg(j) = d
        BY <1>4, <2>1
      <3>2. k <= j
        BY <1>9, <3>1
      <3>3. k = m
        BY <1>1, <1>9, <2>1, <3>1, <3>2
      <3> QED
        BY <1>9, <2>1, <3>3
    <2>3. r \in Defs(instr)
      BY <1>5, <2>1
    <2>4. <<r, d>> \in DefinitionEdges(instr, alive)
      BY <1>2, <2>1, <2>2, <2>3
    <2> QED
      BY <1>6, <1>7, <2>4, IndexIsSymmetric
  <1> QED
    BY <1>10, <1>11

\* The bit of a constrained register's pair with r0 is set.
LEMMA ConstraintsExcludeZero ==
    ASSUME NEW instr, IsGPR,
           NEW r \in (Constrained(instr) \cup FixedOperands(instr)) \cap Virtual
    PROVE  r # 0 /\ MatrixIndex(r, 0) \in ConstraintBits(instr)
  <1>1. r \in Nat /\ r # 0
    BY PhysAssumption, RegAssumption DEF Virtual
  <1>2. MatrixIndex(r, r) \in DiagonalBits(Constrained(instr) \cup FixedOperands(instr))
    BY DEF DiagonalBits
  <1> QED
    BY <1>1, <1>2, DiagonalIsPairWithZero DEF ConstraintBits

(***************************************************************************)
(* The matrix has every edge that colouring needs, for every function: a   *)
(* register written while another one is live on some path interferes with *)
(* it, and the operands that may not be r0 interfere with r0.              *)
(***************************************************************************)
THEOREM EnoughEdges == BuildSpec => []EdgesAreEnough
  <1>1. IInv /\ WalkInv => OverlapInterferes
    <2> SUFFICES ASSUME IInv, WalkInv, walkPc = "done",
                        NEW pt \in ReachedPoints \ removed,
                        NEW d \in Defs(At(prog, pt)), NEW r \in Reg,
                        r # d, LiveAfter(pt, r), r \notin CopySource(At(prog, pt)),
                        r \in Defs(At(prog, pt)) => LiveAfter(pt, d)
                                                     /\ d \notin CopySource(At(prog, pt))
                 PROVE  Interferes(d, r)
      BY DEF OverlapInterferes
    <2> DEFINE alive == InsideLive(pt[1], pt[2])
    <2>1. ~NotBegun /\ pt \in Points(prog)
      BY DEF WalkInv, DeletedOK, ReachedPoints
    <2>2. At(prog, pt) \in Instruction /\ d \in Reg
      BY <2>1, PointShape, RegistersOfInstruction DEF IInv
    <2>3. alive \in SUBSET Reg /\ r \in alive
      BY <2>1, PathsAreInside DEF InsideLive
    <2>4. r \in Defs(At(prog, pt)) => d \in alive
      BY <2>1, <2>2, PathsAreInside
    <2>5. EdgeBits(DefinitionEdges(At(prog, pt), alive)) \subseteq matrix
      BY <2>1 DEF WalkInv, DrawnEdges
    <2> HIDE DEF alive
    <2>6. MatrixIndex(d, r) \in EdgeBits(DefinitionEdges(At(prog, pt), alive))
      BY <2>2, <2>3, <2>4, DefinitionsMeetTheLive
    <2> QED
      BY <2>5, <2>6 DEF Interferes, InterferesIn
  <1>2. WalkInv => BaseAvoidsZero
    <2> SUFFICES ASSUME WalkInv, walkPc = "done", IsGPR,
                        NEW pt \in Points(prog) \ removed,
                        NEW r \in (Constrained(At(prog, pt)) \cup FixedOperands(At(prog, pt)))
                                     \cap Virtual
                 PROVE  Interferes(r, 0)
      BY DEF BaseAvoidsZero
    <2>1. ConstraintBits(At(prog, pt)) \subseteq matrix
      BY DEF WalkInv, DrawnEdges
    <2> QED
      BY <2>1, ConstraintsExcludeZero DEF Interferes, InterferesIn
  <1>3. IInv /\ WalkInv => EdgesAreEnough
    BY <1>1, <1>2 DEF EdgesAreEnough
  <1> QED
    BY <1>3, WalkInvariant, PTL
-----------------------------------------------------------------------------
\* The bit of a pair of registers, or of a virtual register alone, lies in
\* the matrix.
LEMMA BitsOfPairs ==
    ASSUME NEW pairs, pairs \subseteq Reg \X Reg
    PROVE  \A bit \in EdgeBits(pairs) : bit < MatrixBitCount(RegCount)
  <1> SUFFICES ASSUME NEW a \in Reg, NEW b \in Reg, a # b
               PROVE  MatrixIndex(a, b) < MatrixBitCount(RegCount)
    BY DEF EdgeBits
  <1>1. RegCount \in Nat /\ RegCount >= 2 /\ a \in 0 .. RegCount - 1 /\ b \in 0 .. RegCount - 1
    BY RegAssumption DEF Reg
  <1> QED
    BY <1>1, IndexInBounds

LEMMA BitsOfDiagonal ==
    ASSUME NEW regs
    PROVE  \A bit \in DiagonalBits(regs) : bit < MatrixBitCount(RegCount)
  <1> SUFFICES ASSUME NEW r \in Virtual
               PROVE  MatrixIndex(r, r) < MatrixBitCount(RegCount)
    BY DEF DiagonalBits
  <1>1. RegCount \in Nat /\ RegCount >= 2 /\ r \in 0 .. RegCount - 1
    BY PhysAssumption, RegAssumption DEF Virtual
  <1> QED
    BY <1>1, IndexInBounds

LEMMA BitsOfInstruction ==
    ASSUME NEW instr \in Instruction, NEW alive \in SUBSET Reg,
           PairIsKeptApart(instr) => Len(instr.operands) >= 2
    PROVE  \A bit \in EdgeBits(DefinitionEdges(instr, alive)) \cup ConstraintBits(instr) :
               bit < MatrixBitCount(RegCount)
  <1>1. /\ \A k \in Positions(instr) : instr.operands[k].reg \in Reg
        /\ Len(instr.operands) \in Nat
    BY RegistersOfInstruction DEF Instruction
  <1>2. DefinitionEdges(instr, alive) \subseteq Reg \X Reg
    BY <1>1 DEF DefinitionEdges
  <1>3. PairEdges(instr) \subseteq Reg \X Reg
    <2>1. CASE Len(instr.operands) >= 2
      <3>1. 1 \in Positions(instr) /\ 2 \in Positions(instr)
        BY <1>1, <2>1 DEF Positions
      <3> QED
        BY <1>1, <3>1 DEF PairEdges
    <2>2. CASE ~PairIsKeptApart(instr)
      BY <2>2 DEF PairEdges
    <2> QED
      BY <2>1, <2>2
  <1>4. FixedOperands(instr) \X FixedRange \subseteq Reg \X Reg
    <2>1. \A k \in FixedFrom + 1 .. Len(instr.operands) : k \in Positions(instr)
      BY <1>1, FixedAssumption DEF Positions
    <2>2. FixedOperands(instr) \subseteq Reg
      BY <1>1, <2>1 DEF FixedOperands
    <2> QED
      BY <2>2, FixedAssumption, RegistersAreNumbers
  <1> DEFINE pairs == DefinitionEdges(instr, alive)
             fixed == FixedOperands(instr) \X FixedRange
             diag  == DiagonalBits(Constrained(instr) \cup FixedOperands(instr))
  <1>5. /\ \A bit \in EdgeBits(pairs) : bit < MatrixBitCount(RegCount)
        /\ \A bit \in EdgeBits(PairEdges(instr)) : bit < MatrixBitCount(RegCount)
        /\ \A bit \in EdgeBits(fixed) : bit < MatrixBitCount(RegCount)
        /\ \A bit \in diag : bit < MatrixBitCount(RegCount)
    <2> HIDE DEF pairs, fixed, diag
    <2>1. pairs \subseteq Reg \X Reg /\ fixed \subseteq Reg \X Reg
      BY <1>2, <1>4 DEF pairs, fixed
    <2>2. \A bit \in diag : bit < MatrixBitCount(RegCount)
      BY BitsOfDiagonal DEF diag
    <2> QED
      BY <1>3, <2>1, <2>2, BitsOfPairs
  <1>6. ConstraintBits(instr) \subseteq diag \cup EdgeBits(PairEdges(instr)) \cup EdgeBits(fixed)
    BY DEF ConstraintBits
  <1> HIDE DEF pairs, fixed, diag
  <1> QED
    BY <1>5, <1>6 DEF pairs

\* The walk's bitset and the matrix keep within the registers of the class.
BitsOK == /\ live \subseteq Reg
          /\ \A bit \in matrix : bit < MatrixBitCount(RegCount)

LEMMA NextBitsOK ==
    ASSUME IInv, WalkInv, BitsOK, [BuildNext]_<<vars, wvars>>
    PROVE  BitsOK'
  <1>1. CASE MarkInstruction \/ AddInstructionEdges
    <2>1. at[2] > 0 /\ At(prog, at) \in Instruction /\ at \in Points(prog)
      <3>1. at[2] > 0
        BY <1>1 DEF MarkInstruction, AddInstructionEdges, Visiting
      <3> QED
        BY <3>1, CursorAtInstruction
    <2>2. Before(At(prog, at), live) \subseteq Reg
      BY <2>1, RegistersOfInstruction DEF BitsOK, Before
    <2>3. live' \subseteq Reg
      BY <1>1, <2>2 DEF MarkInstruction, AddInstructionEdges, BitsOK
    <2>4. PairIsKeptApart(At(prog, at)) => Len(At(prog, at).operands) >= 2
      BY <2>1, PairAssumption DEF IInv, ProgOK
    <2>5. \A bit \in EdgeBits(DefinitionEdges(At(prog, at), live))
                       \cup ConstraintBits(At(prog, at)) : bit < MatrixBitCount(RegCount)
      BY <2>1, <2>4, BitsOfInstruction DEF BitsOK
    <2>6. matrix' \subseteq matrix \cup EdgeBits(DefinitionEdges(At(prog, at), live))
                                   \cup ConstraintBits(At(prog, at))
      BY <1>1 DEF MarkInstruction, AddInstructionEdges
    <2> QED
      BY <2>3, <2>5, <2>6 DEF BitsOK
  <1>2. CASE NextBlock
    <2>1. at[1] + 1 \in Block
      BY <1>2, BlockAssumption DEF NextBlock, WalkInv, CursorOK, Block
    <2> QED
      BY <1>2, <2>1 DEF NextBlock, BitsOK, IInv, TypeOK
  <1>3. CASE EndWalk
    <2>1. \A bit \in EdgeBits(Phys \X Phys) : bit < MatrixBitCount(RegCount)
      BY BitsOfPairs, RegistersAreNumbers
    <2> QED
      BY <1>3, <2>1 DEF EndWalk, BitsOK
  <1>4. CASE UNCHANGED wvars
    BY <1>4 DEF wvars, BitsOK
  <1> QED
    BY <1>1, <1>2, <1>3, <1>4 DEF BuildNext, WalkNext

(***************************************************************************)
(* The walks' records keep their types, and no bit is ever set outside the *)
(* matrix_bit_count bits that are allocated, for every function.           *)
(***************************************************************************)
THEOREM WalkTypeCorrect == BuildSpec => []WalkTypeOK
  <1>1. BuildInit => BitsOK
    BY DEF BuildInit, WalkStart, BitsOK
  <1>2. BuildSpec => []BitsOK
    BY <1>1, NextBitsOK, WalkInvariant, PTL DEF BuildSpec
  <1>3. WalkInv /\ BitsOK => WalkTypeOK
    BY DEF WalkInv, BitsOK, CursorOK, DeletedOK, FlagsAreLast, WalkTypeOK
  <1> QED
    BY <1>2, <1>3, WalkInvariant, PTL
=============================================================================
