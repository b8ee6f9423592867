------------------------------ MODULE MCPCode ------------------------------
(***************************************************************************)
(* Constructors for the small programs of the model-checking modules.      *)
(***************************************************************************)
EXTENDS PCode, Naturals, Sequences, FiniteSets

U(r)  == [reg |-> r, use |-> TRUE,  def |-> FALSE]
D(r)  == [reg |-> r, use |-> FALSE, def |-> TRUE]
UD(r) == [reg |-> r, use |-> TRUE,  def |-> TRUE]

Ins(operands)          == [opcode |-> "other", operands |-> operands, flags |-> {}]
InsF(operands, flags)  == [opcode |-> "other", operands |-> operands, flags |-> flags]
Base0(operands)        == [opcode |-> "base0", operands |-> operands, flags |-> {}]
Base1(operands)        == [opcode |-> "base1", operands |-> operands, flags |-> {}]
\* A register copy carries the copy-source exclusion flag (0x0800).
Copy(d, s) == [opcode |-> "copy", operands |-> <<D(d), U(s)>>,
               flags |-> {"CopySourceExclusion"}]

\* The blocks reachable from the entry block 1.
Reached(succ) ==
    { b \in Block : \A S \in SUBSET Block :
                       (1 \in S /\ \A a \in S : succ[a] \subseteq S) => b \in S }

(***************************************************************************)
(* SpillCode_BuildBlockOrder is outside the sources; the solver may rely   *)
(* on no more than that every reachable block appears once.                *)
(***************************************************************************)
Permuted == { g \in [Block -> Block] : \A i, j \in Block : i # j => g[i] # g[j] }

Orders(succ) ==
    LET reached == Reached(succ)
    IN  { [k \in Block |-> IF f[k] \in reached THEN f[k] ELSE NoBlock] :
            f \in Permuted }
=============================================================================
