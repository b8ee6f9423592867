------------------------------ MODULE MCPeephole ------------------------------
(***************************************************************************)
(* Blocks of a few instructions over two registers, with every set of      *)
(* registers that may be live after them: blocks with two plain ADDIs or   *)
(* more, and at most Odd ADDIs that are blocked or hold a symbol.          *)
(***************************************************************************)
EXTENDS PostAllocationPeephole, TLC

CONSTANTS Length, Odd

Addi(d, b, i, constant, blocked) ==
  [op |-> "addi", dest |-> d, base |-> b, imm |-> i, constant |-> constant, blocked |-> blocked]
Other(first, rest, uses) == [op |-> "other", first |-> first, rest |-> rest, uses |-> uses]

PlainAddis == {Addi(d, b, i, TRUE, FALSE) : d \in Registers, b \in Registers, i \in {-1, 1}}
OddAddis ==
  {Addi(d, b, 1, FALSE, FALSE) : d \in Registers, b \in Registers} \cup
  {Addi(d, b, 1, TRUE, TRUE) : d \in Registers, b \in Registers}

(* Loads of a constant, uses, loads and stores with update, calls, and     *)
(* instructions with a second definition.                                  *)
Pairs == {p \in Registers \X Registers : p[1] # p[2]}
Shapes ==
  PlainAddis \cup OddAddis
  \cup {[op |-> "set", first |-> {r}, rest |-> {}, uses |-> {}] : r \in Registers}
  \cup {Other({}, {}, {r}) : r \in Registers}
  \cup {Other({p[1]}, {p[2]}, {p[2]}) : p \in Pairs}
  \cup {Other({}, {p[1]}, {p[1], p[2]}) : p \in Pairs}
  \cup {Other({}, {r}, {}) : r \in Registers} \cup {Other({}, Registers, {})}
  \cup {Other({p[1]}, {p[2]}, {}) : p \in Pairs}

Few(shapes, S, m) == Cardinality({n \in 1..Length : shapes[n] \in S}) <= m

MCBlocks ==
  {[n \in 1..Length |-> [id |-> n] @@ shapes[n]] :
     shapes \in {s \in [1..Length -> Shapes] :
                   Few(s, OddAddis, Odd) /\ Few(s, Shapes \ PlainAddis, Length - 2)}}
MCLiveOuts == SUBSET Registers

MCMinImmediate == -1

(* The registers are interchangeable.                                      *)
Symmetry == Permutations(Registers)
================================================================================
