----------------------------- MODULE MCLiveness -----------------------------
(***************************************************************************)
(* Liveness on every control-flow graph of three blocks in which block 3   *)
(* returns: both other blocks have at most two successors, so loops,       *)
(* irreducible loops, unreachable blocks and endless loops all occur.      *)
(***************************************************************************)
EXTENDS Liveness, MCPCode

V == NPhys   \* the virtual register of the programs

Bodies == { <<>>, <<Ins(<<U(V)>>)>>, <<Ins(<<D(V)>>)>>, <<Ins(<<UD(V)>>)>>,
            <<Ins(<<D(V), U(0)>>), Ins(<<D(0), U(V)>>)>> }

Targets == { T \in SUBSET Block : Cardinality(T) <= 2 }

SuccOf == { t \in [Block -> Targets] : t[3] = {} }

\* The control-flow graphs with the visiting orders of each.
Flows == UNION { { <<s, o>> : o \in Orders(s) } : s \in SuccOf }

Function(code, succ, order, results, cur) ==
    [code |-> code, succ |-> succ, order |-> order, barrier |-> {},
     ret |-> 3, cur |-> cur, results |-> results]

MCPrograms ==
    { Function(<<a, b, <<>>>>, g[1], g[2], <<0>>, 3) :
        a \in Bodies, b \in Bodies, g \in Flows }

\* A pair result, with gCurrentBlock the return block or another one.
Line == <<{2}, {3}, {}>>
MCPairPrograms ==
    { Function(<<a, b, <<>>>>, Line, <<1, 2, 3>>, <<0, 1>>, c) :
        a \in Bodies, b \in Bodies, c \in {2, 3} }
=============================================================================
