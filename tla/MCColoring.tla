----------------------------- MODULE MCColoring -----------------------------
(***************************************************************************)
(* Colouring with four physical registers, of which 0 is volatile, 1 is    *)
(* reserved and 2 and 3 are saved, and graphs of four virtual registers.   *)
(***************************************************************************)
EXTENDS ColoringReplay

Symmetric(pairs) ==
    [x \in Reg |-> { y \in Reg : x # y /\ ({x, y} \in pairs \/ {x, y} \subseteq Phys) }]

Pairs(S) == { {x, y} : x, y \in S } \ { {x} : x \in S }

\* Any graph over the virtual registers, without and with edges to register 0
\* and to the saved register.
MCGraphs ==
    { Symmetric(v \cup p) : v \in SUBSET Pairs(Virtual),
                            p \in { {}, { {0, NPhys}, {3, NPhys + 1} } } }

NoAlias == [r \in Reg |-> r]

\* The last register coalesced into the first virtual one, or into register 0
\* or 3.
Joined(root) == [NoAlias EXCEPT ![RegCount - 1] = root]

\* Coalescing leaves the roots with the edges of the nodes they took in.
AliasFits(g, a) == \A r \in Reg : g[r] \subseteq g[a[r]] /\ a[r] \notin g[r]

EvenCost == [r \in Reg |-> 1]
RisingCost == [r \in Reg |-> r % 3]

MCInputs ==
    { [adj |-> g, alias |-> NoAlias, cost |-> RisingCost] : g \in MCGraphs }
    \cup
    { in \in { [adj |-> g, alias |-> Joined(r), cost |-> EvenCost] :
                 g \in MCGraphs, r \in {0, 3, NPhys} } : AliasFits(in.adj, in.alias) }

MCOwned == { {RegCount - 1} }
=============================================================================
