----------------------------- MODULE MCCoalesce -----------------------------
(***************************************************************************)
(* Coalescing on the interference graphs of two physical and three virtual *)
(* registers: any edges between the virtual ones, at most two edges        *)
(* between a physical and a virtual one.  Copies come in any order, until  *)
(* three have been removed.                                                *)
(***************************************************************************)
EXTENDS Coalesce, FiniteSets

Symmetric(pairs) ==
    [x \in Reg |-> { y \in Reg : x # y /\ ({x, y} \in pairs \/ {x, y} \subseteq Phys) }]

VirtualPairs == { S \in SUBSET Virtual : Cardinality(S) = 2 }

MixedPairs == { {p, v} : p \in Phys, v \in Virtual }

PhysicalPairs == { S \in SUBSET MixedPairs : Cardinality(S) <= 2 }

MCGraphs == { Symmetric(v \cup p) : v \in SUBSET VirtualPairs, p \in PhysicalPairs }

MCInit == graph \in MCGraphs /\ CoalesceStart

\* Bounds the behaviours by the copies removed: three merges at most.
FewRemoved == Cardinality(gone) <= 3

MCSpec == MCInit /\ [][Next]_vars
=============================================================================
