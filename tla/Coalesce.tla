------------------------------ MODULE Coalesce ------------------------------
(***************************************************************************)
(* Copy coalescing: SpillCode_CoalesceCopies of src/backend/SpillCode.c,   *)
(* on the interference graph that the matrix stands for.  A graph maps a   *)
(* register to the set of registers it interferes with.                    *)
(***************************************************************************)
EXTENDS PCode, Naturals

CONSTANTS
    First, Last     \* the class's coalescing window, both ends included

ASSUME WindowAssumption == First \in Nat /\ Last \in Nat

VARIABLES
    graph,      \* the graph as SpillCode_ConstructInterference left it
    adj,        \* the graph with the edges that merging has added
    parent,     \* gCoalescedRegisters
    gone,       \* the copies removed, as pairs <<destination, source>>
    name,       \* the register that an operand naming r names by now
    coalescePc  \* "copies", "renamed"

cvars == <<adj, parent, gone, name, coalescePc>>
vars  == <<graph, cvars>>
-----------------------------------------------------------------------------
\* SpillCode_CoalesceRoot: from a register to the first parent that is its own.
RootMap(p) ==
    LET root[r \in Reg] == IF p[r] = r THEN r ELSE root[p[r]]
    IN  root

\* SpillCode_CoalesceEligible
InWindow(r) == First <= r /\ r <= Last

CanCoalesce(a, b) ==
    /\ b \notin adj[a]
    /\ a \in Phys \/ b \in Phys \/ (InWindow(a) /\ InWindow(b))

WithEdgesOneWay(child, root) ==   \* mutant: the neighbours do not learn of the root
    [x \in Reg |-> IF x = root THEN adj[root] \cup adj[child] ELSE adj[x]]

\* Every edge of the child becomes an edge of the root as well.
WithEdgesOf(child, root) ==
    [x \in Reg |-> IF x = root THEN adj[root] \cup adj[child]
                   ELSE IF x \in adj[child] THEN adj[x] \cup {root}
                   ELSE adj[x]]

MergeRoots(a, b) ==
    LET root  == IF a < b THEN a ELSE b
        child == IF a < b THEN b ELSE a
    IN  /\ parent' = [parent EXCEPT ![child] = root]
        /\ adj' = WithEdgesOf(child, root)
-----------------------------------------------------------------------------
\* The class's graph is symmetric and has no self edges, and the physical
\* registers form a clique (SpillCode_PrecolorPhysicalRegisters).
IsInterferenceGraph(g) ==
    /\ g \in [Reg -> SUBSET Reg]
    /\ \A x \in Reg : x \notin g[x]
    /\ \A x, y \in Reg : y \in g[x] => x \in g[y]
    /\ \A x, y \in Phys : x # y => y \in g[x]

CoalesceStart ==
    /\ adj = graph
    /\ parent = [r \in Reg |-> r]
    /\ gone = {}
    /\ name = [r \in Reg |-> r]
    /\ coalescePc = "copies"

CoalesceCopyByName(dst, src) ==   \* mutant: the registers are tested, not the roots
    /\ coalescePc = "copies"
    /\ LET first  == RootMap(parent)[dst]
           second == RootMap(parent)[src]
       IN  \/ /\ first = second
              /\ gone' = gone \cup {<<dst, src>>}
              /\ UNCHANGED <<adj, parent>>
           \/ /\ first # second
              /\ CanCoalesce(dst, src)
              /\ MergeRoots(first, second)
              /\ gone' = gone \cup {<<dst, src>>}
    /\ UNCHANGED <<graph, name, coalescePc>>

CoalesceCopyRemovingAll(dst, src) ==   \* mutant: rejected copies are removed too
    /\ coalescePc = "copies"
    /\ LET first  == RootMap(parent)[dst]
           second == RootMap(parent)[src]
       IN  \/ /\ first # second
              /\ CanCoalesce(first, second)
              /\ MergeRoots(first, second)
           \/ /\ first = second \/ ~CanCoalesce(first, second)
              /\ UNCHANGED <<adj, parent>>
    /\ gone' = gone \cup {<<dst, src>>}
    /\ UNCHANGED <<graph, name, coalescePc>>

\* One copy instruction of the class whose coalescing is not disabled.
CoalesceCopy(dst, src) ==
    /\ coalescePc = "copies"
    /\ LET first  == RootMap(parent)[dst]
           second == RootMap(parent)[src]
       IN  \/ /\ first = second
              /\ gone' = gone \cup {<<dst, src>>}
              /\ UNCHANGED <<adj, parent>>
           \/ /\ first # second
              /\ CanCoalesce(first, second)
              /\ MergeRoots(first, second)
              /\ gone' = gone \cup {<<dst, src>>}
           \/ /\ first # second
              /\ ~CanCoalesce(first, second)
              /\ UNCHANGED <<adj, parent, gone>>
    /\ UNCHANGED <<graph, name, coalescePc>>

RenameToParent ==   \* mutant: only one link of the chain is followed
    /\ coalescePc = "copies"
    /\ name' = [r \in Reg |-> parent[name[r]]]
    /\ coalescePc' = "renamed"
    /\ UNCHANGED <<graph, adj, parent, gone>>

\* The second walk gives every operand its canonical register.
RenameOperands ==
    /\ coalescePc = "copies"
    /\ name' = [r \in Reg |-> RootMap(parent)[name[r]]]
    /\ coalescePc' = "renamed"
    /\ UNCHANGED <<graph, adj, parent, gone>>

Init == IsInterferenceGraph(graph) /\ CoalesceStart

Next == \/ \E dst, src \in Reg : CoalesceCopy(dst, src)
        \/ RenameOperands

Spec == Init /\ [][Next]_vars
-----------------------------------------------------------------------------
(***************************************************************************)
(* Type correctness.  A register's parent is never above it, which         *)
(* SpillCode_MaterializeGraph needs when it marks the root of a node it    *)
(* has just allocated, and physical registers stay their own roots.        *)
(***************************************************************************)
TypeOK ==
    /\ IsInterferenceGraph(graph) /\ IsInterferenceGraph(adj)
    /\ parent \in [Reg -> Reg] /\ name \in [Reg -> Reg]
    /\ \A r \in Reg : parent[r] <= r
    /\ \A r \in Phys : parent[r] = r
    /\ gone \subseteq Reg \X Reg
    /\ coalescePc \in {"copies", "renamed"}

(***************************************************************************)
(* Registers that were live together never end up in one class, however    *)
(* many merges lie between them: only roots are compared, so this rests on *)
(* the roots carrying the edges of all their members.                      *)
(***************************************************************************)
ClassesDontInterfere ==
    LET root == RootMap(parent)
    IN  \A a, b \in Reg : root[a] = root[b] => b \notin graph[a]

(***************************************************************************)
(* The roots' edges are exact: two roots interfere just when some member   *)
(* of the one interfered with some member of the other.  An edge too few   *)
(* would let two live values share a register; one too many would cost a   *)
(* coalescing or a colour.                                                 *)
(***************************************************************************)
QuotientIsExact ==
    LET root == RootMap(parent)
    IN  \A a, b \in Reg :
          parent[a] = a /\ parent[b] = b =>
            (b \in adj[a] <=>
               \E x, y \in Reg : root[x] = a /\ root[y] = b /\ y \in graph[x])

(***************************************************************************)
(* A root interferes with all that its members interfere with, so that the *)
(* colouring, which looks at the nodes of the roots only, sees every edge. *)
(***************************************************************************)
RootsCarryEdges ==
    \A r \in Reg : adj[r] \subseteq adj[RootMap(parent)[r]]

(***************************************************************************)
(* A removed copy stays superfluous: later merges never separate its two   *)
(* registers, and once operands are renamed both carry one canonical name. *)
(***************************************************************************)
RemovedCopiesAreTrivial ==
    LET root == RootMap(parent)
    IN  \A c \in gone : /\ root[c[1]] = root[c[2]]
                        /\ coalescePc = "renamed" => name[c[1]] = name[c[2]]

(***************************************************************************)
(* Coloring_CommitAssignments looks up the node an operand names without   *)
(* resolving aliases, so renamed operands must name uncoalesced nodes.     *)
(***************************************************************************)
OperandsAreCanonical ==
    coalescePc = "renamed" => \A r \in Reg : parent[name[r]] = name[r]

(***************************************************************************)
(* What the second walk of SpillCode_CoalesceCopies leaves is code in      *)
(* which a removed copy would copy a root to itself, whatever was merged   *)
(* after it.                                                               *)
(***************************************************************************)
RemovedCopiesNameOneRoot == RemovedCopiesAreTrivial /\ OperandsAreCanonical

(***************************************************************************)
(* docs/DATA_MODEL.md:306: the window "explains why earlier object strata  *)
(* cannot coalesce with each other while later object and lowering webs    *)
(* can".  Two registers below the window would never share a class.        *)
(***************************************************************************)
EarlierStrataStayApart ==
    LET root == RootMap(parent)
    IN  \A a, b \in Virtual : a < First /\ b < First /\ a # b => root[a] # root[b]
=============================================================================
