-------------------------- MODULE AllocatorSnapshot --------------------------
(***************************************************************************)
(* The reader of compiler memory, tools/allocator_snapshot.py: what a      *)
(* capture sees of linked lists, of the coalescing map, of the counters,   *)
(* of the reaching-definition table and of the name of a function.         *)
(*                                                                         *)
(* Memory is given as functions from addresses; address 0 is the null      *)
(* pointer.  A read that the tool answers with SnapshotError is told by a  *)
(* predicate (Cyclic, BadParents, MovedBackward, ~ValidColoring): what the *)
(* reader returns matters only where the predicate is false.               *)
(***************************************************************************)
EXTENDS Integers, FiniteSets, SequencesExt

CONSTANT FirstVirtualRegister

ASSUME FirstVirtualAssumption == FirstVirtualRegister \in Nat

(* The cells that a walk from head meets: all the readers of lists keep    *)
(* the set of the cells seen.                                              *)
Walk(next, head) ==
  LET cells == DOMAIN next
      at[n \in 0..Cardinality(cells)] ==
        IF n = 0 THEN head
        ELSE IF at[n - 1] = 0 THEN 0 ELSE next[at[n - 1]]
      met == {n \in 1..Cardinality(cells) : at[n - 1] # 0}
  IN  [n \in 1..Cardinality(met) |-> at[n - 1]]

(* ... and whether it meets a cell twice, which the readers refuse.        *)
Cyclic(next, head) ==
  /\ head # 0
  /\ LET cells == Walk(next, head) IN next[cells[Len(cells)]] # 0

(* Follows the coalescing map for as long as the tool does.                *)
RootIn(parents, register) ==
  LET size == Cardinality(DOMAIN parents)
      at[n \in 0..size] ==
        IF n = 0 THEN register
        ELSE IF at[n - 1] \in DOMAIN parents THEN parents[at[n - 1]] ELSE at[n - 1]
  IN  at[size]

(* A parent outside the map, or a register whose walk never ends.          *)
BadParents(parents) ==
  \E r \in DOMAIN parents :
    LET root == RootIn(parents, r)
    IN  root \notin DOMAIN parents \/ parents[root] # root

(* The groups of more than one register, with their roots.                 *)
CoalescingGroups(parents) ==
  LET members(root) == {r \in DOMAIN parents : RootIn(parents, r) = root}
  IN  {[root |-> root, members |-> members(root)] :
         root \in {r \in DOMAIN parents : parents[r] = r /\ Cardinality(members(r)) > 1}}

(* The ranges of numbers given out since the stage before.                 *)
Boundary(phase, counts, previous) ==
  [phase  |-> phase,
   counts |-> counts,
   ranges |-> [c \in DOMAIN counts |-> previous[c]..(counts[c] - 1)]]

MovedBackward(counts, previous) == \E c \in DOMAIN counts : counts[c] < previous[c]

(* What validate_coloring_snapshot asks of a coloring snapshot.            *)
ValidColoring(snapshot) ==
  /\ \A r \in DOMAIN snapshot.neighbors :
       snapshot.neighbors[r] \subseteq DOMAIN snapshot.neighbors
  /\ Range(snapshot.order) \subseteq DOMAIN snapshot.neighbors
  /\ Cardinality(DOMAIN snapshot.parents) = snapshot.count
  /\ ~BadParents(snapshot.parents)
  /\ snapshot.groups = CoalescingGroups(snapshot.parents)

(* The interference graph as the reader sees it at a call of               *)
(* Coloring_SelectColors: nodes by register, the stack through the next    *)
(* fields of the nodes, and the coalescing map.                            *)
ColoringSnapshot(class, graph, stack) ==
  [class     |-> class,
   count     |-> Cardinality(DOMAIN graph.parents),
   neighbors |-> graph.neighbors,
   parents   |-> graph.parents,
   groups    |-> CoalescingGroups(graph.parents),
   order     |-> Walk(graph.next, stack)]

(* The object and the name that a function pointer stands for: kind 6 is   *)
(* an alias; only some kinds cache a name, and the cache may be empty.     *)
FunctionIdentity(objects, pointer) ==
  LET alias == [o \in DOMAIN objects |-> IF objects[o].kind = 6 THEN objects[o].alias ELSE 0]
      chain == Walk(alias, pointer)
      last  == chain[Len(chain)]
      named == /\ ~Cyclic(alias, pointer)
               /\ objects[last].kind \in {0, 1, 2, 3, 4, 8}
               /\ objects[last].name # ""
  IN  [object    |-> pointer,
       canonical |-> IF objects[last].kind = 6 /\ ~Cyclic(alias, pointer) THEN 0 ELSE last,
       name      |-> IF named THEN objects[last].name ELSE ""]
=============================================================================
