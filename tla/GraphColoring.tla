---------------------------- MODULE GraphColoring ----------------------------
(***************************************************************************)
(* What one class of Coloring.c promises, whatever order it visits the     *)
(* nodes in: a node gets an assignable register that no neighbour holds,   *)
(* is spilled only when its neighbours hold every assignable register, and *)
(* assignments are committed only when nothing was spilled.                *)
(***************************************************************************)
EXTENDS PCode

CONSTANTS
    NoColor     \* the physical_register of a node that has none

VARIABLES
    adj,        \* the neighbours of a node
    alias,      \* the root that a node was coalesced into, itself otherwise
    assignable, \* the registers of the class that may be given out
    color,      \* physical_register; a coalesced node holds its root's number
    spilled,    \* the nodes flagged Interference_Spilled
    phase       \* "idle", "coloring", "done", "error"

vars == <<adj, alias, assignable, color, spilled, phase>>

\* The physical registers that n's neighbours hold.
Held(n) == { color[m] : m \in adj[n] } \cap Phys

Pending(n) == /\ n \in Virtual /\ alias[n] = n
              /\ color[n] = NoColor /\ n \notin spilled

Init == phase = "idle" /\ spilled = {} /\ color \in [Reg -> Reg \cup {NoColor}]

\* A new interference graph, at the start and after spill code went in.
Load ==
    /\ phase \in {"idle", "coloring"}
    /\ phase = "coloring" => spilled # {} /\ \A n \in Reg : ~Pending(n)
    /\ phase = "coloring" => assignable' = assignable
    /\ phase' = "coloring" /\ spilled' = {}
    /\ color' = [r \in Reg |-> IF r \in Phys THEN r
                               ELSE IF alias'[r] # r THEN alias'[r] ELSE NoColor]

Assign ==
    /\ phase = "coloring"
    /\ \E n \in Reg : Pending(n) /\ \E c \in assignable \ Held(n) :
                        color' = [color EXCEPT ![n] = c]
    /\ UNCHANGED <<adj, alias, assignable, spilled, phase>>

Spill ==
    /\ phase = "coloring"
    /\ \E n \in Reg : /\ Pending(n) /\ assignable \subseteq Held(n)
                      /\ spilled' = spilled \cup {n}
    /\ UNCHANGED <<adj, alias, assignable, color, phase>>

\* The coalesced nodes of named objects get their root's register.
Commit ==
    /\ phase = "coloring" /\ spilled = {} /\ \A n \in Reg : ~Pending(n)
    /\ \E owned \in SUBSET Virtual :
         color' = [r \in Reg |-> IF r \in owned THEN color[alias[r]] ELSE color[r]]
    /\ phase' = "done"
    /\ UNCHANGED <<adj, alias, assignable, spilled>>

Stop ==
    /\ phase = "idle" /\ phase' \in {"done", "error"}
    /\ UNCHANGED <<adj, alias, assignable, color, spilled>>

Next == Load \/ Assign \/ Spill \/ Commit \/ Stop

Spec == Init /\ [][Next]_vars
=============================================================================
