--------------------------- MODULE ColoringReplay ---------------------------
(***************************************************************************)
(* Coloring (src/backend/Coloring.c) and the replay of it that the tools   *)
(* search with (tools/coloring_model.py), side by side.                    *)
(***************************************************************************)
EXTENDS Coloring

CONSTANT InitialColors   \* what the tool takes for the registers free at first

Tool == INSTANCE ColoringModel WITH
            FirstVirtual <- NPhys, FirstSavedColor <- FirstSaved

ASSUME ColorsAssumption == InitialColors \subseteq Phys

\* The snapshot taken when the graph is built.
Captured == [neighbors |-> adj, parent |-> alias, cost |-> cost,
             extra |-> [r \in Reg |-> 0],
             active |-> { r \in Virtual : alias[r] = r }]

ByNumber == [r \in Virtual |-> r]

Selected == colorPc = "select" /\ stack = <<>>

Agrees == LET colors == Tool!Replay(Captured, limit, ByNumber)
          IN  \A r \in Captured.active : colors[r] = color[r]

(***************************************************************************)
(* The functional replay and the compiler's loops over linked lists give   *)
(* every register the same colour, failed attempts and retries with a      *)
(* stale limit included, when the registers that the class begins with are *)
(* the tool's and no saved one was used before.                            *)
(***************************************************************************)
ReplayAgrees ==
    Selected /\ FreeVolatile(snapshot) = InitialColors /\ snapshot \cap Saved = {} => Agrees

(***************************************************************************)
(* tools/coloring_model.py:4-6: the model "replays the recovered           *)
(* Coloring_SimplifyGraph and Coloring_SelectColors decisions over the     *)
(* graph".  It would for every table the class begins with.                *)
(***************************************************************************)
ReplayFollowsTheCode == Selected => Agrees

(***************************************************************************)
(* A rank hypothesis answers what renumbering the registers would do: if   *)
(* the graph's registers are numbered by p, each gets the colour that the  *)
(* replay with ranks p gives it in the captured graph.                     *)
(***************************************************************************)
Renumbered(p) ==
    LET q == [r \in Reg |-> IF r \in Virtual THEN p[r] ELSE r]
        back == [r \in Reg |-> CHOOSE x \in Reg : q[x] = r]
    IN  [neighbors |-> [r \in Reg |-> { q[x] : x \in adj[back[r]] }],
         parent |-> [r \in Reg |-> q[alias[back[r]]]],
         cost |-> [r \in Reg |-> cost[back[r]]],
         extra |-> [r \in Reg |-> 0],
         active |-> { q[r] : r \in Captured.active }]

Renumberings == { p \in [Virtual -> Virtual] : \A a, b \in Virtual : p[a] = p[b] => a = b }

RanksAreRenumberings ==
    colorPc = "scan" /\ attempt = 1 /\ cursor = NPhys /\ stack = <<>> =>
        \A p \in Renumberings :
            LET told   == Tool!Replay(Captured, limit, p)
                actual == Tool!Replay(Renumbered(p), limit, ByNumber)
            IN  \A r \in Captured.active : told[r] = actual[p[r]]

(***************************************************************************)
(* A replay tells the truth about the compiler, for the graph as it was    *)
(* captured and for ranks that stand for other numbers of its registers.   *)
(***************************************************************************)
ReplayIsExact == ReplayAgrees /\ RanksAreRenumberings
=============================================================================
