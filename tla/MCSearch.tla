------------------------------- MODULE MCSearch -------------------------------
(***************************************************************************)
(* Four physical registers, of which the upper two are saved, and the      *)
(* virtual registers 4 (a parameter), 5 to 7 (objects, of which one may be *)
(* coalesced, unused or a temporary) and 8 (a temporary).                  *)
(***************************************************************************)
EXTENDS RegisterSearch

CONSTANT Pinned   \* sets of objects that the caller may fix

Virtual == 4..8
Reg == 0..8

(* The edges that a graph may have, beyond the one between the targets; a  *)
(* web coalesced into 4 passes its edges on to it.                         *)
Pairs == {{5, 6}, {6, 7}, {6, 8}, {5, 8}, {7, 8}, {0, 5}}

Graph(edges) == [r \in Reg |-> {q \in Reg : {r, q} \in edges /\ q # r}]

(* Which registers are objects, which is coalesced (into 4), which appear  *)
(* in the code.                                                            *)
Webs ==
  {[objects |-> {4, 5, 6, 7}, merged |-> {}, used |-> Virtual],
   [objects |-> {4, 5, 6, 7}, merged |-> {}, used |-> Virtual \ {6}],
   [objects |-> {4, 5, 6, 7}, merged |-> {6}, used |-> Virtual],
   [objects |-> {4, 5, 6}, merged |-> {}, used |-> Virtual]}

Passed(edges, merged) == {{4} \cup (e \ {m}) : e \in {d \in edges : d \cap merged # {}}, m \in merged}

Capture(edges, w, pinned) ==
  [snapshot |-> [neighbors |-> Graph({{5, 7}} \cup edges \cup Passed(edges, w.merged)),
                 parent |-> [r \in Reg |-> IF r \in w.merged THEN 4 ELSE r],
                 cost |-> [r \in Reg |-> 1], extra |-> [r \in Reg |-> 0],
                 active |-> Virtual \ w.merged],
   objects |-> w.objects, used |-> w.used, fixed |-> pinned, limit |-> 3,
   after |-> [r \in Reg |-> -1]]

MCCaptures == {Capture(edges, w, pinned) : edges \in SUBSET Pairs, w \in Webs, pinned \in Pinned}

MCQueries ==
  {[kind |-> kind, targets |-> t, max |-> max] :
     kind \in {"ranks", "order", "degree"}, max \in {6},
     t \in {(5 :> 0) @@ (7 :> 1), (5 :> 1) @@ (7 :> 0), (5 :> 3) @@ (7 :> 0), (5 :> 1) @@ (7 :> 3)}}
  \cup {[kind |-> "ranks", targets |-> (5 :> 1) @@ (7 :> 0), max |-> 2]}
================================================================================
