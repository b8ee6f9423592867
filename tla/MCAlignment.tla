------------------------------ MODULE MCAlignment ------------------------------
(***************************************************************************)
(* Three general-purpose webs and a floating-point one.  Captures of three *)
(* instructions with every choice of their uses; the second capture is an  *)
(* edit of the first under every renumbering.                              *)
(***************************************************************************)
EXTENDS WebAlignment, SequencesExt

A == <<1, 4>>
B == <<1, 5>>
C == <<1, 6>>
F == <<2, 4>>
Webs == {A, B, C, F}
R3 == <<1, 3>>

Operand(r, role) == [kind |-> "register", register |-> r, role |-> role]
Immediate(n) == [kind |-> "immediate", register |-> <<0, n>>, role |-> {}]

Instruction(index, opcode, creation, source, operands) ==
  [block |-> 1, index |-> index, opcode |-> opcode, creation |-> creation,
   source |-> source, clone |-> 7, operands |-> operands]

(* Two loads, of which one may be missing, and of which the first has no   *)
(* creation event and may be a clone of itself; a sum, the clone of the    *)
(* second.                                                                 *)
Code(u, cycle, loads) ==
  LET load(r) == IF r = A
                 THEN Instruction(0, "li", None, IF cycle THEN 1 ELSE None,
                                  <<Operand(A, {"definition"}), Immediate(1)>>)
                 ELSE Instruction(Cardinality(loads) - 1, "li", 9, None,
                                  <<Operand(B, {"definition"}), Immediate(1)>>)
      sum == Instruction(Cardinality(loads), "add", None, IF B \in loads THEN Cardinality(loads) ELSE None,
               <<Operand(C, {"definition"}), Operand(u[1], {"use", "last_use"}),
                 Operand(u[2], {"use"})>>)
  IN  (IF A \in loads THEN <<load(A)>> ELSE <<>>) \o (IF B \in loads THEN <<load(B)>> ELSE <<>>)
      \o <<sum>>

Node(r, p, attempt, neighbors) ==
  [register |-> r, phase |-> p, attempt |-> attempt, neighbors |-> neighbors,
   flags |-> IF r = B THEN 1 ELSE 0, spill_cost |-> IF r = C THEN 2 ELSE 0,
   is_coalesced |-> r = C, color_or_parent |-> 4]

Edges(dense) == [r \in Webs |-> CASE r = A -> {B} \cup (IF dense THEN {C} ELSE {})
                                 [] r = B -> {A, R3}
                                 [] r = C -> IF dense THEN {A} ELSE {}
                                 [] r = F -> {}]

(* The graph and the stack of the first attempt are not those of the last, *)
(* and not those of the other capture's first attempt either.              *)
Capture(u, cycle, loads, dense, first) ==
  LET registers == ({C, F, u[1], u[2]} \cap Webs) \cup loads
      last(r) == Node(r, "after", 1, Edges(dense)[r] \cap (registers \cup {R3}))
  IN  [code      |-> Code(u, cycle, loads),
       registers |-> registers,
       origins   |-> {o \in {[register |-> A, event |-> <<1, 2, None>>, object |-> <<3, 4>>],
                             [register |-> B, event |-> <<1, 2, 5>>, object |-> <<>>],
                             [register |-> F, event |-> <<1, None>>, object |-> <<>>]} :
                        o.register \in registers},
       nodes     |-> <<Node(C, "before", 0, {}), Node(C, "after", 0, first.neighbors)>>
                     \o SetToSeq({last(r) : r \in registers \ {F}}),
       simplify  |-> <<[register |-> C, phase |-> "before", attempt |-> 0, position |-> first.position],
                       [register |-> C, phase |-> "before", attempt |-> 1, position |-> 2]>>,
       initialLast |-> <<4, 3>>,
       windows   |-> <<[class |-> 1, phase |-> "after", first |-> 5, last |-> 6]>>]

Rename(capture, p) ==
  LET q(r) == IF r \in Webs THEN p[r] ELSE r
  IN  [capture EXCEPT
         !.code = [i \in DOMAIN @ |-> [@[i] EXCEPT !.operands =
                     [n \in DOMAIN @ |-> [@[n] EXCEPT !.register = q(@)]]]],
         !.registers = {q(r) : r \in @},
         !.origins = {[o EXCEPT !.register = q(@)] : o \in @},
         !.nodes = [n \in DOMAIN @ |->
                      [@[n] EXCEPT !.register = q(@), !.neighbors = {q(r) : r \in @}]],
         !.simplify = [n \in DOMAIN @ |-> [@[n] EXCEPT !.register = q(@)]]]

Renumberings ==
  {p \in [Webs -> Webs] : /\ \A r \in Webs : p[r][1] = r[1]
                         /\ {p[r] : r \in Webs} = Webs}

Spilled == [neighbors |-> {R3}, position |-> 1]
SpilledLater == [neighbors |-> {}, position |-> 3]

MCPairs ==
  {LET left  == Capture(u, cycle, loads[1], dense[1], Spilled)
       other == Capture(u, cycle, loads[2], dense[2], Spilled)
       right == Capture(u, cycle, loads[2], dense[2], SpilledLater)
   IN  [left |-> left, right |-> Rename(right, p),
        twins |-> IF left = other THEN {<<r, p[r]>> : r \in left.registers} ELSE {}] :
     u \in [1..2 -> {A, B, R3}], cycle \in BOOLEAN,
     loads \in [1..2 -> {{A}, {B}, {A, B}}], dense \in {<<TRUE, TRUE>>, <<TRUE, FALSE>>},
     p \in Renumberings}
================================================================================
