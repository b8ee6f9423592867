------------------------------- MODULE MCCapture -------------------------------
(***************************************************************************)
(* Two functions; what the compiler does in each is one of a few budgets,  *)
(* each about one part of the capture.                                     *)
(***************************************************************************)
EXTENDS CaptureSession

MCObjects ==
  (1 :> [kind |-> 0, alias |-> 0, name |-> "first"]) @@
  (2 :> [kind |-> 6, alias |-> 3, name |-> ""]) @@
  (3 :> [kind |-> 2, alias |-> 0, name |-> "second"])
MCFunctionAt == <<1, 2>>
MCTargets == {[index |-> 0, name |-> ""], [index |-> 1, name |-> ""],
              [index |-> 2, name |-> ""], [index |-> 0, name |-> "second"]}
MCAllFunctions == {[index |-> 0, name |-> ""]}

Nothing == [temps |-> 0, objects |-> 0, emits |-> 0, clones |-> 0, others |-> 0, deletes |-> 0,
            motions |-> 0, selections |-> 0, locals |-> <<>>]

Local(o, register, size, alignment) ==
  [object |-> o, register |-> register, type |-> 1, size |-> size, alignment |-> alignment,
   info26 |-> register, info2e |-> 0]

MCBudgets ==
  {[Nothing EXCEPT !.emits = 2, !.clones = 1, !.others = 1, !.deletes = 1],
   [Nothing EXCEPT !.temps = 2, !.objects = 1, !.emits = 1],
   [Nothing EXCEPT !.selections = 3, !.temps = 1],
   [Nothing EXCEPT !.emits = 1, !.motions = 2],
   [Nothing EXCEPT !.locals = <<Local(1, 0, 1, 1), Local(2, 5, 4, 4), Local(3, 0, 4, 4)>>],
   [Nothing EXCEPT !.locals = <<Local(4, 0, 4, 4), Local(3, 0, 4, 4), Local(1, 0, 1, 1)>>]}
MCFew == {[Nothing EXCEPT !.temps = 1]}

MCGraphs ==
  {[neighbors |-> (1 :> {2}) @@ (2 :> {1, 3}) @@ (3 :> {2}),
    parents |-> (1 :> 1) @@ (2 :> 2) @@ (3 :> 3) @@ (4 :> 3),
    next |-> (1 :> 3) @@ (2 :> 0) @@ (3 :> 0), stack |-> 1]}
================================================================================
