---------------------------- MODULE MCLoopMotion ----------------------------
(***************************************************************************)
(* A loop of blocks 1 to 4 with an inner loop of blocks 3 and 4, and a     *)
(* second loop of blocks 6 and 7.  Blocks 0, 2 and 5 stand in front.       *)
(* Functions of the first kind are moved by loops; those of the second,    *)
(* over three objects, lie outside them and are only indexed.  The objects *)
(* are a static word, a local that no pointer reaches and a local          *)
(* structure.                                                              *)
(***************************************************************************)
EXTENDS LoopMotion, TLC

CONSTANTS outerLoop, innerLoop, secondLoop

MCShapes ==
  { [ root |-> outerLoop,
      child   |-> (outerLoop :> innerLoop @@ innerLoop :> NoNode @@ secondLoop :> NoNode),
      sibling |-> (outerLoop :> secondLoop @@ innerLoop :> NoNode @@ secondLoop :> NoNode),
      blocks  |-> (outerLoop :> <<1, 2, 3, 4>> @@ innerLoop :> <<3, 4>> @@ secondLoop :> <<6, 7>>),
      entry   |-> (outerLoop :> 1 @@ innerLoop :> 3 @@ secondLoop :> 6),
      front   |-> (outerLoop :> 0 @@ innerLoop :> 2 @@ secondLoop :> 5),
      always  |-> (outerLoop :> {1, 2} @@ innerLoop :> {3} @@ secondLoop :> {6, 7}),
      flag40  |-> {},
      succ |-> (0 :> <<1>> @@ 1 :> <<2, 5>> @@ 2 :> <<3>> @@ 3 :> <<4>> @@ 4 :> <<3, 1>>
                @@ 5 :> <<6>> @@ 6 :> <<7>> @@ 7 :> <<6>>),
      pred |-> (0 :> <<>> @@ 1 :> <<0, 4>> @@ 2 :> <<1>> @@ 3 :> <<2, 4>> @@ 4 :> <<3>>
                @@ 5 :> <<1>> @@ 6 :> <<5, 7>> @@ 7 :> <<6>>) ] }

MCObjects == {10, 20, 30}
Type(kind, size) == <<[kind |-> kind, size |-> size, subtype |-> 0, value10 |-> 0, value2e |-> 0]>>
MCInfo == 10 :> [kind |-> 0, addressed |-> FALSE, flags22 |-> FALSE, type |-> Type("scalar", 4)]
       @@ 20 :> [kind |-> 1, addressed |-> FALSE, flags22 |-> FALSE, type |-> Type("float", 8)]
       @@ 30 :> [kind |-> 1, addressed |-> FALSE, flags22 |-> FALSE, type |-> Type("struct", 8)]

MCStale == { [tree |-> Nothing, list |-> <<>>],
             [tree |-> (<<>> :> 20 @@ <<"right">> :> 30), list |-> <<30, 20>>] }

U(class, r) == [class |-> class, reg |-> r, use |-> TRUE, def |-> FALSE]
UD(class, r) == [class |-> class, reg |-> r, use |-> TRUE, def |-> TRUE]
D(class, r) == [class |-> class, reg |-> r, use |-> FALSE, def |-> TRUE]
Ins(operands, flags, access) ==
    [skip |-> FALSE, operands |-> operands, flags |-> flags, object |-> 10, access |-> access,
     opcode |-> "other", block |-> 0]
In(b, i) == [i EXCEPT !.block = b]

V == NPhys
W == NPhys + 1

Load   == Ins(<<D("GPR", V)>>, {"ImplicitUse"}, "word")
Store  == Ins(<<U("GPR", V)>>, {"ImplicitDefinition"}, "word")
Through == Ins(<<U("GPR", V), U("GPR", W)>>, {"ImplicitDefinition", "NullObjectMemory"}, "word")
Called == Ins(<<U("GPR", 0)>>, {"GPRFixedRange", "Call"}, "other")
Set    == Ins(<<D("GPR", W)>>, {}, "other")
SetTwo == Ins(<<D("GPR", V), D("GPR", W)>>, {}, "other")
Count89 == [Ins(<<D("GPR", V)>>, {}, "other") EXCEPT !.opcode = "op89"]
Skipped == [Set EXCEPT !.skip = TRUE]

Bodies == { <<Set, Store, Load>>, <<Store, Through, Load>>, <<Store, Store, Called>>,
            <<Set, SetTwo, Set>>, <<Set, Count89, Load>>, <<Skipped, Load, Store>>,
            <<Store, Called, Through>>, <<Set, Set, Store>>, <<Load, Skipped, Count89>> }

Moved == { <<In(b, f[1]), In(3, f[2]), In(4, f[3]), In(7, w)>> :
                   b \in {1, 2}, f \in Bodies, w \in {Set} }

Named(operands, flags, object, access) == [Ins(operands, flags, access) EXCEPT !.object = object]

Pool ==
    { Named(<<D("GPR", V)>>, {"ImplicitUse"}, 10, "word"),
      Named(<<U("GPR", V)>>, {"ImplicitDefinition"}, 10, "word"),
      Named(<<D("FPR", V)>>, {"ImplicitUse"}, 20, "double"),
      Named(<<U("FPR", V)>>, {"ImplicitDefinition"}, 30, "double"),
      [Named(<<U("GPR", V)>>, {"ImplicitDefinition"}, 30, "word") EXCEPT !.skip = TRUE],
      Named(<<U("GPR", V), U("GPR", W)>>, {"ImplicitDefinition", "NullObjectMemory"}, 10, "word"),
      Named(<<D("FPR", W), U("GPR", W)>>, {"ImplicitUse", "NullObjectMemory"}, 10, "double"),
      Named(<<U("GPR", 0), U("other", V)>>, {"GPRFixedRange"}, 10, "other"),
      Named(<<UD("VR", V), U("VR", V)>>, {}, 10, "other"),
      Named(<<D("FPR", V)>>, {}, 10, "other"),
      Named(<<D("GPR", V), D("GPR", W)>>, {}, 10, "other") }

Indexable == { <<In(0, a), In(0, b), In(5, c), In(5, d)>> : a, b \in Pool,
                 c \in { p \in Pool : p.object # 10 }, d \in { p \in Pool : p.operands[1].class = "VR" } }

MCFunctions == Moved \cup Indexable
=============================================================================
