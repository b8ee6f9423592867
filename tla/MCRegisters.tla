----------------------------- MODULE MCRegisters -----------------------------
(***************************************************************************)
(* Three objects on four physical registers per class, of which 2 and 3    *)
(* are handed out; temporaries of one class, rolled back above 5.          *)
(***************************************************************************)
EXTENDS Registers

CONSTANTS o1, o2, o3

MCScanFrom   == [c \in Class |-> 2]
MCSavedFloor == [c \in Class |-> 1]
MCMaxCounter == [c \in Class |-> IF c = "GPR" THEN NPhys + 3 ELSE NPhys]
MCReserved   == [c \in Class |-> IF c = "GPR" THEN {3} ELSE {}]

\* Each object in a list of its own or shared with another; some in two lists.
MCLists == { <<<<o1>>, <<o2>>, <<o3>>, <<>>>>,
             <<<<>>, <<o1>>, <<o2>>, <<o3>>>>,
             <<<<o1>>, <<>>, <<o1, o2>>, <<o3>>>>,
             <<<<o1>>, <<>>, <<>>, <<o2, o3>>>>,
             <<<<>>, <<>>, <<o3, o2, o1>>, <<>>>> }

MCInputs == [kind : { k \in [Object -> Kind] : k[o1] \in {"word", "wide", "vector"} },
             lists : MCLists, virtual : BOOLEAN]
=============================================================================
