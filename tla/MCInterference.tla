--------------------------- MODULE MCInterference ---------------------------
(***************************************************************************)
(* Interference on a loop of two blocks followed by an empty return block. *)
(* Two virtual registers, the registers r0 and r1 of the machine, r1 being *)
(* the result; the fourth operand and the ones after it are the fixed      *)
(* range.                                                                  *)
(***************************************************************************)
EXTENDS Interference, MCPCode

A == NPhys
B == NPhys + 1

Setters == { <<Ins(<<D(A)>>)>>, <<Ins(<<D(A), D(B)>>)>>,
             <<Ins(<<D(A)>>), Copy(B, A)>>,
             <<InsF(<<D(A)>>, {"OtherClassDefinition"}), Ins(<<D(0)>>)>> }

Steps == { <<Ins(<<D(B), U(A)>>), Ins(<<D(A), U(B)>>)>>,
           <<InsF(<<D(B), UD(A)>>, {"ImplicitUse", "GPRPairInterference"})>>,
           <<InsF(<<U(B), U(A)>>, {"ImplicitDefinition"})>>,
           <<Ins(<<D(0), U(A)>>), InsF(<<U(0), U(B)>>, {"SkipCodeMotion"})>>,
           <<Copy(B, A), Base1(<<D(A), U(B)>>)>>,
           <<Copy(B, A), InsF(<<U(A), U(A)>>, {"ObjectFlag2"})>>,
           <<Base0(<<UD(B)>>), Ins(<<D(A), U(0)>>)>>,
           <<InsF(<<U(1), D(0), U(A), U(B), UD(A)>>, {"GPRFixedRange"})>> }

Results == { <<Copy(1, A)>>, <<Ins(<<D(1), U(B), U(A)>>)>>, <<Ins(<<D(1)>>), Ins(<<D(0)>>)>> }

\* Successors and visiting order; in the last flow block 3 is not reached.
Flows == { <<<<{2}, {2, 3}, {4}, {}>>, <<1, 2, 3, 4>>>>,
           <<<<{2, 3}, {1, 3}, {4}, {}>>, <<1, 2, 3, 4>>>>,
           <<<<{2}, {1, 4}, {2, 4}, {}>>, <<1, 2, NoBlock, 4>>>> }

MCPrograms ==
    { [code |-> <<a, s, r, <<>>>>, succ |-> f[1], order |-> f[2],
       barrier |-> bar, ret |-> 4, cur |-> 4, results |-> <<1>>] :
        a \in Setters, s \in Steps, r \in Results, f \in Flows, bar \in {{}, {2}} }
=============================================================================
