-------------------------- MODULE OptimizerPipeline --------------------------
(***************************************************************************)
(* The order in which src/backend/COptimizer.c calls the passes of the     *)
(* global optimiser: which pass runs when is decided by flags that earlier *)
(* passes left behind, by options, and in one place by the dump switch.    *)
(* The passes themselves are external: a pass may report any result.       *)
(***************************************************************************)
EXTENDS Naturals, Sequences

CONSTANT Options   \* [level, level2 (gRunLevel2Pipeline), array, vector, dump]

ASSUME OptionsAssumption ==
    Options \subseteq [level : Nat, level2 : BOOLEAN, array : BOOLEAN,
                       vector : BOOLEAN, dump : BOOLEAN]

VARIABLES
    option,    \* the options of this compilation
    changed,   \* the g...Changed flags that the driver tests
    loops,     \* gCodeMotionTree_0058763c is not null
    pc,        \* the next call
    calls      \* history: the calls made, with the results they reported

driverVars == <<option, changed, loops, pc, calls>>

Flag == {"ValueNumbering", "CopyPropagation", "StrengthReduction",
         "LoopTransformations", "ConstantPropagation", "ArrayToRegister",
         "VectorArrayConversion"}

\* The passes that rewrite code, and the analyses.
\* (COpt_00521d10 is the loop pass between code motion and strength reduction).
Pass == Flag \cup {"AddPropagation", "LoadDeletion", "CodeMotion", "COpt_00521d10"}
Analysis == {"FindLoops", "BuildIndex", "Summarize"}

\* What is called at each point, and with which mode.
PassAt ==
    [ cse |-> <<"ValueNumbering", 1>>, cseCopy |-> <<"CopyPropagation", 1>>,
      cseAdd |-> <<"AddPropagation", 0>>,
      vn |-> <<"ValueNumbering", 0>>, copy |-> <<"CopyPropagation", 0>>,
      add |-> <<"AddPropagation", 0>>,
      motionIndex |-> <<"BuildIndex", 1>>, facts |-> <<"Summarize", 0>>,
      motion |-> <<"CodeMotion", 0>>, index0 |-> <<"BuildIndex", 0>>,
      hoist |-> <<"COpt_00521d10", 0>>,
      strength |-> <<"StrengthReduction", 0>>, strengthCopy |-> <<"CopyPropagation", 1>>,
      transform |-> <<"LoopTransformations", 0>>,
      transformCopy |-> <<"CopyPropagation", 1>>, transformAdd |-> <<"AddPropagation", 0>>,
      loopCopy |-> <<"CopyPropagation", 1>>,
      constant |-> <<"ConstantPropagation", 0>>, load |-> <<"LoadDeletion", 0>>,
      loadCopy |-> <<"CopyPropagation", 1>>, loadAdd |-> <<"AddPropagation", 0>>,
      array |-> <<"ArrayToRegister", 0>>, constant2 |-> <<"ConstantPropagation", 0>>,
      constant2Copy |-> <<"CopyPropagation", 1>>,
      vn2 |-> <<"ValueNumbering", 1>>, vn2Copy |-> <<"CopyPropagation", 1>>,
      vector |-> <<"VectorArrayConversion", 0>>,
      vectorCopy0 |-> <<"CopyPropagation", 0>>, vectorCopy1 |-> <<"CopyPropagation", 1>>,
      motionIndex2 |-> <<"BuildIndex", 1>>, facts2 |-> <<"Summarize", 0>>,
      motion2 |-> <<"CodeMotion", 0>>,
      vn3 |-> <<"ValueNumbering", 1>>, vn3Copy |-> <<"CopyPropagation", 1>> ]

Four == option.level = 4
-----------------------------------------------------------------------------
\* COptimizer_RunLoopPasses, its end: without a copy propagation that changed
\* something since the reset, there is one in mode 1.
LoopTail == IF changed'["CopyPropagation"] THEN "constant" ELSE "loopCopy"

\* COptimizer_Level3 and COptimizer_Level4 after the loop passes.
AfterConstant == IF changed'["ConstantPropagation"] THEN "load" ELSE "vn2"
AfterLoad == IF Four /\ changed'["ConstantPropagation"] THEN "loadCopy" ELSE "loadAdd"
AfterLoadAdd == IF Four /\ option.array THEN "array" ELSE "vn2"
AfterArray == IF changed'["ArrayToRegister"] /\ option.dump THEN "constant2" ELSE "vn2"
AfterSecondConstant ==
    IF changed'["ConstantPropagation"] THEN "constant2Copy" ELSE "vn2"

\* Level 3 ends here; level 4 converts vector arrays and looks for loops again.
AfterRenumbering ==
    IF ~Four THEN "done" ELSE IF option.vector THEN "vector" ELSE "loops2"

AfterVn2Skipping ==   \* mutant: no copies are propagated in level 3's last round
    IF changed'["ValueNumbering"] /\ Four THEN "vn2Copy" ELSE AfterRenumbering

AfterVn2 == IF changed'["ValueNumbering"] THEN "vn2Copy" ELSE AfterRenumbering
AfterVector == IF changed'["VectorArrayConversion"] THEN "vectorCopy0" ELSE "loops2"
AfterVn3 == IF changed'["ValueNumbering"] THEN "vn3Copy" ELSE "done"
AfterStrength == IF changed'["StrengthReduction"] THEN "strengthCopy" ELSE "transform"
AfterTransform == IF changed'["LoopTransformations"] THEN "transformCopy" ELSE LoopTail

AfterMotionAtOnce == "hoist"   \* mutant: the index of code motion is used on

\* The index is built again, without objects, for the pass that follows.
AfterMotion == "index0"

\* Where the driver goes on after the call at s.
After(s) ==
    CASE s = "cse" -> "cseCopy" [] s = "cseCopy" -> "cseAdd" [] s = "cseAdd" -> "done"
      [] s = "vn" -> "copy" [] s = "copy" -> "reset" [] s = "add" -> "loops"
      [] s = "motionIndex" -> "facts" [] s = "facts" -> "motion"
      [] s = "motion" -> AfterMotion [] s = "index0" -> "hoist" [] s = "hoist" -> "strength"
      [] s = "strength" -> AfterStrength [] s = "strengthCopy" -> "transform"
      [] s = "transform" -> AfterTransform [] s = "transformCopy" -> "transformAdd"
      [] s = "transformAdd" -> LoopTail [] s = "loopCopy" -> "constant"
      [] s = "constant" -> AfterConstant [] s = "load" -> AfterLoad
      [] s = "loadCopy" -> "loadAdd" [] s = "loadAdd" -> AfterLoadAdd
      [] s = "array" -> AfterArray [] s = "constant2" -> AfterSecondConstant
      [] s = "constant2Copy" -> "vn2" [] s = "vn2" -> AfterVn2
      [] s = "vn2Copy" -> AfterRenumbering
      [] s = "vector" -> AfterVector [] s = "vectorCopy0" -> "vectorCopy1"
      [] s = "vectorCopy1" -> "loops2"
      [] s = "motionIndex2" -> "facts2" [] s = "facts2" -> "motion2"
      [] s = "motion2" -> "vn3" [] s = "vn3" -> AfterVn3 [] s = "vn3Copy" -> "done"

\* COptimizer_Optimize
FirstCall(o) ==
    IF o.level = 2 \/ (o.level2 /\ o.level > 2) THEN "cse"
    ELSE IF o.level \in {3, 4} THEN "vn" ELSE "done"
-----------------------------------------------------------------------------
DriverInit ==
    /\ option \in Options
    /\ changed \in [Flag -> BOOLEAN]   \* left by the function before
    /\ loops = FALSE /\ pc = FirstCall(option) /\ calls = <<>>

\* A pass reports what it likes, in its own flag (external).
Call(s) ==
    \E result \in BOOLEAN :
        LET pass == PassAt[s][1] IN
        /\ pass \notin Flag => ~result
        /\ changed' = IF pass \in Flag THEN [changed EXCEPT ![pass] = result] ELSE changed
        /\ calls' = Append(calls, [pass |-> pass, mode |-> PassAt[s][2], changed |-> result])
        /\ pc' = After(s)
        /\ UNCHANGED <<option, loops>>

ForgetToReset ==   \* mutant: the result of the first copy propagation stays
    pc = "reset" /\ pc' = "add" /\ UNCHANGED <<option, changed, loops, calls>>

\* gCopyPropagationChanged = 0 before the loop passes.
ResetCopyFlag ==
    /\ pc = "reset" /\ pc' = "add"
    /\ changed' = [changed EXCEPT !["CopyPropagation"] = FALSE]
    /\ UNCHANGED <<option, loops, calls>>

\* COpt_00522990 (external) builds the tree of loops; without one the loop
\* passes are left out.
FindLoops ==
    /\ pc \in {"loops", "loops2"}
    /\ loops' \in BOOLEAN
    /\ calls' = Append(calls, [pass |-> "FindLoops", mode |-> 0, changed |-> FALSE])
    /\ UNCHANGED <<option, changed>>
    /\ pc' = CASE loops' /\ pc = "loops"   -> "motionIndex"
               [] loops' /\ pc = "loops2"  -> "motionIndex2"
               [] ~loops' /\ pc = "loops"  -> LoopTail
               [] ~loops' /\ pc = "loops2" -> "done"

Terminated == pc = "done" /\ UNCHANGED driverVars

DriverNext ==
    \/ \E s \in DOMAIN PassAt : pc = s /\ Call(s)
    \/ ResetCopyFlag \/ FindLoops \/ Terminated

DriverSpec == DriverInit /\ [][DriverNext]_driverVars
-----------------------------------------------------------------------------
Called == 1 .. Len(calls)

(***************************************************************************)
(* The driver is at a call it knows, every call is of a pass, and the loop *)
(* passes, which dereference the tree of loops, run only when there is one.*)
(***************************************************************************)
LoopPassAt == {"motionIndex", "facts", "motion", "index0", "hoist", "strength",
               "strengthCopy", "transform", "transformCopy", "transformAdd",
               "motionIndex2", "facts2", "motion2"}

DriverTypeOK ==
    /\ pc \in LoopPassAt => loops
    /\ option \in Options /\ changed \in [Flag -> BOOLEAN] /\ loops \in BOOLEAN
    /\ pc \in DOMAIN PassAt \cup {"reset", "loops", "loops2", "done"}
    /\ \A i \in Called : /\ calls[i].pass \in Pass \cup Analysis
                        /\ calls[i].mode \in 0 .. 1 /\ calls[i].changed \in BOOLEAN

(***************************************************************************)
(* A pass that leaves copies behind (renumbering, strength reduction, loop *)
(* transformations, vector conversion) and changed something is followed   *)
(* by a copy propagation before the driver returns, at every level.        *)
(***************************************************************************)
LeavesCopies == {"ValueNumbering", "StrengthReduction", "LoopTransformations",
                 "VectorArrayConversion"}

CopiesArePropagated ==
    pc = "done" =>
        \A i \in Called : calls[i].pass \in LeavesCopies /\ calls[i].changed =>
            \E j \in i + 1 .. Len(calls) : calls[j].pass = "CopyPropagation"

(***************************************************************************)
(* Code motion and the pass after it find an index of definitions and uses *)
(* in the mode they need, built after the last pass that rewrote code.     *)
(***************************************************************************)
NeedsIndex == [CodeMotion |-> 1, COpt_00521d10 |-> 0]

IndexIsFresh ==
    \A i \in Called : calls[i].pass \in DOMAIN NeedsIndex =>
        \E j \in 1 .. i - 1 :
            /\ calls[j].pass = "BuildIndex" /\ calls[j].mode = NeedsIndex[calls[i].pass]
            /\ \A k \in j + 1 .. i - 1 : calls[k].pass = "Summarize"

(***************************************************************************)
(* Constants are propagated only after a copy propagation in mode 1: the   *)
(* flag that lets the driver skip one is that of the loop passes, never of *)
(* the first round in mode 0 or of another function.                       *)
(***************************************************************************)
ConstantsAfterCopies ==
    \A i \in Called : calls[i].pass = "ConstantPropagation" =>
        \E j \in 1 .. i - 1 : calls[j].pass = "CopyPropagation" /\ calls[j].mode = 1

(***************************************************************************)
(* docs/PASS_PIPELINE.md:313-316 lists constant and copy propagation after *)
(* the array-to-register transformation of level 4: when it changed        *)
(* something, constants are propagated again.                              *)
(***************************************************************************)
ArrayChangesArePropagated ==
    pc = "done" =>
        \A i \in Called : calls[i].pass = "ArrayToRegister" /\ calls[i].changed =>
            \E j \in i + 1 .. Len(calls) : calls[j].pass = "ConstantPropagation"

(***************************************************************************)
(* No copies are left where a pass relies on there being none: neither at  *)
(* the end, nor before the constants of a loop are propagated.             *)
(***************************************************************************)
CopiesAreSettled == CopiesArePropagated /\ ConstantsAfterCopies
==============================================================================
