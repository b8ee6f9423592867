------------------------- MODULE MCOptimizerPipeline -------------------------
(***************************************************************************)
(* Every level from 0 to 4 with every combination of the options.          *)
(***************************************************************************)
EXTENDS OptimizerPipeline

MCOptions == [level : 0 .. 4, level2 : BOOLEAN, array : BOOLEAN, vector : BOOLEAN,
              dump : BOOLEAN]
=============================================================================
