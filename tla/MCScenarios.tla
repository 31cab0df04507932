---------------------------- MODULE MCScenarios ----------------------------
(***************************************************************************)
(* Every scenario of the runner, with three failing commands, and with or  *)
(* without the option to retain the copied data.                           *)
(***************************************************************************)
EXTENDS ValidationScenarios

MCScenarios == Frames
=============================================================================
