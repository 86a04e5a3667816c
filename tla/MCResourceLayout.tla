-------------------------- MODULE MCResourceLayout --------------------------
(***************************************************************************)
(* TLC instance of ResourceLayout: a 3-bit machine word, so that offsets   *)
(* and lengths wrap, and resources of zero, one, five and UMax bytes.      *)
(***************************************************************************)
EXTENDS ResourceLayout

MCCapacities == {0, 1, 5, UMax}
=============================================================================
