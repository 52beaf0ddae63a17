--------------------------- MODULE MCPublication ---------------------------
(***************************************************************************)
(* The instances of Publication that TLC explores.  Three invocations are  *)
(* enough, without overlap, for one to be killed, one to meet what it left *)
(* and one to replace the result; two are enough for every race.           *)
(***************************************************************************)
EXTENDS Publication, TLC

RunSymmetry == Permutations(Runs)
=============================================================================
