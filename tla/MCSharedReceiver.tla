-------------------------- MODULE MCSharedReceiver --------------------------
(***************************************************************************)
(* The three signals and three configurations of them.                     *)
(***************************************************************************)
EXTENDS SharedReceiver, TLC

KindSymmetry == Permutations(Kinds)
=============================================================================
