--------------------------- MODULE MCNatsReceiver ---------------------------
(***************************************************************************)
(* Two collectors behind one durable consumer; a message that parses and   *)
(* one that does not.                                                      *)
(***************************************************************************)
EXTENDS NatsReceiver, TLC

ReceiverSymmetry == Permutations(Receivers)
=============================================================================
