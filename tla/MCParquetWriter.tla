-------------------------- MODULE MCParquetWriter --------------------------
(***************************************************************************)
(* A small signalWriter for TLC: three batches of one and two rows against *)
(* a limit of three, so that a file fills up exactly, overshoots, or stays *)
(* below the limit until it is old.                                        *)
(***************************************************************************)
EXTENDS ParquetWriter, TLC

CONSTANTS b1, b2, b3

MCBatches == {b1, b2, b3}
MCTwoBatches == {b1, b2}

MCNumRows == [b \in Batches |-> IF b = b1 THEN 1 ELSE 2]

PusherSymmetry == Permutations(Pushers)
=============================================================================
