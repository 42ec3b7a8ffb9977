---------------------------- MODULE MCPartNames ----------------------------
(***************************************************************************)
(* Two writers with the same directory, as in two exporters of a collector *)
(* that write the same table, through up to three processes.               *)
(***************************************************************************)
EXTENDS PartNames

CONSTANTS w1, w2

MCWriters == {w1, w2}
MCDir     == [w \in MCWriters |-> "traces"]
=============================================================================
