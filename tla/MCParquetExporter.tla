------------------------- MODULE MCParquetExporter -------------------------
(***************************************************************************)
(* Two metric tables and two requests: one with rows for both tables, one  *)
(* with rows for the first alone.                                          *)
(***************************************************************************)
EXTENDS ParquetExporter, TLC

CONSTANTS gauge, sum, both, onlyGauge

MCTables   == {gauge, sum}
MCRequests == {both, onlyGauge}
MCKinds    == [r \in MCRequests |-> IF r = both THEN MCTables ELSE {gauge}]
=============================================================================
