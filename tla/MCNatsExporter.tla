--------------------------- MODULE MCNatsExporter ---------------------------
(***************************************************************************)
(* Four messages, one of which cannot be marshalled; two may wait for an   *)
(* answer at a time, and each may be pushed twice.                         *)
(***************************************************************************)
EXTENDS NatsExporter
=============================================================================
