--------------------------- MODULE MCHealthCheckLog ---------------------------
(* The log with three slots a sector: enough for a torn slot between two    *)
(* records, and for the ring to go round.                                   *)
EXTENDS HealthCheckLog
=============================================================================
