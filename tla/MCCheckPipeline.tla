--------------------------- MODULE MCCheckPipeline ---------------------------
(* One slot, checked over and over; its server changes between two          *)
(* certificates, one inside and one outside the warning window of the       *)
(* earlier clock value.  Three failures meet a queue of two.                *)
EXTENDS CheckPipeline

MCCertificates == [s \in Slot |-> {3, 4}]
=============================================================================
