---------------------------- MODULE MCBuzzerService ----------------------------
(* Two clients, the health-check task and the API task, and two resources. *)
EXTENDS BuzzerService

CONSTANTS healthCheck, api

MCClient == {healthCheck, api}
MCResource == {0, 1}
=============================================================================
