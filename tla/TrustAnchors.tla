----------------------------- MODULE TrustAnchors -----------------------------
(***************************************************************************)
(* The numbers of trust anchors, by which others refer to them, and the     *)
(* markers of the durable registers: shared by the trust store and by the   *)
(* references to its anchors.                                               *)
(***************************************************************************)
EXTENDS Naturals

CONSTANTS
  MaxPersisted,   \* TLS_TRUST_STORE_MAX_PERSISTED, the largest slot number
  Down, NoOffer   \* markers of the registers: no view, no offer

Id == 0 .. MaxPersisted
=============================================================================
