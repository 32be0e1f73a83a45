----------------------------- MODULE MCTrustStore -----------------------------
(* Two slots and two certificates: the default slot, one slot that the old  *)
(* format has as well, and a certificate to replace the default.            *)
EXTENDS TrustStore

CONSTANTS root, other, vacant, down, noOffer

MCCertificate == {root, other}

(* Nothing is promised after a read that failed, so TLC stops there. *)
Promised == ~misread
=============================================================================
