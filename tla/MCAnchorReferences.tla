------------------------- MODULE MCAnchorReferences -------------------------
(* Three slots and two resources: a default anchor, and two slots that are  *)
(* filled, named, emptied and filled again.                                 *)
EXTENDS AnchorReferences

CONSTANTS free, down, noOffer
=============================================================================
