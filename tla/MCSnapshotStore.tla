--------------------------- MODULE MCSnapshotStore ---------------------------
(***************************************************************************)
(* Instances of the A/B store for TLC: three contents, two contents of the  *)
(* previous format.                                                         *)
(***************************************************************************)
EXTENDS SnapshotStore

CONSTANTS c1, c2, c3, old1, old2

MCContent == {c1, c2, c3}
MCLegacyContent == {old1, old2}
MCMigrated == [c \in MCLegacyContent |-> IF c = old1 THEN c2 ELSE c3]
MCNoLegacy == {}
MCNoMigration == [c \in {} |-> c1]
=============================================================================
