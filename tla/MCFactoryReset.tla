---------------------------- MODULE MCFactoryReset ----------------------------
(* Three data sectors and three faults: a first, a middle and a last sector, *)
(* and a second fault during the recovery from the first.                    *)
EXTENDS FactoryReset
=============================================================================
