------------------------------ MODULE MCNetwork ------------------------------
(* Rings of two, so that a frame may take a whole ring and both indices     *)
(* wrap; one buffer more than the receive ring holds, so that the pool runs *)
(* empty and fills again.                                                   *)
EXTENDS Network
=============================================================================
