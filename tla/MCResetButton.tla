---------------------------- MODULE MCResetButton ----------------------------
(* A tick stands for 10 ms: polling and debouncing are those of the code.   *)
(* The hold is some polls long, the double click leaves room for two levels *)
(* of more than the shortest length, and the window for a double click at   *)
(* its beginning, in its middle or too late.                                *)
EXTENDS ResetButton
=============================================================================
