------------------------------- MODULE MCSmIr -------------------------------
(* A short ring and few presses for TLC.                                   *)
EXTENDS SmIr
=============================================================================
