------------------------------ MODULE MCSmMsgQ ------------------------------
(* Small instances of SmMsgQ for TLC.                                      *)
EXTENDS SmMsgQ
=============================================================================
