------------------------------- MODULE MCMmgr -------------------------------
(* A small arena for TLC.                                                  *)
EXTENDS Mmgr
=============================================================================
