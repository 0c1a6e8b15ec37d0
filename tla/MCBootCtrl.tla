----------------------------- MODULE MCBootCtrl -----------------------------
(* The slot selection with the disturbances and image kinds of its runs.   *)
EXTENDS BootCtrl
=============================================================================
