----------------------------- MODULE MCSmPower -----------------------------
(* The power management of the System Manager with a short message queue.  *)
EXTENDS SmPower
=============================================================================
