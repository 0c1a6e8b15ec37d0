------------------------------ MODULE MCSmCec ------------------------------
(* Small fifos and few retries for TLC.                                    *)
EXTENDS SmCec
=============================================================================
