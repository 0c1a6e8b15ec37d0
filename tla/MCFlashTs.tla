----------------------------- MODULE MCFlashTs -----------------------------
(* Small instances of FlashTs for TLC.                                     *)
EXTENDS FlashTs

MCEntryLen == [v \in Values |-> IF v = "long" THEN 3 ELSE 2]
=============================================================================
