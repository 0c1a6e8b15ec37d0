--------------------------- MODULE MCConsoleRing ---------------------------
(* A ring of three bytes for TLC.                                          *)
EXTENDS ConsoleRing
=============================================================================
