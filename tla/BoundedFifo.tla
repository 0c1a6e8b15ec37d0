---------------------------- MODULE BoundedFifo ----------------------------
(***************************************************************************)
(* What a byte stream between two CPUs promises: at most Capacity bytes    *)
(* are under way, they arrive in the order in which they were put, each    *)
(* once and unchanged.                                                     *)
(***************************************************************************)
EXTENDS Integers, Sequences

CONSTANTS Chars, Capacity

VARIABLES q,      \* bytes put and not yet taken
          out     \* bytes taken so far

fifoVars == <<q, out>>

Init == q = <<>> /\ out = <<>>

Put(c) ==
  /\ Len(q) < Capacity
  /\ q' = Append(q, c)
  /\ UNCHANGED out

Get(n) ==
  /\ n \in 1 .. Len(q)
  /\ out' = out \o SubSeq(q, 1, n)
  /\ q' = SubSeq(q, n + 1, Len(q))

Next == (\E c \in Chars : Put(c)) \/ (\E n \in 1 .. Capacity : Get(n))

Spec == Init /\ [][Next]_fifoVars
=============================================================================
