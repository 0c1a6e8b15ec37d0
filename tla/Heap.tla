-------------------------------- MODULE Heap --------------------------------
(***************************************************************************)
(* What a memory manager promises: blocks that are in use lie in the arena *)
(* and do not overlap, freeing a block returns all of it, and a request is *)
(* refused only if no hole is large enough.                                *)
(***************************************************************************)
EXTENDS Integers

CONSTANTS TotalSize,      \* bytes of the arena
          Requests,       \* sizes that are asked for
          Unit            \* a block is a multiple of it

VARIABLES live,           \* blocks in use: [base, size]
          ret             \* the last request and what it returned: [size, base]

Refused == -1

\* What a request takes: the least multiple of Unit that holds it.
Needed(size) == ((size + Unit - 1) \div Unit) * Unit

Bytes(b) == b.base .. b.base + b.size - 1

\* A block of n bytes at base is a hole.
Hole(base, n) == /\ base >= 0 /\ base + n <= TotalSize
                 /\ \A b \in live : Bytes(b) \cap (base .. base + n - 1) = {}

Init == live = {} /\ ret = [size |-> 0, base |-> Refused]

Alloc(size) ==
  \E base \in 0 .. TotalSize - 1 :
    /\ size > 0 /\ Hole(base, Needed(size))
    /\ live' = live \cup {[base |-> base, size |-> Needed(size)]}
    /\ ret' = [size |-> size, base |-> base]

Refuse(size) ==
  /\ size <= 0 \/ \A base \in 0 .. TotalSize - 1 : ~Hole(base, Needed(size))
  /\ ret' = [size |-> size, base |-> Refused]
  /\ UNCHANGED live

Free(b) == live' = live \ {b} /\ UNCHANGED ret

\* The board restarts and nothing is in use.
Restart == live' = {} /\ ret' = [size |-> 0, base |-> Refused]

Next == \/ \E size \in Requests : Alloc(size) \/ Refuse(size)
        \/ \E b \in live : Free(b)
        \/ Restart

Spec == Init /\ [][Next]_<<live, ret>>
=============================================================================
