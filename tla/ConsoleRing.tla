---------------------------- MODULE ConsoleRing ----------------------------
(***************************************************************************)
(* One direction of the USB console of U-Boot (mach-synaptics/drivers/     *)
(* usbconsole): a ring of bytes in memory shared with the CPU that serves  *)
(* the USB device.  Each side attaches to the ring, one pushes single      *)
(* bytes (usbconsole_putc), the other pops (usbconsole_getc).  There is no *)
(* lock: every access to a word the other side may change is a step.       *)
(***************************************************************************)
EXTENDS Integers, Sequences

CONSTANTS Size,       \* bytes of the ring; one of them stays free
          Chars,
          PopSizes,   \* max_size of the pops; usbconsole_getc asks for one byte
          Overlap,    \* whether both sides may create the ring at once
          Probes,     \* bound: attaches of a side; U-Boot probes twice
          MaxSent     \* bound: bytes pushed

ASSUME SizeAssumption == Size \in Nat /\ Size > 1
ASSUME CharsAssumption == Chars # {}
ASSUME PopAssumption == PopSizes \subseteq Nat \ {0}
ASSUME BoundAssumption == MaxSent \in Nat /\ Probes \in Nat /\ Overlap \in BOOLEAN

Sides == {"writer", "reader"}
Cells == 0 .. Size - 1
Words == 0 .. Size

VARIABLES
  magic, cur_rd, cur_wr, buffer_end,   \* ring_buffer_head_t
  data,
  apc, probed,          \* a side: how far ring_buffer_attach has come, its calls
  wpc, ch,              \* ring_buffer_push: next step, the byte
  rpc, rd, wr, taken,   \* ring_buffer_pop: next step, its copies, the bytes read
  sent, got             \* history: pushed, popped

attach == <<apc, probed>>
header == <<magic, cur_rd, cur_wr, buffer_end>>
push   == <<wpc, ch, sent>>
pop    == <<rpc, rd, wr, taken, got>>
vars   == <<header, data, attach, push, pop>>

\* The memory may hold anything but a header of an earlier run.
Init ==
  /\ magic = FALSE
  /\ cur_rd \in Words /\ cur_wr \in Words /\ buffer_end \in Words
  /\ data = [i \in Cells |-> CHOOSE c \in Chars : TRUE]
  /\ apc = [s \in Sides |-> "detached"] /\ probed = [s \in Sides |-> 0]
  /\ wpc = "idle" /\ ch = CHOOSE c \in Chars : TRUE
  /\ rpc = "idle" /\ rd = 0 /\ wr = 0 /\ taken = <<>>
  /\ sent = <<>> /\ got = <<>>

Attached(s) == apc[s] = "attached"

-----------------------------------------------------------------------------
(* ring_buffer_attach.  U-Boot probes its console twice, before and after  *)
(* it relocates itself, so an attached side may attach again.              *)

\* Mutant: the magic is not looked at.
AttachCheck_Always(s) ==
  /\ apc[s] \in {"detached", "attached"} /\ probed[s] < Probes
  /\ probed' = [probed EXCEPT ![s] = @ + 1]
  /\ s = "writer" => wpc = "idle"
  /\ s = "reader" => rpc = "idle"
  /\ Overlap \/ \A t \in Sides : apc[t] \in {"detached", "attached"}
  /\ apc' = [apc EXCEPT ![s] = "clear"]
  /\ UNCHANGED <<header, data, push, pop>>

AttachCheck(s) ==
  /\ apc[s] \in {"detached", "attached"} /\ probed[s] < Probes
  /\ probed' = [probed EXCEPT ![s] = @ + 1]
  /\ s = "writer" => wpc = "idle"
  /\ s = "reader" => rpc = "idle"
  /\ Overlap \/ \A t \in Sides : apc[t] \in {"detached", "attached"}
  /\ apc' = [apc EXCEPT ![s] = IF magic THEN "match" ELSE "clear"]
  /\ UNCHANGED <<header, data, push, pop>>

AttachClear(s) ==
  /\ apc[s] = "clear"
  /\ magic' = FALSE /\ cur_rd' = 0 /\ cur_wr' = 0 /\ buffer_end' = 0
  /\ apc' = [apc EXCEPT ![s] = "end"]
  /\ UNCHANGED <<probed, data, push, pop>>

AttachEnd(s) ==
  /\ apc[s] = "end"
  /\ buffer_end' = Size - 1
  /\ apc' = [apc EXCEPT ![s] = "magic"]
  /\ UNCHANGED <<probed, magic, cur_rd, cur_wr, data, push, pop>>

AttachMagic(s) ==
  /\ apc[s] = "magic"
  /\ magic' = TRUE
  /\ apc' = [apc EXCEPT ![s] = "attached"]
  /\ UNCHANGED <<probed, cur_rd, cur_wr, buffer_end, data, push, pop>>

\* A ring of another size is refused.
AttachMatch(s) ==
  /\ apc[s] = "match"
  /\ apc' = [apc EXCEPT ![s] = IF buffer_end # Size - 1 THEN "refused" ELSE "attached"]
  /\ UNCHANGED <<probed, header, data, push, pop>>

Attach(s) == AttachCheck(s) \/ AttachClear(s) \/ AttachEnd(s) \/ AttachMagic(s)
               \/ AttachMatch(s)

-----------------------------------------------------------------------------
(* ring_buffer_push with one byte.                                         *)

PushCall(c) ==
  /\ Attached("writer") /\ wpc = "idle" /\ Len(sent) < MaxSent
  /\ ch' = c /\ wpc' = "spin"
  /\ UNCHANGED <<header, data, attach, sent, pop>>

\* Mutant: the test for a full ring as an order.
PushSpin_Order ==
  /\ wpc = "spin"
  /\ wpc' = IF cur_wr + 1 >= cur_rd THEN "spin" ELSE "spin2"
  /\ UNCHANGED <<header, data, attach, ch, sent, pop>>

\* The first half of the test for a full ring.
PushSpin ==
  /\ wpc = "spin"
  /\ wpc' = IF cur_wr + 1 = cur_rd THEN "spin" ELSE "spin2"
  /\ UNCHANGED <<header, data, attach, ch, sent, pop>>

\* Mutant: the ring is not full when the writer is at its end.
PushSpin2_NoTest ==
  /\ wpc = "spin2"
  /\ wpc' = "copy"
  /\ UNCHANGED <<header, data, attach, ch, sent, pop>>

\* The second half reads cur_rd again.
PushSpin2 ==
  /\ wpc = "spin2"
  /\ wpc' = IF cur_rd = 0 /\ cur_wr = buffer_end THEN "spin" ELSE "copy"
  /\ UNCHANGED <<header, data, attach, ch, sent, pop>>

PushCopy ==
  /\ wpc = "copy"
  /\ data' = [data EXCEPT ![cur_wr] = ch]
  /\ wpc' = "publish"
  /\ UNCHANGED <<header, attach, ch, sent, pop>>

\* Mutant: the end of the ring is not noticed.
PushPublish_NoWrap ==
  /\ wpc = "publish"
  /\ cur_wr' = cur_wr + 1
  /\ sent' = Append(sent, ch)
  /\ wpc' = "idle"
  /\ UNCHANGED <<magic, cur_rd, buffer_end, data, attach, ch, pop>>

\* remaining > size, or the ring wraps.
PushPublish ==
  /\ wpc = "publish"
  /\ cur_wr' = IF buffer_end - cur_wr + 1 > 1 THEN cur_wr + 1 ELSE 0
  /\ sent' = Append(sent, ch)
  /\ wpc' = "idle"
  /\ UNCHANGED <<magic, cur_rd, buffer_end, data, attach, ch, pop>>

-----------------------------------------------------------------------------
(* ring_buffer_pop.                                                        *)

PopRead ==
  /\ Attached("reader") /\ rpc = "idle"
  /\ rd' = cur_rd
  /\ rpc' = "readwr"
  /\ UNCHANGED <<header, data, attach, push, wr, taken, got>>

PopReadWr ==
  /\ rpc = "readwr"
  /\ wr' = cur_wr
  /\ rpc' = IF rd = cur_wr THEN "idle" ELSE "copy"
  /\ UNCHANGED <<header, data, attach, push, rd, taken, got>>

\* How many bytes a pop of at most max_size takes.
Least(a, b) == IF a < b THEN a ELSE b
DataSize(max_size) ==
  IF rd < wr THEN Least(max_size, wr - rd)
             ELSE Least(max_size, buffer_end - rd + 1 + wr)

\* The cell n bytes after rd: the second memcpy starts at cell 0.
Cell(n) == IF rd + n > buffer_end THEN rd + n - buffer_end - 1 ELSE rd + n

PopCopy(max_size) ==
  /\ rpc = "copy"
  /\ taken' = [n \in 1 .. DataSize(max_size) |-> data[Cell(n - 1)]]
  /\ rpc' = "publish"
  /\ UNCHANGED <<header, data, attach, push, rd, wr, got>>

PopPublish ==
  /\ rpc = "publish"
  /\ cur_rd' = Cell(Len(taken))
  /\ got' = got \o taken
  /\ taken' = <<>>
  /\ rpc' = "idle"
  /\ UNCHANGED <<magic, cur_wr, buffer_end, data, attach, push, rd, wr>>

-----------------------------------------------------------------------------
Push == PushSpin \/ PushSpin2 \/ PushCopy \/ PushPublish
Pop  == PopRead \/ PopReadWr \/ (\E n \in PopSizes : PopCopy(n)) \/ PopPublish

Next == \/ \E s \in Sides : Attach(s)
        \/ \E c \in Chars : PushCall(c)
        \/ Push \/ Pop

\* Both sides get through attaching and a call they have begun; the reader
\* polls for ever.
Spec == /\ Init /\ [][Next]_vars
        /\ \A s \in Sides : WF_vars(~Attached(s) /\ Attach(s))
        /\ WF_vars(Push)
        /\ WF_vars(Pop)

-----------------------------------------------------------------------------
TypeOK ==
  /\ magic \in BOOLEAN
  /\ cur_rd \in Words /\ cur_wr \in Words /\ buffer_end \in Words
  /\ data \in [Cells -> Chars]
  /\ apc \in [Sides -> {"detached", "clear", "end", "magic", "match", "attached", "refused"}]
  /\ probed \in [Sides -> 0 .. Probes]
  /\ wpc \in {"idle", "spin", "spin2", "copy", "publish"} /\ ch \in Chars
  /\ rpc \in {"idle", "readwr", "copy", "publish"}
  /\ rd \in Words /\ wr \in Words
  /\ taken \in Seq(Chars) /\ sent \in Seq(Chars) /\ got \in Seq(Chars)

\* Bytes under way, as the two indices tell them.
Count == IF ~magic \/ buffer_end # Size - 1 THEN 0
         ELSE IF cur_rd <= cur_wr THEN cur_wr - cur_rd ELSE Size - cur_rd + cur_wr
Queue == [n \in 1 .. Count |-> data[(cur_rd + n - 1) % Size]]

Fifo == INSTANCE BoundedFifo WITH Capacity <- Size - 1, q <- Queue, out <- got

\* The shared ring is a bounded FIFO: whatever the two CPUs do between each
\* other's accesses, bytes come out of ring_buffer_pop in the order in which
\* ring_buffer_push took them, each once and unchanged, also when U-Boot
\* attaches to the ring again.
ImplementsFifo == Fifo!Spec

\* The cell ring_buffer_push writes is none of those the reader may be copying,
\* so neither memcpy can see half of the other's work.
CopiesApart ==
  (wpc = "copy" /\ rpc = "copy") =>
    \A max_size \in PopSizes : \A n \in 0 .. DataSize(max_size) - 1 : Cell(n) # cur_wr

\* A byte that usbconsole_putc is called with is popped in the end, and putc does
\* not spin for ever, as long as the other side keeps polling.
Called(n) == Len(sent) >= n \/ (Len(sent) = n - 1 /\ wpc # "idle")
EveryByteArrives == \A n \in 1 .. MaxSent : Called(n) ~> (Len(got) >= n)
=============================================================================
