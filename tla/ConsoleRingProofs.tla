------------------------- MODULE ConsoleRingProofs -------------------------
(***************************************************************************)
(* Proof that the ring of the USB console is a bounded FIFO, for rings of  *)
(* any size, if the two sides do not create it at once.                    *)
(***************************************************************************)
EXTENDS ConsoleRing, SequenceTheorems, TLAPS

\* The two sides do not create the ring at the same time.
Apart == ~Overlap

\* From cell a to cell b, in the direction in which the ring is filled.
Dist(a, b) == IF a <= b THEN b - a ELSE Size - a + b

\* The cell of an index that has passed the end at most once.
At(i) == IF i < Size THEN i ELSE i - Size

LEMMA Wraps == \A i \in 0 .. 2 * Size - 1 : i % Size = At(i)
  BY SizeAssumption, SMTT(30) DEF At

\* Distances and steps along the ring.
LEMMA DistFacts ==
  ASSUME NEW a \in Cells, NEW b \in Cells
  PROVE  /\ Dist(a, b) \in 0 .. Size - 1
         /\ Dist(a, b) = 0 <=> a = b
         /\ At(a + Dist(a, b)) = b
         /\ Dist(a, b) = Size - 1 <=> (a = b + 1 \/ (a = 0 /\ b = Size - 1))
         /\ At(b + 1) \in Cells
         /\ Dist(a, b) < Size - 1 => Dist(a, At(b + 1)) = Dist(a, b) + 1
  BY SizeAssumption DEF Dist, At, Cells

LEMMA StepFacts ==
  ASSUME NEW a \in Cells, NEW b \in Cells, NEW k \in 0 .. Dist(a, b)
  PROVE  /\ k \in 0 .. Size - 1 /\ At(a + k) \in Cells
         /\ Dist(At(a + k), b) = Dist(a, b) - k
         /\ k < Dist(a, b) => At(a + k) # b
         /\ \A n \in 0 .. Dist(a, b) - k : At(At(a + k) + n) = At(a + (k + n))
  BY SizeAssumption DEF Dist, At, Cells

-----------------------------------------------------------------------------
(* The inductive invariant.                                                *)

Busy(s) == apc[s] \in {"clear", "end", "magic", "match"}

\* A header with the magic is complete, and one without it has been used by
\* nobody; one side at a time works on it, and not while it uses the ring.
AttachInv ==
  /\ \A s, t \in Sides : Busy(s) /\ Busy(t) => s = t
  /\ ~magic => /\ \A s \in Sides : apc[s] \in {"detached", "clear", "end", "magic"}
               /\ wpc = "idle" /\ rpc = "idle"
  /\ magic => /\ \A s \in Sides : apc[s] \in {"detached", "attached", "match"}
              /\ buffer_end = Size - 1 /\ cur_rd \in Cells /\ cur_wr \in Cells
  /\ \A s \in Sides : apc[s] \in {"end", "magic"} => cur_rd = 0 /\ cur_wr = 0
  /\ \A s \in Sides : apc[s] = "magic" => buffer_end = Size - 1
  /\ wpc # "idle" => Attached("writer")
  /\ rpc # "idle" => Attached("reader")

\* Room that the writer has found stays: the reader only makes more.  Each half
\* of the test for a full ring speaks of one place the writer may be at.
WriterInv ==
  /\ wpc = "spin2" => cur_wr + 1 # cur_rd
  /\ wpc \in {"copy", "publish"} => Dist(cur_rd, cur_wr) < Size - 1
  /\ wpc = "publish" => data[cur_wr] = ch

\* Bytes that the reader has found stay: the writer only makes more.
ReaderInv ==
  /\ rpc # "idle" => rd = cur_rd
  /\ rpc = "copy" => wr \in Cells /\ wr # rd /\ Dist(rd, wr) <= Dist(cur_rd, cur_wr)
  /\ rpc = "publish" => /\ Len(taken) \in 1 .. Dist(cur_rd, cur_wr)
                        /\ \A n \in 1 .. Len(taken) : taken[n] = data[At(cur_rd + n - 1)]

RingInv == TypeOK /\ AttachInv /\ WriterInv /\ ReaderInv

\* Initially nobody has attached.
LEMMA RingInit == Init => RingInv
  <1> SUFFICES ASSUME Init PROVE RingInv
    OBVIOUS
  <1>1. (CHOOSE c \in Chars : TRUE) \in Chars
    BY CharsAssumption
  <1>2. TypeOK
    BY <1>1, SizeAssumption, BoundAssumption DEF Init, TypeOK, Words, Cells, Sides
  <1>3. AttachInv /\ WriterInv /\ ReaderInv
    BY DEF Init, AttachInv, WriterInv, ReaderInv, Busy, Sides
  <1>4. QED  BY <1>2, <1>3 DEF RingInv

\* Attaching leaves the indices of a ring that is used alone.
LEMMA AttachKeeps ==
  ASSUME Apart, RingInv, NEW s \in Sides, Attach(s)
  PROVE  RingInv'
  <1> USE DEF RingInv
  <1>1. CASE AttachCheck(s)
    <2>1. TypeOK'
      BY <1>1, BoundAssumption DEF AttachCheck, TypeOK, header, push, pop
    <2>2. AttachInv'
      <3>1. \A t \in Sides : apc[t] \in {"detached", "attached"}
        BY <1>1 DEF AttachCheck, Apart
      <3>2. /\ apc'[s] = IF magic THEN "match" ELSE "clear"
            /\ \A t \in Sides \ {s} : apc'[t] = apc[t]
            /\ UNCHANGED <<magic, cur_rd, cur_wr, buffer_end, wpc, rpc>>
        BY <1>1 DEF AttachCheck, TypeOK, header, push, pop
      <3>3. wpc # "idle" => s # "writer"
        BY <1>1 DEF AttachCheck
      <3>4. rpc # "idle" => s # "reader"
        BY <1>1 DEF AttachCheck
      <3>5. QED  BY <3>1, <3>2, <3>3, <3>4 DEF AttachInv, Busy, Attached, Sides
    <2>3. WriterInv' /\ ReaderInv'
      BY <1>1 DEF AttachCheck, WriterInv, ReaderInv, header, push, pop
    <2>4. QED  BY <2>1, <2>2, <2>3
  <1>2. CASE AttachClear(s)
    <2>0. ~magic
      BY <1>2 DEF AttachClear, AttachInv
    <2>1. TypeOK'
      <3>1. magic' \in BOOLEAN
        BY <1>2 DEF AttachClear
      <3>2. QED  BY <1>2, <3>1, SizeAssumption DEF AttachClear, TypeOK, Words, push, pop
    <2>2. AttachInv'
      BY <1>2, <2>0 DEF AttachClear, AttachInv, Busy, Attached, TypeOK, push, pop, Sides
    <2>3. WriterInv' /\ ReaderInv'
      BY <1>2, <2>0 DEF AttachClear, WriterInv, ReaderInv, AttachInv, push, pop
    <2>4. QED  BY <2>1, <2>2, <2>3
  <1>3. CASE AttachEnd(s)
    <2>0. ~magic
      BY <1>3 DEF AttachEnd, AttachInv
    <2>1. TypeOK'
      BY <1>3, SizeAssumption DEF AttachEnd, TypeOK, Words, push, pop
    <2>2. AttachInv'
      BY <1>3, <2>0 DEF AttachEnd, AttachInv, Busy, Attached, TypeOK, push, pop, Sides
    <2>3. WriterInv' /\ ReaderInv'
      BY <1>3, <2>0 DEF AttachEnd, WriterInv, ReaderInv, AttachInv, push, pop
    <2>4. QED  BY <2>1, <2>2, <2>3
  <1>4. CASE AttachMagic(s)
    <2>0. ~magic
      BY <1>4 DEF AttachMagic, AttachInv
    <2>1. TypeOK'
      BY <1>4 DEF AttachMagic, TypeOK, push, pop
    <2>2. AttachInv'
      BY <1>4, <2>0, SizeAssumption DEF AttachMagic, AttachInv, Busy, Attached, TypeOK, push, pop,
         Sides, Cells
    <2>3. WriterInv' /\ ReaderInv'
      BY <1>4, <2>0 DEF AttachMagic, WriterInv, ReaderInv, AttachInv, push, pop
    <2>4. QED  BY <2>1, <2>2, <2>3
  <1>5. CASE AttachMatch(s)
    <2>1. TypeOK'
      BY <1>5 DEF AttachMatch, TypeOK, header, push, pop
    <2>2. AttachInv'
      BY <1>5 DEF AttachMatch, AttachInv, Busy, Attached, TypeOK, header, push, pop, Sides
    <2>3. WriterInv' /\ ReaderInv'
      BY <1>5 DEF AttachMatch, WriterInv, ReaderInv, header, push, pop
    <2>4. QED  BY <2>1, <2>2, <2>3
  <1>6. QED  BY <1>1, <1>2, <1>3, <1>4, <1>5 DEF Attach

\* A side that uses the ring has attached to one that is complete.
LEMMA Complete ==
  ASSUME RingInv, wpc # "idle" \/ rpc # "idle" \/ Attached("writer") \/ Attached("reader")
  PROVE  magic /\ buffer_end = Size - 1 /\ cur_rd \in Cells /\ cur_wr \in Cells
  BY DEF RingInv, AttachInv, Attached, Sides

LEMMA PushKeeps ==
  ASSUME RingInv, Push \/ \E c \in Chars : PushCall(c)
  PROVE  RingInv'
  <1> USE DEF RingInv
  <1>1. CASE \E c \in Chars : PushCall(c)
    <2>1. TypeOK'
      BY <1>1 DEF PushCall, TypeOK, header, attach, pop
    <2>2. AttachInv'
      BY <1>1 DEF PushCall, AttachInv, Busy, Attached, header, attach, pop, Sides
    <2>3. WriterInv' /\ ReaderInv'
      BY <1>1 DEF PushCall, WriterInv, ReaderInv, header, pop
    <2>4. QED  BY <2>1, <2>2, <2>3
  <1>2. CASE PushSpin \/ PushSpin2
    <2>1. TypeOK' /\ AttachInv'
      BY <1>2 DEF PushSpin, PushSpin2, TypeOK, AttachInv, Busy, Attached, header, attach, pop
    <2>2. ReaderInv'
      BY <1>2 DEF PushSpin, PushSpin2, ReaderInv, header, pop
    <2>3. WriterInv'
      <3>1. magic /\ buffer_end = Size - 1 /\ cur_rd \in Cells /\ cur_wr \in Cells
        BY <1>2, Complete DEF PushSpin, PushSpin2
      <3>2. CASE PushSpin
        BY <3>2 DEF PushSpin, WriterInv, header
      <3>3. CASE PushSpin2
        <4>1. wpc' = "copy" => Dist(cur_rd, cur_wr) < Size - 1
          BY <3>1, <3>3, DistFacts, SizeAssumption DEF PushSpin2, WriterInv
        <4>2. QED  BY <3>3, <4>1 DEF PushSpin2, WriterInv, header
      <3>4. QED  BY <1>2, <3>2, <3>3
    <2>4. QED  BY <2>1, <2>2, <2>3
  <1>3. CASE PushCopy
    <2>0. magic /\ buffer_end = Size - 1 /\ cur_rd \in Cells /\ cur_wr \in Cells
      BY <1>3, Complete DEF PushCopy
    <2>1. TypeOK' /\ AttachInv'
      BY <1>3 DEF PushCopy, TypeOK, AttachInv, Busy, Attached, header, attach, pop
    <2>2. ReaderInv'
      <3>1. \A n \in 1 .. Dist(cur_rd, cur_wr) : At(cur_rd + n - 1) # cur_wr
        BY <2>0, SizeAssumption DEF Dist, At, Cells
      <3>2. \A n \in 1 .. Dist(cur_rd, cur_wr) : data'[At(cur_rd + n - 1)] = data[At(cur_rd + n - 1)]
        BY <1>3, <3>1 DEF PushCopy, TypeOK
      <3>3. QED
        BY <1>3, <2>0, <3>2, DistFacts DEF PushCopy, ReaderInv, header, pop
    <2>3. WriterInv'
      BY <1>3, <2>0 DEF PushCopy, WriterInv, TypeOK, header
    <2>4. QED  BY <2>1, <2>2, <2>3
  <1>4. CASE PushPublish
    <2>0. magic /\ buffer_end = Size - 1 /\ cur_rd \in Cells /\ cur_wr \in Cells
      BY <1>4, Complete DEF PushPublish
    <2>1. cur_wr' = At(cur_wr + 1) /\ cur_wr' \in Cells
      BY <1>4, <2>0, SizeAssumption DEF PushPublish, At, Cells
    <2>2. Dist(cur_rd, cur_wr') = Dist(cur_rd, cur_wr) + 1 /\ Dist(cur_rd, cur_wr) \in 0 .. Size - 1
      <3>1. Dist(cur_rd, cur_wr) < Size - 1
        BY <1>4 DEF PushPublish, WriterInv
      <3>2. QED  BY <2>0, <2>1, <3>1, DistFacts
    <2>3. TypeOK'
      <3>1. cur_wr' \in Words
        BY <2>1, SizeAssumption DEF Cells, Words
      <3>2. sent' \in Seq(Chars)
        BY <1>4 DEF PushPublish, TypeOK
      <3>3. QED  BY <1>4, <3>1, <3>2 DEF PushPublish, TypeOK, attach, pop
    <2>4. AttachInv'
      BY <1>4, <2>0, <2>1 DEF PushPublish, AttachInv, Busy, Attached, attach, pop
    <2>5. ReaderInv' /\ WriterInv'
      <3>1. CASE rpc = "copy"
        <4>1. Dist(rd, wr) \in 0 .. Size - 1
          BY <2>0, <3>1, DistFacts DEF ReaderInv
        <4>2. QED  BY <1>4, <2>2, <3>1, <4>1, SizeAssumption DEF PushPublish, ReaderInv, WriterInv, pop
      <3>2. CASE rpc = "publish"
        BY <1>4, <2>2, <3>2, SizeAssumption DEF PushPublish, ReaderInv, WriterInv, pop
      <3>3. CASE rpc \notin {"copy", "publish"}
        BY <1>4, <3>3 DEF PushPublish, ReaderInv, WriterInv, pop
      <3>4. QED  BY <3>1, <3>2, <3>3
    <2>6. QED  BY <2>3, <2>4, <2>5
  <1>5. QED  BY <1>1, <1>2, <1>3, <1>4 DEF Push

\* How far a pop goes.
LEMMA PopFacts ==
  ASSUME RingInv, rpc = "copy", NEW max_size \in PopSizes
  PROVE  /\ DataSize(max_size) \in 1 .. Dist(cur_rd, cur_wr)
         /\ \A n \in 0 .. DataSize(max_size) - 1 : Cell(n) = At(cur_rd + n) /\ Cell(n) \in Cells
  <1>1. /\ magic /\ buffer_end = Size - 1 /\ cur_rd \in Cells /\ cur_wr \in Cells
        /\ rd = cur_rd /\ wr \in Cells /\ wr # rd /\ Dist(rd, wr) <= Dist(cur_rd, cur_wr)
    BY Complete DEF RingInv, ReaderInv
  <1>2. max_size \in Nat \ {0}
    BY PopAssumption
  <1>3. DataSize(max_size) \in 1 .. Dist(rd, wr)
    BY <1>1, <1>2, SizeAssumption DEF DataSize, Least, Dist, Cells
  <1>4. Dist(rd, wr) \in Nat /\ Dist(cur_rd, cur_wr) \in 0 .. Size - 1
    BY <1>1, DistFacts
  <1>5. \A n \in 0 .. Size - 1 : Cell(n) = At(cur_rd + n) /\ Cell(n) \in Cells
    BY <1>1, SizeAssumption DEF Cell, At, Cells
  <1>6. QED  BY <1>1, <1>3, <1>4, <1>5, SizeAssumption

LEMMA PopKeeps ==
  ASSUME RingInv, Pop
  PROVE  RingInv'
  <1> USE DEF RingInv
  <1>1. CASE PopRead
    <2>1. TypeOK'
      BY <1>1 DEF PopRead, TypeOK, header, attach, push
    <2>2. AttachInv'
      BY <1>1 DEF PopRead, AttachInv, Busy, Attached, header, attach, push, Sides
    <2>3. WriterInv' /\ ReaderInv'
      BY <1>1 DEF PopRead, WriterInv, ReaderInv, header, push
    <2>4. QED  BY <2>1, <2>2, <2>3
  <1>2. CASE PopReadWr
    <2>1. TypeOK' /\ AttachInv' /\ WriterInv'
      BY <1>2 DEF PopReadWr, TypeOK, AttachInv, WriterInv, Busy, Attached, header, attach, push
    <2>2. ReaderInv'
      BY <1>2, Complete, DistFacts DEF PopReadWr, ReaderInv, header
    <2>3. QED  BY <2>1, <2>2
  <1>3. CASE \E n \in PopSizes : PopCopy(n)
    <2>0. PICK k \in PopSizes : PopCopy(k)
      BY <1>3
    <2>1. /\ magic /\ buffer_end = Size - 1 /\ cur_rd \in Cells /\ cur_wr \in Cells
          /\ Dist(cur_rd, cur_wr) \in 0 .. Size - 1
      BY <2>0, Complete, DistFacts DEF PopCopy
    <2>2. /\ DataSize(k) \in 1 .. Dist(cur_rd, cur_wr)
          /\ \A n \in 0 .. DataSize(k) - 1 : Cell(n) = At(cur_rd + n) /\ Cell(n) \in Cells
      BY <2>0, PopFacts DEF PopCopy
    <2>3. DataSize(k) \in Nat /\ \A n \in 1 .. DataSize(k) : data[Cell(n - 1)] \in Chars
      <3>1. DataSize(k) \in Nat
        BY <2>1, <2>2
      <3>2. \A n \in 1 .. DataSize(k) : Cell(n - 1) \in Cells
        BY <2>2, <3>1
      <3>3. QED  BY <3>1, <3>2 DEF TypeOK
    <2>4. /\ taken' \in Seq(Chars) /\ Len(taken') = DataSize(k)
          /\ \A n \in 1 .. DataSize(k) : taken'[n] = data[At(cur_rd + n - 1)]
      BY <2>0, <2>1, <2>2, <2>3 DEF PopCopy
    <2>5. TypeOK' /\ AttachInv' /\ WriterInv'
      BY <2>0, <2>4 DEF PopCopy, TypeOK, AttachInv, WriterInv, Busy, Attached, header, attach, push
    <2>6. ReaderInv'
      BY <2>0, <2>2, <2>4 DEF PopCopy, ReaderInv, header
    <2>7. QED  BY <2>5, <2>6
  <1>4. CASE PopPublish
    <2>1. /\ magic /\ buffer_end = Size - 1 /\ cur_rd \in Cells /\ cur_wr \in Cells
          /\ Len(taken) \in 1 .. Dist(cur_rd, cur_wr) /\ rd = cur_rd
          /\ Dist(cur_rd, cur_wr) \in 0 .. Size - 1
      BY <1>4, Complete, DistFacts DEF PopPublish, ReaderInv
    <2>2. cur_rd' = At(cur_rd + Len(taken)) /\ cur_rd' \in Cells
      BY <1>4, <2>1, SizeAssumption DEF PopPublish, Cell, At, Cells
    <2>3. Dist(cur_rd', cur_wr) = Dist(cur_rd, cur_wr) - Len(taken)
      BY <2>1, <2>2, StepFacts
    <2>4. TypeOK'
      <3>1. got' \in Seq(Chars) /\ taken' \in Seq(Chars)
        BY <1>4 DEF PopPublish, TypeOK
      <3>2. cur_rd' \in Words
        BY <2>2, SizeAssumption DEF Cells, Words
      <3>3. QED  BY <1>4, <3>1, <3>2 DEF PopPublish, TypeOK, attach, push
    <2>5. AttachInv' /\ ReaderInv'
      BY <1>4, <2>1, <2>2 DEF PopPublish, AttachInv, ReaderInv, Busy, Attached, attach, push
    <2>6. WriterInv'
      <3>1. Dist(cur_rd', cur_wr) < Size - 1
        BY <2>1, <2>3
      <3>2. cur_wr + 1 # cur_rd'
        BY <2>1, <2>2, <3>1, DistFacts
      <3>3. QED  BY <1>4, <3>1, <3>2 DEF PopPublish, WriterInv, push
    <2>7. QED  BY <2>4, <2>5, <2>6
  <1>5. QED  BY <1>1, <1>2, <1>3, <1>4 DEF Pop

\* Every step keeps the invariant.
LEMMA RingStep ==
  ASSUME Apart
  PROVE  RingInv /\ [Next]_vars => RingInv'
  <1>1. RingInv /\ UNCHANGED vars => RingInv'
    BY DEF RingInv, TypeOK, AttachInv, WriterInv, ReaderInv, Busy, Attached, vars, header, attach,
           push, pop
  <1>2. QED
    BY <1>1, AttachKeeps, PushKeeps, PopKeeps DEF Next

\* The console keeps its types: no index leaves the ring (ring_buffer_push,
\* ring_buffer_pop).
THEOREM RingTypes ==
  ASSUME Apart
  PROVE  Spec => []TypeOK
  <1>1. RingInv => TypeOK
    BY DEF RingInv
  <1>2. QED
    BY <1>1, RingInit, RingStep, PTL DEF Spec

\* The byte that ring_buffer_push writes is none of those that ring_buffer_pop reads,
\* however the steps of the two CPUs fall.
THEOREM NoTornCopies ==
  ASSUME Apart
  PROVE  Spec => []CopiesApart
  <1>1. RingInv => CopiesApart
    <2> SUFFICES ASSUME RingInv, wpc = "copy", rpc = "copy", NEW max_size \in PopSizes,
                        NEW n \in 0 .. DataSize(max_size) - 1
                 PROVE  Cell(n) # cur_wr
      BY DEF CopiesApart
    <2>1. cur_rd \in Cells /\ cur_wr \in Cells
      BY Complete
    <2>2. DataSize(max_size) \in 1 .. Dist(cur_rd, cur_wr) /\ Cell(n) = At(cur_rd + n)
      BY PopFacts
    <2>3. Dist(cur_rd, cur_wr) \in 0 .. Size - 1
      BY <2>1, DistFacts
    <2>4. n \in 0 .. Dist(cur_rd, cur_wr) /\ n < Dist(cur_rd, cur_wr)
      BY <2>2, <2>3, SizeAssumption
    <2>5. At(cur_rd + n) # cur_wr
      BY <2>1, <2>4, StepFacts
    <2>6. QED  BY <2>2, <2>5
  <1>2. QED
    BY <1>1, RingInit, RingStep, PTL DEF Spec

-----------------------------------------------------------------------------
(* The refinement: Queue is what lies between the two indices.             *)

\* The queue of the abstract specification is a sequence of bytes.
QueueIs ==
  /\ Queue \in Seq(Chars) /\ Len(Queue) = Count /\ Count \in 0 .. Size - 1
  /\ \A n \in 1 .. Count : Queue[n] = data[At(cur_rd + n - 1)]
  /\ ~magic => Count = 0
  /\ magic => Count = Dist(cur_rd, cur_wr)

LEMMA QueueFacts == RingInv => QueueIs
  <1> SUFFICES ASSUME RingInv PROVE QueueIs
    OBVIOUS
  <1>1. /\ ~magic => Count = 0
        /\ magic => Count = Dist(cur_rd, cur_wr) /\ cur_rd \in Cells /\ cur_wr \in Cells
    BY DEF RingInv, AttachInv, Count, Dist
  <1>2. Count \in 0 .. Size - 1
    BY <1>1, DistFacts, SizeAssumption
  <1>3. \A n \in 1 .. Count : /\ (cur_rd + n - 1) % Size = At(cur_rd + n - 1)
                              /\ At(cur_rd + n - 1) \in Cells
    <2> SUFFICES ASSUME NEW n \in 1 .. Count
                 PROVE  /\ (cur_rd + n - 1) % Size = At(cur_rd + n - 1)
                        /\ At(cur_rd + n - 1) \in Cells
      OBVIOUS
    <2>1. cur_rd \in 0 .. Size - 1 /\ n \in 1 .. Size - 1
      BY <1>1, <1>2, SizeAssumption DEF Cells
    <2>2. cur_rd + n - 1 \in 0 .. 2 * Size - 1 /\ At(cur_rd + n - 1) \in Cells
      BY <2>1, SizeAssumption DEF At, Cells
    <2>3. QED  BY <2>2, Wraps
  <1>4. \A n \in 1 .. Count : data[(cur_rd + n - 1) % Size] \in Chars
    BY <1>3 DEF RingInv, TypeOK
  <1>5. Queue = [n \in 1 .. Count |-> data[(cur_rd + n - 1) % Size]]
    BY DEF Queue
  <1> HIDE DEF Queue, Count
  <1>6. Queue \in Seq(Chars) /\ Len(Queue) = Count
    BY <1>2, <1>4, <1>5
  <1>7. \A n \in 1 .. Count : Queue[n] = data[At(cur_rd + n - 1)]
    BY <1>3, <1>5
  <1>8. QED  BY <1>1, <1>2, <1>6, <1>7 DEF QueueIs

\* Two queues of the same bytes are the same.
LEMMA QueueSame ==
  ASSUME QueueIs, QueueIs', Count' = Count,
         \A n \in 1 .. Count : data'[At(cur_rd' + n - 1)] = data[At(cur_rd + n - 1)]
  PROVE  Queue' = Queue
  <1> HIDE DEF Queue, Count
  <1>1. Queue \in Seq(Chars) /\ Queue' \in Seq(Chars) /\ Len(Queue) = Count /\ Len(Queue') = Count
    BY DEF QueueIs
  <1>2. \A n \in 1 .. Count : Queue'[n] = Queue[n]
    BY DEF QueueIs
  <1>3. QED  BY <1>1, <1>2, SeqEqual


\* Publishing a byte puts it.
LEMMA PublishPuts ==
  ASSUME RingInv, QueueIs, QueueIs', PushPublish
  PROVE  \E c \in Chars : Fifo!Put(c)
  <1> HIDE DEF Queue, Count
  <1>1. magic /\ buffer_end = Size - 1 /\ cur_rd \in Cells /\ cur_wr \in Cells
    BY Complete DEF PushPublish
  <1>2. cur_wr' = At(cur_wr + 1) /\ cur_wr' \in Cells
    BY <1>1, SizeAssumption DEF PushPublish, At, Cells
  <1>3. Dist(cur_rd, cur_wr) < Size - 1 /\ data[cur_wr] = ch
    BY DEF PushPublish, RingInv, WriterInv
  <1>4. UNCHANGED <<magic, cur_rd, data, got>>
    BY DEF PushPublish, pop
  <1>5. Count = Dist(cur_rd, cur_wr) /\ Count' = Dist(cur_rd, cur_wr') /\ Count \in Nat
    BY <1>1, <1>4, SizeAssumption DEF QueueIs
  <1>6. Count' = Count + 1 /\ Count < Size - 1
    BY <1>1, <1>2, <1>3, <1>5, DistFacts
  <1>7. data[At(cur_rd + Count)] = ch
    BY <1>1, <1>3, <1>5, DistFacts
  <1>8. ch \in Chars
    BY DEF RingInv, TypeOK
  <1>9. /\ Queue \in Seq(Chars) /\ Queue' \in Seq(Chars)
        /\ Len(Queue) = Count /\ Len(Queue') = Count + 1
    BY <1>6 DEF QueueIs
  <1>10. \A n \in 1 .. Count + 1 : Queue'[n] = Append(Queue, ch)[n]
    <2>1. \A n \in 1 .. Count : Queue'[n] = Queue[n]
      BY <1>4, <1>5, <1>6 DEF QueueIs
    <2>2. Queue'[Count + 1] = ch
      <3>1. Count + 1 \in 1 .. Count' /\ cur_rd + (Count + 1) - 1 = cur_rd + Count
        BY <1>1, <1>5, <1>6, SizeAssumption DEF Cells
      <3>2. Queue'[Count + 1] = data[At(cur_rd + (Count + 1) - 1)]
        BY <1>4, <3>1 DEF QueueIs
      <3>3. QED  BY <1>7, <3>1, <3>2
    <2>3. QED  BY <1>5, <1>8, <1>9, <2>1, <2>2
  <1>11. Append(Queue, ch) \in Seq(Chars) /\ Len(Append(Queue, ch)) = Count + 1
    BY <1>8, <1>9
  <1>12. Queue' = Append(Queue, ch)
    BY <1>9, <1>10, <1>11, SeqEqual
  <1>13. Fifo!Put(ch)
    BY <1>4, <1>6, <1>9, <1>12 DEF Fifo!Put
  <1>14. QED  BY <1>8, <1>13

\* Publishing a pop gets what was copied.
LEMMA PublishGets ==
  ASSUME RingInv, QueueIs, QueueIs', PopPublish
  PROVE  \E n \in 1 .. Size - 1 : Fifo!Get(n)
  <1> HIDE DEF Queue, Count
  <1> DEFINE k == Len(taken)
  <1>1. /\ magic /\ buffer_end = Size - 1 /\ cur_rd \in Cells /\ cur_wr \in Cells /\ rd = cur_rd
        /\ k \in 1 .. Dist(cur_rd, cur_wr)
        /\ \A n \in 1 .. k : taken[n] = data[At(cur_rd + n - 1)]
    BY Complete DEF PopPublish, RingInv, ReaderInv
  <1>2. Dist(cur_rd, cur_wr) \in 0 .. Size - 1
    BY <1>1, DistFacts
  <1>3. UNCHANGED <<magic, cur_wr, data>> /\ got' = got \o taken
    BY DEF PopPublish
  <1>4. cur_rd' = At(cur_rd + k)
    BY <1>1, <1>2, SizeAssumption DEF PopPublish, Cell, At, Cells
  <1>5. Count = Dist(cur_rd, cur_wr) /\ Count' = Dist(cur_rd', cur_wr)
    BY <1>1, <1>3 DEF QueueIs
  <1>6. k \in 1 .. Count /\ k \in 1 .. Size - 1 /\ Count \in Nat /\ k \in 0 .. Dist(cur_rd, cur_wr)
    BY <1>1, <1>2, <1>5, SizeAssumption
  <1>7. Count' = Count - k
    BY <1>1, <1>4, <1>5, <1>6, StepFacts
  <1>8. /\ Queue \in Seq(Chars) /\ Queue' \in Seq(Chars) /\ taken \in Seq(Chars)
        /\ Len(Queue) = Count /\ Len(Queue') = Count - k
    BY <1>7 DEF QueueIs, RingInv, TypeOK
  <1> HIDE DEF k
  <1>9. SubSeq(Queue, 1, k) = taken
    <2>1. SubSeq(Queue, 1, k) \in Seq(Chars) /\ Len(SubSeq(Queue, 1, k)) = k
      BY <1>6, <1>8
    <2>2. \A n \in 1 .. k : SubSeq(Queue, 1, k)[n] = Queue[n]
      BY <1>6, <1>8
    <2>3. \A n \in 1 .. k : Queue[n] = taken[n]
      BY <1>1, <1>6 DEF QueueIs
    <2>4. QED  BY <1>8, <2>1, <2>2, <2>3, SeqEqual DEF k
  <1>10. SubSeq(Queue, k + 1, Len(Queue)) = Queue'
    <2> DEFINE r == SubSeq(Queue, k + 1, Len(Queue))
    <2>1. r \in Seq(Chars) /\ Len(r) = Count - k
      BY <1>6, <1>8
    <2>2. \A n \in 1 .. Count - k : r[n] = Queue[k + n]
      BY <1>6, <1>8
    <2>3. \A n \in 1 .. Count - k : Queue[k + n] = data[At(cur_rd + (k + (n - 1)))]
      <3> SUFFICES ASSUME NEW n \in 1 .. Count - k
                   PROVE  Queue[k + n] = data[At(cur_rd + (k + (n - 1)))]
        OBVIOUS
      <3>1. k + n \in 1 .. Count /\ cur_rd + (k + n) - 1 = cur_rd + (k + (n - 1))
        BY <1>1, <1>6, SizeAssumption DEF Cells
      <3>2. Queue[k + n] = data[At(cur_rd + (k + n) - 1)]
        BY <3>1 DEF QueueIs
      <3>3. QED  BY <3>1, <3>2
    <2>4. \A n \in 1 .. Count - k : Queue'[n] = data[At(cur_rd + (k + (n - 1)))]
      <3> SUFFICES ASSUME NEW n \in 1 .. Count - k
                   PROVE  Queue'[n] = data[At(cur_rd + (k + (n - 1)))]
        OBVIOUS
      <3>1. Queue'[n] = data[At(cur_rd' + n - 1)]
        BY <1>3, <1>7 DEF QueueIs
      <3>2. n - 1 \in 0 .. Dist(cur_rd, cur_wr) - k
        BY <1>5, <1>6
      <3>3. At(At(cur_rd + k) + (n - 1)) = At(cur_rd + (k + (n - 1))) /\ At(cur_rd + k) \in Cells
        BY <1>1, <1>6, <3>2, StepFacts
      <3>4. cur_rd' + n - 1 = At(cur_rd + k) + (n - 1)
        BY <1>4, <1>6, <3>3, SizeAssumption DEF Cells
      <3>5. QED  BY <3>1, <3>3, <3>4
    <2>5. \A n \in 1 .. Count - k : r[n] = Queue'[n]
      BY <2>2, <2>3, <2>4
    <2> HIDE DEF r
    <2>6. r = Queue'
      BY <1>8, <2>1, <2>5, SeqEqual
    <2>7. QED  BY <2>6 DEF r
  <1>11. Fifo!Get(k)
    BY <1>3, <1>6, <1>8, <1>9, <1>10 DEF Fifo!Get
  <1>12. QED  BY <1>6, <1>11

\* Every step of the ring is a step of the FIFO, or none.
LEMMA RefineStep ==
  ASSUME RingInv, RingInv', [Next]_vars
  PROVE  [Fifo!Next]_(Fifo!fifoVars)
  <1>1. QueueIs /\ QueueIs'
    BY QueueFacts, PTL
  <1>2. CASE UNCHANGED <<header, data, got>>
    BY <1>2 DEF Fifo!fifoVars, Queue, Count, header
  <1>3. CASE \E s \in Sides : AttachClear(s) \/ AttachEnd(s) \/ AttachMagic(s)
    <2> HIDE DEF Queue, Count
    <2>1. PICK s \in Sides : AttachClear(s) \/ AttachEnd(s) \/ AttachMagic(s)
      BY <1>3
    <2>2. ~magic
      BY <2>1 DEF AttachClear, AttachEnd, AttachMagic, RingInv, AttachInv
    <2>3. ~magic' \/ (cur_rd' = 0 /\ cur_wr' = 0)
      BY <2>1, <2>2 DEF AttachClear, AttachEnd, AttachMagic, RingInv, AttachInv
    <2>4. Count = 0 /\ Count' = 0
      BY <1>1, <2>2, <2>3 DEF QueueIs, Dist
    <2>5. Queue' = Queue
      BY <1>1, <2>4, QueueSame
    <2>6. UNCHANGED got
      BY <2>1 DEF AttachClear, AttachEnd, AttachMagic, pop
    <2>7. QED  BY <2>5, <2>6 DEF Fifo!fifoVars
  <1>4. CASE PushCopy
    <2> HIDE DEF Queue, Count
    <2>1. magic /\ buffer_end = Size - 1 /\ cur_rd \in Cells /\ cur_wr \in Cells
      BY <1>4, Complete DEF PushCopy
    <2>2. UNCHANGED <<magic, cur_rd, cur_wr, got>> /\ data' = [data EXCEPT ![cur_wr] = ch]
      BY <1>4 DEF PushCopy, header, pop
    <2>3. Count = Dist(cur_rd, cur_wr) /\ Count' = Count
      BY <1>1, <2>1, <2>2 DEF QueueIs
    <2>4. \A n \in 1 .. Dist(cur_rd, cur_wr) : At(cur_rd + n - 1) # cur_wr
      BY <2>1, SizeAssumption DEF Dist, At, Cells
    <2>5. \A n \in 1 .. Count : data'[At(cur_rd' + n - 1)] = data[At(cur_rd + n - 1)]
      BY <2>2, <2>3, <2>4 DEF RingInv, TypeOK
    <2>6. QED  BY <1>1, <2>2, <2>3, <2>5, QueueSame DEF Fifo!fifoVars
  <1>5. CASE PushPublish
    BY <1>1, <1>5, PublishPuts DEF Fifo!Next
  <1>6. CASE PopPublish
    BY <1>1, <1>6, PublishGets DEF Fifo!Next
  <1>7. \/ UNCHANGED <<header, data, got>>
        \/ \E s \in Sides : AttachClear(s) \/ AttachEnd(s) \/ AttachMagic(s)
        \/ PushCopy \/ PushPublish \/ PopPublish
    BY DEF Next, vars, header, pop, Attach, AttachCheck, AttachMatch, PushCall, Push, PushSpin,
           PushSpin2, Pop, PopRead, PopReadWr, PopCopy
  <1>8. QED  BY <1>2, <1>3, <1>4, <1>5, <1>6, <1>7

\* The shared ring (ring_buffer_push, ring_buffer_pop, ring_buffer_attach) is a
\* bounded FIFO of Size - 1 bytes, for rings of any size and whatever the two CPUs do
\* between each other's accesses, if they do not create the ring at once.
THEOREM RingIsFifo ==
  ASSUME Apart
  PROVE  Spec => ImplementsFifo
  <1>1. Init => Fifo!Init
    <2> SUFFICES ASSUME Init PROVE Fifo!Init
      OBVIOUS
    <2> HIDE DEF Queue, Count
    <2>1. QueueIs /\ ~magic
      BY RingInit, QueueFacts DEF Init
    <2>2. Queue \in Seq(Chars) /\ Len(Queue) = 0
      BY <2>1 DEF QueueIs
    <2>3. Queue = <<>>
      BY <2>2, EmptySeq
    <2>4. QED  BY <2>3 DEF Init, Fifo!Init
  <1>2. RingInv /\ RingInv' /\ [Next]_vars => [Fifo!Next]_(Fifo!fifoVars)
    BY RefineStep
  <1>3. QED
    BY <1>1, <1>2, RingInit, RingStep, PTL DEF Spec, ImplementsFifo, Fifo!Spec
=============================================================================
