--------------------------- MODULE FlashTsProofs ---------------------------
(***************************************************************************)
(* Proofs about FlashTs, for every geometry, every set of keys and values  *)
(* and every bound.                                                        *)
(***************************************************************************)
EXTENDS FlashTs, WellFoundedInduction, TLAPS

-----------------------------------------------------------------------------
(* Type correctness.                                                       *)

TypeInv ==
  /\ TypeOK
  /\ off[1] = NB => off[2] = 0
  /\ pc \in {"write", "verify"} => iter > 0
  /\ pc \in {"write", "verify", "eraseprev"} => off[1] < NB

LEMMA NoDataType == NoData \in Data
BY DEF NoData, Data

LEMMA ChunkTypes == Blank \in ChunkType /\ Torn \in ChunkType /\ Empty \in ChunkType
BY NoDataType, BoundsAssumption DEF Blank, Torn, Empty, Record, ChunkType

LEMMA LastChunkType == LastChunk \in Addr
BY GeometryAssumption DEF LastChunk, Addr, Blocks, Chunks

\* Addresses in scan order are well founded.
LEMMA FirstInScanOrder ==
  ASSUME NEW T, T \subseteq Addr, T # {}
  PROVE  \E a \in T : \A b \in T : ScanBefore(a, b)
<1> DEFINE R == OpToRel(<, Nat)
<1>1. IsWellFoundedOn(LexPairOrdering(R, R, Nat, Nat), Nat \X Nat)
  BY NatLessThanWellFounded, WFLexPairOrdering
<1>2. T \subseteq Nat \X Nat
  BY DEF Addr, Blocks, Chunks
<1>3. PICK a \in T : \A b \in T : ~(<<b, a>> \in LexPairOrdering(R, R, Nat, Nat))
  BY <1>1, <1>2, WFMin
<1>4. ASSUME NEW b \in T PROVE ScanBefore(a, b)
  <2>1. ~(<<b, a>> \in LexPairOrdering(R, R, Nat, Nat))
    BY <1>3
  <2>2. /\ a \in Nat \X Nat /\ b \in Nat \X Nat
        /\ a[1] \in Nat /\ a[2] \in Nat /\ b[1] \in Nat /\ b[2] \in Nat
    BY <1>2
  <2>3. ~(b[1] < a[1]) /\ ~(b[1] = a[1] /\ b[2] < a[2])
    BY <2>1, <2>2 DEF LexPairOrdering, OpToRel
  <2> QED BY <2>2, <2>3 DEF ScanBefore
<1> QED BY <1>4

\* A non-empty bounded set of numbers has a largest element.
LEMMA LargestElement ==
  ASSUME NEW n \in Nat, NEW T, T \subseteq 0 .. n, T # {}
  PROVE  \E m \in T : \A k \in T : k <= m
<1> DEFINE U == {n - k : k \in T}
<1>1. U \subseteq Nat /\ U # {}
  <2>1. \A k \in T : n - k \in Nat
    OBVIOUS
  <2>2. PICK t \in T : TRUE
    OBVIOUS
  <2>3. n - t \in U
    BY <2>2
  <2> QED BY <2>1, <2>3
<1>2. PICK u \in U : \A w \in U : ~(<<w, u>> \in OpToRel(<, Nat))
  BY <1>1, NatLessThanWellFounded, WFMin
<1>3. PICK m \in T : u = n - m
  OBVIOUS
<1>4. ASSUME NEW k \in T PROVE k <= m
  <2>1. n - k \in U /\ n - k \in Nat /\ u \in Nat
    BY <1>1
  <2>2. ~(n - k < u)
    BY <1>2, <2>1 DEF OpToRel
  <2> QED BY <1>3, <2>2
<1> QED BY <1>4

\* The scan finds a record whenever there is one to find.
LEMMA PickExists ==
  ASSUME NEW f \in [Addr -> ChunkType], Found(f) # {}
  PROVE  \E a \in Addr : IsPick(f, a)
<1> DEFINE V == {f[a].ver : a \in Found(f)}
           T(m) == {a \in Found(f) : f[a].ver = m}
<1>1. V \subseteq 0 .. MaxVersion /\ V # {} /\ Found(f) \subseteq Addr
  BY DEF Found, ChunkType
<1>2. PICK m \in V : \A k \in V : k <= m
  BY <1>1, LargestElement, BoundsAssumption
<1>3. T(m) \subseteq Addr /\ T(m) # {}
  BY <1>1
<1>4. PICK a \in T(m) : \A b \in T(m) : ScanBefore(a, b)
  BY <1>3, FirstInScanOrder
<1>5. ASSUME NEW b \in Found(f)
      PROVE  \/ f[b].ver < f[a].ver
             \/ f[b].ver = f[a].ver /\ ScanBefore(a, b)
  <2>1. f[b].ver <= m /\ f[b].ver \in Nat /\ m \in Nat /\ f[a].ver = m
    BY <1>1, <1>2, <1>4
  <2> QED BY <2>1, <1>4
<1> QED BY <1>3, <1>5 DEF IsPick

LEMMA ScanType ==
  ASSUME NEW f \in [Addr -> ChunkType]
  PROVE  /\ ScanOffset(f) \in Addr
         /\ ScanCache(f) \in ChunkType
         /\ Found(f) # {} => IsPick(f, ScanOffset(f))
<1>1. CASE Found(f) = {}
  BY <1>1, LastChunkType, ChunkTypes DEF ScanOffset, ScanCache
<1>2. CASE Found(f) # {}
  <2>1. ScanOffset(f) \in Addr /\ IsPick(f, ScanOffset(f))
    BY <1>2, PickExists DEF ScanOffset
  <2> QED BY <1>2, <2>1 DEF ScanCache
<1> QED BY <1>1, <1>2

LEMMA MisreadType ==
  ASSUME NEW f \in [Addr -> ChunkType], NEW g \in Misread(f)
  PROVE  g \in [Addr -> ChunkType]
BY ChunkTypes DEF Misread

LEMMA PartErasedFacts ==
  ASSUME NEW f \in [Addr -> ChunkType], NEW b, NEW g \in PartErased(f, b)
  PROVE  /\ g \in [Addr -> ChunkType]
         /\ \A a \in Addr : g[a] = f[a] \/ (a[1] = b /\ g[a] \in {Blank, Torn})
BY ChunkTypes DEF PartErased

LEMMA ErasedFacts ==
  ASSUME NEW f \in [Addr -> ChunkType], NEW b
  PROVE  /\ Erased(f, b) \in [Addr -> ChunkType]
         /\ \A a \in Addr : Erased(f, b)[a] = IF a[1] = b THEN Blank ELSE f[a]
BY ChunkTypes DEF Erased

LEMMA PartWrittenFacts ==
  ASSUME NEW f \in [Addr -> ChunkType], NEW a \in Addr, NEW r \in ChunkType,
         NEW g \in PartWritten(f, a, r)
  PROVE  /\ g \in [Addr -> ChunkType]
         /\ \A b \in Addr : b # a => g[b] = f[b]
         /\ g[a] \in {f[a], Torn, r}
BY ChunkTypes DEF PartWritten

LEMMA AddrFacts ==
  ASSUME TypeOK
  PROVE  /\ Wrap(off) \in Addr
         /\ Wrap(off)[1] \in Blocks /\ Wrap(off)[2] \in Chunks
         /\ NextBlock(Wrap(off)) \in (0 .. NB) \X Chunks
         /\ NextBlock(Wrap(off))[2] = 0
         /\ NextChunk(offset) \in (0 .. NB) \X Chunks
         /\ NextChunk(offset)[1] = NB => NextChunk(offset)[2] = 0
         /\ off[1] < NB => off \in Addr
<1> USE GeometryAssumption DEF TypeOK, Addr, Blocks, Chunks
<1>1. /\ off[1] \in 0 .. NB /\ off[2] \in 0 .. CPB - 1 /\ off = <<off[1], off[2]>>
      /\ offset[1] \in 0 .. NB - 1 /\ offset[2] \in 0 .. CPB - 1
  OBVIOUS
<1>2. /\ Wrap(off) \in Addr
      /\ Wrap(off)[1] \in Blocks /\ Wrap(off)[2] \in Chunks
  BY <1>1 DEF Wrap
<1>3. NextBlock(Wrap(off)) \in (0 .. NB) \X Chunks /\ NextBlock(Wrap(off))[2] = 0
  BY <1>2 DEF NextBlock
<1>4. /\ NextChunk(offset) \in (0 .. NB) \X Chunks
      /\ NextChunk(offset)[1] = NB => NextChunk(offset)[2] = 0
  BY <1>1 DEF NextChunk
<1> QED BY <1>1, <1>2, <1>3, <1>4

LEMMA TypeInit == Init => TypeInv
BY ChunkTypes, LastChunkType, GeometryAssumption
   DEF Init, TypeInv, TypeOK, MaxIterations, LastChunk, Addr, Blocks, Chunks

LEMMA TypeStep == TypeInv /\ [Next]_vars => TypeInv'
<1> SUFFICES ASSUME TypeInv, [Next]_vars PROVE TypeInv'
  OBVIOUS
<1> USE DEF TypeInv
<1>1. CASE flash_ts_init
  <2>1. \A f \in Misread(flash) : ScanOffset(f) \in Addr /\ ScanCache(f) \in ChunkType
    BY MisreadType, ScanType DEF TypeOK
  <2> QED BY <1>1, <2>1 DEF flash_ts_init, TypeOK
<1>2. ASSUME NEW k \in Keys, NEW v \in Values \cup {NoValue}, flash_ts_set(k, v)
      PROVE  TypeInv'
  <2> DEFINE new == [cache.data EXCEPT ![k] = v]
  <2>1. cache.data \in Data /\ cache.ver \in 0 .. MaxVersion
    BY DEF TypeOK, ChunkType
  <2>2. new \in Data
    BY <2>1 DEF Data
  <2>3. cache.ver < MaxVersion => Record(cache.ver + 1, new) \in ChunkType
    BY <2>1, <2>2, BoundsAssumption DEF Record, ChunkType
  <2>4. MaxIterations \in 0 .. MaxIterations
    BY GeometryAssumption DEF MaxIterations
  <2>5. CASE UNCHANGED <<pc, cache, off, iter>>
    BY <1>2, <2>5 DEF flash_ts_set, TypeOK
  <2>6. CASE ~ UNCHANGED <<pc, cache, off, iter>>
    BY <1>2, <2>3, <2>4, <2>6, AddrFacts DEF flash_ts_set, TypeOK
  <2> QED BY <2>5, <2>6
<1>3. ASSUME TryNextBlock, flash' \in [Addr -> ChunkType], iter > 0 PROVE TypeInv'
  <2>1. iter - 1 \in 0 .. MaxIterations
    BY <1>3, GeometryAssumption DEF TypeOK, MaxIterations
  <2> QED BY <1>3, <2>1, AddrFacts DEF TryNextBlock, TypeOK
<1>4. CASE CommitErase
  <2>1. CASE TryNextBlock /\ flash' \in PartErased(flash, Wrap(off)[1])
    BY <1>3, <1>4, <2>1, PartErasedFacts DEF CommitErase, TypeOK
  <2>2. CASE /\ flash' = Erased(flash, Wrap(off)[1])
             /\ off' = Wrap(off)
             /\ pc' = "write"
             /\ UNCHANGED <<cache, backup, offset, iter, res>>
    <3>1. Wrap(off) \in (0 .. NB) \X Chunks /\ Wrap(off)[1] < NB
      BY AddrFacts, GeometryAssumption DEF Blocks, Chunks, Addr
    <3> QED BY <1>4, <2>2, <3>1, ErasedFacts, GeometryAssumption
            DEF CommitErase, TypeOK
  <2> QED BY <1>4, <2>1, <2>2 DEF CommitErase
<1>5. ASSUME Writing PROVE off \in Addr /\ off[1] < NB /\ iter > 0
  <2>1. off[1] \in 0 .. NB /\ off[2] \in Chunks
    BY DEF TypeOK
  <2>2. off[1] < NB
    BY <1>5, <2>1, GeometryAssumption DEF Writing, Wrap
  <2> QED BY <1>5, <2>2, AddrFacts DEF Writing
<1>6. CASE CommitWrite
  <2>1. CASE TryNextBlock /\ flash' \in PartWritten(flash, off, cache)
    BY <1>3, <1>5, <1>6, <2>1, PartWrittenFacts DEF CommitWrite, TypeOK
  <2>2. CASE /\ flash' = [flash EXCEPT ![off] = cache]
             /\ pc' = "verify"
             /\ UNCHANGED <<cache, backup, offset, off, iter, res>>
    BY <1>5, <1>6, <2>2 DEF CommitWrite, TypeOK
  <2> QED BY <1>6, <2>1, <2>2 DEF CommitWrite
<1>7. CASE CommitVerify
  <2>1. CASE TryNextBlock
    BY <1>3, <1>7, <2>1 DEF CommitVerify, TypeOK
  <2>2. CASE pc' = "eraseprev" /\ UNCHANGED <<cache, backup, offset, off, iter, res>>
    BY <1>7, <2>2 DEF CommitVerify, TypeOK
  <2>3. CASE Finish
    BY <1>7, <2>3, AddrFacts DEF CommitVerify, Finish, TypeOK
  <2> QED BY <1>7, <2>1, <2>2, <2>3 DEF CommitVerify
<1>8. CASE CommitErasePrev
  BY <1>8, PartErasedFacts, AddrFacts DEF CommitErasePrev, Finish, TypeOK
<1>9. CASE CommitFail
  BY <1>9 DEF CommitFail, TypeOK
<1>10. CASE PowerCut
  <2>1. flash' \in [Addr -> ChunkType]
    BY <1>5, <1>10, PartErasedFacts, PartWrittenFacts DEF PowerCut, TypeOK
  <2> QED BY <1>10, <2>1, ChunkTypes, LastChunkType, GeometryAssumption
          DEF PowerCut, TypeOK, MaxIterations, LastChunk, Addr, Blocks, Chunks
<1>11. CASE UNCHANGED vars
  BY <1>11 DEF vars, TypeOK
<1> QED
  BY <1>1, <1>2, <1>4, <1>6, <1>7, <1>8, <1>9, <1>10, <1>11 DEF Next, CommitStep

\* The variables of the store keep their types, whatever the driver does: in
\* particular the commit never leaves the partition, and a start always finds
\* a record when there is one.
THEOREM TypeCorrect == Spec => []TypeOK
<1>1. TypeInv => TypeOK
  BY DEF TypeInv
<1> QED BY TypeInit, TypeStep, <1>1, PTL DEF Spec

-----------------------------------------------------------------------------
(* What flash_ts_get answers, with no assumption about the driver.         *)

\* The previous block is erased only once the new record has been read back
\* from another block.
ReadBack == pc = "eraseprev" => flash[off] = cache /\ off[1] # offset[1]

\* Only CommitVerify reaches the erase, and nothing comes before it.
LEMMA ReadBackStep == TypeInv /\ ReadBack /\ [Next]_vars => ReadBack'
<1> SUFFICES ASSUME TypeInv, ReadBack, [Next]_vars, pc' = "eraseprev"
             PROVE  (flash[off] = cache /\ off[1] # offset[1])'
  BY DEF ReadBack
<1>1. CASE UNCHANGED vars
  BY <1>1 DEF vars, ReadBack
<1>2. CASE Next
  <2>1. CommitVerify
    BY <1>2 DEF Next, flash_ts_init, flash_ts_set, CommitStep, CommitErase, CommitWrite,
                CommitErasePrev, CommitFail, PowerCut, TryNextBlock, Finish
  <2> QED BY <2>1 DEF CommitVerify, TryNextBlock, Finish
<1> QED BY <1>1, <1>2

\* One step of the store, seen by flash_ts_get.
LEMMA ViewStep ==
  ASSUME TypeInv, ReadBack, [Next]_vars, pc # "down", pc' # "down", View' # View
  PROVE  res' = "ok" /\ cache' = cache /\ flash'[offset'] = cache
<1>1. CASE UNCHANGED vars
  BY <1>1 DEF vars, View, Committing
<1>2. ASSUME NEW k \in Keys, NEW v \in Values \cup {NoValue}, flash_ts_set(k, v) PROVE FALSE
  BY <1>2 DEF flash_ts_set, View, Committing
<1>3. ASSUME TryNextBlock, Committing PROVE FALSE
  BY <1>3 DEF TryNextBlock, View, Committing
<1>4. CASE CommitErase \/ CommitWrite
  BY <1>3, <1>4 DEF CommitErase, CommitWrite, Writing, View, Committing
<1>5. CASE CommitVerify
  BY <1>3, <1>5 DEF CommitVerify, Finish, View, Committing
<1>6. CASE CommitErasePrev
  <2>1. flash \in [Addr -> ChunkType] /\ off \in Addr
    BY <1>6, AddrFacts DEF CommitErasePrev, TypeInv, TypeOK
  <2>2. flash'[off] = flash[off]
    BY <1>6, <2>1, PartErasedFacts DEF CommitErasePrev, ReadBack
  <2> QED BY <1>6, <2>2 DEF CommitErasePrev, Finish, ReadBack
<1>7. CASE CommitFail
  BY <1>7 DEF CommitFail, View, Committing
<1> QED
  BY <1>1, <1>2, <1>4, <1>5, <1>6, <1>7 DEF Next, CommitStep, flash_ts_init, PowerCut

\* Whatever the driver does, for any number of failures and with pages that cannot
\* be read: flash_ts_get changes its answer only when flash_ts_set returns 0, and
\* the record is then at ts->offset.
THEOREM OnlyAcks == Spec => OnlyAckChangesView
<1>1. Init => ReadBack
  BY DEF Init, ReadBack
<1>2. TypeInv /\ ReadBack /\ [Next]_vars
        => [pc # "down" /\ pc' # "down" /\ View' # View
              => res' = "ok" /\ cache' = cache /\ flash'[offset'] = cache]_vars
  BY ViewStep
<1> QED BY <1>1, <1>2, TypeInit, TypeStep, ReadBackStep, PTL DEF Spec, OnlyAckChangesView

-----------------------------------------------------------------------------
(* Safety, when pages can be read while scanning and fewer than NB - 1     *)
(* driver calls fail in one commit.                                        *)

Reliable == ScanFaults = FALSE /\ MaxFaults < NB - 1

LEMMA NotRecords == ~IsRecord(Blank) /\ ~IsRecord(Torn) /\ Blank.kind # "record"
                    /\ Torn.kind # "record" /\ Blank # Torn /\ ~is_blank(Torn)
BY DEF IsRecord, Blank, Torn, is_blank

\* Erasing a part of block b keeps what the scan finds in the other blocks.
LEMMA EraseKeeps ==
  ASSUME NEW f \in [Addr -> ChunkType], NEW g \in [Addr -> ChunkType], NEW b \in Blocks,
         \A a \in Addr : g[a] = f[a] \/ (a[1] = b /\ g[a] \in {Blank, Torn})
  PROVE  /\ \A a \in Addr : g[a].kind = "record" => g[a] = f[a]
         /\ \A a \in Found(f) : a[1] # b => a \in Found(g) /\ g[a] = f[a]
<1>1. \A a \in Addr : g[a].kind = "record" => g[a] = f[a]
  BY NotRecords
<1>2. ASSUME NEW a \in Found(f), a[1] # b PROVE a \in Found(g) /\ g[a] = f[a]
  <2>1. a \in Addr /\ a[1] \in Blocks /\ a[2] \in Chunks /\ g[a] = f[a]
    BY <1>2 DEF Found, Addr
  <2>2. \A i \in 0 .. a[2] - 1 : <<a[1], i>> \in Addr
    BY <2>1, GeometryAssumption DEF Addr, Chunks
  <2>3. \A i \in 0 .. a[2] - 1 : g[<<a[1], i>>] = f[<<a[1], i>>]
    BY <1>2, <2>2
  <2> QED BY <2>1, <2>3 DEF Found, Scanned
<1> QED BY <1>1, <1>2

\* Writing one chunk keeps what the scan finds before it and in other blocks.
LEMMA WriteKeeps ==
  ASSUME NEW f \in [Addr -> ChunkType], NEW g \in [Addr -> ChunkType],
         NEW w \in Addr, NEW r,
         \A a \in Addr : a # w => g[a] = f[a],
         g[w] \in {f[w], Torn, r}
  PROVE  /\ \A a \in Addr : g[a].kind = "record" => g[a] = f[a] \/ (a = w /\ g[a] = r)
         /\ \A a \in Found(f) : a[1] # w[1] \/ a[2] < w[2] => a \in Found(g) /\ g[a] = f[a]
<1>1. \A a \in Addr : g[a].kind = "record" => g[a] = f[a] \/ (a = w /\ g[a] = r)
  BY NotRecords
<1>2. ASSUME NEW a \in Found(f), a[1] # w[1] \/ a[2] < w[2]
      PROVE  a \in Found(g) /\ g[a] = f[a]
  <2>1. /\ a \in Addr /\ a[1] \in Blocks /\ a[2] \in Chunks /\ w[2] \in Chunks
        /\ w[1] \in Blocks
    BY <1>2 DEF Found, Addr
  <2>2. \A i \in 0 .. a[2] : <<a[1], i>> \in Addr /\ <<a[1], i>> # w
    BY <1>2, <2>1, GeometryAssumption DEF Addr, Chunks
  <2>3. \A i \in 0 .. a[2] : g[<<a[1], i>>] = f[<<a[1], i>>]
    BY <2>2
  <2>4. a # w /\ g[a] = f[a]
    BY <1>2, <2>1, GeometryAssumption DEF Chunks
  <2>5. \A i \in 0 .. a[2] - 1 : g[<<a[1], i>>] = f[<<a[1], i>>]
    BY <2>1, <2>3, GeometryAssumption DEF Chunks
  <2> QED BY <2>1, <2>4, <2>5 DEF Found, Scanned
<1> QED BY <1>1, <1>2

\* The chunk after one that the scan reaches is reached too.
LEMMA NextIsScanned ==
  ASSUME NEW f \in [Addr -> ChunkType], NEW a \in Found(f), NEW w \in Addr,
         w = <<a[1], a[2] + 1>>, IsRecord(f[w])
  PROVE  w \in Found(f)
<1>1. a \in Addr /\ a[2] \in Nat /\ w[2] = a[2] + 1 /\ w[1] = a[1] /\ a = <<a[1], a[2]>>
  BY DEF Found, Addr, Chunks
<1>2. f[a].kind = "record"
  BY DEF Found, flash_ts_check_header
<1>3. \A i \in 0 .. w[2] - 1 : ~is_blank(f[<<w[1], i>>])
  BY <1>1, <1>2 DEF Found, Scanned, is_blank
<1> QED BY <1>3 DEF Found, Scanned, flash_ts_check_header, IsRecord

\* What the scan loads when the newest record it finds is known.
LEMMA ScanLoads ==
  ASSUME NEW f \in [Addr -> ChunkType], NEW b \in Found(f), NEW r, f[b] = r,
         \A a \in Found(f) : f[a] = r \/ f[a].ver < r.ver
  PROVE  ScanCache(f) = r
<1> DEFINE p == ScanOffset(f)
<1>1. IsPick(f, p) /\ p \in Addr /\ ScanCache(f) = f[p]
  BY ScanType DEF ScanCache
<1>2. f[p].ver \in Nat /\ f[b].ver \in Nat /\ b \in Addr
  BY <1>1 DEF ChunkType, Found
<1>3. p \in Found(f) /\ ~(f[p].ver < f[b].ver)
  BY <1>1, <1>2 DEF IsPick
<1> QED BY <1>1, <1>3

\* Without read faults the scan sees the flash as it is.
LEMMA NoMisread ==
  ASSUME Reliable, NEW f \in [Addr -> ChunkType], NEW g \in Misread(f)
  PROVE  g = f
BY DEF Reliable, Misread

\* Going to the next block, the commit does not come back to ts->offset.
LEMMA AheadNext ==
  ASSUME Reliable, TypeOK, CanFail, NEW b \in Blocks,
         Ahead(b) \in 0 .. MaxIterations - iter + 1
  PROVE  /\ Ahead(Wrap(NextBlock(<<b, 0>>))[1]) = Ahead(b) + 1
         /\ Wrap(NextBlock(<<b, 0>>))[1] \in Blocks
<1>1. /\ iter \in 0 .. MaxIterations /\ MaxIterations \in Nat
      /\ NB \in Nat /\ MaxFaults \in Nat /\ b \in 0 .. NB - 1
      /\ offset[1] \in 0 .. NB - 1
  BY GeometryAssumption, BoundsAssumption
     DEF TypeOK, Blocks, Addr, MaxIterations
<1>2. Ahead(b) \in 0 .. NB - 2
  BY <1>1 DEF Reliable, CanFail, Ahead
<1>3. Wrap(NextBlock(<<b, 0>>))[1] = IF b + 1 >= NB THEN 0 ELSE b + 1
  BY <1>1 DEF Wrap, NextBlock
<1> QED BY <1>1, <1>2, <1>3 DEF Ahead, Blocks

LEMMA StoreInit == Init => StoreInv
<1> SUFFICES ASSUME Init PROVE StoreInv
  OBVIOUS
<1>1. \A a \in Addr : flash[a].kind # "record"
  BY NotRecords DEF Init
<1> QED BY <1>1 DEF StoreInv, GoodRecords, Init, DownInv, Committing

\* What every step of a commit before the erase of the previous block keeps.
KnownRecords(f) ==
  \A a \in Addr : f[a].kind = "record" =>
    f[a] = cache \/ f[a] = backup \/ f[a].ver < backup.ver

\* A pass of the loop has failed in block b.
LEMMA FailedPass ==
  ASSUME Reliable, TypeInv, StoreInv, pc \in {"loop", "write", "verify"},
         TryNextBlock, iter > 0,
         GoodRecords(flash'),
         Anchored(backup)', KnownRecords(flash'),
         NEW b \in Blocks, Wrap(off)[1] = b,
         Ahead(b) \in 0 .. MaxIterations - iter + 1,
         \A a \in Addr : flash'[a] = cache =>
            a \in Found(flash') /\ Ahead(a[1]) < Ahead(b) + 1
  PROVE  StoreInv'
<1>1. /\ CanFail /\ off' = NextBlock(Wrap(off)) /\ iter' = iter - 1 /\ pc' = "loop"
      /\ cache' = cache /\ backup' = backup /\ offset' = offset
  BY DEF TryNextBlock
<1>2. off' = NextBlock(<<b, 0>>) /\ off'[2] = 0
  BY <1>1 DEF NextBlock
<1>3. Ahead(Wrap(off')[1]) = Ahead(b) + 1
  BY <1>1, <1>2, AheadNext DEF TypeInv
<1>4. /\ iter \in Nat /\ MaxIterations \in Nat /\ Ahead(b) \in Nat
      /\ iter <= MaxIterations
  BY GeometryAssumption DEF TypeInv, TypeOK, MaxIterations
<1>5. CommitInv
  BY DEF StoreInv, Committing
<1>6. /\ Ahead(Wrap(off')[1]) \in 1 .. MaxIterations - iter' + 1
      /\ MaxIterations - iter' <= MaxFaults
  BY <1>1, <1>3, <1>4, BoundsAssumption DEF CanFail
<1>7. CommitInv'
  BY <1>1, <1>2, <1>3, <1>5, <1>6
     DEF CommitInv, KnownRecords, NewCopies, Ahead, IsRecord
<1> QED BY <1>1, <1>7 DEF StoreInv, Committing

\* The facts of CommitInv about the block written next.
LEMMA NextWrite ==
  ASSUME TypeInv, CommitInv, (pc = "loop" /\ iter > 0 /\ Wrap(off)[2] = 0) \/ pc = "write"
  PROVE  /\ Wrap(off) \in Addr /\ Wrap(off)[1] \in Blocks /\ off[2] = 0
         /\ Ahead(Wrap(off)[1]) \in 1 .. MaxIterations - iter + 1
         /\ Ahead(Wrap(off)[1]) \in 0 .. MaxIterations - iter + 1
         /\ NewCopies(Ahead(Wrap(off)[1]))
         /\ Ahead(offset[1]) = 0 /\ Wrap(off)[1] # offset[1]
<1>1. Wrap(off) \in Addr /\ Wrap(off)[1] \in Blocks
  BY AddrFacts DEF TypeInv
<1>2. off[2] = 0
  BY GeometryAssumption DEF TypeInv, TypeOK, CommitInv, Wrap
<1>3. /\ Ahead(Wrap(off)[1]) \in 1 .. MaxIterations - iter + 1
      /\ NewCopies(Ahead(Wrap(off)[1]))
  BY <1>2 DEF CommitInv
<1>4. Ahead(offset[1]) = 0
  BY GeometryAssumption DEF Ahead, TypeInv, TypeOK, Addr, Blocks
<1>5. Wrap(off)[1] # offset[1] /\ Ahead(Wrap(off)[1]) \in 0 .. MaxIterations - iter + 1
  BY <1>3, <1>4
<1> QED BY <1>1, <1>2, <1>3, <1>4, <1>5

\* Erasing any part of the block written next keeps all that is needed.
LEMMA NextErase ==
  ASSUME TypeInv, StoreInv, (pc = "loop" /\ iter > 0 /\ Wrap(off)[2] = 0) \/ pc = "write",
         NEW g \in [Addr -> ChunkType],
         \A a \in Addr : g[a] = flash[a] \/ (a[1] = Wrap(off)[1] /\ g[a] \in {Blank, Torn})
  PROVE  /\ GoodRecords(g)
         /\ KnownRecords(g)
         /\ \/ backup = Empty /\ offset = LastChunk
            \/ IsRecord(backup) /\ offset \in Found(g) /\ g[offset] = backup
         /\ \A a \in Addr : g[a] = cache =>
              a \in Found(g) /\ Ahead(a[1]) < Ahead(Wrap(off)[1])
<1>1. CommitInv
  BY DEF StoreInv, Committing
<1>2. /\ \A a \in Addr : g[a].kind = "record" => g[a] = flash[a]
      /\ \A a \in Found(flash) : a[1] # Wrap(off)[1] => a \in Found(g) /\ g[a] = flash[a]
  BY EraseKeeps, AddrFacts DEF TypeInv, TypeOK
<1>3. GoodRecords(g)
  BY <1>2 DEF StoreInv, GoodRecords
<1>4. KnownRecords(g)
  BY <1>1, <1>2 DEF CommitInv, KnownRecords
<1>5. \/ backup = Empty /\ offset = LastChunk
      \/ IsRecord(backup) /\ offset \in Found(g) /\ g[offset] = backup
  BY <1>1, <1>2, NextWrite DEF CommitInv, Anchored
<1>6. ASSUME NEW a \in Addr, g[a] = cache
      PROVE  a \in Found(g) /\ Ahead(a[1]) < Ahead(Wrap(off)[1])
  <2>1. flash[a] = cache
    BY <1>1, <1>2, <1>6 DEF CommitInv, IsRecord
  <2>2. a \in Found(flash) /\ Ahead(a[1]) < Ahead(Wrap(off)[1])
    BY <1>1, <2>1, NextWrite DEF NewCopies
  <2>3. a[1] # Wrap(off)[1]
    BY <1>1, <2>2, NextWrite
  <2> QED BY <1>2, <2>2, <2>3
<1> QED BY <1>3, <1>4, <1>5, <1>6

\* Writing the new record, or a part of it, keeps all that is needed.
LEMMA NextRecord ==
  ASSUME TypeInv, StoreInv, Writing,
         NEW g \in [Addr -> ChunkType],
         \A a \in Addr : a # off => g[a] = flash[a],
         g[off] \in {flash[off], Torn, cache}
  PROVE  /\ off \in Addr /\ iter > 0 /\ Wrap(off) = off
         /\ GoodRecords(g) /\ KnownRecords(g)
         /\ \/ backup = Empty /\ offset = LastChunk
            \/ IsRecord(backup) /\ offset \in Found(g) /\ g[offset] = backup
         /\ \A a \in Addr : g[a] = cache =>
              a \in Found(g) /\ Ahead(a[1]) < Ahead(off[1]) + 1
         /\ IF off[2] = 0 THEN Ahead(off[1]) \in 1 .. MaxIterations - iter + 1
            ELSE off = <<offset[1], offset[2] + 1>> /\ iter = MaxIterations
         /\ Ahead(off[1]) \in 0 .. MaxIterations - iter + 1
<1>1. CommitInv /\ IsRecord(cache)
  BY DEF StoreInv, Committing, Writing, CommitInv
<1>2. /\ off[1] \in 0 .. NB /\ off[2] \in Chunks /\ offset[1] \in 0 .. NB - 1
      /\ offset[2] \in Chunks /\ iter \in Nat /\ MaxIterations \in Nat /\ NB \in Nat
      /\ iter <= MaxIterations
  BY GeometryAssumption DEF TypeInv, TypeOK, Addr, Blocks, MaxIterations
<1>3. off[1] < NB /\ iter > 0
  BY <1>2 DEF Writing, Wrap, TypeInv
<1>4. off \in Addr /\ Wrap(off) = off
  BY <1>2, <1>3, AddrFacts DEF Wrap, TypeInv
<1>5. IF off[2] = 0 THEN /\ Ahead(off[1]) \in 1 .. MaxIterations - iter + 1
                         /\ NewCopies(Ahead(off[1]))
      ELSE off = <<offset[1], offset[2] + 1>> /\ iter = MaxIterations /\ NewCopies(0)
  BY <1>1, <1>4 DEF CommitInv, Writing
<1>6. Ahead(offset[1]) = 0
  BY <1>2 DEF Ahead
<1>7. Ahead(off[1]) \in 0 .. MaxIterations - iter + 1
  BY <1>2, <1>5, <1>6
<1>8. /\ \A a \in Addr : g[a].kind = "record" => g[a] = flash[a] \/ (a = off /\ g[a] = cache)
      /\ \A a \in Found(flash) : a[1] # off[1] \/ a[2] < off[2] =>
           a \in Found(g) /\ g[a] = flash[a]
  BY <1>4, WriteKeeps DEF TypeInv, TypeOK
<1>9. GoodRecords(g)
  <2>1. cache.ver \in Nat /\ backup.ver \in Nat /\ cache.ver = backup.ver + 1
    BY <1>1 DEF CommitInv, TypeInv, TypeOK, ChunkType
  <2>2. \A a \in Addr : flash[a].kind = "record" /\ flash[a].ver = cache.ver =>
          flash[a] = cache
    BY <1>1, <2>1 DEF CommitInv
  <2>3. \A a \in Addr : g[a].kind = "record" => g[a].ver > 0
    BY <1>1, <1>8 DEF StoreInv, IsRecord, GoodRecords
  <2>4. ASSUME NEW a \in Addr, NEW b \in Addr, g[a].kind = "record", g[b].kind = "record",
               g[a].ver = g[b].ver
        PROVE  g[a] = g[b]
    BY <1>8, <2>2, <2>4 DEF StoreInv, GoodRecords
  <2> QED BY <2>3, <2>4 DEF GoodRecords
<1>10. KnownRecords(g)
  BY <1>1, <1>8 DEF CommitInv, KnownRecords
<1>11. offset[1] # off[1] \/ offset[2] < off[2]
  BY <1>2, <1>5, <1>6 DEF Chunks
<1>12. \/ backup = Empty /\ offset = LastChunk
       \/ IsRecord(backup) /\ offset \in Found(g) /\ g[offset] = backup
  BY <1>1, <1>8, <1>11 DEF CommitInv, Anchored
<1>13. ASSUME NEW a \in Addr, g[a] = cache
       PROVE  a \in Found(g) /\ Ahead(a[1]) < Ahead(off[1]) + 1
  <2>1. CASE a = off
    <3>1. CASE off[2] = 0
      BY <1>1, <1>7, <1>13, <2>1, <3>1
         DEF Found, Scanned, flash_ts_check_header, IsRecord
    <3>2. CASE off[2] # 0
      <4>1. off = <<offset[1], offset[2] + 1>> /\ offset \in Addr
        BY <1>5, <3>2 DEF TypeInv, TypeOK
      <4>2. backup # Empty \/ offset # LastChunk
        BY <1>2, <4>1, GeometryAssumption DEF LastChunk, Chunks
      <4>3. offset \in Found(g)
        BY <1>12, <4>2
      <4> QED BY <1>1, <1>4, <1>7, <1>13, <2>1, <4>1, <4>3, NextIsScanned
    <3> QED BY <3>1, <3>2
  <2>2. CASE a # off
    <3>1. flash[a] = cache
      BY <1>13, <2>2
    <3>2. /\ off[2] = 0 /\ a \in Found(flash) /\ Ahead(a[1]) < Ahead(off[1])
          /\ Ahead(a[1]) \in Int
      <4>1. a[1] \in 0 .. NB - 1
        BY DEF Addr, Blocks
      <4>2. Ahead(a[1]) \in Nat
        BY <1>2, <4>1 DEF Ahead
      <4> QED BY <1>5, <3>1, <4>2 DEF NewCopies
    <3>3. a[1] # off[1]
      BY <1>7, <3>2
    <3> QED BY <1>7, <1>8, <3>2, <3>3
  <2> QED BY <2>1, <2>2
<1> QED BY <1>3, <1>4, <1>5, <1>7, <1>9, <1>10, <1>12, <1>13

\* Power is cut while the flash is g: what is left is good to restart from.
LEMMA CutGood ==
  ASSUME NEW g \in [Addr -> ChunkType], CommitInv,
         GoodRecords(g), KnownRecords(g), cache \in ChunkType, backup \in ChunkType,
         \/ backup = Empty
         \/ IsRecord(backup) /\ offset \in Found(g) /\ g[offset] = backup,
         \A a \in Addr : g[a] = cache => \E b \in Found(g) : g[b] = cache,
         NEW a \in Addr, g[a].kind = "record"
  PROVE  \E b \in Found(g) : g[b].ver >= g[a].ver
<1>1. /\ cache.ver \in Nat /\ backup.ver \in Nat /\ cache.ver = backup.ver + 1
      /\ g[a].ver \in Nat
  BY DEF CommitInv, ChunkType
<1>2. CASE g[a] = cache
  BY <1>1, <1>2
<1>3. CASE g[a] # cache
  <2>1. g[a].ver <= backup.ver /\ g[a].ver > 0
    BY <1>1, <1>3 DEF KnownRecords, GoodRecords
  <2>2. backup # Empty
    BY <1>1, <2>1 DEF Empty, Record
  <2> QED BY <1>1, <2>1, <2>2
<1> QED BY <1>2, <1>3

LEMMA StoreStep == Reliable /\ TypeInv /\ StoreInv /\ [Next]_vars => StoreInv'
<1> SUFFICES ASSUME Reliable, TypeInv, StoreInv, [Next]_vars PROVE StoreInv'
  OBVIOUS
<1>0. /\ flash \in [Addr -> ChunkType] /\ cache \in ChunkType /\ backup \in ChunkType
      /\ offset \in Addr
  BY DEF TypeInv, TypeOK
<1>0a. offset[1] \in Blocks
  BY <1>0 DEF Addr
<1>1. CASE flash_ts_init
  <2>1. /\ cache' = ScanCache(flash) /\ offset' = ScanOffset(flash)
        /\ pc' = "idle" /\ flash' = flash /\ DownInv
    BY <1>0, <1>1, NoMisread DEF flash_ts_init, StoreInv
  <2>2. CASE Found(flash) = {}
    <3>1. \A a \in Addr : flash[a].kind # "record"
      BY <2>1, <2>2 DEF DownInv
    <3>2. cache' = Empty /\ offset' = LastChunk
      BY <2>1, <2>2 DEF ScanCache, ScanOffset
    <3> QED BY <2>1, <3>1, <3>2 DEF StoreInv, IdleInv, Anchored, Committing
  <2>3. CASE Found(flash) # {}
    <3>1. IsPick(flash, offset') /\ cache' = flash[offset'] /\ offset' \in Addr
      BY <1>0, <2>1, <2>3, ScanType DEF ScanCache
    <3>2. offset' \in Found(flash) /\ IsRecord(cache')
      BY <1>0, <3>1 DEF IsPick, Found, flash_ts_check_header, IsRecord
    <3>3. ASSUME NEW a \in Addr, flash[a].kind = "record"
          PROVE  flash[a] = cache' \/ flash[a].ver < cache'.ver
      <4>1. PICK b \in Found(flash) : flash[b].ver >= flash[a].ver
        BY <2>1, <3>3 DEF DownInv
      <4>2. /\ flash[a].ver \in Nat /\ flash[b].ver \in Nat /\ cache'.ver \in Nat
            /\ b \in Addr
        BY <1>0, <3>1 DEF ChunkType, Found
      <4>3. flash[b].ver <= cache'.ver
        BY <3>1, <4>2 DEF IsPick
      <4>4. flash[a].ver <= cache'.ver
        BY <4>1, <4>2, <4>3
      <4> QED BY <3>1, <3>2, <3>3, <4>2, <4>4 DEF StoreInv, GoodRecords, IsRecord
    <3> QED BY <2>1, <3>1, <3>2, <3>3 DEF StoreInv, IdleInv, Anchored, Committing
  <2> QED BY <2>2, <2>3
<1>2. ASSUME NEW k \in Keys, NEW v \in Values \cup {NoValue}, flash_ts_set(k, v)
      PROVE  StoreInv'
  <2>1. IdleInv /\ pc = "idle" /\ flash' = flash /\ offset' = offset /\ backup' = cache
    BY <1>2 DEF flash_ts_set, StoreInv
  <2>2. CASE UNCHANGED <<pc, cache>>
    BY <2>1, <2>2 DEF StoreInv, IdleInv, Anchored, Committing
  <2>3. CASE /\ pc' = "loop" /\ iter' = MaxIterations /\ off' = NextChunk(offset)
             /\ cache' = Record(cache.ver + 1, [cache.data EXCEPT ![k] = v])
             /\ [cache.data EXCEPT ![k] = v] # cache.data
    <3>1. /\ cache'.ver = cache.ver + 1 /\ cache.ver \in Nat /\ cache'.kind = "record"
          /\ cache'.data # cache.data
      BY <1>0, <2>3 DEF Record, ChunkType
    <3>2. \A a \in Addr : flash[a] # cache'
      BY <2>1, <3>1 DEF IdleInv
    <3>3. /\ offset[1] \in 0 .. NB - 1 /\ offset[2] \in 0 .. CPB - 1 /\ NB \in Nat
          /\ CPB \in Nat /\ NB >= 2 /\ MaxIterations \in Nat
      BY <1>0, GeometryAssumption, BoundsAssumption
         DEF Addr, Blocks, Chunks, Reliable, MaxIterations
    <3>4. off'[2] = 0 => Ahead(Wrap(off')[1]) \in 1 .. MaxIterations - iter' + 1
      <4> SUFFICES ASSUME off'[2] = 0
                   PROVE  Ahead(Wrap(off')[1]) \in 1 .. MaxIterations - iter' + 1
        OBVIOUS
      <4>1. off' = <<offset[1] + 1, 0>>
        BY <2>3, <3>3 DEF NextChunk
      <4>2. Wrap(off')[1] = IF offset[1] + 1 >= NB THEN 0 ELSE offset[1] + 1
        BY <3>3, <4>1 DEF Wrap
      <4>3. Ahead(Wrap(off')[1]) = 1
        BY <3>3, <4>2 DEF Ahead
      <4> QED BY <2>3, <3>3, <4>3
    <3>5. /\ off'[2] # 0 => off' = <<offset[1], offset[2] + 1>>
          /\ MaxIterations - iter' <= MaxFaults
      BY <2>3, <3>3, BoundsAssumption DEF NextChunk
    <3>6. CommitInv'
      BY <2>1, <2>3, <3>1, <3>2, <3>4, <3>5
         DEF CommitInv, IdleInv, Anchored, IsRecord, NewCopies, Ahead
    <3> QED BY <2>1, <2>3, <3>6 DEF StoreInv, Committing
  <2> QED BY <1>2, <2>2, <2>3 DEF flash_ts_set
<1>3. CASE CommitErase
  <2>1. pc = "loop" /\ iter > 0 /\ Wrap(off)[2] = 0 /\ CommitInv
    BY <1>3 DEF CommitErase, StoreInv, Committing
  <2>2. CASE flash' \in PartErased(flash, Wrap(off)[1]) /\ TryNextBlock
    <3>1. /\ flash' \in [Addr -> ChunkType]
          /\ \A a \in Addr : flash'[a] = flash[a]
                             \/ (a[1] = Wrap(off)[1] /\ flash'[a] \in {Blank, Torn})
      BY <1>0, <2>2, PartErasedFacts
    <3>2. Anchored(backup)'
      BY <2>1, <2>2, <3>1, NextErase DEF Anchored, TryNextBlock
    <3>3. \A a \in Addr : flash'[a] = cache =>
            a \in Found(flash') /\ Ahead(a[1]) < Ahead(Wrap(off)[1]) + 1
      <4>1. \A a \in Addr : Ahead(a[1]) \in Nat
        BY <1>0, GeometryAssumption DEF Ahead, Addr, Blocks
      <4>2. Ahead(Wrap(off)[1]) \in Nat
        BY <2>1, <4>1, NextWrite
      <4> QED BY <2>1, <3>1, <4>1, <4>2, NextErase
    <3> QED BY <2>1, <2>2, <3>1, <3>2, <3>3, NextErase, NextWrite, FailedPass
  <2>3. CASE /\ flash' = Erased(flash, Wrap(off)[1])
             /\ off' = Wrap(off)
             /\ pc' = "write"
             /\ UNCHANGED <<cache, backup, offset, iter, res>>
    <3>1. /\ flash' \in [Addr -> ChunkType]
          /\ \A a \in Addr : flash'[a] = flash[a]
                             \/ (a[1] = Wrap(off)[1] /\ flash'[a] \in {Blank, Torn})
      BY <1>0, <2>3, ErasedFacts
    <3>2. Wrap(off') = off' /\ off'[2] = 0
      BY <2>1, <2>3, NextWrite, GeometryAssumption DEF Wrap, Blocks
    <3>3. CommitInv'
      BY <2>1, <2>3, <3>1, <3>2, NextErase, NextWrite
         DEF CommitInv, Anchored, KnownRecords, NewCopies, Ahead, IsRecord
    <3> QED BY <2>1, <2>3, <3>1, <3>3, NextErase DEF StoreInv, Committing
  <2> QED BY <1>3, <2>2, <2>3 DEF CommitErase
<1>4. CASE CommitWrite
  <2>1. Writing /\ CommitInv /\ pc \in {"loop", "write"}
    BY <1>4 DEF CommitWrite, StoreInv, Committing, Writing
  <2>2. off \in Addr /\ off[1] \in Blocks /\ Wrap(off) = off
    <3>1. flash[off] \in {flash[off], Torn, cache}
      OBVIOUS
    <3>2. off \in Addr /\ Wrap(off) = off
      BY <1>0, <2>1, <3>1, NextRecord
    <3> QED BY <3>2 DEF Addr
  <2>3. CASE flash' \in PartWritten(flash, off, cache) /\ TryNextBlock
    <3>1. /\ flash' \in [Addr -> ChunkType]
          /\ \A a \in Addr : a # off => flash'[a] = flash[a]
          /\ flash'[off] \in {flash[off], Torn, cache}
      BY <1>0, <2>2, <2>3, PartWrittenFacts
    <3>2. Anchored(backup)'
      BY <2>1, <2>3, <3>1, NextRecord DEF Anchored, TryNextBlock
    <3> QED BY <2>1, <2>2, <2>3, <3>1, <3>2, NextRecord, FailedPass
  <2>4. CASE /\ flash' = [flash EXCEPT ![off] = cache]
             /\ pc' = "verify"
             /\ UNCHANGED <<cache, backup, offset, off, iter, res>>
    <3>1. /\ flash' \in [Addr -> ChunkType]
          /\ \A a \in Addr : a # off => flash'[a] = flash[a]
          /\ flash'[off] = cache /\ flash'[off] \in {flash[off], Torn, cache}
      BY <1>0, <2>2, <2>4
    <3>2. CommitInv'
      BY <2>1, <2>2, <2>4, <3>1, NextRecord
         DEF CommitInv, Anchored, KnownRecords, NewCopies, Ahead, IsRecord
    <3> QED BY <2>1, <2>4, <3>1, <3>2, NextRecord DEF StoreInv, Committing
  <2> QED BY <1>4, <2>3, <2>4 DEF CommitWrite
<1>5. CASE CommitVerify
  <2>1. pc = "verify" /\ flash' = flash /\ CommitInv /\ iter > 0
    BY <1>5 DEF CommitVerify, StoreInv, Committing, TypeInv
  <2>2. /\ off \in Addr /\ off[1] \in Blocks /\ Wrap(off) = off /\ iter \in Nat
        /\ MaxIterations \in Nat /\ iter <= MaxIterations
        /\ Ahead(offset[1]) = 0
    BY <1>0, <2>1, GeometryAssumption
       DEF TypeInv, TypeOK, Wrap, Addr, Blocks, Ahead, MaxIterations
  <2>3. CASE TryNextBlock
    <3>1. Anchored(backup)'
      BY <2>1, <2>3 DEF CommitInv, Anchored, TryNextBlock
    <3>2. Ahead(off[1]) \in 0 .. MaxIterations - iter + 1
      BY <2>1, <2>2 DEF CommitInv
    <3>3. GoodRecords(flash') /\ KnownRecords(flash')
      BY <2>1 DEF StoreInv, CommitInv, KnownRecords
    <3>4. \A a \in Addr : flash'[a] = cache =>
            a \in Found(flash') /\ Ahead(a[1]) < Ahead(off[1]) + 1
      BY <2>1 DEF CommitInv, NewCopies
    <3> QED BY <2>1, <2>2, <2>3, <3>1, <3>2, <3>3, <3>4, FailedPass
  <2>4. CASE /\ off[2] = 0 /\ pc' = "eraseprev"
             /\ UNCHANGED <<cache, backup, offset, off, iter, res>>
    <3>1. CommitInv'
      BY <2>1, <2>4 DEF CommitInv, Anchored, IsRecord, Ahead
    <3> QED BY <2>1, <2>4, <3>1 DEF StoreInv, Committing
  <2>5. CASE Finish
    <3>1. offset' = off /\ pc' = "idle" /\ cache' = cache /\ backup' = backup
      BY <2>5 DEF Finish
    <3>2. /\ cache.ver \in Nat /\ backup.ver \in Nat /\ cache.ver = backup.ver + 1
          /\ \A a \in Addr : flash[a].ver \in Nat
      BY <1>0, <2>1 DEF CommitInv, ChunkType
    <3>3. \A a \in Addr : flash[a].kind = "record" =>
            flash[a] = cache \/ flash[a].ver < cache.ver
      BY <2>1, <3>2 DEF CommitInv
    <3>4. Anchored(cache)'
      BY <2>1, <3>1 DEF CommitInv, Anchored
    <3>5. IdleInv'
      BY <2>1, <3>1, <3>3, <3>4 DEF IdleInv
    <3> QED BY <2>1, <3>1, <3>5 DEF StoreInv, Committing
  <2> QED BY <1>5, <2>3, <2>4, <2>5 DEF CommitVerify
<1>6. CASE CommitErasePrev
  <2>1. /\ pc = "eraseprev" /\ CommitInv /\ flash' \in PartErased(flash, offset[1])
        /\ offset' = off /\ pc' = "idle" /\ cache' = cache
    BY <1>6 DEF CommitErasePrev, Finish, StoreInv, Committing
  <2>2. /\ flash' \in [Addr -> ChunkType]
        /\ \A a \in Addr : flash'[a] = flash[a]
                           \/ (a[1] = offset[1] /\ flash'[a] \in {Blank, Torn})
    BY <1>0, <2>1, PartErasedFacts
  <2>3. /\ \A a \in Addr : flash'[a].kind = "record" => flash'[a] = flash[a]
        /\ \A a \in Found(flash) : a[1] # offset[1] =>
             a \in Found(flash') /\ flash'[a] = flash[a]
    BY <1>0, <1>0a, <2>2, EraseKeeps
  <2>4. Ahead(offset[1]) = 0 /\ Ahead(off[1]) # 0
    BY <1>0, <2>1, GeometryAssumption DEF CommitInv, Ahead, Addr, Blocks
  <2>5. off \in Found(flash') /\ flash'[off] = cache
    BY <2>1, <2>3, <2>4 DEF CommitInv
  <2>6. /\ cache.ver \in Nat /\ backup.ver \in Nat /\ cache.ver = backup.ver + 1
        /\ \A a \in Addr : flash[a].ver \in Nat
    BY <1>0, <2>1 DEF CommitInv, ChunkType
  <2>7. IdleInv'
    <3>1. \A a \in Addr : flash'[a].kind = "record" =>
            flash'[a] = cache \/ flash'[a].ver < cache.ver
      BY <2>1, <2>3, <2>6 DEF CommitInv
    <3>2. Anchored(cache)'
      BY <2>1, <2>5 DEF CommitInv, Anchored
    <3> QED BY <2>1, <3>1, <3>2 DEF IdleInv
  <2>8. GoodRecords(flash')
    BY <2>3 DEF StoreInv, GoodRecords
  <2> QED BY <2>1, <2>7, <2>8 DEF StoreInv, Committing
<1>7. CASE CommitFail
  <2>1. CommitInv /\ iter = 0
    BY <1>7 DEF CommitFail, StoreInv, Committing
  <2> QED BY <2>1, GeometryAssumption, BoundsAssumption
          DEF CommitInv, MaxIterations, Reliable
<1>8. CASE PowerCut
  <2>1. pc' = "down"
    BY <1>8 DEF PowerCut
  <2>2. ASSUME GoodRecords(flash'), DownInv' PROVE StoreInv'
    BY <2>1, <2>2 DEF StoreInv, Committing
  <2>3. CASE pc = "idle"
    <3>1. flash' = flash /\ IdleInv
      BY <1>8, <2>3 DEF PowerCut, Writing, StoreInv
    <3>2. ASSUME NEW a \in Addr, flash[a].kind = "record"
          PROVE  \E b \in Found(flash) : flash[b].ver >= flash[a].ver
      <4>1. flash[a].ver > 0 /\ flash[a].ver \in Nat /\ cache.ver \in Nat
        BY <1>0, <3>2 DEF StoreInv, GoodRecords, ChunkType
      <4>2. flash[a].ver <= cache.ver
        BY <3>1, <3>2, <4>1 DEF IdleInv
      <4>3. cache # Empty
        BY <4>1, <4>2 DEF Empty, Record
      <4> QED BY <3>1, <4>1, <4>2, <4>3 DEF IdleInv, Anchored
    <3> QED BY <2>2, <3>1, <3>2 DEF StoreInv, DownInv
  <2>4. CASE Committing
    <3>1. CommitInv
      BY <2>4 DEF StoreInv
    <3>2. ASSUME flash' \in [Addr -> ChunkType], GoodRecords(flash'), KnownRecords(flash'),
                 \/ backup = Empty
                 \/ IsRecord(backup) /\ offset \in Found(flash') /\ flash'[offset] = backup,
                 \A a \in Addr : flash'[a] = cache =>
                   \E b \in Found(flash') : flash'[b] = cache
          PROVE  StoreInv'
      <4>1. ASSUME NEW a \in Addr, flash'[a].kind = "record"
            PROVE  \E b \in Found(flash') : flash'[b].ver >= flash'[a].ver
        BY <1>0, <3>1, <3>2, <4>1, CutGood
      <4> QED BY <2>2, <3>2, <4>1 DEF DownInv
    <3>3. CASE flash' = flash
      <4>1. \A a \in Addr : flash[a] = cache => \E b \in Found(flash) : flash[b] = cache
        BY <2>4, <3>1 DEF CommitInv, NewCopies, Committing
      <4> QED BY <1>0, <3>1, <3>2, <3>3, <4>1
              DEF StoreInv, CommitInv, KnownRecords, Anchored
    <3>4. CASE /\ pc = "loop" /\ iter > 0 /\ Wrap(off)[2] = 0
               /\ flash' \in PartErased(flash, Wrap(off)[1])
      <4>1. /\ flash' \in [Addr -> ChunkType]
            /\ \A a \in Addr : flash'[a] = flash[a]
                               \/ (a[1] = Wrap(off)[1] /\ flash'[a] \in {Blank, Torn})
        BY <1>0, <3>4, PartErasedFacts
      <4> QED BY <3>2, <3>4, <4>1, NextErase
    <3>5. CASE Writing /\ flash' \in PartWritten(flash, off, cache)
      <4>1. off \in Addr
        <5>1. flash[off] \in {flash[off], Torn, cache}
          OBVIOUS
        <5> QED BY <1>0, <3>5, <5>1, NextRecord
      <4>2. /\ flash' \in [Addr -> ChunkType]
            /\ \A a \in Addr : a # off => flash'[a] = flash[a]
            /\ flash'[off] \in {flash[off], Torn, cache}
        BY <1>0, <3>5, <4>1, PartWrittenFacts
      <4> QED BY <3>2, <3>5, <4>2, NextRecord
    <3>6. CASE pc = "eraseprev" /\ flash' \in PartErased(flash, offset[1])
      <4>1. /\ flash' \in [Addr -> ChunkType]
            /\ \A a \in Addr : flash'[a] = flash[a]
                               \/ (a[1] = offset[1] /\ flash'[a] \in {Blank, Torn})
        BY <1>0, <3>6, PartErasedFacts
      <4>2. /\ \A a \in Addr : flash'[a].kind = "record" => flash'[a] = flash[a]
            /\ \A a \in Found(flash) : a[1] # offset[1] =>
                 a \in Found(flash') /\ flash'[a] = flash[a]
        BY <1>0, <1>0a, <4>1, EraseKeeps
      <4>3. Ahead(offset[1]) = 0 /\ Ahead(off[1]) # 0
        BY <1>0, <3>1, <3>6, GeometryAssumption DEF CommitInv, Ahead, Addr, Blocks
      <4>4. off \in Found(flash') /\ flash'[off] = cache /\ off \in Addr
        BY <3>1, <3>6, <4>2, <4>3 DEF CommitInv, Found
      <4>5. GoodRecords(flash')
        BY <4>2 DEF StoreInv, GoodRecords
      <4>6. /\ \A a \in Addr : flash'[a].ver \in Nat
            /\ cache.ver \in Nat /\ backup.ver \in Nat /\ cache.ver = backup.ver + 1
        BY <1>0, <3>1, <4>1 DEF ChunkType, CommitInv
      <4>7. \A a \in Addr : flash'[a].kind = "record" => flash'[a].ver <= cache.ver
        BY <3>1, <4>2, <4>6 DEF CommitInv
      <4> QED BY <2>2, <4>4, <4>5, <4>6, <4>7 DEF DownInv
    <3> QED BY <1>8, <3>3, <3>4, <3>5, <3>6 DEF PowerCut
  <2> QED BY <1>8, <2>3, <2>4 DEF PowerCut, TypeInv, TypeOK, Committing
<1>9. CASE UNCHANGED vars
  BY <1>9 DEF vars, StoreInv, GoodRecords, DownInv, IdleInv, CommitInv, Anchored,
              NewCopies, Ahead, Committing
<1> QED
  BY <1>1, <1>2, <1>3, <1>4, <1>5, <1>6, <1>7, <1>8, <1>9 DEF Next, CommitStep

LEMMA AlwaysInv == ASSUME Reliable PROVE Spec => [](TypeInv /\ StoreInv)
<1>1. Init => TypeInv /\ StoreInv
  BY TypeInit, StoreInit
<1>2. TypeInv /\ StoreInv /\ [Next]_vars => (TypeInv /\ StoreInv)'
  BY TypeStep, StoreStep
<1> QED BY <1>1, <1>2, PTL DEF Spec

\* What a restart would load, read off the invariant.
LEMMA WouldLoad ==
  ASSUME TypeInv, StoreInv
  PROVE  /\ pc = "idle" => ScanCache(flash) = cache
         /\ Committing => ScanCache(flash) \in {backup, cache}
         /\ pc \in {"verify", "eraseprev"} => ScanCache(flash) = cache
<1>0. /\ flash \in [Addr -> ChunkType] /\ cache \in ChunkType /\ backup \in ChunkType
      /\ \A a \in Addr : flash[a].ver \in Nat
  BY DEF TypeInv, TypeOK, ChunkType
<1>1. \A a \in Found(flash) : a \in Addr /\ flash[a].kind = "record" /\ flash[a].ver > 0
  BY DEF Found, flash_ts_check_header
<1>2. ASSUME NEW r \in ChunkType, Anchored(r),
             \A a \in Found(flash) : flash[a] = r \/ flash[a].ver < r.ver
      PROVE  ScanCache(flash) = r
  <2>1. CASE offset \in Found(flash) /\ flash[offset] = r
    BY <1>0, <1>2, <2>1, ScanLoads
  <2>2. CASE r = Empty
    <3>1. r.ver = 0
      BY <2>2 DEF Empty, Record
    <3>2. Found(flash) = {}
      BY <1>0, <1>1, <1>2, <3>1
    <3> QED BY <2>2, <3>2 DEF ScanCache
  <2> QED BY <1>2, <2>1, <2>2 DEF Anchored
<1>3. ASSUME pc = "idle" PROVE ScanCache(flash) = cache
  BY <1>0, <1>1, <1>2, <1>3 DEF StoreInv, IdleInv
<1>4. ASSUME Committing PROVE ScanCache(flash) \in {backup, cache}
  <2>1. CommitInv /\ cache.ver \in Nat /\ backup.ver \in Nat
    BY <1>0, <1>4 DEF StoreInv, ChunkType
  <2>2. CASE \E b \in Found(flash) : flash[b] = cache
    <3>1. \A a \in Found(flash) : flash[a] = cache \/ flash[a].ver < cache.ver
      BY <1>0, <1>1, <2>1 DEF CommitInv
    <3> QED BY <1>0, <2>2, <3>1, ScanLoads
  <2>3. CASE ~ \E b \in Found(flash) : flash[b] = cache
    BY <1>0, <1>1, <1>2, <2>1, <2>3 DEF CommitInv
  <2> QED BY <2>2, <2>3
<1>5. ASSUME pc \in {"verify", "eraseprev"} PROVE ScanCache(flash) = cache
  <2>1. CommitInv /\ cache.ver \in Nat /\ backup.ver \in Nat
    BY <1>0, <1>5 DEF StoreInv, ChunkType, Committing
  <2>2. off \in Found(flash) /\ flash[off] = cache
    BY <1>5, <2>1 DEF CommitInv
  <2>3. \A a \in Found(flash) : flash[a] = cache \/ flash[a].ver < cache.ver
    BY <1>0, <1>1, <2>1 DEF CommitInv
  <2> QED BY <1>0, <2>2, <2>3, ScanLoads
<1> QED BY <1>3, <1>4, <1>5

\* A set that has returned 0 is what a restart loads, for every geometry, when
\* fewer than NB - 1 driver calls fail in one commit.
THEOREM Durability == ASSUME Reliable PROVE Spec => []AckedIsDurable
<1>1. TypeInv /\ StoreInv => AckedIsDurable
  BY WouldLoad DEF AckedIsDurable
<1> QED BY <1>1, AlwaysInv, PTL

\* A power cut at any moment of a commit leaves the old contents or the new.
THEOREM Atomicity == ASSUME Reliable PROVE Spec => []CommitIsAtomic
<1>1. TypeInv /\ StoreInv => CommitIsAtomic
  BY WouldLoad DEF CommitIsAtomic
<1> QED BY <1>1, AlwaysInv, PTL

\* The commit never destroys the record it would fall back to.
THEOREM OldRecordKept == ASSUME Reliable PROVE Spec => []OldRecordSafe
<1>1. TypeInv /\ StoreInv => OldRecordSafe
  <2> SUFFICES ASSUME TypeInv, StoreInv, pc \in {"loop", "write", "verify"}, backup.ver > 0
               PROVE  flash[offset] = backup
    BY DEF OldRecordSafe
  <2>1. backup # Empty
    BY DEF Empty, Record
  <2> QED BY <2>1 DEF StoreInv, Committing, CommitInv, Anchored
<1> QED BY <1>1, AlwaysInv, PTL

\* Records of one version are all the same, so the scan order does not matter.
THEOREM VersionsUnique == ASSUME Reliable PROVE Spec => []VersionNamesData
<1>1. TypeInv /\ StoreInv => VersionNamesData
  BY DEF StoreInv, GoodRecords, VersionNamesData, Found, flash_ts_check_header
<1> QED BY <1>1, AlwaysInv, PTL

-----------------------------------------------------------------------------
(* The flash store implements the transactional store.                     *)

\* What the scan of g loads, when g still holds the acknowledged record or
\* a copy of the new one.
LEMMA ScanAfter ==
  ASSUME TypeInv, CommitInv, NEW g \in [Addr -> ChunkType],
         KnownRecords(g), GoodRecords(g)
  PROVE  /\ (\E b \in Found(g) : g[b] = cache) => ScanCache(g) = cache
         /\ \/ backup = Empty
            \/ IsRecord(backup) /\ offset \in Found(g) /\ g[offset] = backup
            => ScanCache(g) \in {backup, cache}
<1>1. /\ cache.ver \in Nat /\ backup.ver \in Nat /\ cache.ver = backup.ver + 1
      /\ \A a \in Addr : g[a].ver \in Nat
  BY DEF CommitInv, ChunkType, TypeInv, TypeOK
<1>2. \A a \in Found(g) : a \in Addr /\ g[a].kind = "record" /\ g[a].ver > 0
  BY DEF Found, flash_ts_check_header
<1>3. ASSUME \E b \in Found(g) : g[b] = cache PROVE ScanCache(g) = cache
  <2>1. \A a \in Found(g) : g[a] = cache \/ g[a].ver < cache.ver
    BY <1>1, <1>2 DEF KnownRecords
  <2> QED BY <1>3, <2>1, ScanLoads
<1>4. ASSUME ~ \E b \in Found(g) : g[b] = cache,
             \/ backup = Empty
             \/ IsRecord(backup) /\ offset \in Found(g) /\ g[offset] = backup
      PROVE  ScanCache(g) = backup
  <2>1. \A a \in Found(g) : g[a] = backup \/ g[a].ver < backup.ver
    BY <1>2, <1>4 DEF KnownRecords
  <2>2. CASE offset \in Found(g) /\ g[offset] = backup
    BY <2>1, <2>2, ScanLoads
  <2>3. CASE backup = Empty
    <3>1. backup.ver = 0
      BY <2>3 DEF Empty, Record
    <3>2. Found(g) = {}
      BY <1>1, <1>2, <2>1, <3>1
    <3> QED BY <2>3, <3>2 DEF ScanCache
  <2> QED BY <1>4, <2>2, <2>3
<1> QED BY <1>3, <1>4

\* A driver call before the erase of the previous block, completed or not,
\* leaves what a restart loads as it is or brings in the new record.
LEMMA DiskStep ==
  ASSUME TypeInv, StoreInv, NEW g \in [Addr -> ChunkType],
         \/ /\ pc = "loop" /\ iter > 0 /\ Wrap(off)[2] = 0
            /\ \A a \in Addr : g[a] = flash[a]
                               \/ (a[1] = Wrap(off)[1] /\ g[a] \in {Blank, Torn})
         \/ /\ Writing
            /\ \A a \in Addr : a # off => g[a] = flash[a]
            /\ g[off] \in {flash[off], Torn, cache}
  PROVE  ScanCache(g) = ScanCache(flash) \/ ScanCache(g) = cache
<1>0. Committing /\ CommitInv /\ flash \in [Addr -> ChunkType] /\ cache \in ChunkType
  BY DEF StoreInv, Committing, Writing, TypeInv, TypeOK
<1>1. /\ GoodRecords(g) /\ KnownRecords(g)
      /\ \/ backup = Empty
         \/ IsRecord(backup) /\ offset \in Found(g) /\ g[offset] = backup
  BY NextErase, NextRecord
<1>2. ScanCache(g) \in {backup, cache} /\ ScanCache(flash) \in {backup, cache}
  BY <1>0, <1>1, ScanAfter, WouldLoad
<1>3. ASSUME ScanCache(flash) = cache PROVE ScanCache(g) = cache
  <2>1. PICK a \in Found(flash) : flash[a] = cache
    <3>1. cache.ver > 0 /\ Empty.ver = 0
      BY <1>0 DEF CommitInv, IsRecord, Empty, Record
    <3>1a. cache # Empty
      BY <3>1
    <3>1b. Found(flash) # {}
      BY <1>3, <3>1a DEF ScanCache
    <3>2. IsPick(flash, ScanOffset(flash)) /\ flash[ScanOffset(flash)] = cache
      BY <1>0, <1>3, <3>1b, ScanType DEF ScanCache
    <3> QED BY <3>2 DEF IsPick
  <2>2. a \in Addr
    BY DEF Found
  <2>3. CASE /\ pc = "loop" /\ iter > 0 /\ Wrap(off)[2] = 0
             /\ \A c \in Addr : g[c] = flash[c]
                                \/ (c[1] = Wrap(off)[1] /\ g[c] \in {Blank, Torn})
    <3>1. Ahead(a[1]) < Ahead(Wrap(off)[1]) /\ Ahead(Wrap(off)[1]) \in Int
      BY <1>0, <2>1, <2>2, <2>3, NextWrite DEF NewCopies
    <3>2. a[1] # Wrap(off)[1]
      BY <3>1
    <3>3. \A c \in Found(flash) : c[1] # Wrap(off)[1] => c \in Found(g) /\ g[c] = flash[c]
      <4>1. flash \in [Addr -> ChunkType]
        BY <1>0
      <4>2. Wrap(off)[1] \in Blocks
        BY <1>0, <2>3, NextWrite
      <4> QED BY <4>1, <4>2, <2>3, EraseKeeps
    <3>4. a \in Found(g) /\ g[a] = cache
      BY <2>1, <3>2, <3>3
    <3> QED BY <1>0, <1>1, <3>4, ScanAfter
  <2>4. CASE /\ Writing
             /\ \A c \in Addr : c # off => g[c] = flash[c]
             /\ g[off] \in {flash[off], Torn, cache}
    <3>1. off \in Addr /\ Wrap(off) = off
      BY <2>4, NextRecord
    <3>2. a[1] # off[1]
      <4>1. CASE off[2] = 0
        <5>1. Ahead(a[1]) < Ahead(off[1]) /\ Ahead(off[1]) \in Int
          BY <1>0, <2>1, <2>2, <2>4, <3>1, <4>1 DEF CommitInv, NewCopies, Writing
        <5> QED BY <5>1
      <4>2. CASE off[2] # 0
        <5>1. Ahead(a[1]) < 0
          BY <1>0, <2>1, <2>2, <2>4, <4>2 DEF CommitInv, NewCopies, Writing
        <5>2. a[1] \in 0 .. NB - 1 /\ offset[1] \in 0 .. NB - 1 /\ NB \in Nat
          BY <2>2, GeometryAssumption DEF Addr, Blocks, TypeInv, TypeOK
        <5> QED BY <5>1, <5>2 DEF Ahead
      <4> QED BY <4>1, <4>2
    <3>3. a \in Found(g) /\ g[a] = cache
      BY <1>0, <2>1, <2>4, <3>1, <3>2, WriteKeeps
    <3> QED BY <1>0, <1>1, <3>3, ScanAfter
  <2> QED BY <2>3, <2>4
<1> QED BY <1>2, <1>3

LEMMA MappedInit == Init => Mapped!TSInit
<1> SUFFICES ASSUME Init PROVE Mapped!TSInit
  OBVIOUS
<1>1. flash \in [Addr -> ChunkType] /\ pc = "down" /\ cache = Empty
  BY ChunkTypes DEF Init
<1>2. ScanCache(flash).data \in Data /\ Empty.data \in Data
  BY <1>1, ScanType, ChunkTypes DEF ChunkType
<1> QED BY <1>1, <1>2 DEF Mapped!TSInit, View, Committing

LEMMA MappedStep ==
  ASSUME Reliable, TypeInv, StoreInv, TypeInv', StoreInv', [Next]_vars
  PROVE  [Mapped!TSNext]_(Mapped!tsvars)
<1> DEFINE disk == ScanCache(flash).data
           up == pc # "down"
<1> USE DEF Mapped!tsvars, Mapped!TSNext
<1>0. /\ flash \in [Addr -> ChunkType] /\ cache \in ChunkType /\ backup \in ChunkType
      /\ disk \in Data /\ cache.data \in Data /\ backup.data \in Data
      /\ flash' \in [Addr -> ChunkType]
  <2>1. ScanCache(flash) \in ChunkType
    BY ScanType DEF TypeInv, TypeOK
  <2> QED BY <2>1 DEF TypeInv, TypeOK, ChunkType
<1>0a. offset[1] \in Blocks
  BY DEF TypeInv, TypeOK, Addr
<1>1. CASE flash_ts_init
  <2>1. /\ cache' = ScanCache(flash) /\ pc = "down" /\ pc' = "idle" /\ flash' = flash
    BY <1>0, <1>1, NoMisread DEF flash_ts_init
  <2> QED BY <2>1 DEF Mapped!Restart, View, Committing
<1>2. ASSUME NEW k \in Keys, NEW v \in Values \cup {NoValue}, flash_ts_set(k, v)
      PROVE  [Mapped!TSNext]_(Mapped!tsvars)
  <2>1. pc = "idle" /\ flash' = flash /\ backup' = cache
    BY <1>2 DEF flash_ts_set
  <2>2. CASE UNCHANGED <<pc, cache>>
    BY <2>1, <2>2 DEF View, Committing
  <2>3. CASE /\ pc' = "loop"
             /\ cache' = Record(cache.ver + 1, [cache.data EXCEPT ![k] = v])
             /\ [cache.data EXCEPT ![k] = v] # cache.data
    <3>1. cache'.data # cache.data /\ cache'.data \in Data
      BY <1>0, <2>3 DEF Record, Data
    <3>2. View = cache.data /\ View' = cache.data /\ pc # "down" /\ pc' # "down"
      BY <2>1, <2>3 DEF View, Committing
    <3> QED BY <2>1, <3>1, <3>2 DEF Mapped!Begin, Mapped!Busy
  <2> QED BY <1>2, <2>2, <2>3 DEF flash_ts_set
<1>3. ASSUME Committing, CommitInv, Committing', cache' = cache, backup' = backup,
             ScanCache(flash') = ScanCache(flash) \/ ScanCache(flash') = cache
      PROVE  [Mapped!TSNext]_(Mapped!tsvars)
  <2>1. /\ pc # "down" /\ pc' # "down" /\ View = backup.data /\ View' = backup.data
        /\ cache.data # backup.data
    BY <1>3 DEF View, Committing, CommitInv
  <2> QED BY <1>3, <2>1 DEF Mapped!Persist, Mapped!Busy
<1>4. CASE CommitErase
  <2>1. /\ pc = "loop" /\ iter > 0 /\ Wrap(off)[2] = 0 /\ Committing /\ CommitInv
        /\ cache' = cache /\ backup' = backup /\ Committing'
    BY <1>4 DEF CommitErase, TryNextBlock, Committing, StoreInv
  <2>2. \A a \in Addr : flash'[a] = flash[a]
                        \/ (a[1] = Wrap(off)[1] /\ flash'[a] \in {Blank, Torn})
    BY <1>0, <1>4, ErasedFacts, PartErasedFacts DEF CommitErase
  <2> QED BY <1>0, <1>3, <2>1, <2>2, DiskStep
<1>5. CASE CommitWrite
  <2>1. /\ Writing /\ Committing /\ CommitInv
        /\ cache' = cache /\ backup' = backup /\ Committing'
    BY <1>5 DEF CommitWrite, Writing, TryNextBlock, Committing, StoreInv
  <2>2. off \in Addr
    BY <1>0, <2>1, NextRecord
  <2>3. /\ \A a \in Addr : a # off => flash'[a] = flash[a]
        /\ flash'[off] \in {flash[off], Torn, cache}
    BY <1>0, <1>5, <2>2, PartWrittenFacts DEF CommitWrite
  <2> QED BY <1>0, <1>3, <2>1, <2>3, DiskStep
<1>6. ASSUME Committing, CommitInv, ScanCache(flash) = cache, ScanCache(flash') = cache,
             pc' = "idle", cache' = cache
      PROVE  [Mapped!TSNext]_(Mapped!tsvars)
  <2>1. /\ pc # "down" /\ pc' # "down" /\ View = backup.data /\ View' = cache.data
        /\ cache.data # backup.data
    BY <1>6 DEF View, Committing, CommitInv
  <2> QED BY <1>6, <2>1 DEF Mapped!Ack, Mapped!Busy
<1>7. CASE CommitVerify
  <2>1. pc = "verify" /\ flash' = flash /\ Committing /\ CommitInv /\ cache' = cache
    BY <1>7 DEF CommitVerify, TryNextBlock, Finish, Committing, StoreInv
  <2>2. CASE pc' \in {"loop", "eraseprev"} /\ backup' = backup
    BY <1>3, <2>1, <2>2 DEF Committing
  <2>3. CASE pc' = "idle"
    BY <1>6, <2>1, <2>3, WouldLoad
  <2> QED BY <1>7, <2>2, <2>3 DEF CommitVerify, TryNextBlock, Finish
<1>8. CASE CommitErasePrev
  <2>1. pc = "eraseprev" /\ pc' = "idle" /\ Committing /\ CommitInv /\ cache' = cache
    BY <1>8 DEF CommitErasePrev, Finish, Committing, StoreInv
  <2>2. ScanCache(flash) = cache
    BY <2>1, WouldLoad
  <2>3. ScanCache(flash') = cache'
    <3>1. /\ \A a \in Addr : flash'[a].ver \in Nat
          /\ IdleInv' /\ cache'.ver \in Nat
      BY <1>0, <2>1 DEF StoreInv, ChunkType
    <3>2. \A a \in Found(flash') : flash'[a] = cache' \/ flash'[a].ver < cache'.ver
      BY <3>1 DEF IdleInv, Found, flash_ts_check_header
    <3>3. cache' # Empty
      <4>1. cache.ver > 0 /\ Empty.ver = 0
        BY <2>1 DEF CommitInv, IsRecord, Empty, Record
      <4> QED BY <2>1, <4>1
    <3>4. offset' \in Found(flash') /\ flash'[offset'] = cache'
      BY <3>1, <3>3 DEF IdleInv, Anchored
    <3> QED BY <1>0, <3>2, <3>4, ScanLoads
  <2> QED BY <1>6, <2>1, <2>2, <2>3
<1>9. CASE CommitFail
  <2>1. CommitInv /\ iter = 0
    BY <1>9 DEF CommitFail, StoreInv, Committing
  <2> QED BY <2>1, GeometryAssumption, BoundsAssumption
          DEF CommitInv, MaxIterations, Reliable
<1>10. CASE PowerCut
  <2>1. pc # "down" /\ pc' = "down" /\ cache' = Empty
    BY <1>10 DEF PowerCut
  <2>2. View' = Empty.data /\ Empty.data \in Data
    BY <2>1, ChunkTypes DEF View, Committing, ChunkType
  <2>3. ScanCache(flash') = ScanCache(flash) \/ ScanCache(flash') = cache
    <3>1. CASE flash' = flash
      BY <3>1
    <3>2. CASE /\ pc = "loop" /\ iter > 0 /\ Wrap(off)[2] = 0
               /\ flash' \in PartErased(flash, Wrap(off)[1])
      <4>1. \A a \in Addr : flash'[a] = flash[a]
                            \/ (a[1] = Wrap(off)[1] /\ flash'[a] \in {Blank, Torn})
        BY <1>0, <3>2, PartErasedFacts
      <4> QED BY <1>0, <3>2, <4>1, DiskStep
    <3>3. CASE Writing /\ flash' \in PartWritten(flash, off, cache)
      <4>1. off \in Addr
        BY <1>0, <3>3, NextRecord
      <4>2. /\ \A a \in Addr : a # off => flash'[a] = flash[a]
            /\ flash'[off] \in {flash[off], Torn, cache}
        BY <1>0, <3>3, <4>1, PartWrittenFacts
      <4> QED BY <1>0, <3>3, <4>2, DiskStep
    <3>4. CASE pc = "eraseprev" /\ flash' \in PartErased(flash, offset[1])
      <4>1. CommitInv
        BY <3>4 DEF StoreInv, Committing
      <4>2. \A a \in Addr : flash'[a] = flash[a]
                            \/ (a[1] = offset[1] /\ flash'[a] \in {Blank, Torn})
        BY <1>0, <3>4, PartErasedFacts
      <4>3. /\ \A a \in Addr : flash'[a].kind = "record" => flash'[a] = flash[a]
            /\ \A a \in Found(flash) : a[1] # offset[1] =>
                 a \in Found(flash') /\ flash'[a] = flash[a]
        <5>1. flash \in [Addr -> ChunkType] /\ flash' \in [Addr -> ChunkType]
          BY <1>0
        <5> QED BY <1>0a, <4>2, <5>1, EraseKeeps
      <4>4. Ahead(offset[1]) = 0 /\ Ahead(off[1]) # 0
        BY <3>4, <4>1, GeometryAssumption
           DEF CommitInv, Ahead, Addr, Blocks, TypeInv, TypeOK
      <4>5. off \in Found(flash') /\ flash'[off] = cache
        BY <3>4, <4>1, <4>3, <4>4 DEF CommitInv
      <4>6. GoodRecords(flash') /\ KnownRecords(flash')
        BY <4>1, <4>3 DEF StoreInv, GoodRecords, CommitInv, KnownRecords
      <4> QED BY <1>0, <4>1, <4>5, <4>6, ScanAfter
    <3> QED BY <1>10, <3>1, <3>2, <3>3, <3>4 DEF PowerCut
  <2> QED BY <2>1, <2>2, <2>3 DEF Mapped!Cut
<1>11. CASE UNCHANGED vars
  BY <1>11 DEF vars, View, Committing
<1> QED
  BY <1>1, <1>2, <1>4, <1>5, <1>7, <1>8, <1>9, <1>10, <1>11 DEF Next, CommitStep

\* The flash store, with its failing driver and power cuts at any moment,
\* implements the transactional key-value store.
THEOREM Refinement == ASSUME Reliable PROVE Spec => ImplementsTransStore
<1>1. Init => Mapped!TSInit
  BY MappedInit
<1>2. (TypeInv /\ StoreInv) /\ (TypeInv /\ StoreInv)' /\ [Next]_vars
        => [Mapped!TSNext]_(Mapped!tsvars)
  BY MappedStep
<1> QED BY <1>1, <1>2, AlwaysInv, PTL DEF Spec, ImplementsTransStore, Mapped!TSSpec
=============================================================================
