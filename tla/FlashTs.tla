------------------------------ MODULE FlashTs ------------------------------
(***************************************************************************)
(* The flash-based transactional key-value store of the bootloader         *)
(* (boot/common/driver/flash_ts).  A partition of NB erase blocks, each of *)
(* CPB chunks, holds records; the valid record with the highest version is *)
(* the current one.  flash_ts_set writes a new record after the current    *)
(* one and reads it back; flash_ts_init finds the current one again.       *)
(*                                                                         *)
(* Every call of the flash driver is a step of its own, it may fail, and   *)
(* power may be cut before, during or after it.                            *)
(***************************************************************************)
EXTENDS Integers, FiniteSets, FiniteSetsExt

CONSTANTS NB,            \* erase blocks of the partition
          CPB,           \* chunks (records) of an erase block
          Keys, Values,
          NoValue,       \* the empty string, which stands for "no entry"
          EntryLen,      \* EntryLen[v]: bytes an entry with value v takes
          DataSize,      \* sizeof(cache.data)
          MaxVersion,    \* bound: versions explored
          MaxFaults,     \* bound: driver calls that fail in one commit
          ScanFaults     \* whether page reads may fail while scanning

ASSUME GeometryAssumption ==
  /\ NB \in Nat \ {0}
  /\ CPB \in Nat \ {0}
ASSUME BoundsAssumption ==
  /\ MaxVersion \in Nat
  /\ MaxFaults \in Nat
  /\ ScanFaults \in BOOLEAN
ASSUME ValueAssumption == NoValue \notin Values

Blocks == 0 .. NB - 1
Chunks == 0 .. CPB - 1
Addr   == Blocks \X Chunks

\* The contents of data[]: what every key is set to.
Data    == [Keys -> Values \cup {NoValue}]
NoData  == [k \in Keys |-> NoValue]

\* cache.len for the contents d: every entry, and the final null byte.
DataLen(d) == 1 + MapThenSumSet(LAMBDA k : EntryLen[d[k]],
                                {k \in Keys : d[k] # NoValue})

\* A chunk of flash: erased, holding neither a record nor blank, or a record.
Record(ver, d) == [kind |-> "record", ver |-> ver, data |-> d]
Blank          == [kind |-> "blank", ver |-> 0, data |-> NoData]
Torn           == [kind |-> "torn", ver |-> 0, data |-> NoData]
ChunkType      == [kind : {"record", "blank", "torn"}, ver : 0 .. MaxVersion, data : Data]

VARIABLES flash,    \* contents of the partition
          pc,       \* "down", "idle", or the next driver call of the commit
          cache,    \* ts->cache, a record (version 0: the default empty state)
          backup,   \* ts->cache_tmp_backup
          offset,   \* ts->offset
          off,      \* off of flash_ts_commit; block NB is the end of the partition
          iter,     \* iterations of the commit loop that are left
          res       \* result of the last flash_ts_set

vars == <<flash, pc, cache, backup, offset, off, iter, res>>

MaxIterations == 2 * NB

Committing == pc \in {"loop", "write", "verify", "eraseprev"}

-----------------------------------------------------------------------------
(* Reading the partition: flash_ts_scan.                                   *)

\* The version of a valid record, 0 for anything else.
flash_ts_check_header(c) == IF c.kind = "record" THEN c.ver ELSE 0

is_blank(c) == c.kind = "blank"

\* The scan leaves a block at its first blank chunk.
Scanned(f, a) == \A i \in 0 .. a[2] - 1 : ~is_blank(f[<<a[1], i>>])

Found(f) == {a \in Addr : Scanned(f, a) /\ flash_ts_check_header(f[a]) > 0}

ScanBefore(a, b) == a[1] < b[1] \/ (a[1] = b[1] /\ a[2] <= b[2])

\* Mutant: the first record found is kept whatever the versions.
IsPick_FirstFound(f, a) ==
  a \in Found(f) /\ \A b \in Found(f) : ScanBefore(a, b)

\* Only a strictly higher version replaces the record found so far.
IsPick(f, a) ==
  /\ a \in Found(f)
  /\ \A b \in Found(f) :
       \/ f[b].ver < f[a].ver
       \/ f[b].ver = f[a].ver /\ ScanBefore(a, b)

\* What flash_ts_init loads from the contents f, and from where.
Empty     == Record(0, NoData)
LastChunk == <<NB - 1, CPB - 1>>
ScanOffset(f) == IF Found(f) = {} THEN LastChunk
                                  ELSE CHOOSE a \in Addr : IsPick(f, a)
ScanCache(f)  == IF Found(f) = {} THEN Empty ELSE f[ScanOffset(f)]

\* A page that cannot be read counts as 0xff: a chunk with such a page looks
\* blank or torn.
Misread(f) ==
  {[a \in Addr |-> IF a \in bad THEN c ELSE f[a]] :
     bad \in IF ScanFaults THEN SUBSET Addr ELSE {{}}, c \in {Blank, Torn}}

-----------------------------------------------------------------------------
(* Driver calls that do not complete.                                      *)

\* Any part of block b is erased, some of it in the middle of a chunk.
PartErased(f, b) ==
  {[a \in Addr |-> IF a[1] = b /\ a[2] \in gone THEN Blank
                   ELSE IF a[1] = b /\ a[2] \in half THEN Torn ELSE f[a]] :
     gone, half \in SUBSET Chunks}

Erased(f, b) == [a \in Addr |-> IF a[1] = b THEN Blank ELSE f[a]]

\* The record is two pages and its data usually fits in the first one, so a
\* write that does not complete leaves the old chunk, garbage or the record.
PartWritten(f, a, r) == {[f EXCEPT ![a] = c] : c \in {f[a], Torn, r}}

-----------------------------------------------------------------------------
Init ==
  /\ flash \in [Addr -> {Blank, Torn}]
  /\ pc = "down"
  /\ cache = Empty
  /\ backup = Empty
  /\ offset = LastChunk
  /\ off = LastChunk
  /\ iter = 0
  /\ res = "none"

\* flash_ts_init: set the default empty state, scan, enable.
flash_ts_init ==
  /\ pc = "down"
  /\ \E f \in Misread(flash) :
       /\ cache' = ScanCache(f)
       /\ offset' = ScanOffset(f)
  /\ pc' = "idle"
  /\ res' = "none"
  /\ UNCHANGED <<flash, backup, off, iter>>

\* Mutants: the chunk is not advanced; the end of the block is not noticed.
NextChunk_Same(a)   == a
NextChunk_NoEdge(a) == <<a[1], a[2] + 1>>

NextChunk(a) == IF a[2] + 1 < CPB THEN <<a[1], a[2] + 1>> ELSE <<a[1] + 1, 0>>
NextBlock(a) == <<a[1] + 1, 0>>
Wrap(a)      == IF a[1] >= NB THEN <<0, 0>> ELSE a

\* Mutant: the version is not incremented.
flash_ts_set_SameVersion(k, v) ==
  LET new == [cache.data EXCEPT ![k] = v]
  IN  /\ pc = "idle"
      /\ new # cache.data /\ DataLen(new) <= DataSize
      /\ backup' = cache
      /\ cache' = Record(IF cache.ver = 0 THEN 1 ELSE cache.ver, new)
      /\ off' = NextChunk(offset)
      /\ iter' = MaxIterations
      /\ pc' = "loop"
      /\ res' = "none"
      /\ UNCHANGED <<flash, offset>>

\* flash_ts_set up to the call of flash_ts_commit, and its early returns.
flash_ts_set(k, v) ==
  LET new == [cache.data EXCEPT ![k] = v]
  IN  /\ pc = "idle"
      /\ backup' = cache
      /\ \/ /\ new = cache.data            \* nothing to update
            /\ res' = "ok"
            /\ UNCHANGED <<pc, cache, off, iter>>
         \/ /\ new # cache.data
            /\ DataLen(new) > DataSize
            /\ res' = "nospace"
            /\ UNCHANGED <<pc, cache, off, iter>>
         \/ /\ new # cache.data
            /\ DataLen(new) <= DataSize
            /\ cache.ver < MaxVersion
            /\ cache' = Record(cache.ver + 1, new)
            /\ off' = NextChunk(offset)
            /\ iter' = MaxIterations
            /\ pc' = "loop"
            /\ res' = "none"
      /\ UNCHANGED <<flash, offset>>

\* Bound: driver calls of this commit that have failed, one per pass.
CanFail == MaxIterations - iter < MaxFaults

\* Mutant: a failed pass does not count.
TryNextBlock_NoCount ==
  /\ CanFail
  /\ off' = NextBlock(Wrap(off))
  /\ pc' = "loop"
  /\ UNCHANGED <<cache, backup, offset, iter, res>>

\* The end of a failed pass of the loop: go on in the next block.
TryNextBlock ==
  /\ CanFail
  /\ off' = NextBlock(Wrap(off))
  /\ iter' = iter - 1
  /\ pc' = "loop"
  /\ UNCHANGED <<cache, backup, offset, res>>

\* Mutant: the previous block is erased before the new record is written.
CommitErase_PrevToo ==
  /\ pc = "loop" /\ iter > 0
  /\ Wrap(off)[2] = 0
  /\ flash' = Erased(Erased(flash, Wrap(off)[1]), offset[1])
  /\ off' = Wrap(off)
  /\ pc' = "write"
  /\ UNCHANGED <<cache, backup, offset, iter, res>>

\* A new block is erased before it is written.
CommitErase ==
  /\ pc = "loop" /\ iter > 0
  /\ Wrap(off)[2] = 0
  /\ \/ /\ flash' = Erased(flash, Wrap(off)[1])
        /\ off' = Wrap(off)
        /\ pc' = "write"
        /\ UNCHANGED <<cache, backup, offset, iter, res>>
     \/ /\ flash' \in PartErased(flash, Wrap(off)[1])
        /\ TryNextBlock

\* In the middle of a block the write comes at once.
Writing == \/ pc = "write"
           \/ pc = "loop" /\ iter > 0 /\ Wrap(off)[2] # 0

CommitWrite ==
  /\ Writing
  /\ \/ /\ flash' = [flash EXCEPT ![off] = cache]
        /\ pc' = "verify"
        /\ UNCHANGED <<cache, backup, offset, off, iter, res>>
     \/ /\ flash' \in PartWritten(flash, off, cache)
        /\ TryNextBlock

\* The commit is done: remember where the record is, flash_ts_set returns 0.
Finish ==
  /\ offset' = off
  /\ pc' = "idle"
  /\ res' = "ok"
  /\ UNCHANGED <<cache, backup, off, iter>>

\* Read the record back and compare; an unreadable page counts as 0xff.
CommitVerify ==
  /\ pc = "verify"
  /\ \/ /\ flash[off] = cache
        /\ IF off[2] = 0 /\ off[1] # offset[1]
             THEN pc' = "eraseprev" /\ UNCHANGED <<cache, backup, offset, off, iter, res>>
             ELSE Finish
     \/ TryNextBlock
  /\ UNCHANGED flash

\* Mutant: the block just written is erased instead.
CommitErasePrev_Wrong ==
  /\ pc = "eraseprev"
  /\ flash' \in PartErased(flash, off[1])
  /\ Finish

\* After the first record of a block the block of the previous record is
\* erased; the result of that erase is ignored, so it may erase any part.
CommitErasePrev ==
  /\ pc = "eraseprev"
  /\ flash' \in PartErased(flash, offset[1])
  /\ Finish

\* Mutant: the cache is not restored.
CommitFail_KeepCache ==
  /\ pc = "loop" /\ iter = 0
  /\ pc' = "idle"
  /\ res' = "io"
  /\ UNCHANGED <<flash, cache, backup, offset, off, iter>>

\* All passes failed: flash_ts_set restores its cache and returns -EIO.
CommitFail ==
  /\ pc = "loop" /\ iter = 0
  /\ cache' = backup
  /\ pc' = "idle"
  /\ res' = "io"
  /\ UNCHANGED <<flash, backup, offset, off, iter>>

CommitStep ==
  CommitErase \/ CommitWrite \/ CommitVerify \/ CommitErasePrev \/ CommitFail

\* Power is cut, maybe in the middle of the driver call that comes next.  RAM
\* is lost: what it held no longer matters.
PowerCut ==
  /\ pc # "down"
  /\ \/ UNCHANGED flash
     \/ /\ pc = "loop" /\ iter > 0 /\ Wrap(off)[2] = 0
        /\ flash' \in PartErased(flash, Wrap(off)[1])
     \/ /\ Writing
        /\ flash' \in PartWritten(flash, off, cache)
     \/ /\ pc = "eraseprev"
        /\ flash' \in PartErased(flash, offset[1])
  /\ pc' = "down"
  /\ cache' = Empty
  /\ backup' = Empty
  /\ offset' = LastChunk
  /\ off' = LastChunk
  /\ iter' = 0
  /\ res' = "none"

Next ==
  \/ flash_ts_init
  \/ \E k \in Keys, v \in Values \cup {NoValue} : flash_ts_set(k, v)
  \/ CommitStep
  \/ PowerCut

\* The commit is a loop of sequential code: it runs on unless power is cut.
Spec == Init /\ [][Next]_vars /\ WF_vars(CommitStep)

-----------------------------------------------------------------------------
TypeOK ==
  /\ flash \in [Addr -> ChunkType]
  /\ pc \in {"down", "idle", "loop", "write", "verify", "eraseprev"}
  /\ cache \in ChunkType
  /\ backup \in ChunkType
  /\ offset \in Addr
  /\ off \in (0 .. NB) \X Chunks
  /\ iter \in 0 .. MaxIterations
  /\ res \in {"none", "ok", "nospace", "io"}

\* A call of flash_ts_set that has returned 0 is what a restart would load,
\* whatever failed or was interrupted before ("Flash-based transactional
\* key-value store", flash_ts.h; flash_ts_set "returns 0 on success").
AckedIsDurable == pc = "idle" /\ res = "ok" => ScanCache(flash).data = cache.data

\* While a set is being committed, a power cut at this very moment loads the
\* contents before the set or the contents after it, never anything older,
\* younger or mixed.
CommitIsAtomic ==
  Committing => ScanCache(flash).data \in {backup.data, cache.data}

\* flash_ts_commit never erases or overwrites the record that
\* flash_ts_init would fall back to before the new one has been read back.
OldRecordSafe ==
  pc \in {"loop", "write", "verify"} /\ backup.ver > 0 => flash[offset] = backup

\* Two records of the same version hold the same data, so that it does not
\* matter which of them the scan finds first.
VersionNamesData ==
  \A a, b \in Found(flash) : flash[a].ver = flash[b].ver => flash[a] = flash[b]

\* Whatever fails: what flash_ts_get answers changes only when flash_ts_set
\* returns 0, and then the new record is where ts->offset says, also after the
\* previous block has been erased.  A set that fails leaves no trace in it.
View == IF Committing THEN backup.data ELSE cache.data
OnlyAckChangesView ==
  [][pc # "down" /\ pc' # "down" /\ View' # View
       => res' = "ok" /\ cache' = cache /\ flash'[offset'] = cache]_vars

\* The commit loop ends: every flash_ts_set returns, or power is cut.
SetReturns == Committing ~> ~Committing

-----------------------------------------------------------------------------
(* The inductive invariant behind the safety properties, for a store whose *)
(* driver fails fewer than NB - 1 times in one commit.                     *)

IsRecord(c) == c.kind = "record" /\ c.ver > 0

\* The record r was acknowledged at ts->offset and the scan reaches it there,
\* or nothing was ever acknowledged.
Anchored(r) ==
  \/ r = Empty /\ offset = LastChunk
  \/ IsRecord(r) /\ offset \in Found(flash) /\ flash[offset] = r

\* Blocks the commit has passed since ts->offset, going round the partition.
Ahead(b) == IF b >= offset[1] THEN b - offset[1] ELSE b + NB - offset[1]

\* Records are valid, and equal versions are equal records, visible or not.
GoodRecords(f) ==
  /\ \A a \in Addr : f[a].kind = "record" => f[a].ver > 0
  /\ \A a, b \in Addr : f[a].kind = "record" /\ f[b].kind = "record"
                        /\ f[a].ver = f[b].ver => f[a] = f[b]

\* Down: no hidden record is newer than all the visible ones.
DownInv ==
  \A a \in Addr : flash[a].kind = "record" =>
    \E b \in Found(flash) : flash[b].ver >= flash[a].ver

\* Idle: the cache is anchored, every other record is older or the same.
IdleInv ==
  /\ Anchored(cache)
  /\ \A a \in Addr : flash[a].kind = "record" =>
       flash[a] = cache \/ flash[a].ver < cache.ver

\* Committing: the backup is anchored and the cache is its successor.  Copies
\* of the cache left by failed passes are visible and behind the write position.
NewCopies(d) ==
  \A a \in Addr : flash[a] = cache => a \in Found(flash) /\ Ahead(a[1]) < d

CommitInv ==
  /\ Anchored(backup)
  /\ IsRecord(cache) /\ cache.ver = backup.ver + 1 /\ cache.data # backup.data
  /\ MaxIterations - iter <= MaxFaults
  /\ \A a \in Addr : flash[a].kind = "record" =>
       flash[a] = cache \/ flash[a] = backup \/ flash[a].ver < backup.ver
  /\ pc \in {"loop", "write"} /\ off[2] = 0 =>
       /\ Ahead(Wrap(off)[1]) \in 1 .. MaxIterations - iter + 1
       /\ NewCopies(Ahead(Wrap(off)[1]))
  /\ pc = "write" => off[2] = 0
  /\ pc = "loop" /\ off[2] # 0 =>
       /\ off = <<offset[1], offset[2] + 1>>
       /\ iter = MaxIterations /\ NewCopies(0)
  /\ pc \in {"verify", "eraseprev"} =>
       /\ off \in Found(flash) /\ flash[off] = cache
       /\ IF off[2] = 0 THEN Ahead(off[1]) \in 1 .. MaxIterations - iter + 1
          ELSE off = <<offset[1], offset[2] + 1>> /\ iter = MaxIterations
  /\ pc = "verify" => NewCopies(Ahead(off[1]) + 1)
  /\ pc = "eraseprev" => off[2] = 0

\* Flash always holds the last acknowledged record where the scan reaches it,
\* and nothing that the scan would prefer to it but the set in progress.
StoreInv ==
  /\ GoodRecords(flash)
  /\ pc = "down" => DownInv
  /\ pc = "idle" => IdleInv
  /\ Committing => CommitInv

\* The store as its client sees it, and what a restart would load.
Mapped == INSTANCE TransStore WITH
  Maps    <- Data,
  up      <- pc # "down",
  store   <- View,
  disk    <- ScanCache(flash).data,
  pending <- cache.data

\* The flash store implements the transactional store.
ImplementsTransStore == Mapped!TSSpec
=============================================================================
