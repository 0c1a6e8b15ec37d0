-------------------------------- MODULE Mmgr --------------------------------
(***************************************************************************)
(* The memory manager of U-Boot for the ION pools and the boot heap        *)
(* (mach-synaptics/drivers/plat/mmgr.c): a free list ordered by address    *)
(* and a list of allocated blocks, both doubly linked through nodes of a   *)
(* fixed pool.  Addresses count from membase.                              *)
(*                                                                         *)
(* The caller is single-threaded.  Address 0 is in no region that mem.c    *)
(* maps, so an access through NULL stops U-Boot, which resets the board.   *)
(***************************************************************************)
EXTENDS Integers, FiniteSets, FiniteSetsExt

CONSTANTS MaxPool,      \* MAXNUM_POOL, 200 in the code
          TotalSize,    \* bytes of the arena
          Unit,         \* a page for ION, 64 bytes for the heap
          Requests      \* sizes that callers ask for

ASSUME PoolAssumption == MaxPool \in Nat \ {0}
ASSUME ArenaAssumption == /\ TotalSize \in Nat \ {0} /\ Unit \in Nat \ {0}
                          /\ Requests \subseteq Int

NULL    == 0
Nodes   == 1 .. MaxPool
NoBlock == -1           \* a NULL result

Mnode == [prev : Nodes \cup {NULL}, next : Nodes \cup {NULL},
          base : 0 .. TotalSize, size : 0 .. TotalSize, isused : BOOLEAN]
Zeroed == [prev |-> NULL, next |-> NULL, base |-> 0, size |-> 0, isused |-> FALSE]

VARIABLES pool, num, p_free, p_alloc,   \* Memmgr
          ret,                          \* the last request and what it returned
          fault                         \* U-Boot has stopped

vars == <<pool, num, p_free, p_alloc, ret, fault>>

\* init_mmgr_by_type.
First == [Zeroed EXCEPT !.size = TotalSize, !.isused = TRUE]
Init ==
  /\ pool = [n \in Nodes |-> IF n = 1 THEN First ELSE Zeroed]
  /\ num = 1
  /\ p_free = 1 /\ p_alloc = NULL
  /\ ret = [size |-> 0, base |-> NoBlock] /\ fault = FALSE

-----------------------------------------------------------------------------
(* Pool and lists.  pl is a pool, h the head of a list.                    *)

Unused(pl) == {n \in Nodes : ~pl[n].isused}

\* The nodes of the list with head h: the least set that holds h and what the
\* links of its nodes lead to.
Closed(pl, h, S) == h \in S \cup {NULL} /\ \A p \in S : pl[p].next \in S \cup {NULL}
Listed(pl, h)    == {p \in Nodes : \A S \in SUBSET Nodes : Closed(pl, h, S) => p \in S}

\* The first node of a list that is in T, or NULL.
Search(pl, h, T) ==
  LET S == T \cap Listed(pl, h)
  IN  IF S = {} THEN NULL ELSE CHOOSE p \in S : S \subseteq Listed(pl, p)

\* An assignment to a field of a node, if there is one.
SetNext(pl, n, v) == IF n = NULL THEN pl ELSE [pl EXCEPT ![n].next = v]
SetPrev(pl, n, v) == IF n = NULL THEN pl ELSE [pl EXCEPT ![n].prev = v]

\* Mutant: the neighbour behind the node keeps its link.
Unlinked_Forward(pl, p) == SetNext(pl, pl[p].prev, pl[p].next)

\* Taking node p out of the list it is in.  The head of a list has no prev.
Unlinked(pl, p)   == SetPrev(SetNext(pl, pl[p].prev, pl[p].next), pl[p].next, pl[p].prev)
HeadWithout(pl, h, p) == IF p = h THEN pl[p].next ELSE h

\* The size is rounded up to whole units.
Rounded(size) == IF size % Unit # 0 THEN size - (size % Unit) + Unit ELSE size

-----------------------------------------------------------------------------
(* mmgr_alloc_by_type.                                                     *)

Reject(size) ==
  /\ ~fault
  /\ \/ size <= 0
     \/ num > MaxPool
     \/ ~\E p \in Listed(pool, p_free) : pool[p].size >= Rounded(size)
  /\ ret' = [size |-> size, base |-> NoBlock]
  /\ UNCHANGED <<pool, num, p_free, p_alloc, fault>>

\* The free node whose block is used, and the new node at the head of the
\* allocated list.
Fit(size) == Search(pool, p_free, {p \in Nodes : pool[p].size >= Rounded(size)})
WithNew(p, new, n) ==
  SetPrev([pool EXCEPT ![new] = [@ EXCEPT !.isused = TRUE, !.base = pool[p].base,
                                          !.size = n, !.next = p_alloc]],
          p_alloc, new)

\* A block that fits exactly leaves the free list; of another the front is cut.
Carve(size) ==
  LET n == Rounded(size)  p == Fit(size)  new == Min(Unused(pool))
      pl == WithNew(p, new, n)
  IN
  /\ ~fault /\ size > 0 /\ num <= MaxPool
  /\ p # NULL /\ Unused(pool) # {}
  /\ p_alloc' = new /\ ret' = [size |-> size, base |-> pool[p].base]
  /\ IF pool[p].size = n
       THEN /\ p_free' = HeadWithout(pool, p_free, p)
            /\ pool' = [Unlinked(pl, p) EXCEPT ![p] = Zeroed]
            /\ num' = num
       ELSE /\ pool' = [pl EXCEPT ![p].base = @ + n, ![p].size = @ - n]
            /\ num' = num + 1
            /\ UNCHANGED p_free
  /\ UNCHANGED fault

\* The test num > MAXNUM_POOL is never true: with all nodes in use the new
\* node is NULL.
NoNode(size) ==
  /\ ~fault /\ size > 0 /\ num <= MaxPool
  /\ Fit(size) # NULL /\ Unused(pool) = {}
  /\ fault' = TRUE
  /\ UNCHANGED <<pool, num, p_free, p_alloc, ret>>

-----------------------------------------------------------------------------
(* mmgr_free_by_type.                                                      *)

\* The block in front of p ends where p starts.
Touches(pl, p) == pl[p].prev # NULL
                  /\ pl[pl[p].prev].base + pl[pl[p].prev].size = pl[p].base
\* Mutant: a node that is not merged is counted as returned.
Merged_CountBack(pl, p) ==
  LET q == pl[p].prev
      grown == [pl EXCEPT ![q].size = @ + pl[p].size, ![q].next = pl[p].next]
  IN  IF Touches(pl, p)
        THEN [pool |-> [SetPrev(grown, pl[p].next, q) EXCEPT ![p] = Zeroed],
              node |-> q, back |-> 1]
        ELSE [pool |-> pl, node |-> p, back |-> 1]

\* check_prevnode_and_merge on a pool: the pool after it, the node that holds
\* the block, and how many nodes went back.
Merged(pl, p) ==
  LET q == pl[p].prev
      grown == [pl EXCEPT ![q].size = @ + pl[p].size, ![q].next = pl[p].next]
  IN  IF Touches(pl, p)
        THEN [pool |-> [SetPrev(grown, pl[p].next, q) EXCEPT ![p] = Zeroed],
              node |-> q, back |-> 1]
        ELSE [pool |-> pl, node |-> p, back |-> 0]

\* insert_node_2_free up to the merging: before the first node that is not
\* below p, or at the tail.
Inserted(pl, p) ==
  LET above == Search(pl, p_free, {f \in Nodes : pl[f].base >= pl[p].base})
      tail  == CHOOSE f \in Listed(pl, p_free) : pl[f].next = NULL
  IN  IF p_free = NULL THEN [pl EXCEPT ![p].prev = NULL, ![p].next = NULL]
      ELSE IF above = NULL
        THEN [pl EXCEPT ![tail].next = p, ![p].prev = tail, ![p].next = NULL]
        ELSE SetNext([pl EXCEPT ![p].prev = pl[above].prev, ![p].next = above,
                                ![above].prev = p],
                     pl[above].prev, p)

\* The node of the block m, taken out of the allocated list.
Owner(m) == Search(pool, p_alloc, {p \in Nodes : pool[p].base = m})
Out(m)   == Unlinked(pool, Owner(m))

FreeUnknown(m) ==
  /\ ~fault
  /\ Owner(m) = NULL
  /\ UNCHANGED vars

\* Mutant: the block behind is not merged.
FreeBlock_MergeOnce(m) ==
  LET p == Owner(m)
      before == Merged(Inserted(Out(m), p), p)
  IN
  /\ ~fault /\ p # NULL
  /\ p_alloc' = HeadWithout(pool, p_alloc, p)
  /\ p_free' = IF p_free = NULL \/ pool[p].base < pool[p_free].base THEN p ELSE p_free
  /\ pool' = before.pool /\ num' = num - before.back
  /\ UNCHANGED <<ret, fault>>

\* Merging is tried with the block before and with the block behind; an empty
\* free list takes the node as it is.  A block that ends up last in the list
\* has nothing behind it, and that nothing is looked at.
FreeBlock(m) ==
  LET p == Owner(m)
      placed == Inserted(Out(m), p)
      before == Merged(placed, p)
      behind == before.pool[before.node].next
      after  == Merged(before.pool, behind)
  IN
  /\ ~fault /\ p # NULL
  /\ p_alloc' = HeadWithout(pool, p_alloc, p)
  /\ p_free' = IF p_free = NULL \/ pool[p].base < pool[p_free].base THEN p ELSE p_free
  /\ CASE p_free = NULL -> pool' = placed /\ UNCHANGED <<num, fault>>
       [] p_free # NULL /\ behind = NULL ->
            pool' = before.pool /\ num' = num - before.back /\ fault' = TRUE
       [] OTHER ->
            /\ pool' = after.pool /\ num' = num - before.back - after.back
            /\ UNCHANGED fault
  /\ UNCHANGED ret

\* U-Boot starts again.
Restart ==
  /\ fault
  /\ pool' = [n \in Nodes |-> IF n = 1 THEN First ELSE Zeroed]
  /\ num' = 1
  /\ p_free' = 1 /\ p_alloc' = NULL
  /\ ret' = [size |-> 0, base |-> NoBlock] /\ fault' = FALSE

Next == \/ \E size \in Requests : Reject(size) \/ Carve(size) \/ NoNode(size)
        \/ \E m \in 0 .. TotalSize : FreeUnknown(m) \/ FreeBlock(m)
        \/ Restart

Spec == Init /\ [][Next]_vars

-----------------------------------------------------------------------------
TypeOK ==
  /\ pool \in [Nodes -> Mnode]
  /\ num \in 0 .. MaxPool
  /\ p_free \in Nodes \cup {NULL} /\ p_alloc \in Nodes \cup {NULL}
  /\ ret \in [size : Requests \cup {0}, base : -1 .. TotalSize]
  /\ fault \in BOOLEAN

\* The list with head h can be walked in both directions.
Linked(h) ==
  /\ h # NULL => pool[h].prev = NULL
  /\ \A p \in Listed(pool, h) :
       pool[p].next # NULL => pool[pool[p].next].prev = p

\* The free list is in order of address and no two of its blocks touch.
Coalesced ==
  \A p \in Listed(pool, p_free) :
    pool[p].next # NULL => pool[p].base + pool[p].size < pool[pool[p].next].base

\* Whatever the order of allocations and frees: both lists can be walked and end,
\* the nodes in use are those of the two lists, each in one of them, so that no
\* node leaks, and mmgr_free_by_type has undone every split of
\* mmgr_alloc_by_type that it can.
ListsSound ==
  /\ Linked(p_free) /\ Linked(p_alloc)
  /\ Listed(pool, p_free) \cap Listed(pool, p_alloc) = {}
  /\ Listed(pool, p_free) \cup Listed(pool, p_alloc) = Nodes \ Unused(pool)
  /\ num = Cardinality(Nodes \ Unused(pool))
  /\ Coalesced

\* What the lists say is in use, and the promise of a memory manager: live
\* blocks never overlap, all memory comes back, and a request is refused only
\* when there is no hole for it.
Live == {[base |-> pool[p].base, size |-> pool[p].size] : p \in Listed(pool, p_alloc)}
Memory == INSTANCE Heap WITH live <- Live
ImplementsHeap == Memory!Spec
=============================================================================
