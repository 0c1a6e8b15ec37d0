----------------------------- MODULE MmgrProofs -----------------------------
(***************************************************************************)
(* Proofs about Mmgr: the lists, the pool and the arena stay sound for any *)
(* number of nodes, any arena and any requests, and the manager keeps the  *)
(* promise of Heap.                                                        *)
(***************************************************************************)
EXTENDS Mmgr, FiniteSetTheorems, WellFoundedInduction, TLAPS

USE DEF NULL

-----------------------------------------------------------------------------
(* Lists.                                                                  *)

Links == Nodes \cup {NULL}
Pools == [Nodes -> Mnode]

\* S holds the nodes of the list with head h, which can be walked both ways.
List(pl, h, S) ==
  /\ S \subseteq Nodes /\ h \in S \cup {NULL}
  /\ \A p \in S : pl[p].next \in S \cup {NULL}
  /\ \A V \in SUBSET S : Closed(pl, h, V) => V = S
  /\ h # NULL => pl[h].prev = NULL
  /\ \A p \in S : pl[p].next # NULL => pl[pl[p].next].prev = p

\* NULL is not a node.
LEMMA NullIsNoNode == NULL \notin Nodes
  BY DEF Nodes

\* The nodes of a list: the links stay among them, and they are the least such
\* set.
LEMMA ListedLeast ==
  ASSUME NEW pl \in Pools, NEW h \in Links
  PROVE  /\ Listed(pl, h) \subseteq Nodes
         /\ Closed(pl, h, Listed(pl, h))
         /\ \A S \in SUBSET Nodes : Closed(pl, h, S) => Listed(pl, h) \subseteq S
  <1>1. \A p \in Nodes : pl[p].next \in Links
    BY DEF Pools, Mnode, Links
  <1>2. \A S \in SUBSET Nodes : Closed(pl, h, S) => Listed(pl, h) \subseteq S
    BY DEF Listed
  <1>3. h \in Listed(pl, h) \cup {NULL}
    BY DEF Listed, Closed, Links
  <1>4. ASSUME NEW p \in Listed(pl, h) PROVE pl[p].next \in Listed(pl, h) \cup {NULL}
    BY <1>1, <1>4 DEF Listed, Closed, Links
  <1>5. QED  BY <1>2, <1>3, <1>4 DEF Closed, Listed

\* A list holds the nodes that its head leads to.
LEMMA ListIsListed ==
  ASSUME NEW pl \in Pools, NEW h, NEW S, List(pl, h, S)
  PROVE  h \in Links /\ S = Listed(pl, h)
  <1>1. h \in Links
    BY DEF List, Links
  <1>2. Closed(pl, h, S) /\ S \in SUBSET Nodes
    BY DEF List, Closed
  <1>3. Listed(pl, h) \subseteq S /\ Closed(pl, h, Listed(pl, h))
    BY <1>1, <1>2, ListedLeast
  <1>4. QED  BY <1>1, <1>3 DEF List

\* A node that is not the head has the node before it in prev.
LEMMA BackLink ==
  ASSUME NEW pl, NEW h, NEW S, List(pl, h, S), NEW p \in S, p # h
  PROVE  /\ pl[p].prev \in S /\ pl[p].prev # p /\ pl[pl[p].prev].next = p
         /\ pl[p].prev # NULL /\ h # NULL
  <1> DEFINE V == {r \in S : r = h \/ \E q \in S : q # r /\ pl[q].next = r}
  <1>1. ASSUME NEW r \in V PROVE pl[r].next \in V \cup {NULL}
    <2>1. r \in S /\ pl[r].next \in S \cup {NULL}
      BY <1>1 DEF List
    <2>2. QED  BY <1>1, <2>1
  <1>2. h \in V \cup {NULL}
    BY DEF List
  <1>3. V = S
    BY <1>1, <1>2 DEF List, Closed
  <1>4. PICK q \in S : q # p /\ pl[q].next = p
    BY <1>3
  <1>5. p \in Nodes /\ q \in Nodes /\ p # NULL /\ q # NULL
    BY NullIsNoNode DEF List
  <1>6. pl[p].prev = q
    BY <1>4, <1>5 DEF List
  <1>7. h # NULL
    <2>1. SUFFICES ASSUME h = NULL PROVE FALSE
      OBVIOUS
    <2>2. Closed(pl, h, {})
      BY <2>1 DEF Closed
    <2>3. QED  BY <2>2 DEF List
  <1>8. QED  BY <1>4, <1>5, <1>6, <1>7

\* Two nodes do not lead to the same one, and none leads to the head.
LEMMA OnePredecessor ==
  ASSUME NEW pl, NEW h, NEW S, List(pl, h, S), NEW q \in S, pl[q].next # NULL
  PROVE  /\ pl[q].next \in S /\ pl[q].next # h /\ pl[pl[q].next].prev = q
         /\ pl[q].next # q
  <1>1. q \in Nodes /\ q # NULL
    BY NullIsNoNode DEF List
  <1>2. pl[q].next \in S /\ pl[q].next # h /\ pl[pl[q].next].prev = q
    BY <1>1 DEF List
  <1>3. pl[q].next # q
    BY <1>2, BackLink
  <1>4. QED  BY <1>2, <1>3

\* What the links of a list say.
LEMMA ListLinks ==
  ASSUME NEW pl, NEW h, NEW S, List(pl, h, S)
  PROVE  \A r \in S : /\ r # NULL /\ pl[r].next \in S \cup {NULL}
                      /\ pl[r].next # h /\ pl[r].next # r
                      /\ pl[r].next # NULL => pl[pl[r].next].prev = r
  <1>1. SUFFICES ASSUME NEW r \in S
                 PROVE  /\ r # NULL /\ pl[r].next \in S \cup {NULL}
                        /\ pl[r].next # h /\ pl[r].next # r
                        /\ pl[r].next # NULL => pl[pl[r].next].prev = r
    OBVIOUS
  <1>2. r # NULL /\ pl[r].next \in S \cup {NULL}
        /\ (pl[r].next # NULL => pl[pl[r].next].prev = r)
    BY NullIsNoNode DEF List
  <1>3. h # NULL
    BY <1>2, BackLink
  <1>4. CASE pl[r].next # NULL
    BY <1>2, <1>4, OnePredecessor
  <1>5. QED  BY <1>2, <1>3, <1>4

\* The lists an assignment elsewhere leaves alone.
LEMMA ListKept ==
  ASSUME NEW pl, NEW pr, NEW h, NEW S, List(pl, h, S),
         \A r \in S : pr[r].next = pl[r].next /\ pr[r].prev = pl[r].prev
  PROVE  List(pr, h, S)
  <1>1. \A V \in SUBSET S : Closed(pr, h, V) => Closed(pl, h, V)
    BY DEF Closed
  <1>2. QED  BY <1>1 DEF List

\* A node goes in front of the head.
LEMMA ListPush ==
  ASSUME NEW pl, NEW pr, NEW h, NEW S, List(pl, h, S),
         NEW p \in Nodes, p \notin S,
         pr[p].next = h, pr[p].prev = NULL,
         \A r \in S : /\ pr[r].next = pl[r].next
                      /\ pr[r].prev = (IF r = h THEN p ELSE pl[r].prev)
  PROVE  List(pr, p, S \cup {p})
  <1>1. \A r \in S : r # NULL /\ pl[r].next \in S \cup {NULL} /\ pl[r].next # h
                     /\ (pl[r].next # NULL => pl[pl[r].next].prev = r)
    BY ListLinks
  <1>2. h \in S \cup {NULL} /\ p # NULL /\ S \subseteq Nodes
    BY NullIsNoNode DEF List
  <1>3. ASSUME NEW V \in SUBSET (S \cup {p}), Closed(pr, p, V) PROVE V = S \cup {p}
    <2>1. p \in V
      BY <1>2, <1>3 DEF Closed
    <2>2. h \in (V \cap S) \cup {NULL}
      BY <1>2, <1>3, <2>1 DEF Closed
    <2>3. \A r \in V \cap S : pl[r].next \in (V \cap S) \cup {NULL}
      BY <1>1, <1>3 DEF Closed
    <2>4. Closed(pl, h, V \cap S)
      BY <2>2, <2>3 DEF Closed
    <2>5. V \cap S = S
      BY <2>4 DEF List
    <2>6. QED  BY <2>1, <2>5
  <1>4. \A r \in S \cup {p} : pr[r].next \in (S \cup {p}) \cup {NULL}
    BY <1>1, <1>2
  <1>5. \A r \in S \cup {p} : pr[r].next # NULL => pr[pr[r].next].prev = r
    BY <1>1, <1>2
  <1>6. QED  BY <1>2, <1>3, <1>4, <1>5 DEF List

\* A node goes behind node q.
LEMMA ListInsert ==
  ASSUME NEW pl, NEW pr, NEW h, NEW S, List(pl, h, S),
         NEW p \in Nodes, p \notin S, NEW q \in S,
         pr[p].next = pl[q].next, pr[p].prev = q,
         \A r \in S : /\ pr[r].next = (IF r = q THEN p ELSE pl[r].next)
                      /\ pr[r].prev = (IF r = pl[q].next THEN p ELSE pl[r].prev)
  PROVE  List(pr, h, S \cup {p})
  <1>1. \A r \in S : r # NULL /\ pl[r].next \in S \cup {NULL} /\ pl[r].next # h
                     /\ (pl[r].next # NULL => pl[pl[r].next].prev = r)
    BY ListLinks
  <1>2. h \in S \cup {NULL} /\ p # NULL /\ S \subseteq Nodes /\ q # NULL
    BY NullIsNoNode DEF List
  <1>3. ASSUME NEW V \in SUBSET (S \cup {p}), Closed(pr, h, V) PROVE V = S \cup {p}
    <2>1. h \in (V \cap S) \cup {NULL}
      BY <1>2, <1>3 DEF Closed
    <2>2. ASSUME NEW r \in V \cap S PROVE pl[r].next \in (V \cap S) \cup {NULL}
      <3>1. CASE r # q
        BY <1>1, <1>3, <3>1 DEF Closed
      <3>2. CASE r = q
        <4>1. p \in V
          BY <1>2, <1>3, <3>2 DEF Closed
        <4>2. QED  BY <1>1, <1>3, <3>2, <4>1 DEF Closed
      <3>3. QED  BY <3>1, <3>2
    <2>3. Closed(pl, h, V \cap S)
      BY <2>1, <2>2 DEF Closed
    <2>4. V \cap S = S
      BY <2>3 DEF List
    <2>5. p \in V
      BY <1>2, <1>3, <2>4 DEF Closed
    <2>6. QED  BY <2>4, <2>5
  <1>4. \A r \in S \cup {p} : pr[r].next \in (S \cup {p}) \cup {NULL}
    BY <1>1, <1>2
  <1>5. ASSUME NEW r \in S \cup {p}, pr[r].next # NULL PROVE pr[pr[r].next].prev = r
    <2>1. CASE r = p
      BY <1>1, <1>2, <1>5, <2>1
    <2>2. CASE r = q
      BY <1>1, <1>2, <1>5, <2>2
    <2>3. CASE r \in S /\ r # q
      <3>1. pr[r].next = pl[r].next /\ pl[r].next \in S /\ pl[r].next # pl[q].next
        BY <1>1, <1>2, <1>5, <2>3
      <3>2. QED  BY <1>1, <1>5, <2>3, <3>1
    <2>4. QED  BY <1>5, <2>1, <2>2, <2>3
  <1>6. h # NULL => pr[h].prev = NULL
    BY <1>1, <1>2 DEF List
  <1>7. QED  BY <1>2, <1>3, <1>4, <1>5, <1>6 DEF List

\* A node leaves the list.
LEMMA ListRemove ==
  ASSUME NEW pl, NEW pr, NEW h, NEW S, List(pl, h, S), NEW p \in S,
         \A r \in S \ {p} :
           /\ pr[r].next = (IF r = pl[p].prev THEN pl[p].next ELSE pl[r].next)
           /\ pr[r].prev = (IF r = pl[p].next THEN pl[p].prev ELSE pl[r].prev)
  PROVE  List(pr, HeadWithout(pl, h, p), S \ {p})
  <1> DEFINE g == HeadWithout(pl, h, p)
  <1>1. \A r \in S : r # NULL /\ pl[r].next \in S \cup {NULL} /\ pl[r].next # h
                     /\ (pl[r].next # NULL => pl[pl[r].next].prev = r)
                     /\ pl[r].next # r
    BY ListLinks
  <1>2. h \in S \cup {NULL} /\ S \subseteq Nodes /\ (h # NULL => pl[h].prev = NULL)
    BY DEF List
  <1>3. p # h => /\ pl[p].prev \in S /\ pl[p].prev # p /\ pl[pl[p].prev].next = p
                 /\ pl[p].prev # NULL /\ h # NULL
    BY BackLink
  <1>4. g \in (S \ {p}) \cup {NULL} /\ g = (IF p = h THEN pl[p].next ELSE h)
    BY <1>1, <1>2 DEF HeadWithout
  <1>5. \A r \in S \ {p} : pr[r].next \in (S \ {p}) \cup {NULL}
    BY <1>1, <1>2
  <1>6. ASSUME NEW V \in SUBSET (S \ {p}), Closed(pr, g, V) PROVE V = S \ {p}
    <2>1. CASE p # h /\ pl[p].prev \notin V
      <3>1. \A r \in V : pl[r].next \in V \cup {NULL}
        BY <1>6, <2>1 DEF Closed
      <3>2. Closed(pl, h, V)
        BY <1>4, <1>6, <2>1, <3>1 DEF Closed
      <3>3. V = S
        BY <3>2 DEF List
      <3>4. QED  BY <1>3, <2>1, <3>3
    <2>2. CASE p = h \/ pl[p].prev \in V
      <3>1. pl[p].next \in V \cup {NULL}
        BY <1>3, <1>4, <1>6, <2>2 DEF Closed
      <3>2. \A r \in V : pl[r].next \in (V \cup {p}) \cup {NULL}
        <4>1. SUFFICES ASSUME NEW r \in V PROVE pl[r].next \in (V \cup {p}) \cup {NULL}
          OBVIOUS
        <4>2. CASE r = pl[p].prev
          BY <1>2, <1>3, <1>1, <4>2
        <4>3. CASE r # pl[p].prev
          BY <1>6, <4>3 DEF Closed
        <4>4. QED  BY <4>2, <4>3
      <3>3. h \in (V \cup {p}) \cup {NULL}
        BY <1>4, <1>6 DEF Closed
      <3>4. Closed(pl, h, V \cup {p})
        BY <3>1, <3>2, <3>3 DEF Closed
      <3>5. V \cup {p} = S
        BY <3>4 DEF List
      <3>6. QED  BY <1>6, <3>5
    <2>3. QED  BY <2>1, <2>2
  <1>7. \A r \in S \ {p} : pr[r].next # NULL => pr[pr[r].next].prev = r
    <2>1. SUFFICES ASSUME NEW r \in S \ {p}, pr[r].next # NULL
                   PROVE  pr[pr[r].next].prev = r
      OBVIOUS
    <2>2. CASE r = pl[p].prev
      BY <1>1, <1>2, <1>3, <2>1, <2>2
    <2>3. CASE r # pl[p].prev
      <3>1. pr[r].next = pl[r].next /\ pl[r].next \in S \ {p} /\ pl[pl[r].next].prev = r
        BY <1>1, <2>1, <2>3
      <3>2. pl[r].next # pl[p].next
        BY <1>1, <2>1, <2>3, <3>1
      <3>3. QED  BY <3>1, <3>2
    <2>4. QED  BY <2>2, <2>3
  <1>8. g # NULL => pr[g].prev = NULL
    BY <1>1, <1>2, <1>4
  <1>9. QED  BY <1>2, <1>4, <1>5, <1>6, <1>7, <1>8 DEF List

-----------------------------------------------------------------------------
(* Searches.                                                               *)

\* A list from a node on is the node and the list from the next one on.
LEMMA ListedFrom ==
  ASSUME NEW pl \in Pools, NEW n \in Nodes
  PROVE  /\ Listed(pl, n) \subseteq {n} \cup Listed(pl, pl[n].next)
         /\ pl[n].next = NULL => Listed(pl, n) \subseteq {n}
  <1>1. pl[n].next \in Links /\ n \in Links
    BY DEF Pools, Mnode, Links
  <1> DEFINE T == Listed(pl, pl[n].next)
  <1>2. T \subseteq Nodes /\ Closed(pl, pl[n].next, T)
    BY <1>1, ListedLeast
  <1>3. Closed(pl, n, {n} \cup T)
    BY <1>2 DEF Closed
  <1>4. {n} \cup T \in SUBSET Nodes
    BY <1>2
  <1>5. Listed(pl, n) \subseteq {n} \cup T
    BY <1>1, <1>3, <1>4, ListedLeast
  <1>6. ASSUME pl[n].next = NULL PROVE Listed(pl, n) \subseteq {n}
    <2>1. Closed(pl, n, {n}) /\ {n} \in SUBSET Nodes
      BY <1>6 DEF Closed
    <2>2. QED  BY <1>1, <2>1, ListedLeast
  <1>7. QED  BY <1>5, <1>6

\* Search finds the first node of the list that is in T.
LEMMA SearchFinds ==
  ASSUME NEW pl \in Pools, NEW h, NEW S, List(pl, h, S), NEW T
  PROVE  \/ Search(pl, h, T) = NULL /\ T \cap S = {}
         \/ /\ Search(pl, h, T) \in T \cap S
            /\ T \cap S \subseteq Listed(pl, Search(pl, h, T))
  <1> DEFINE X == T \cap S
  <1>1. S = Listed(pl, h) /\ S \subseteq Nodes
    BY ListIsListed DEF List
  <1>2. CASE X = {}
    BY <1>1, <1>2 DEF Search
  <1>3. CASE X # {}
    <2>1. \E p \in X : X \subseteq Listed(pl, p)
      <3>1. SUFFICES ASSUME \A p \in X : ~(X \subseteq Listed(pl, p)) PROVE FALSE
        OBVIOUS
      <3> DEFINE V == {n \in S : X \subseteq Listed(pl, n)}
      <3>2. ASSUME NEW n \in V PROVE pl[n].next \in V \cup {NULL}
        <4>1. n \in Nodes /\ n \notin X /\ X \subseteq Listed(pl, n)
          BY <1>1, <3>1, <3>2
        <4>2. X \subseteq Listed(pl, pl[n].next)
          BY <4>1, ListedFrom
        <4>3. pl[n].next \in S \cup {NULL}
          BY <3>2, ListLinks
        <4>4. QED  BY <4>2, <4>3
      <3>3. h \in V \cup {NULL}
        BY <1>1 DEF List
      <3>4. Closed(pl, h, V) /\ V \in SUBSET S
        BY <3>2, <3>3 DEF Closed
      <3>5. V = S
        BY <3>4 DEF List
      <3>6. QED  BY <1>3, <3>1, <3>5
    <2>2. Search(pl, h, T) = CHOOSE p \in X : X \subseteq Listed(pl, p)
      BY <1>1, <1>3 DEF Search
    <2>3. QED  BY <2>1, <2>2
  <1>4. QED  BY <1>2, <1>3

-----------------------------------------------------------------------------
(* Order of addresses.                                                     *)

End(pl, n) == pl[n].base + pl[n].size

\* Behind a block the next one does not overlap it, and leaves a gap.
Ascends(pl, n) == pl[n].next # NULL => End(pl, n) <= pl[pl[n].next].base
Gap(pl, n)     == pl[n].next # NULL => End(pl, n) < pl[pl[n].next].base

\* The types of the fields.
LEMMA NodeTypes ==
  ASSUME NEW pl \in Pools, NEW n \in Nodes
  PROVE  /\ pl[n].base \in 0 .. TotalSize /\ pl[n].size \in 0 .. TotalSize
         /\ pl[n].base \in Int /\ pl[n].size \in Int /\ End(pl, n) \in Int
         /\ pl[n].next \in Links /\ pl[n].prev \in Links
         /\ pl[n].isused \in BOOLEAN
  BY DEF Pools, Mnode, Links, End

\* What is behind a node in a list has no lower address.
LEMMA BehindIsAbove ==
  ASSUME NEW pl \in Pools, NEW h, NEW S, List(pl, h, S),
         \A r \in S : pl[r].size > 0 /\ Ascends(pl, r),
         NEW n \in S, NEW m \in Listed(pl, n)
  PROVE  m \in S /\ pl[n].base <= pl[m].base
  <1> DEFINE V == {r \in S : pl[n].base <= pl[r].base}
  <1>1. S \subseteq Nodes
    BY DEF List
  <1>2. ASSUME NEW r \in V PROVE pl[r].next \in V \cup {NULL}
    <2>1. pl[r].next \in S \cup {NULL}
      BY <1>2, ListLinks
    <2>2. CASE pl[r].next \in S
      <3>1. pl[r].next # NULL
        BY <1>1, <2>2, NullIsNoNode
      <3>2. End(pl, r) <= pl[pl[r].next].base /\ pl[r].size > 0
        BY <1>2, <3>1 DEF Ascends
      <3>3. /\ pl[r].base \in Int /\ pl[r].size \in Int
            /\ pl[pl[r].next].base \in Int /\ pl[n].base \in Int
        BY <1>1, <1>2, <2>2, NodeTypes
      <3>4. QED  BY <1>2, <2>2, <3>2, <3>3 DEF End
    <2>3. QED  BY <2>1, <2>2
  <1>3. n \in V
    BY <1>1, NodeTypes
  <1>4. Closed(pl, n, V) /\ V \in SUBSET Nodes /\ n \in Links
    BY <1>1, <1>2, <1>3 DEF Closed, Links
  <1>5. QED  BY <1>4, ListedLeast

\* No node of a list lies between a node and the next one.
LEMMA NoneBetween ==
  ASSUME NEW pl \in Pools, NEW h, NEW S, List(pl, h, S),
         \A r \in S : pl[r].size > 0 /\ Ascends(pl, r),
         NEW q \in S, NEW g \in S
  PROVE  \/ pl[g].base <= pl[q].base
         \/ pl[q].next # NULL /\ pl[pl[q].next].base <= pl[g].base
  <1> DEFINE Up(n) == pl[q].next # NULL /\ pl[pl[q].next].base <= pl[n].base
             V == {n \in S : q \in Listed(pl, n) \/ Up(n)}
  <1>1. S \subseteq Nodes /\ S = Listed(pl, h)
    BY ListIsListed DEF List
  <1>2. ASSUME NEW n \in V PROVE pl[n].next \in V \cup {NULL}
    <2>1. n \in S /\ n \in Nodes /\ pl[n].next \in S \cup {NULL}
      BY <1>1, <1>2, ListLinks
    <2>2. SUFFICES ASSUME pl[n].next \in S, pl[n].next # NULL PROVE pl[n].next \in V
      BY <2>1
    <2>3. CASE n = q
      <3>1. pl[pl[n].next].base \in Int
        BY <1>1, <2>2, NodeTypes
      <3>2. QED  BY <2>2, <2>3, <3>1
    <2>4. CASE n # q /\ q \in Listed(pl, n)
      BY <2>1, <2>2, <2>4, ListedFrom
    <2>5. CASE Up(n)
      <3>1. pl[n].size > 0 /\ End(pl, n) <= pl[pl[n].next].base
        BY <2>1, <2>2 DEF Ascends
      <3>2. pl[q].next \in S
        BY <2>5, ListLinks
      <3>3. /\ pl[n].base \in Int /\ pl[n].size \in Int /\ pl[pl[n].next].base \in Int
            /\ pl[pl[q].next].base \in Int
        BY <1>1, <2>1, <2>2, <3>2, NodeTypes
      <3>4. QED  BY <2>2, <2>5, <3>1, <3>3 DEF End
    <2>6. QED  BY <1>2, <2>3, <2>4, <2>5
  <1>3. h \in V \cup {NULL}
    BY <1>1 DEF List
  <1>4. Closed(pl, h, V) /\ V \in SUBSET S
    BY <1>2, <1>3 DEF Closed
  <1>5. V = S
    BY <1>4 DEF List
  <1>6. CASE q \in Listed(pl, g)
    BY <1>6, BehindIsAbove
  <1>7. QED  BY <1>5, <1>6

-----------------------------------------------------------------------------
(* Blocks.                                                                 *)

Apart(pl, m, n)  == End(pl, m) <= pl[n].base \/ End(pl, n) <= pl[m].base
Covers(pl, n, x) == pl[n].base <= x /\ x < End(pl, n)

\* The blocks of the nodes in U divide the arena, and no other node is in use.
Arena(pl, U) ==
  /\ U \subseteq Nodes
  /\ \A n \in Nodes \ U : pl[n] = Zeroed
  /\ \A n \in U : pl[n].isused /\ pl[n].size > 0 /\ End(pl, n) <= TotalSize
  /\ \A m \in U : \A n \in U : m # n => Apart(pl, m, n)
  /\ \A x \in 0 .. TotalSize - 1 : \E n \in U : Covers(pl, n, x)

SameBlock(pl, pr, n) == /\ pr[n].base = pl[n].base /\ pr[n].size = pl[n].size
                        /\ pr[n].isused = pl[n].isused

\* Links are no part of the division.
LEMMA ArenaKept ==
  ASSUME NEW pl, NEW pr, NEW U, Arena(pl, U),
         \A n \in U : SameBlock(pl, pr, n),
         \A n \in Nodes \ U : pr[n] = pl[n]
  PROVE  Arena(pr, U)
  BY DEF Arena, SameBlock, Apart, Covers, End

\* The block of p goes to node k.
LEMMA ArenaMoved ==
  ASSUME NEW pl, NEW pr, NEW U, Arena(pl, U), NEW p \in U, NEW k \in Nodes \ U,
         \A n \in U \ {p} : SameBlock(pl, pr, n),
         \A n \in Nodes \ (U \cup {k}) : pr[n] = pl[n],
         pr[k].base = pl[p].base, pr[k].size = pl[p].size, pr[k].isused,
         pr[p] = Zeroed
  PROVE  Arena(pr, (U \ {p}) \cup {k})
  <1> DEFINE W == (U \ {p}) \cup {k}
  <1>1. W \subseteq Nodes /\ \A n \in Nodes \ W : pr[n] = Zeroed
    BY DEF Arena
  <1>2. \A n \in U \ {p} : End(pr, n) = End(pl, n)
    BY DEF End, SameBlock
  <1>3. End(pr, k) = End(pl, p)
    BY DEF End
  <1>4. \A n \in W : pr[n].isused /\ pr[n].size > 0 /\ End(pr, n) <= TotalSize
    BY <1>2, <1>3 DEF Arena, SameBlock
  <1>5. ASSUME NEW m \in W, NEW n \in W, m # n PROVE Apart(pr, m, n)
    BY <1>2, <1>3, <1>5 DEF Arena, SameBlock, Apart
  <1>6. ASSUME NEW x \in 0 .. TotalSize - 1 PROVE \E n \in W : Covers(pr, n, x)
    <2>1. PICK n \in U : Covers(pl, n, x)
      BY DEF Arena
    <2>2. CASE n = p
      BY <1>3, <2>1, <2>2 DEF Covers
    <2>3. CASE n # p
      BY <1>2, <2>1, <2>3 DEF Covers, SameBlock
    <2>4. QED  BY <2>2, <2>3
  <1>7. QED  BY <1>1, <1>4, <1>5, <1>6 DEF Arena

\* The front of the block of p, s bytes, goes to node k.
LEMMA ArenaSplit ==
  ASSUME NEW pl \in Pools, NEW pr, NEW U, Arena(pl, U), NEW p \in U, NEW k \in Nodes \ U,
         NEW s \in Int, 0 < s, s < pl[p].size,
         \A n \in U \ {p} : SameBlock(pl, pr, n),
         \A n \in Nodes \ (U \cup {k}) : pr[n] = pl[n],
         pr[k].base = pl[p].base, pr[k].size = s, pr[k].isused,
         pr[p].base = pl[p].base + s, pr[p].size = pl[p].size - s, pr[p].isused
  PROVE  Arena(pr, U \cup {k})
  <1> DEFINE W == U \cup {k}
  <1>1. W \subseteq Nodes /\ \A n \in Nodes \ W : pr[n] = Zeroed
    BY DEF Arena
  <1>2. \A n \in U \ {p} : End(pr, n) = End(pl, n)
    BY DEF End, SameBlock
  <1>3. \A n \in U : pl[n].base \in Int /\ pl[n].size \in Int /\ End(pl, n) \in Int
    BY NodeTypes DEF Arena
  <1>4. End(pr, k) = pl[p].base + s /\ End(pr, p) = End(pl, p)
    BY <1>3 DEF End
  <1>5. TotalSize \in Int
    BY ArenaAssumption
  <1>6. \A n \in W : pr[n].isused /\ pr[n].size > 0 /\ End(pr, n) <= TotalSize
    <2>1. pl[p].base + s <= End(pl, p)
      BY <1>3 DEF End
    <2>2. End(pl, p) <= TotalSize
      BY DEF Arena
    <2>3. End(pr, k) <= TotalSize
      BY <1>3, <1>4, <1>5, <2>1, <2>2
    <2>4. QED  BY <1>2, <1>3, <1>4, <2>2, <2>3 DEF Arena, SameBlock
  <1>7. ASSUME NEW n \in U \ {p} PROVE Apart(pr, n, p) /\ Apart(pr, n, k)
    <2>1. Apart(pl, n, p)
      BY DEF Arena
    <2>2. QED  BY <1>2, <1>3, <1>4, <2>1 DEF Apart, SameBlock, End
  <1>8. Apart(pr, p, k)
    BY <1>3, <1>4 DEF Apart
  <1>9. ASSUME NEW m \in W, NEW n \in W, m # n PROVE Apart(pr, m, n)
    <2>1. CASE m \in U \ {p} /\ n \in U \ {p}
      BY <1>2, <1>9, <2>1 DEF Arena, SameBlock, Apart
    <2>2. QED  BY <1>7, <1>8, <1>9, <2>1 DEF Apart
  <1>10. ASSUME NEW x \in 0 .. TotalSize - 1 PROVE \E n \in W : Covers(pr, n, x)
    <2>1. PICK n \in U : Covers(pl, n, x)
      BY DEF Arena
    <2>2. CASE n = p /\ x < pl[p].base + s
      BY <1>4, <2>1, <2>2 DEF Covers
    <2>3. CASE n = p /\ ~(x < pl[p].base + s)
      BY <1>3, <1>4, <1>5, <2>1, <2>3 DEF Covers
    <2>4. CASE n # p
      BY <1>2, <2>1, <2>4 DEF Covers, SameBlock
    <2>5. QED  BY <2>2, <2>3, <2>4
  <1>11. QED  BY <1>1, <1>6, <1>9, <1>10 DEF Arena

\* The block of p goes to the node q whose block ends where it starts.
LEMMA ArenaMerged ==
  ASSUME NEW pl \in Pools, NEW pr, NEW U, Arena(pl, U),
         NEW p \in U, NEW q \in U \ {p}, End(pl, q) = pl[p].base,
         \A n \in U \ {p, q} : SameBlock(pl, pr, n),
         \A n \in Nodes \ U : pr[n] = pl[n],
         pr[q].base = pl[q].base, pr[q].size = pl[q].size + pl[p].size, pr[q].isused,
         pr[p] = Zeroed
  PROVE  Arena(pr, U \ {p})
  <1> DEFINE W == U \ {p}
  <1>1. W \subseteq Nodes /\ \A n \in Nodes \ W : pr[n] = Zeroed
    BY DEF Arena
  <1>2. \A n \in U \ {p, q} : End(pr, n) = End(pl, n)
    BY DEF End, SameBlock
  <1>3. \A n \in U : pl[n].base \in Int /\ pl[n].size \in Int /\ End(pl, n) \in Int
    BY NodeTypes DEF Arena
  <1>4. End(pr, q) = End(pl, p)
    BY <1>3 DEF End
  <1>5. TotalSize \in Int
    BY ArenaAssumption
  <1>6. \A n \in W : pr[n].isused /\ pr[n].size > 0 /\ End(pr, n) <= TotalSize
    BY <1>2, <1>3, <1>4, <1>5 DEF Arena, SameBlock
  <1>7. ASSUME NEW n \in U \ {p, q} PROVE Apart(pr, n, q)
    <2>1. Apart(pl, n, p) /\ Apart(pl, n, q) /\ pl[n].size > 0 /\ pl[q].size > 0
          /\ pl[p].size > 0
      BY DEF Arena
    <2>2. QED  BY <1>2, <1>3, <1>4, <2>1 DEF Apart, SameBlock, End
  <1>8. ASSUME NEW m \in W, NEW n \in W, m # n PROVE Apart(pr, m, n)
    <2>1. CASE m # q /\ n # q
      BY <1>2, <1>8, <2>1 DEF Arena, SameBlock, Apart
    <2>2. QED  BY <1>7, <1>8, <2>1 DEF Apart
  <1>9. ASSUME NEW x \in 0 .. TotalSize - 1 PROVE \E n \in W : Covers(pr, n, x)
    <2>1. PICK n \in U : Covers(pl, n, x)
      BY DEF Arena
    <2>2. pl[p].size > 0 /\ pl[q].size > 0
      BY DEF Arena
    <2>3. CASE n = p \/ n = q
      <3>1. Covers(pr, q, x)
        BY <1>3, <1>4, <2>1, <2>2, <2>3 DEF Covers, End
      <3>2. QED  BY <3>1
    <2>4. CASE n # p /\ n # q
      BY <1>2, <2>1, <2>4 DEF Covers, SameBlock
    <2>5. QED  BY <2>3, <2>4
  <1>10. QED  BY <1>1, <1>6, <1>8, <1>9 DEF Arena

-----------------------------------------------------------------------------
(* The lists and the arena together.                                       *)

\* F are the nodes of the free list, A those of the allocated list.
Shape(pl, f, F, a, A) ==
  /\ pl \in Pools
  /\ List(pl, f, F) /\ List(pl, a, A) /\ F \cap A = {}
  /\ Arena(pl, F \cup A)
  /\ \A r \in F : Ascends(pl, r)

\* Taking a node out changes two links.
LEMMA UnlinkedFields ==
  ASSUME NEW pl \in Pools, NEW p \in Nodes
  PROVE  /\ Unlinked(pl, p) \in Pools
         /\ \A n \in Nodes :
              /\ SameBlock(pl, Unlinked(pl, p), n)
              /\ Unlinked(pl, p)[n].next = (IF n = pl[p].prev THEN pl[p].next ELSE pl[n].next)
              /\ Unlinked(pl, p)[n].prev = (IF n = pl[p].next THEN pl[p].prev ELSE pl[n].prev)
  <1> DEFINE q == pl[p].prev  r == pl[p].next
             px == SetNext(pl, q, r)  py == SetPrev(px, r, q)
  <1>1. q \in Links /\ r \in Links
    BY NodeTypes
  <1> HIDE DEF q, r
  <1>2. px \in Pools /\ \A n \in Nodes :
          /\ SameBlock(pl, px, n) /\ px[n].prev = pl[n].prev
          /\ px[n].next = (IF n = q THEN r ELSE pl[n].next)
    BY <1>1 DEF SetNext, Pools, Mnode, Links, SameBlock, Nodes
  <1> HIDE DEF px
  <1>3. py \in Pools /\ \A n \in Nodes :
          /\ SameBlock(px, py, n) /\ py[n].next = px[n].next
          /\ py[n].prev = (IF n = r THEN q ELSE px[n].prev)
    BY <1>1, <1>2 DEF SetPrev, Pools, Mnode, Links, SameBlock, Nodes
  <1> HIDE DEF py
  <1>4. Unlinked(pl, p) = py
    BY DEF Unlinked, py, px, q, r
  <1>5. QED  BY <1>2, <1>3, <1>4 DEF SameBlock, q, r

\* check_prevnode_and_merge grows the node in front and clears node p.
LEMMA MergedFields ==
  ASSUME NEW pl \in Pools, NEW p \in Nodes, NEW q \in Nodes, q = pl[p].prev, q # p,
         Touches(pl, p), pl[q].size + pl[p].size <= TotalSize,
         pl[p].next # p, pl[p].next # q, NEW pr, pr = Merged(pl, p).pool
  PROVE  /\ Merged(pl, p).node = q /\ Merged(pl, p).back = 1
         /\ pr \in Pools
         /\ pr[p] = Zeroed
         /\ pr[q].size = pl[q].size + pl[p].size
         /\ pr[q].base = pl[q].base /\ pr[q].isused = pl[q].isused
         /\ \A n \in Nodes \ {p, q} : SameBlock(pl, pr, n)
         /\ \A n \in Nodes \ {p, q} : n # pl[p].next => pr[n] = pl[n]
         /\ \A n \in Nodes \ {p} :
              /\ pr[n].next = (IF n = q THEN pl[p].next ELSE pl[n].next)
              /\ pr[n].prev = (IF n = pl[p].next THEN q ELSE pl[n].prev)
  <1> DEFINE r == pl[p].next
             px == [pl EXCEPT ![q].size = @ + pl[p].size, ![q].next = r]
             py == SetPrev(px, r, q)
             pz == [py EXCEPT ![p] = Zeroed]
  <1>1. r \in Links
    BY NodeTypes
  <1>2. pl[q].size + pl[p].size \in 0 .. TotalSize
    <2>1. pl[q].size \in 0 .. TotalSize /\ pl[p].size \in 0 .. TotalSize
      BY NodeTypes
    <2>2. QED  BY <2>1, ArenaAssumption
  <1> HIDE DEF r
  <1>3. px \in Pools
    BY <1>1, <1>2 DEF Pools, Mnode, Links
  <1>4. /\ px[q].size = pl[q].size + pl[p].size
        /\ px[q].base = pl[q].base /\ px[q].isused = pl[q].isused
        /\ px[q].next = r /\ px[q].prev = pl[q].prev
        /\ \A n \in Nodes \ {q} : px[n] = pl[n]
    BY DEF Pools, Mnode
  <1> HIDE DEF px
  <1>5. /\ py \in Pools
        /\ \A n \in Nodes : /\ SameBlock(px, py, n) /\ py[n].next = px[n].next
                            /\ py[n].prev = (IF n = r THEN q ELSE px[n].prev)
        /\ \A n \in Nodes : n # r => py[n] = px[n]
    BY <1>1, <1>3 DEF SetPrev, Pools, Mnode, Links, SameBlock, Nodes
  <1> HIDE DEF py
  <1>6. Zeroed \in Mnode
    BY ArenaAssumption DEF Zeroed, Mnode
  <1>7. pz \in Pools /\ pz[p] = Zeroed /\ \A n \in Nodes \ {p} : pz[n] = py[n]
    BY <1>5, <1>6 DEF Pools
  <1> HIDE DEF pz
  <1>8. Merged(pl, p) = [pool |-> pz, node |-> q, back |-> 1]
    BY DEF Merged, pz, py, px, r
  <1>9. pr = pz /\ Merged(pl, p).node = q /\ Merged(pl, p).back = 1
    BY <1>8
  <1>10. \A n \in Nodes \ {p} :
              /\ pr[n].next = (IF n = q THEN r ELSE pl[n].next)
              /\ pr[n].prev = (IF n = r THEN q ELSE pl[n].prev)
    BY <1>4, <1>5, <1>7, <1>9
  <1>11. /\ pr[q].size = pl[q].size + pl[p].size
         /\ pr[q].base = pl[q].base /\ pr[q].isused = pl[q].isused
    BY <1>4, <1>5, <1>7, <1>9 DEF SameBlock
  <1>12. /\ \A n \in Nodes \ {p, q} : SameBlock(pl, pr, n)
         /\ \A n \in Nodes \ {p, q} : n # r => pr[n] = pl[n]
    BY <1>4, <1>5, <1>7, <1>9 DEF SameBlock
  <1>13. QED  BY <1>7, <1>9, <1>10, <1>11, <1>12 DEF r

\* The free list after a merging m of node p: node p leaves it if it is returned.
After(F, p, m) == IF m.back = 1 THEN F \ {p} ELSE F

\* Gaps are certain but around node p.
GapsBut(pl, F, p) == \A r \in F : r # p /\ r # pl[p].prev => Gap(pl, r)

\* A merging keeps the shape, and leaves no doubt about a gap but behind the node
\* that holds the block now.
MergeDone(pl, f, F, a, A, p, m) ==
  /\ Shape(m.pool, f, After(F, p, m), a, A)
  /\ m.back \in {0, 1} /\ m.node \in After(F, p, m)
  /\ m.pool[m.node].next = pl[p].next
  /\ \A r \in After(F, p, m) : r # m.node => Gap(m.pool, r)
  /\ Gap(pl, p) => Gap(m.pool, m.node)
  /\ \A n \in A : m.pool[n] = pl[n]

\* check_prevnode_and_merge does such a merging, whether or not the blocks touch.
LEMMA MergeStep ==
  ASSUME NEW pl, NEW f, NEW F, NEW a, NEW A, Shape(pl, f, F, a, A), NEW p \in F,
         GapsBut(pl, F, p)
  PROVE  MergeDone(pl, f, F, a, A, p, Merged(pl, p))
  <1> SUFFICES ASSUME \A r \in F : r # p /\ r # pl[p].prev => Gap(pl, r),
                        NEW m, m = Merged(pl, p),
                        NEW G, G = (IF m.back = 1 THEN F \ {p} ELSE F)
                 PROVE  /\ Shape(m.pool, f, G, a, A)
                        /\ m.back \in {0, 1} /\ m.node \in G
                        /\ m.pool[m.node].next = pl[p].next
                        /\ \A r \in G : r # m.node => Gap(m.pool, r)
                        /\ Gap(pl, p) => Gap(m.pool, m.node)
                        /\ \A n \in A : m.pool[n] = pl[n]
    BY DEF MergeDone, After, GapsBut
  <1>1. /\ pl \in Pools /\ List(pl, f, F) /\ List(pl, a, A) /\ F \cap A = {}
        /\ Arena(pl, F \cup A) /\ \A r \in F : Ascends(pl, r)
        /\ F \subseteq Nodes /\ A \subseteq Nodes
    BY DEF Shape, List
  <1>2. \A n \in F \cup A : /\ pl[n].base \in Int /\ pl[n].size \in Int
                            /\ 0 <= pl[n].base /\ 0 < pl[n].size
                            /\ End(pl, n) = pl[n].base + pl[n].size
                            /\ End(pl, n) <= TotalSize /\ End(pl, n) \in Int
    BY <1>1, NodeTypes DEF Arena, End
  <1>3. \A r \in F : r # NULL /\ pl[r].next \in F \cup {NULL}
                     /\ (pl[r].next # NULL => pl[pl[r].next].prev = r)
                     /\ pl[r].next # r
    BY <1>1, ListLinks
  <1>4. CASE ~Touches(pl, p)
    <2>1. m = [pool |-> pl, node |-> p, back |-> 0]
      BY <1>4 DEF Merged
    <2>2. m.pool = pl /\ m.node = p /\ m.back = 0 /\ G = F
      BY <2>1
    <2>3. ASSUME NEW r \in F, r # p, pl[r].next # NULL PROVE Gap(pl, r)
      <3>1. CASE r = pl[p].prev
        <4>1. r # NULL
          BY <1>3
        <4>2. p # f
          BY <1>1, <3>1, <4>1, NullIsNoNode DEF List
        <4>3. pl[r].next = p
          BY <1>1, <3>1, <4>2, BackLink
        <4>4. End(pl, r) <= pl[p].base /\ End(pl, r) # pl[p].base
          BY <1>1, <1>2, <1>3, <1>4, <3>1, <4>3 DEF Touches, Ascends
        <4>5. QED  BY <1>2, <4>3, <4>4 DEF Gap
      <3>2. QED  BY <2>3, <3>1
    <2>4. QED  BY <2>2, <2>3 DEF Gap
  <1>5. CASE Touches(pl, p)
    <2> DEFINE q == pl[p].prev
    <2>1. q # NULL /\ p # f
      BY <1>1, <1>5, NullIsNoNode DEF Touches, List
    <2>2. q \in F /\ q # p /\ pl[q].next = p
      BY <1>1, <2>1, BackLink
    <2>3. End(pl, q) = pl[p].base
      BY <1>5 DEF Touches, End
    <2>4. pl[p].next # q
      BY <1>1, <1>2, <1>3, <2>2, <2>3 DEF Ascends
    <2>5. pl[q].size + pl[p].size <= TotalSize
      BY <1>2, <2>2, <2>3, ArenaAssumption
    <2> DEFINE pr == m.pool
    <2>6. q \in Nodes /\ p \in Nodes /\ pl[p].next # p
      BY <1>1, <1>3, <2>2
    <2>7. pr = Merged(pl, p).pool
      OBVIOUS
    <2> HIDE DEF pr, q
    <2>8. q = pl[p].prev
      BY DEF q
    <2>9. /\ m.node = q /\ m.back = 1
          /\ pr \in Pools /\ pr[p] = Zeroed
          /\ pr[q].size = pl[q].size + pl[p].size
          /\ pr[q].base = pl[q].base /\ pr[q].isused = pl[q].isused
          /\ \A n \in Nodes \ {p, q} : SameBlock(pl, pr, n)
          /\ \A n \in Nodes \ {p, q} : n # pl[p].next => pr[n] = pl[n]
          /\ \A n \in Nodes \ {p} :
               /\ pr[n].next = (IF n = q THEN pl[p].next ELSE pl[n].next)
               /\ pr[n].prev = (IF n = pl[p].next THEN q ELSE pl[n].prev)
      BY <1>1, <1>5, <2>2, <2>4, <2>5, <2>6, <2>7, <2>8, MergedFields
    <2>10. G = F \ {p} /\ q \in G
      BY <2>2, <2>9
    <2>11. List(pr, f, G)
      <3>1. HeadWithout(pl, f, p) = f
        BY <2>1 DEF HeadWithout
      <3>2. \A r \in F \ {p} :
             /\ pr[r].next = (IF r = pl[p].prev THEN pl[p].next ELSE pl[r].next)
             /\ pr[r].prev = (IF r = pl[p].next THEN pl[p].prev ELSE pl[r].prev)
        BY <1>1, <2>8, <2>9
      <3>3. List(pr, HeadWithout(pl, f, p), F \ {p})
        BY <1>1, <3>2, ListRemove
      <3>4. QED  BY <2>10, <3>1, <3>3
    <2>12. \A n \in Nodes \ F : pr[n] = pl[n]
      BY <1>3, <2>2, <2>9, NullIsNoNode
    <2>13. List(pr, a, A) /\ \A n \in A : pr[n] = pl[n]
      BY <1>1, <2>12, ListKept
    <2>14. Arena(pr, G \cup A)
      <3>1. q \in (F \cup A) \ {p} /\ p \in F \cup A
        BY <2>2
      <3>2. \A n \in (F \cup A) \ {p, q} : SameBlock(pl, pr, n)
        BY <1>1, <2>9
      <3>3. \A n \in Nodes \ (F \cup A) : pr[n] = pl[n]
        BY <2>12
      <3>4. pr[q].isused
        BY <1>1, <2>9, <3>1 DEF Arena
      <3>5. Arena(pr, (F \cup A) \ {p})
        BY <1>1, <2>3, <2>9, <3>1, <3>2, <3>3, <3>4, ArenaMerged
      <3>6. (F \cup A) \ {p} = G \cup A
        BY <1>1, <2>10
      <3>7. QED  BY <3>5, <3>6
    <2>15. End(pr, q) = End(pl, p) /\ \A r \in G \ {q} : End(pr, r) = End(pl, r)
      <3>1. End(pr, q) = End(pl, p)
        BY <1>2, <2>2, <2>3, <2>9 DEF End
      <3>2. QED  BY <1>1, <2>9, <2>10, <3>1 DEF End, SameBlock
    <2>16. \A r \in F \ {p} : pr[r].base = pl[r].base
      BY <1>1, <2>9 DEF SameBlock
    <2>17. \A r \in G \ {q} : /\ pr[r].next = pl[r].next /\ pr[r].next # p
                              /\ pr[r].next \in G \cup {NULL}
      BY <1>1, <1>3, <2>2, <2>8, <2>9, <2>10
    <2>18. pr[q].next = pl[p].next /\ pl[p].next \in G \cup {NULL}
      BY <1>3, <2>6, <2>9, <2>10, <2>2
    <2>19. \A r \in G : Ascends(pr, r)
      <3>1. \A r \in G \ {q} : Ascends(pr, r)
        BY <1>1, <2>10, <2>15, <2>16, <2>17 DEF Ascends
      <3>2. Ascends(pr, q)
        BY <1>1, <2>10, <2>15, <2>16, <2>18 DEF Ascends
      <3>3. QED  BY <3>1, <3>2
    <2>20. \A r \in G \ {q} : Gap(pr, r)
      BY <2>8, <2>10, <2>15, <2>16, <2>17 DEF Gap
    <2>21. Gap(pl, p) => Gap(pr, q)
      BY <2>10, <2>15, <2>16, <2>18 DEF Gap
    <2>22. Shape(pr, f, G, a, A)
      BY <1>1, <2>9, <2>10, <2>11, <2>13, <2>14, <2>19 DEF Shape
    <2>23. QED  BY <2>9, <2>10, <2>13, <2>18, <2>20, <2>21, <2>22 DEF pr
  <1>6. QED  BY <1>4, <1>5

-----------------------------------------------------------------------------
(* insert_node_2_free.                                                     *)

\* A list that is not empty ends.
LEMMA TailExists ==
  ASSUME NEW pl \in Pools, NEW h, NEW S, List(pl, h, S), h # NULL,
         \A r \in S : pl[r].size > 0 /\ Ascends(pl, r)
  PROVE  \E t \in S : pl[t].next = NULL
  <1> DEFINE T == {TotalSize - pl[r].base : r \in S}
  <1>1. S \subseteq Nodes /\ h \in S
    BY DEF List
  <1>2. \A r \in S : pl[r].base \in Int /\ TotalSize - pl[r].base \in Nat
    BY <1>1, NodeTypes, ArenaAssumption
  <1>3. T \subseteq Nat /\ T # {}
    BY <1>1, <1>2
  <1>4. PICK u \in T : \A w \in T : ~(<<w, u>> \in OpToRel(<, Nat))
    BY <1>3, NatLessThanWellFounded, WFMin
  <1>5. PICK t \in S : u = TotalSize - pl[t].base
    OBVIOUS
  <1>6. ASSUME pl[t].next # NULL PROVE FALSE
    <2> DEFINE n == pl[t].next
    <2>1. n \in S /\ End(pl, t) <= pl[n].base /\ pl[t].size > 0
      BY <1>6, ListLinks DEF Ascends
    <2>2. TotalSize - pl[n].base \in T /\ u \in Nat /\ TotalSize - pl[n].base \in Nat
      BY <1>2, <1>3, <2>1
    <2>3. ~(TotalSize - pl[n].base < u)
      BY <1>4, <2>2 DEF OpToRel
    <2>4. pl[n].base \in Int /\ pl[t].base \in Int /\ pl[t].size \in Int
      BY <1>1, <2>1, NodeTypes
    <2>5. QED  BY <1>5, <2>1, <2>3, <2>4, ArenaAssumption DEF End
  <1>7. QED  BY <1>6

\* Node p alone, in front of node k and behind q, which does not know it, and
\* behind node t.
Alone(pl, p)       == [pl EXCEPT ![p].prev = NULL, ![p].next = NULL]
Front(pl, p, q, k) == [pl EXCEPT ![p].prev = q, ![p].next = k, ![k].prev = p]
Behind(pl, p, t)   == [pl EXCEPT ![t].next = p, ![p].prev = t, ![p].next = NULL]

Above(pl, p) == Search(pl, p_free, {f \in Nodes : pl[f].base >= pl[p].base})
Last(pl)     == CHOOSE f \in Listed(pl, p_free) : pl[f].next = NULL

\* insert_node_2_free links the node in one of four ways.
LEMMA InsertedCases ==
  ASSUME NEW pl, NEW p
  PROVE  Inserted(pl, p) =
           IF p_free = NULL THEN Alone(pl, p)
           ELSE IF Above(pl, p) = NULL THEN Behind(pl, p, Last(pl))
           ELSE SetNext(Front(pl, p, pl[Above(pl, p)].prev, Above(pl, p)),
                        pl[Above(pl, p)].prev, p)
  BY Zenon DEF Inserted, Alone, Front, Behind, Above, Last

\* What each way of linking leaves in the fields of the nodes.
LEMMA AloneFields ==
  ASSUME NEW pl \in Pools, NEW p \in Nodes, NEW pr, pr = Alone(pl, p)
  PROVE  /\ pr \in Pools /\ \A n \in Nodes : SameBlock(pl, pr, n)
         /\ pr[p].prev = NULL /\ pr[p].next = NULL
         /\ \A n \in Nodes \ {p} : pr[n] = pl[n]
  BY DEF Alone, Pools, Mnode, SameBlock

\* The same in front of node k.
LEMMA FrontFields ==
  ASSUME NEW pl \in Pools, NEW p \in Nodes, NEW k \in Nodes \ {p}, NEW q \in Links
  PROVE  LET pr == Front(pl, p, q, k) IN
         /\ pr \in Pools /\ \A n \in Nodes : SameBlock(pl, pr, n)
         /\ pr[p].prev = q /\ pr[p].next = k
         /\ pr[k].prev = p /\ pr[k].next = pl[k].next
         /\ \A n \in Nodes \ {p, k} : pr[n] = pl[n]
  <1> DEFINE pr == Front(pl, p, q, k)
  <1>1. /\ pr[p] = [pl[p] EXCEPT !.prev = q, !.next = k]
        /\ pr[k] = [pl[k] EXCEPT !.prev = p]
        /\ \A n \in Nodes \ {p, k} : pr[n] = pl[n]
        /\ pr = [n \in Nodes |-> pr[n]]
    BY DEF Front, Pools
  <1> HIDE DEF pr
  <1>2. pl[p] \in Mnode /\ pl[k] \in Mnode /\ p \in Links /\ k \in Links
    BY DEF Pools, Links
  <1>3. /\ pr[p] \in Mnode /\ SameBlock(pl, pr, p)
        /\ pr[p].prev = q /\ pr[p].next = k
    BY <1>1, <1>2 DEF Mnode, Links, SameBlock
  <1>4. /\ pr[k] \in Mnode /\ SameBlock(pl, pr, k)
        /\ pr[k].prev = p /\ pr[k].next = pl[k].next
    BY <1>1, <1>2 DEF Mnode, Links, SameBlock
  <1>5. pr \in Pools
    BY <1>1, <1>3, <1>4 DEF Pools
  <1>6. \A n \in Nodes : SameBlock(pl, pr, n)
    BY <1>1, <1>3, <1>4 DEF SameBlock
  <1>7. QED  BY <1>1, <1>3, <1>4, <1>5, <1>6 DEF pr

\* The same behind node t.
LEMMA BehindFields ==
  ASSUME NEW pl \in Pools, NEW p \in Nodes, NEW t \in Nodes, t # p
  PROVE  LET pr == Behind(pl, p, t) IN
         /\ pr \in Pools /\ \A n \in Nodes : SameBlock(pl, pr, n)
         /\ pr[p].prev = t /\ pr[p].next = NULL
         /\ pr[t].next = p /\ pr[t].prev = pl[t].prev
         /\ \A n \in Nodes \ {p, t} : pr[n] = pl[n]
  <1> DEFINE pr == Behind(pl, p, t)
  <1>1. /\ pr[p] = [pl[p] EXCEPT !.prev = t, !.next = NULL]
        /\ pr[t] = [pl[t] EXCEPT !.next = p]
        /\ \A n \in Nodes \ {p, t} : pr[n] = pl[n]
        /\ pr = [n \in Nodes |-> pr[n]]
    BY DEF Behind, Pools
  <1> HIDE DEF pr
  <1>2. pl[p] \in Mnode /\ pl[t] \in Mnode
    BY DEF Pools
  <1>3. /\ pr[p] \in Mnode /\ SameBlock(pl, pr, p)
        /\ pr[p].prev = t /\ pr[p].next = NULL
    BY <1>1, <1>2 DEF Mnode, SameBlock
  <1>4. /\ pr[t] \in Mnode /\ SameBlock(pl, pr, t)
        /\ pr[t].next = p /\ pr[t].prev = pl[t].prev
    BY <1>1, <1>2 DEF Mnode, SameBlock
  <1>5. pr \in Pools
    BY <1>1, <1>3, <1>4 DEF Pools
  <1>6. \A n \in Nodes : SameBlock(pl, pr, n)
    BY <1>1, <1>3, <1>4 DEF SameBlock
  <1>7. QED  BY <1>1, <1>3, <1>4, <1>5, <1>6 DEF pr

\* An assignment to a next link.
LEMMA NextFields ==
  ASSUME NEW pl \in Pools, NEW q \in Nodes, NEW p \in Nodes
  PROVE  LET pr == SetNext(pl, q, p) IN
         /\ pr \in Pools /\ SameBlock(pl, pr, q)
         /\ pr[q].next = p /\ pr[q].prev = pl[q].prev
         /\ \A n \in Nodes \ {q} : pr[n] = pl[n]
  BY NullIsNoNode DEF SetNext, Pools, Mnode, SameBlock

\* The same between nodes q and k.
LEMMA BetweenFields ==
  ASSUME NEW pl \in Pools, NEW p \in Nodes, NEW k \in Nodes, NEW q \in Nodes, k # p, q # p, q # k
  PROVE  LET pr == SetNext(Front(pl, p, q, k), q, p) IN
         /\ pr \in Pools /\ \A n \in Nodes : SameBlock(pl, pr, n)
         /\ pr[p].prev = q /\ pr[p].next = k
         /\ pr[k].prev = p /\ pr[k].next = pl[k].next
         /\ pr[q].next = p /\ pr[q].prev = pl[q].prev
         /\ \A n \in Nodes \ {p, q, k} : pr[n] = pl[n]
  <1> DEFINE px == Front(pl, p, q, k)  pr == SetNext(px, q, p)
  <1>1. /\ px \in Pools /\ \A n \in Nodes : SameBlock(pl, px, n)
        /\ px[p].prev = q /\ px[p].next = k
        /\ px[k].prev = p /\ px[k].next = pl[k].next
        /\ \A n \in Nodes \ {p, k} : px[n] = pl[n]
    <2>1. q \in Links
      BY DEF Links
    <2>2. QED  BY <2>1, FrontFields
  <1> HIDE DEF px
  <1>2. q \in Nodes
    OBVIOUS
  <1>3. /\ pr \in Pools /\ SameBlock(px, pr, q)
        /\ pr[q].next = p /\ pr[q].prev = px[q].prev
        /\ \A n \in Nodes \ {q} : pr[n] = px[n]
    BY <1>1, <1>2, NextFields
  <1> HIDE DEF pr
  <1>4. \A n \in Nodes : SameBlock(pl, pr, n)
    BY <1>1, <1>3 DEF SameBlock
  <1>5. pr[p] = px[p] /\ pr[k] = px[k] /\ px[q] = pl[q]
        /\ \A n \in Nodes \ {p, q, k} : pr[n] = pl[n]
    BY <1>1, <1>3
  <1>6. QED  BY <1>1, <1>3, <1>4, <1>5 DEF pr, px

\* Node p holds a block that is in no list, and there are gaps in the free list.
Loose(pl, F, p) ==
  /\ p \in Nodes \ F /\ pl[p].size > 0
  /\ \A r \in F : pl[r].size > 0 /\ Gap(pl, r) /\ Apart(pl, p, r)

NewHead(pl, p) == IF p_free = NULL \/ pl[p].base < pl[p_free].base THEN p ELSE p_free

\* In the pool pr it is linked where its address belongs.  Gaps are certain but
\* around it.
Placed(pl, pr, F, p) ==
  /\ pr \in Pools
  /\ \A n \in Nodes : SameBlock(pl, pr, n)
  /\ \A n \in Nodes \ (F \cup {p}) : pr[n] = pl[n]
  /\ List(pr, NewHead(pl, p), F \cup {p})
  /\ \A r \in F \cup {p} : Ascends(pr, r)
  /\ \A r \in F : r # pr[p].prev => Gap(pr, r)
  /\ p_free = NULL => F = {} /\ pr[p].next = NULL

\* insert_node_2_free places the node.
LEMMA InsertStep ==
  ASSUME NEW pl \in Pools, NEW F, List(pl, p_free, F), NEW p, Loose(pl, F, p)
  PROVE  Placed(pl, Inserted(pl, p), F, p)
  <1> SUFFICES ASSUME p \in Nodes \ F, pl[p].size > 0,
                        \A r \in F : pl[r].size > 0 /\ Gap(pl, r) /\ Apart(pl, p, r),
                        NEW pr, pr = Inserted(pl, p), NEW g, g = NewHead(pl, p)
                 PROVE  /\ pr \in Pools
                        /\ \A n \in Nodes : SameBlock(pl, pr, n)
                        /\ \A n \in Nodes \ (F \cup {p}) : pr[n] = pl[n]
                        /\ List(pr, g, F \cup {p})
                        /\ \A r \in F \cup {p} : Ascends(pr, r)
                        /\ \A r \in F : r # pr[p].prev => Gap(pr, r)
                        /\ p_free = NULL => F = {} /\ pr[p].next = NULL
    BY DEF Loose, Placed
  <1>1. /\ F \subseteq Nodes /\ p_free \in F \cup {NULL}
        /\ p_free # NULL => pl[p_free].prev = NULL
    BY DEF List
  <1>2. \A n \in F \cup {p} : /\ pl[n].base \in Int /\ pl[n].size \in Int /\ pl[n].size > 0
                              /\ End(pl, n) = pl[n].base + pl[n].size
    BY <1>1, NodeTypes DEF End
  <1>3. \A r \in F : /\ r # NULL /\ pl[r].next \in F \cup {NULL}
                     /\ (pl[r].next # NULL => pl[pl[r].next].prev = r)
    BY ListLinks
  <1>4. \A r \in F : pl[r].size > 0 /\ Ascends(pl, r)
    BY <1>1, <1>2, <1>3 DEF Gap, Ascends
  <1>5. \A r \in F : /\ pl[r].base < pl[p].base => End(pl, r) <= pl[p].base
                     /\ pl[r].base >= pl[p].base => /\ pl[p].base < pl[r].base
                                                     /\ End(pl, p) <= pl[r].base
    BY <1>2 DEF Apart
  <1> DEFINE T == {n \in Nodes : pl[n].base >= pl[p].base}
             k == Above(pl, p)
  <1>6. \/ k = NULL /\ T \cap F = {}
        \/ k \in T \cap F /\ T \cap F \subseteq Listed(pl, k)
    BY SearchFinds DEF Above
  <1>7. \A n \in Nodes : SameBlock(pl, pr, n) => /\ End(pr, n) = End(pl, n)
                                                /\ pr[n].base = pl[n].base
    BY DEF SameBlock, End
  <1>8. p # NULL /\ p \in Nodes
    BY NullIsNoNode
  <1> HIDE DEF k
  <1>a. CASE p_free = NULL
    <2>1. F = {}
      <3>1. Closed(pl, p_free, {})
        BY <1>a DEF Closed
      <3>2. QED  BY <3>1 DEF List
    <2>2. pr = Alone(pl, p)
      BY <1>a, InsertedCases
    <2>3. /\ pr \in Pools /\ \A n \in Nodes : SameBlock(pl, pr, n)
          /\ pr[p].prev = NULL /\ pr[p].next = NULL
          /\ \A n \in Nodes \ {p} : pr[n] = pl[n]
      BY <2>2, AloneFields
    <2>4. List(pr, p, F \cup {p})
      BY <1>a, <2>1, <2>3, ListPush
    <2>5. QED  BY <1>a, <2>1, <2>3, <2>4 DEF Ascends, NewHead
  <1>b. CASE p_free # NULL /\ k = NULL
    <2> DEFINE t == Last(pl)
    <2>1. t \in F /\ pl[t].next = NULL
      <3>1. F = Listed(pl, p_free)
        BY ListIsListed
      <3>2. \E f \in F : pl[f].next = NULL
        BY <1>b, <1>4, TailExists
      <3>3. QED  BY <3>1, <3>2 DEF Last
    <2>2. pr = Behind(pl, p, t)
      BY <1>b, InsertedCases DEF k
    <2> HIDE DEF t
    <2>3. t \in Nodes /\ t # p
      BY <1>1, <2>1
    <2>4. /\ pr \in Pools /\ \A n \in Nodes : SameBlock(pl, pr, n)
          /\ pr[p].prev = t /\ pr[p].next = NULL
          /\ pr[t].next = p /\ pr[t].prev = pl[t].prev
          /\ \A n \in Nodes \ {p, t} : pr[n] = pl[n]
      <3> HIDE DEF T
      <3>1. LET px == Behind(pl, p, t) IN
            /\ px \in Pools /\ \A n \in Nodes : SameBlock(pl, px, n)
            /\ px[p].prev = t /\ px[p].next = NULL
            /\ px[t].next = p /\ px[t].prev = pl[t].prev
            /\ \A n \in Nodes \ {p, t} : px[n] = pl[n]
        BY <1>8, <2>3, BehindFields
      <3>2. QED  BY <2>2, <3>1, Zenon
    <2>5. \A r \in F : pl[r].base < pl[p].base
      <3>1. k \notin T \cap F
        BY <1>1, <1>b, NullIsNoNode
      <3>2. \A r \in F : r \notin T
        BY <1>6, <3>1
      <3>3. QED  BY <1>1, <1>2, <3>2
    <2>6. g = p_free
      BY <1>1, <1>2, <1>b, <2>5 DEF NewHead
    <2>7. \A r \in F : /\ pr[r].next = (IF r = t THEN p ELSE pl[r].next)
                       /\ pr[r].prev = (IF r = pl[t].next THEN p ELSE pl[r].prev)
      BY <1>1, <1>3, <2>1, <2>4
    <2>8. List(pr, g, F \cup {p})
      BY <2>1, <2>4, <2>6, <2>7, ListInsert
    <2>9. Ascends(pr, p) /\ Ascends(pr, t)
      BY <1>1, <1>5, <1>7, <2>1, <2>4, <2>5 DEF Ascends
    <2>10. \A r \in F \ {t} : Gap(pr, r) /\ Ascends(pr, r)
      BY <1>1, <1>3, <1>4, <1>7, <2>4, <2>7 DEF Gap, Ascends
    <2>11. QED  BY <1>1, <1>b, <2>1, <2>4, <2>8, <2>9, <2>10
  <1>c. CASE p_free # NULL /\ k # NULL
    <2> DEFINE q == pl[k].prev
    <2>1. k \in F /\ k \in Nodes \ {p} /\ pl[k].base >= pl[p].base
      BY <1>1, <1>6, <1>c
    <2>2. pl[p].base < pl[k].base /\ End(pl, p) <= pl[k].base
      BY <1>5, <2>1
    <2>3. pr = SetNext(Front(pl, p, q, k), q, p)
      BY <1>c, InsertedCases DEF k
    <2>4. CASE k = p_free
      <3>1. q = NULL
        BY <1>1, <1>c, <2>4
      <3>2. pr = Front(pl, p, q, k)
        BY <2>3, <3>1 DEF SetNext
      <3> HIDE DEF q
      <3>3. q \in Links
        BY <3>1 DEF Links
      <3>4. /\ pr \in Pools /\ \A n \in Nodes : SameBlock(pl, pr, n)
            /\ pr[p].prev = q /\ pr[p].next = k
            /\ pr[k].prev = p /\ pr[k].next = pl[k].next
            /\ \A n \in Nodes \ {p, k} : pr[n] = pl[n]
        BY <2>1, <3>2, <3>3, FrontFields
      <3>5. g = p
        BY <2>2, <2>4 DEF NewHead
      <3>6. \A r \in F : /\ pr[r].next = pl[r].next
                         /\ pr[r].prev = (IF r = p_free THEN p ELSE pl[r].prev)
        BY <1>1, <2>1, <2>4, <3>4
      <3>7. List(pr, g, F \cup {p})
        BY <2>4, <3>1, <3>4, <3>5, <3>6, ListPush
      <3>8. Ascends(pr, p)
        BY <2>1, <2>2, <1>7, <3>4 DEF Ascends
      <3>9. \A r \in F : Gap(pr, r) /\ Ascends(pr, r)
        BY <1>1, <1>3, <1>4, <1>7, <3>4, <3>6 DEF Gap, Ascends
      <3>10. QED  BY <1>1, <1>c, <2>1, <3>4, <3>7, <3>8, <3>9
    <2>5. CASE k # p_free
      <3>1. q \in F /\ q # k /\ pl[q].next = k /\ k # NULL
        BY <1>c, <2>1, <2>5, BackLink
      <3>2. q \in Nodes /\ q # p /\ q # k /\ k \in Nodes /\ k # p
        BY <1>1, <2>1, <3>1
      <3>3. pl[q].base < pl[k].base
        BY <1>2, <1>4, <2>1, <3>1 DEF Ascends
      <3>4. pl[q].base < pl[p].base
        <4>1. SUFFICES ASSUME pl[q].base >= pl[p].base PROVE FALSE
          BY <1>2, <3>1
        <4>2. q \in Listed(pl, k)
          BY <1>6, <1>c, <3>1, <3>2, <4>1
        <4>3. pl[k].base <= pl[q].base
          BY <1>4, <2>1, <4>2, BehindIsAbove
        <4>4. QED  BY <1>2, <2>1, <3>1, <3>3, <4>3
      <3>5. pl[p_free].base <= pl[q].base
        <4>1. q \in Listed(pl, p_free) /\ p_free \in F
          BY <1>1, <1>c, <3>1, ListIsListed
        <4>2. QED  BY <1>4, <4>1, BehindIsAbove
      <3>6. g = p_free
        BY <1>1, <1>2, <1>c, <3>1, <3>4, <3>5 DEF NewHead
      <3> HIDE DEF q
      <3>7. /\ pr \in Pools /\ \A n \in Nodes : SameBlock(pl, pr, n)
            /\ pr[p].prev = q /\ pr[p].next = k
            /\ pr[k].prev = p /\ pr[k].next = pl[k].next
            /\ pr[q].next = p /\ pr[q].prev = pl[q].prev
            /\ \A n \in Nodes \ {p, q, k} : pr[n] = pl[n]
        <4> HIDE DEF T
        <4>1. LET px == SetNext(Front(pl, p, q, k), q, p) IN
              /\ px \in Pools /\ \A n \in Nodes : SameBlock(pl, px, n)
              /\ px[p].prev = q /\ px[p].next = k
              /\ px[k].prev = p /\ px[k].next = pl[k].next
              /\ px[q].next = p /\ px[q].prev = pl[q].prev
              /\ \A n \in Nodes \ {p, q, k} : px[n] = pl[n]
          BY <1>8, <3>2, BetweenFields
        <4>2. QED  BY <2>3, <4>1, Zenon
      <3>8. \A r \in F : /\ pr[r].next = (IF r = q THEN p ELSE pl[r].next)
                         /\ pr[r].prev = (IF r = pl[q].next THEN p ELSE pl[r].prev)
        BY <1>1, <2>1, <3>1, <3>7
      <3>9. List(pr, g, F \cup {p})
        BY <3>1, <3>6, <3>7, <3>8, ListInsert
      <3>10. End(pl, q) <= pl[p].base
        BY <1>5, <3>1, <3>4
      <3>11. Ascends(pr, p) /\ Ascends(pr, q)
        BY <1>1, <1>7, <2>1, <2>2, <3>1, <3>7, <3>10 DEF Ascends
      <3>12. \A r \in F \ {q} : Gap(pr, r) /\ Ascends(pr, r)
        BY <1>1, <1>3, <1>4, <1>7, <3>7, <3>8 DEF Gap, Ascends
      <3>13. QED  BY <1>1, <1>c, <2>1, <3>1, <3>7, <3>9, <3>11, <3>12
    <2>6. QED  BY <2>4, <2>5
  <1>9. QED  BY <1>a, <1>b, <1>c

-----------------------------------------------------------------------------
(* The inductive invariant.                                                *)

FreeNodes  == Listed(pool, p_free)
AllocNodes == Listed(pool, p_alloc)

\* The free list and the allocated list divide the nodes in use, and their blocks
\* divide the arena; the free list is in order of address with gaps.
Inv ==
  /\ TypeOK
  /\ Shape(pool, p_free, FreeNodes, p_alloc, AllocNodes)
  /\ \A r \in FreeNodes : Gap(pool, r)
  /\ num = Cardinality(FreeNodes \cup AllocNodes)

\* The nodes are finitely many.
LEMMA NodesFinite ==
  ASSUME NEW S, S \subseteq Nodes
  PROVE  IsFiniteSet(S) /\ Cardinality(S) \in 0 .. MaxPool
  <1>1. IsFiniteSet(Nodes) /\ Cardinality(Nodes) = MaxPool
    BY FS_Interval, PoolAssumption DEF Nodes
  <1>2. IsFiniteSet(S) /\ Cardinality(S) <= MaxPool
    BY <1>1, FS_Subset
  <1>3. Cardinality(S) \in Nat
    BY <1>2, FS_CardinalityType
  <1>4. QED  BY <1>2, <1>3, PoolAssumption

\* What the shape says of heads, lists and numbers.
LEMMA ShapeFacts ==
  ASSUME NEW pl, NEW f, NEW F, NEW a, NEW A, Shape(pl, f, F, a, A)
  PROVE  /\ pl \in [Nodes -> Mnode] /\ f \in Nodes \cup {NULL} /\ a \in Nodes \cup {NULL}
         /\ F = Listed(pl, f) /\ A = Listed(pl, a)
         /\ F \cup A \subseteq Nodes /\ Cardinality(F \cup A) \in 0 .. MaxPool
  <1>1. /\ F = Listed(pl, f) /\ A = Listed(pl, a) /\ f \in Links /\ a \in Links
        /\ pl \in [Nodes -> Mnode]
    BY ListIsListed DEF Shape, Pools
  <1>2. F \cup A \subseteq Nodes
    BY DEF Shape, List
  <1>3. Cardinality(F \cup A) \in 0 .. MaxPool
    BY <1>2, NodesFinite
  <1>4. QED  BY <1>1, <1>2, <1>3 DEF Links

\* The invariant follows from any division of the nodes that fits the lists.
LEMMA InvFrom ==
  ASSUME NEW F, NEW A, Shape(pool, p_free, F, p_alloc, A), \A r \in F : Gap(pool, r),
         num = Cardinality(F \cup A), fault \in BOOLEAN,
         ret \in [size : Requests \cup {0}, base : -1 .. TotalSize]
  PROVE  Inv /\ A = AllocNodes
  <1>1. F = FreeNodes /\ A = AllocNodes
    BY ShapeFacts DEF FreeNodes, AllocNodes
  <1>2. /\ pool \in [Nodes -> Mnode] /\ num \in 0 .. MaxPool
        /\ p_free \in Nodes \cup {NULL} /\ p_alloc \in Nodes \cup {NULL}
    BY ShapeFacts
  <1>3. TypeOK
    BY <1>2, Zenon DEF TypeOK
  <1>4. QED  BY <1>1, <1>3 DEF Inv

\* The same for the state after a step.
LEMMA InvNext ==
  ASSUME NEW F, NEW A, Shape(pool', p_free', F, p_alloc', A), \A r \in F : Gap(pool', r),
         num' = Cardinality(F \cup A), fault' \in BOOLEAN,
         ret' \in [size : Requests \cup {0}, base : -1 .. TotalSize]
  PROVE  Inv' /\ A = AllocNodes'
  <1>1. F = FreeNodes' /\ A = AllocNodes'
    BY ShapeFacts DEF FreeNodes, AllocNodes
  <1>2. /\ pool' \in [Nodes -> Mnode] /\ num' \in 0 .. MaxPool
        /\ p_free' \in Nodes \cup {NULL} /\ p_alloc' \in Nodes \cup {NULL}
    BY ShapeFacts
  <1>3. TypeOK'
    BY <1>2, Zenon DEF TypeOK
  <1>4. QED  BY <1>1, <1>3 DEF Inv

\* What a list of blocks looks like to the searches of the actions.
LEMMA InvFacts ==
  ASSUME Inv
  PROVE  /\ pool \in Pools /\ FreeNodes \subseteq Nodes /\ AllocNodes \subseteq Nodes
         /\ List(pool, p_free, FreeNodes) /\ List(pool, p_alloc, AllocNodes)
         /\ FreeNodes \cap AllocNodes = {} /\ Arena(pool, FreeNodes \cup AllocNodes)
         /\ Unused(pool) = Nodes \ (FreeNodes \cup AllocNodes)
         /\ \A n \in FreeNodes \cup AllocNodes :
              /\ pool[n].base \in 0 .. TotalSize /\ pool[n].size \in 1 .. TotalSize
              /\ End(pool, n) = pool[n].base + pool[n].size /\ End(pool, n) <= TotalSize
         /\ \A r \in FreeNodes : Ascends(pool, r)
  <1>1. /\ pool \in Pools /\ FreeNodes \subseteq Nodes /\ AllocNodes \subseteq Nodes
        /\ List(pool, p_free, FreeNodes) /\ List(pool, p_alloc, AllocNodes)
        /\ FreeNodes \cap AllocNodes = {} /\ Arena(pool, FreeNodes \cup AllocNodes)
        /\ \A r \in FreeNodes : Ascends(pool, r)
    BY DEF Inv, Shape, List
  <1>2. Unused(pool) = Nodes \ (FreeNodes \cup AllocNodes)
    BY <1>1 DEF Unused, Arena, Zeroed
  <1>3. ASSUME NEW n \in FreeNodes \cup AllocNodes
        PROVE  /\ pool[n].base \in 0 .. TotalSize /\ pool[n].size \in 1 .. TotalSize
               /\ End(pool, n) = pool[n].base + pool[n].size /\ End(pool, n) <= TotalSize
    <2>1. pool[n].base \in 0 .. TotalSize /\ pool[n].size \in 0 .. TotalSize
      BY <1>1, NodeTypes
    <2>2. pool[n].size > 0 /\ End(pool, n) <= TotalSize
      BY <1>1 DEF Arena
    <2>3. QED  BY <2>1, <2>2, ArenaAssumption DEF End
  <1>4. QED  BY <1>1, <1>2, <1>3

\* A node goes back: one node less is in use.
LEMMA OneLess ==
  ASSUME NEW S, S \subseteq Nodes, NEW p \in S
  PROVE  Cardinality(S \ {p}) = Cardinality(S) - 1
  BY NodesFinite, FS_RemoveElement

\* A node is taken: one node more is in use.
LEMMA OneMore ==
  ASSUME NEW S, S \subseteq Nodes, NEW p \in Nodes \ S
  PROVE  Cardinality(S \cup {p}) = Cardinality(S) + 1
  BY NodesFinite, FS_AddElement

-----------------------------------------------------------------------------
(* mmgr_free_by_type.                                                      *)

\* The node of the block that is freed.
LEMMA OwnerFound ==
  ASSUME Inv, NEW m, Owner(m) # NULL
  PROVE  Owner(m) \in AllocNodes /\ pool[Owner(m)].base = m
  <1>1. pool \in Pools /\ List(pool, p_alloc, AllocNodes) /\ AllocNodes \subseteq Nodes
    BY InvFacts
  <1>2. QED  BY <1>1, SearchFinds DEF Owner

\* The node leaves the allocated list and enters the free list.
LEMMA PlacedShape ==
  ASSUME Inv, NEW p \in AllocNodes, NEW pr, pr = Inserted(Unlinked(pool, p), p),
         NEW g, g = (IF p_free = NULL \/ pool[p].base < pool[p_free].base THEN p ELSE p_free)
  PROVE  /\ Shape(pr, g, FreeNodes \cup {p}, HeadWithout(pool, p_alloc, p), AllocNodes \ {p})
         /\ \A r \in FreeNodes \cup {p} : r # p /\ r # pr[p].prev => Gap(pr, r)
         /\ \A n \in AllocNodes \ {p} : SameBlock(pool, pr, n)
         /\ p_free = NULL => FreeNodes = {} /\ pr[p].next = NULL
  <1> DEFINE F == FreeNodes  A == AllocNodes  pl == Unlinked(pool, p)
  <1>1. /\ pool \in Pools /\ F \subseteq Nodes /\ A \subseteq Nodes
        /\ List(pool, p_free, F) /\ List(pool, p_alloc, A)
        /\ F \cap A = {} /\ Arena(pool, F \cup A)
        /\ \A n \in F \cup A : pool[n].size > 0
        /\ \A r \in F : Gap(pool, r)
    BY InvFacts DEF Inv, Arena
  <1> HIDE DEF F, A
  <1>2. p \in A /\ p \in Nodes \ F
    BY <1>1 DEF A
  <1>3. /\ pl \in Pools
        /\ \A n \in Nodes :
              /\ SameBlock(pool, pl, n)
              /\ pl[n].next = (IF n = pool[p].prev THEN pool[p].next ELSE pool[n].next)
              /\ pl[n].prev = (IF n = pool[p].next THEN pool[p].prev ELSE pool[n].prev)
        /\ \A n \in Nodes : n # pool[p].prev /\ n # pool[p].next => pl[n] = pool[n]
    <2>1. /\ pl \in Pools
          /\ \A n \in Nodes :
              /\ SameBlock(pool, pl, n)
              /\ pl[n].next = (IF n = pool[p].prev THEN pool[p].next ELSE pool[n].next)
              /\ pl[n].prev = (IF n = pool[p].next THEN pool[p].prev ELSE pool[n].prev)
      BY <1>1, <1>2, UnlinkedFields
    <2> HIDE DEF pl
    <2>2. \A n \in Nodes : n # pool[p].prev /\ n # pool[p].next => pl[n] = pool[n]
      BY <1>1, <2>1 DEF SameBlock, Pools, Mnode
    <2>3. QED  BY <2>1, <2>2
  <1> HIDE DEF pl
  <1>4. pool[p].prev \in A \cup {NULL} /\ pool[p].next \in A \cup {NULL}
    <2>1. pool[p].next \in A \cup {NULL}
      BY <1>1, <1>2 DEF List
    <2>2. CASE p = p_alloc
      BY <1>1, <1>2, <2>1, <2>2, NullIsNoNode DEF List
    <2>3. CASE p # p_alloc
      BY <1>1, <1>2, <2>1, <2>3, BackLink
    <2>4. QED  BY <2>2, <2>3
  <1>5. \A n \in Nodes \ A : pl[n] = pool[n]
    BY <1>3, <1>4, NullIsNoNode
  <1>6. List(pl, p_free, F)
    BY <1>1, <1>5, ListKept
  <1>7. List(pl, HeadWithout(pool, p_alloc, p), A \ {p})
    BY <1>1, <1>2, <1>3, ListRemove
  <1>8. \A n \in Nodes : End(pl, n) = End(pool, n) /\ pl[n].base = pool[n].base
                          /\ pl[n].size = pool[n].size
    BY <1>3 DEF SameBlock, End
  <1>9. \A r \in F : pl[r].size > 0 /\ Gap(pl, r) /\ Apart(pl, p, r)
    <2>1. \A r \in F : pl[r].size > 0 /\ Apart(pl, p, r)
      BY <1>1, <1>2, <1>8 DEF Arena, Apart
    <2>2. \A r \in F : pool[r].next \in F \cup {NULL}
      BY <1>1 DEF List
    <2>3. \A r \in F : Gap(pl, r)
      BY <1>1, <1>5, <1>8, <2>2 DEF Gap
    <2>4. QED  BY <2>1, <2>3
  <1>10. pl[p].size > 0
    BY <1>1, <1>2, <1>8
  <1>11. pr = Inserted(pl, p)
    BY DEF pl
  <1>12. g = NewHead(pl, p)
    <2>1. p_free # NULL => p_free \in Nodes
      BY <1>1 DEF List
    <2>2. QED  BY <1>2, <1>8, <2>1 DEF NewHead
  <1>13. /\ pr \in Pools
         /\ \A n \in Nodes : SameBlock(pl, pr, n)
         /\ \A n \in Nodes \ (F \cup {p}) : pr[n] = pl[n]
         /\ List(pr, g, F \cup {p})
         /\ \A r \in F \cup {p} : Ascends(pr, r)
         /\ \A r \in F : r # pr[p].prev => Gap(pr, r)
         /\ p_free = NULL => F = {} /\ pr[p].next = NULL
    <2>1. pl \in Pools
      BY <1>3
    <2>2. Loose(pl, F, p)
      BY <1>2, <1>9, <1>10 DEF Loose
    <2>3. Placed(pl, pr, F, p)
      BY <1>6, <1>11, <2>1, <2>2, InsertStep
    <2>4. QED  BY <1>12, <2>3 DEF Placed
  <1>14. List(pr, HeadWithout(pool, p_alloc, p), A \ {p})
    <2>1. \A r \in A \ {p} : pr[r].next = pl[r].next /\ pr[r].prev = pl[r].prev
      BY <1>1, <1>13
    <2>2. QED  BY <1>7, <2>1, ListKept
  <1>15. \A n \in Nodes : SameBlock(pool, pr, n)
    BY <1>3, <1>13 DEF SameBlock
  <1>16. Arena(pr, (F \cup {p}) \cup (A \ {p}))
    <2>1. \A n \in Nodes \ (F \cup A) : pr[n] = pool[n]
      BY <1>2, <1>5, <1>13
    <2>2. Arena(pr, F \cup A)
      BY <1>1, <1>15, <2>1, ArenaKept
    <2>3. F \cup A = (F \cup {p}) \cup (A \ {p})
      BY <1>2
    <2>4. QED  BY <2>2, <2>3
  <1>17. (F \cup {p}) \cap (A \ {p}) = {}
    BY <1>1
  <1>18. Shape(pr, g, F \cup {p}, HeadWithout(pool, p_alloc, p), A \ {p})
    BY <1>13, <1>14, <1>16, <1>17 DEF Shape
  <1>19. QED  BY <1>1, <1>13, <1>15, <1>18 DEF F, A

\* One node is counted back for each merging.
LEMMA MergeCount ==
  ASSUME NEW pl, NEW f, NEW F, NEW a, NEW A, NEW p, NEW m,
         Shape(pl, f, F, a, A), p \in F, MergeDone(pl, f, F, a, A, p, m)
  PROVE  Cardinality(After(F, p, m) \cup A) = Cardinality(F \cup A) - m.back
  <1>0. /\ F \cup A \subseteq Nodes /\ F \cap A = {} /\ p \in F \cup A
        /\ m.back \in {0, 1}
    BY ShapeFacts DEF Shape, MergeDone
  <1>1. Cardinality(F \cup A) \in Int
    BY <1>0, NodesFinite
  <1>2. CASE m.back = 1
    <2>1. After(F, p, m) \cup A = (F \cup A) \ {p}
      BY <1>0, <1>2 DEF After
    <2>2. Cardinality((F \cup A) \ {p}) = Cardinality(F \cup A) - 1
      BY <1>0, OneLess
    <2>3. QED  BY <1>2, <2>1, <2>2
  <1>3. CASE m.back = 0
    BY <1>1, <1>3 DEF After
  <1>4. QED  BY <1>0, <1>2, <1>3

\* Freeing a block: its node leaves the allocated list, the others stay as they are.
LEMMA FreeStep ==
  ASSUME Inv, NEW m, FreeBlock(m)
  PROVE  /\ Inv' /\ Owner(m) \in AllocNodes /\ pool[Owner(m)].base = m
         /\ AllocNodes' = AllocNodes \ {Owner(m)}
         /\ \A n \in AllocNodes \ {Owner(m)} : SameBlock(pool, pool', n)
  <1> DEFINE p == Owner(m)
             placed == Inserted(Out(m), p)
             before == Merged(placed, p)
             behind == before.pool[before.node].next
             after  == Merged(before.pool, behind)
             B == AllocNodes \ {p}
  <1>1. /\ ~fault /\ p # NULL
        /\ p_alloc' = HeadWithout(pool, p_alloc, p)
        /\ p_free' = IF p_free = NULL \/ pool[p].base < pool[p_free].base THEN p ELSE p_free
        /\ ret' = ret
    BY DEF FreeBlock
  <1>2. \/ p_free = NULL /\ pool' = placed /\ num' = num /\ fault' = fault
        \/ /\ p_free # NULL /\ behind = NULL
           /\ pool' = before.pool /\ num' = num - before.back /\ fault' = TRUE
        \/ /\ p_free # NULL /\ behind # NULL
           /\ pool' = after.pool /\ num' = num - before.back - after.back
           /\ fault' = fault
    BY DEF FreeBlock
  <1>3. p \in AllocNodes /\ pool[p].base = m
    BY <1>1, OwnerFound
  <1>4. placed = Inserted(Unlinked(pool, p), p)
    BY DEF Out
  <1> HIDE DEF placed, p
  <1> DEFINE S1 == FreeNodes \cup {p}
  <1>5. /\ Shape(placed, p_free', S1, p_alloc', B)
        /\ GapsBut(placed, S1, p)
        /\ \A n \in B : SameBlock(pool, placed, n)
        /\ p_free = NULL => FreeNodes = {} /\ placed[p].next = NULL
    BY <1>1, <1>3, <1>4, PlacedShape DEF GapsBut
  <1>6. /\ FreeNodes \subseteq Nodes /\ AllocNodes \subseteq Nodes
        /\ num = Cardinality(S1 \cup B) /\ p \in S1 /\ S1 \cup B \subseteq Nodes
        /\ S1 \cap B = {} /\ num \in Int
    <2>1. /\ FreeNodes \subseteq Nodes /\ AllocNodes \subseteq Nodes
          /\ FreeNodes \cap AllocNodes = {}
      BY InvFacts
    <2>2. S1 \cup B = FreeNodes \cup AllocNodes
      BY <1>3
    <2>3. num = Cardinality(S1 \cup B) /\ num \in Int
      <3>1. num = Cardinality(FreeNodes \cup AllocNodes)
        BY DEF Inv
      <3>2. num \in 0 .. MaxPool
        BY DEF Inv, TypeOK
      <3>3. num \in Int
        BY <3>2
      <3>4. QED  BY <2>2, <3>1, <3>3, Zenon
    <2>4. QED  BY <1>3, <2>1, <2>2, <2>3
  <1>7. fault' \in BOOLEAN /\ ret' \in [size : Requests \cup {0}, base : -1 .. TotalSize]
    BY <1>1, <1>2 DEF Inv, TypeOK
  <1>8. /\ MergeDone(placed, p_free', S1, p_alloc', B, p, before)
    BY <1>5, <1>6, MergeStep
  <1> DEFINE S2 == After(S1, p, before)
  <1> HIDE DEF before, S1, B
  <1>9. /\ Shape(before.pool, p_free', S2, p_alloc', B)
        /\ before.back \in {0, 1} /\ before.node \in S2
        /\ \A r \in S2 : r # before.node => Gap(before.pool, r)
        /\ \A n \in B : before.pool[n] = placed[n]
        /\ Cardinality(S2 \cup B) = num - before.back
    <2>1. Cardinality(S2 \cup B) = num - before.back
      <3>1. Cardinality(S2 \cup B) = Cardinality(S1 \cup B) - before.back
        BY <1>5, <1>6, <1>8, MergeCount
      <3>2. QED  BY <1>6, <3>1
    <2>2. QED  BY <1>8, <2>1 DEF MergeDone
  <1> HIDE DEF S2
  <1>10. SUFFICES /\ Inv' /\ AllocNodes' = B
                  /\ \A n \in B : SameBlock(pool, pool', n)
    BY <1>3 DEF p, B
  <1>a. CASE p_free = NULL
    <2>1. pool' = placed /\ num' = num
      BY <1>2, <1>a
    <2>2. \A r \in S1 : Gap(placed, r)
      BY <1>5, <1>a DEF Gap, S1
    <2>3. Inv' /\ AllocNodes' = B
      BY <1>5, <1>6, <1>7, <2>1, <2>2, InvNext
    <2>4. QED  BY <1>5, <2>1, <2>3
  <1>b. CASE p_free # NULL /\ behind = NULL
    <2>1. pool' = before.pool /\ num' = num - before.back
      BY <1>2, <1>b
    <2>2. \A r \in S2 : Gap(before.pool, r)
      BY <1>9, <1>b DEF Gap
    <2>3. Inv' /\ AllocNodes' = B
      BY <1>7, <1>9, <2>1, <2>2, InvNext
    <2>4. QED  BY <1>5, <1>9, <2>1, <2>3 DEF SameBlock
  <1>c. CASE p_free # NULL /\ behind # NULL
    <2>1. pool' = after.pool /\ num' = num - before.back - after.back
      BY <1>2, <1>c
    <2>2. behind \in S2 /\ before.pool[behind].prev = before.node /\ behind # before.node
      <3>1. List(before.pool, p_free', S2)
        BY <1>9 DEF Shape
      <3>2. QED  BY <1>9, <1>c, <3>1, ListLinks
    <2> HIDE DEF behind
    <2>3. GapsBut(before.pool, S2, behind) /\ Gap(before.pool, behind)
      BY <1>9, <2>2 DEF GapsBut
    <2>4. MergeDone(before.pool, p_free', S2, p_alloc', B, behind, after)
      BY <1>9, <2>2, <2>3, MergeStep
    <2> DEFINE S3 == After(S2, behind, after)
    <2> HIDE DEF after
    <2>5. /\ Shape(after.pool, p_free', S3, p_alloc', B)
          /\ \A r \in S3 : Gap(after.pool, r)
          /\ \A n \in B : after.pool[n] = before.pool[n]
          /\ after.back \in {0, 1}
      BY <2>3, <2>4 DEF MergeDone
    <2>6. Cardinality(S3 \cup B) = num - before.back - after.back
      <3>1. Cardinality(S3 \cup B) = Cardinality(S2 \cup B) - after.back
        BY <1>9, <2>2, <2>4, MergeCount
      <3>2. QED  BY <1>9, <3>1
    <2> HIDE DEF S3
    <2>7. Inv' /\ AllocNodes' = B
      BY <1>7, <2>1, <2>5, <2>6, InvNext
    <2>8. QED  BY <1>5, <1>9, <2>1, <2>5, <2>7 DEF SameBlock
  <1>11. QED  BY <1>a, <1>b, <1>c

-----------------------------------------------------------------------------
(* mmgr_alloc_by_type.                                                     *)

\* The rounded size holds the request.
LEMMA RoundedHolds ==
  ASSUME NEW size \in Int, size > 0
  PROVE  Rounded(size) \in Int /\ Rounded(size) >= size
  <1>1. Unit \in Int /\ Unit > 0
    BY ArenaAssumption
  <1>2. size % Unit \in 0 .. Unit - 1
    BY <1>1
  <1>3. QED  BY <1>1, <1>2 DEF Rounded

\* The search for a node that is not in use finds one.
LEMMA LeastUnused ==
  ASSUME NEW pl, Unused(pl) # {}
  PROVE  Min(Unused(pl)) \in Unused(pl)
  <1>1. Unused(pl) \subseteq Nat
    BY DEF Unused, Nodes
  <1>2. PICK u \in Unused(pl) : \A w \in Unused(pl) : ~(<<w, u>> \in OpToRel(<, Nat))
    BY <1>1, NatLessThanWellFounded, WFMin
  <1>3. ASSUME NEW w \in Unused(pl) PROVE u <= w
    <2>1. w \in Nat /\ u \in Nat
      BY <1>1
    <2>2. ~(w < u)
      BY <1>2, <2>1 DEF OpToRel
    <2>3. QED  BY <2>1, <2>2
  <1>4. QED  BY <1>3 DEF Min

\* The node that is taken, in front of the allocated list.
LEMMA NewFields ==
  ASSUME NEW p \in Nodes, NEW new \in Nodes, NEW n \in 0 .. TotalSize,
         pool \in Pools, pool[new] = Zeroed, p_alloc \in Links, p_alloc # new
  PROVE  LET pl == WithNew(p, new, n) IN
         /\ pl \in Pools
         /\ pl[new].isused /\ pl[new].base = pool[p].base /\ pl[new].size = n
         /\ pl[new].next = p_alloc /\ pl[new].prev = NULL
         /\ \A k \in Nodes \ {new} :
              /\ SameBlock(pool, pl, k) /\ pl[k].next = pool[k].next
              /\ pl[k].prev = (IF k = p_alloc THEN new ELSE pool[k].prev)
         /\ \A k \in Nodes \ {new} : k # p_alloc => pl[k] = pool[k]
  <1> DEFINE px == [pool EXCEPT ![new] = [@ EXCEPT !.isused = TRUE, !.base = pool[p].base,
                                                   !.size = n, !.next = p_alloc]]
             pl == SetPrev(px, p_alloc, new)
  <1>1. /\ px[new] = [Zeroed EXCEPT !.isused = TRUE, !.base = pool[p].base,
                                    !.size = n, !.next = p_alloc]
        /\ \A k \in Nodes \ {new} : px[k] = pool[k]
        /\ px = [k \in Nodes |-> px[k]]
    BY DEF Pools
  <1> HIDE DEF px
  <1>2. pool[p].base \in 0 .. TotalSize
    BY NodeTypes
  <1>3. /\ px[new] \in Mnode /\ px[new].isused = TRUE /\ px[new].base = pool[p].base
        /\ px[new].size = n /\ px[new].next = p_alloc /\ px[new].prev = NULL
    BY <1>1, <1>2 DEF Zeroed, Mnode, Links
  <1>4. px \in Pools
    BY <1>1, <1>3 DEF Pools
  <1>5. /\ pl \in Pools
        /\ \A k \in Nodes : /\ SameBlock(px, pl, k) /\ pl[k].next = px[k].next
                            /\ pl[k].prev = (IF k = p_alloc THEN new ELSE px[k].prev)
        /\ \A k \in Nodes : k # p_alloc => pl[k] = px[k]
    BY <1>4 DEF SetPrev, Pools, Mnode, Links, SameBlock, Nodes
  <1>6. WithNew(p, new, n) = pl
    BY DEF WithNew, px
  <1> HIDE DEF pl
  <1>7. /\ pl[new].isused /\ pl[new].base = pool[p].base /\ pl[new].size = n
        /\ pl[new].next = p_alloc /\ pl[new].prev = NULL
    BY <1>3, <1>5 DEF SameBlock
  <1>8. /\ \A k \in Nodes \ {new} :
              /\ SameBlock(pool, pl, k) /\ pl[k].next = pool[k].next
              /\ pl[k].prev = (IF k = p_alloc THEN new ELSE pool[k].prev)
        /\ \A k \in Nodes \ {new} : k # p_alloc => pl[k] = pool[k]
    BY <1>1, <1>5 DEF SameBlock
  <1>9. QED  BY <1>5, <1>6, <1>7, <1>8

\* A block that fits exactly goes to the new node; of another the front does.
Exact(pl, p)  == [Unlinked(pl, p) EXCEPT ![p] = Zeroed]
Cut(pl, p, n) == [pl EXCEPT ![p].base = @ + n, ![p].size = @ - n]

\* The fields after an exact fit.
LEMMA ExactFields ==
  ASSUME NEW pl \in Pools, NEW p \in Nodes
  PROVE  LET pr == Exact(pl, p) IN
         /\ pr \in Pools /\ pr[p] = Zeroed
         /\ \A k \in Nodes \ {p} :
              /\ SameBlock(pl, pr, k)
              /\ pr[k].next = (IF k = pl[p].prev THEN pl[p].next ELSE pl[k].next)
              /\ pr[k].prev = (IF k = pl[p].next THEN pl[p].prev ELSE pl[k].prev)
         /\ \A k \in Nodes \ {p} : k # pl[p].prev /\ k # pl[p].next => pr[k] = pl[k]
  <1> DEFINE px == Unlinked(pl, p)  pr == [px EXCEPT ![p] = Zeroed]
  <1>1. /\ px \in Pools
        /\ \A k \in Nodes :
              /\ SameBlock(pl, px, k)
              /\ px[k].next = (IF k = pl[p].prev THEN pl[p].next ELSE pl[k].next)
              /\ px[k].prev = (IF k = pl[p].next THEN pl[p].prev ELSE pl[k].prev)
    BY UnlinkedFields
  <1> HIDE DEF px
  <1>2. Zeroed \in Mnode
    BY ArenaAssumption DEF Zeroed, Mnode
  <1>3. /\ pr \in Pools /\ pr[p] = Zeroed /\ \A k \in Nodes \ {p} : pr[k] = px[k]
    BY <1>1, <1>2 DEF Pools
  <1> HIDE DEF pr
  <1>4. \A k \in Nodes \ {p} :
              /\ SameBlock(pl, pr, k)
              /\ pr[k].next = (IF k = pl[p].prev THEN pl[p].next ELSE pl[k].next)
              /\ pr[k].prev = (IF k = pl[p].next THEN pl[p].prev ELSE pl[k].prev)
    BY <1>1, <1>3 DEF SameBlock
  <1>5. \A k \in Nodes \ {p} : k # pl[p].prev /\ k # pl[p].next => pr[k] = pl[k]
    BY <1>3, <1>4 DEF SameBlock, Pools, Mnode
  <1>6. Exact(pl, p) = pr
    BY DEF Exact, pr, px
  <1>7. QED  BY <1>3, <1>4, <1>5, <1>6

\* The fields after a cut.
LEMMA CutFields ==
  ASSUME NEW pl \in Pools, NEW p \in Nodes, NEW n \in Int, 0 < n, n < pl[p].size,
         pl[p].base + pl[p].size <= TotalSize
  PROVE  LET pr == Cut(pl, p, n) IN
         /\ pr \in Pools
         /\ pr[p].base = pl[p].base + n /\ pr[p].size = pl[p].size - n
         /\ pr[p].isused = pl[p].isused /\ pr[p].next = pl[p].next /\ pr[p].prev = pl[p].prev
         /\ \A k \in Nodes \ {p} : pr[k] = pl[k]
  <1> DEFINE pr == [pl EXCEPT ![p].base = @ + n, ![p].size = @ - n]
  <1>1. pl[p].base \in 0 .. TotalSize /\ pl[p].size \in 0 .. TotalSize /\ pl[p] \in Mnode
    BY NodeTypes DEF Pools
  <1>2. pl[p].base + n \in 0 .. TotalSize /\ pl[p].size - n \in 0 .. TotalSize
    BY <1>1, ArenaAssumption
  <1>3. /\ pr[p] = [pl[p] EXCEPT !.base = @ + n, !.size = @ - n]
        /\ \A k \in Nodes \ {p} : pr[k] = pl[k]
        /\ pr = [k \in Nodes |-> pr[k]]
    BY DEF Pools
  <1> HIDE DEF pr
  <1>4. /\ pr[p] \in Mnode
        /\ pr[p].base = pl[p].base + n /\ pr[p].size = pl[p].size - n
        /\ pr[p].isused = pl[p].isused /\ pr[p].next = pl[p].next /\ pr[p].prev = pl[p].prev
    BY <1>1, <1>2, <1>3 DEF Mnode
  <1>5. pr \in Pools
    BY <1>3, <1>4 DEF Pools
  <1>6. Cut(pl, p, n) = pr
    BY DEF Cut, pr
  <1>7. QED  BY <1>3, <1>4, <1>5, <1>6

\* The free node whose block is used.
LEMMA FitFound ==
  ASSUME Inv, NEW size, Fit(size) # NULL
  PROVE  Fit(size) \in FreeNodes /\ pool[Fit(size)].size >= Rounded(size)
  <1>1. pool \in Pools /\ List(pool, p_free, FreeNodes) /\ FreeNodes \subseteq Nodes
    BY InvFacts
  <1>2. QED  BY <1>1, SearchFinds DEF Fit

\* Allocating: a node that was not in use holds the front of a free block.
LEMMA CarveStep ==
  ASSUME Inv, NEW size \in Requests, Carve(size)
  PROVE  /\ Inv'
         /\ \E new \in Nodes \ (FreeNodes \cup AllocNodes) : \E p \in FreeNodes :
              /\ AllocNodes' = AllocNodes \cup {new}
              /\ \A k \in AllocNodes : SameBlock(pool, pool', k)
              /\ pool'[new].base = pool[p].base /\ pool'[new].size = Rounded(size)
              /\ Rounded(size) <= pool[p].size
              /\ ret' = [size |-> size, base |-> pool[p].base]
  <1> DEFINE n == Rounded(size)  p == Fit(size)  new == Min(Unused(pool))
             pl == WithNew(p, new, n)  F == FreeNodes  A == AllocNodes
  <1>1. /\ size > 0 /\ p # NULL /\ Unused(pool) # {} /\ fault' = fault
        /\ p_alloc' = new /\ ret' = [size |-> size, base |-> pool[p].base]
    BY DEF Carve
  <1>2. \/ /\ pool[p].size = n
           /\ p_free' = HeadWithout(pool, p_free, p)
           /\ pool' = Exact(pl, p)
           /\ num' = num
        \/ /\ pool[p].size # n
           /\ pool' = Cut(pl, p, n)
           /\ num' = num + 1
           /\ p_free' = p_free
    BY DEF Carve, Exact, Cut
  <1>3. n \in Int /\ n > 0
    <2>1. size \in Int
      BY ArenaAssumption
    <2>2. QED  BY <1>1, <2>1, RoundedHolds
  <1>4. p \in F /\ pool[p].size >= n
    BY <1>1, FitFound
  <1>5. /\ pool \in Pools /\ F \subseteq Nodes /\ A \subseteq Nodes
        /\ List(pool, p_free, F) /\ List(pool, p_alloc, A)
        /\ F \cap A = {} /\ Arena(pool, F \cup A)
        /\ Unused(pool) = Nodes \ (F \cup A)
        /\ \A k \in F \cup A :
              /\ pool[k].base \in 0 .. TotalSize /\ pool[k].size \in 1 .. TotalSize
              /\ End(pool, k) = pool[k].base + pool[k].size /\ End(pool, k) <= TotalSize
        /\ \A r \in F : Ascends(pool, r)
        /\ \A r \in F : Gap(pool, r)
    BY InvFacts DEF Inv
  <1>6. new \in Nodes \ (F \cup A)
    BY <1>1, <1>5, LeastUnused
  <1>7. num = Cardinality(F \cup A) /\ num \in Int
    <2>1. num = Cardinality(F \cup A)
      BY DEF Inv
    <2>2. Cardinality(F \cup A) \in 0 .. MaxPool
      BY <1>5, NodesFinite
    <2>3. QED  BY <2>1, <2>2
  <1>8. fault' \in BOOLEAN /\ ret' \in [size : Requests \cup {0}, base : -1 .. TotalSize]
    <2>1. fault' \in BOOLEAN
      BY <1>1 DEF Inv, TypeOK
    <2>2. pool[p].base \in -1 .. TotalSize
      BY <1>4, <1>5
    <2>3. ret' \in [size : Requests \cup {0}, base : -1 .. TotalSize]
      BY <1>1, <2>2
    <2>4. QED  BY <2>1, <2>3
  <1> HIDE DEF n, p, new, F, A
  <1>9. /\ pl \in Pools
        /\ pl[new].isused /\ pl[new].base = pool[p].base /\ pl[new].size = n
        /\ pl[new].next = p_alloc /\ pl[new].prev = NULL
        /\ \A k \in Nodes \ {new} :
              /\ SameBlock(pool, pl, k) /\ pl[k].next = pool[k].next
              /\ pl[k].prev = (IF k = p_alloc THEN new ELSE pool[k].prev)
        /\ \A k \in Nodes \ {new} : k # p_alloc => pl[k] = pool[k]
    <2>1. p \in Nodes /\ new \in Nodes /\ pool[new] = Zeroed
      BY <1>4, <1>5, <1>6 DEF Arena
    <2>2. n \in 0 .. TotalSize
      BY <1>3, <1>4, <1>5, ArenaAssumption
    <2>3. p_alloc \in Links /\ p_alloc # new
      BY <1>5, <1>6, NullIsNoNode DEF List, Links
    <2>4. QED  BY <1>5, <2>1, <2>2, <2>3, NewFields
  <1> HIDE DEF pl
  <1>10. List(pl, new, A \cup {new})
    <2>1. \A r \in A : /\ pl[r].next = pool[r].next
                       /\ pl[r].prev = (IF r = p_alloc THEN new ELSE pool[r].prev)
      BY <1>5, <1>6, <1>9
    <2>2. new \in Nodes /\ new \notin A
      BY <1>6
    <2>3. QED  BY <1>5, <1>9, <2>1, <2>2, ListPush
  <1>11. \A k \in F : pl[k] = pool[k]
    BY <1>5, <1>6, <1>9, NullIsNoNode DEF List
  <1>12. List(pl, p_free, F)
    BY <1>5, <1>11, ListKept
  <1>13. p \in Nodes /\ p # new /\ p \notin A /\ pl[p] = pool[p]
    BY <1>4, <1>5, <1>6, <1>11
  <1>14. \A k \in A : SameBlock(pool, pl, k)
    BY <1>5, <1>6, <1>9
  <1>15. \A k \in Nodes \ ((F \cup A) \cup {new}) : pl[k] = pool[k]
    BY <1>5, <1>9, NullIsNoNode DEF List
  <1>16. \A r \in F : pool[r].next \in F \cup {NULL} /\ r # NULL
    BY <1>5, ListLinks
  <1>17. SUFFICES /\ Inv' /\ AllocNodes' = A \cup {new}
                  /\ \A k \in A : SameBlock(pool, pool', k)
                  /\ pool'[new].base = pool[p].base /\ pool'[new].size = n
    BY <1>1, <1>4, <1>6 DEF n, F, A
  <1>a. CASE pool[p].size = n
    <2>1. PICK pr : pr = pool'
      OBVIOUS
    <2>2. /\ pr = Exact(pl, p)
          /\ p_free' = HeadWithout(pool, p_free, p) /\ num' = num
      BY <1>2, <1>a, <2>1
    <2>3. /\ pr \in Pools /\ pr[p] = Zeroed
          /\ \A k \in Nodes \ {p} :
               /\ SameBlock(pl, pr, k)
               /\ pr[k].next = (IF k = pool[p].prev THEN pool[p].next ELSE pl[k].next)
               /\ pr[k].prev = (IF k = pool[p].next THEN pool[p].prev ELSE pl[k].prev)
          /\ \A k \in Nodes \ {p} : k # pool[p].prev /\ k # pool[p].next => pr[k] = pl[k]
      BY <1>9, <1>13, <2>2, ExactFields
    <2>4. pool[p].next \in F \cup {NULL} /\ pool[p].prev \in F \cup {NULL}
      <3>1. p = p_free => pool[p].prev = NULL
        BY <1>4, <1>5, <1>16 DEF List
      <3>2. QED  BY <1>4, <1>5, <1>16, <3>1, BackLink
    <2>5. \A k \in Nodes \ F : pr[k] = pl[k]
      BY <1>4, <2>3, <2>4, NullIsNoNode
    <2>6. List(pr, new, A \cup {new})
      <3>1. \A r \in A \cup {new} : pr[r].next = pl[r].next /\ pr[r].prev = pl[r].prev
        BY <1>5, <1>6, <2>5
      <3>2. QED  BY <1>10, <3>1, ListKept
    <2>7. List(pr, p_free', F \ {p})
      <3>1. \A r \in F \ {p} :
              /\ pr[r].next = (IF r = pl[p].prev THEN pl[p].next ELSE pl[r].next)
              /\ pr[r].prev = (IF r = pl[p].next THEN pl[p].prev ELSE pl[r].prev)
        BY <1>5, <1>13, <2>3
      <3>2. List(pr, HeadWithout(pl, p_free, p), F \ {p})
        BY <1>4, <1>12, <3>1, ListRemove
      <3>3. QED  BY <1>13, <2>2, <3>2 DEF HeadWithout
    <2>8. /\ \A k \in (F \cup A) \ {p} : SameBlock(pool, pr, k)
          /\ \A k \in Nodes \ ((F \cup A) \cup {new}) : pr[k] = pool[k]
          /\ pr[new] = pl[new]
      <3>1. \A k \in F \ {p} : SameBlock(pool, pr, k)
        BY <1>5, <1>11, <2>3 DEF SameBlock
      <3>2. \A k \in A : SameBlock(pool, pr, k)
        BY <1>5, <1>14, <2>5 DEF SameBlock
      <3>3. pr[new] = pl[new] /\ \A k \in Nodes \ ((F \cup A) \cup {new}) : pr[k] = pool[k]
        BY <1>6, <1>15, <2>5
      <3>4. QED  BY <3>1, <3>2, <3>3
    <2>9. Arena(pr, (F \ {p}) \cup (A \cup {new}))
      <3>1. p \in F \cup A /\ pr[new].base = pool[p].base /\ pr[new].size = pool[p].size
            /\ pr[new].isused
        BY <1>4, <1>9, <1>a, <2>8
      <3>2. Arena(pr, ((F \cup A) \ {p}) \cup {new})
        BY <1>5, <1>6, <2>3, <2>8, <3>1, ArenaMoved
      <3>3. ((F \cup A) \ {p}) \cup {new} = (F \ {p}) \cup (A \cup {new})
        BY <1>13
      <3>4. QED  BY <3>2, <3>3
    <2>10. ASSUME NEW r \in F \ {p} PROVE Gap(pr, r) /\ Ascends(pr, r)
      <3>1. /\ pr[r].next = (IF r = pool[p].prev THEN pool[p].next ELSE pool[r].next)
            /\ pr[r].next \in (F \ {p}) \cup {NULL}
        BY <1>5, <1>11, <2>3, <2>7, <2>10 DEF List
      <3>2. \A k \in F \ {p} : pr[k].base = pool[k].base /\ End(pr, k) = End(pool, k)
        BY <2>8 DEF SameBlock, End
      <3>3. CASE pr[r].next # NULL /\ r = pool[p].prev
        <4>1. p # p_free
          <5>1. p_free # NULL => pool[p_free].prev = NULL
            BY <1>5 DEF List
          <5>2. p # NULL /\ r # NULL
            BY <1>4, <1>16, <2>10
          <5>3. QED  BY <3>3, <5>1, <5>2
        <4>2. pool[r].next = p /\ p # NULL
          BY <1>4, <1>5, <1>16, <3>3, <4>1, BackLink
        <4>3. End(pool, r) < pool[p].base
          BY <1>5, <2>10, <4>2 DEF Gap
        <4>4. pool[p].next # NULL /\ End(pool, p) < pool[pool[p].next].base
          BY <1>4, <1>5, <3>1, <3>3 DEF Gap
        <4>5. pool[p].next \in F \ {p} /\ pr[r].next = pool[p].next
          BY <3>1, <3>3
        <4>6. End(pool, r) < pool[pool[p].next].base
          BY <1>4, <1>5, <2>10, <4>3, <4>4, <4>5
        <4>7. End(pool, r) \in Int /\ pool[pool[p].next].base \in Int
          BY <1>5, <2>10, <4>5
        <4>8. QED  BY <2>10, <3>2, <4>5, <4>6, <4>7 DEF Gap, Ascends
      <3>4. CASE pr[r].next # NULL /\ r # pool[p].prev
        BY <1>5, <2>10, <3>1, <3>2, <3>4 DEF Gap, Ascends
      <3>5. CASE pr[r].next = NULL
        BY <3>5 DEF Gap, Ascends
      <3>6. QED  BY <3>3, <3>4, <3>5
    <2>11. (F \ {p}) \cap (A \cup {new}) = {}
      BY <1>5, <1>6
    <2>12. Shape(pool', p_free', F \ {p}, p_alloc', A \cup {new})
      BY <1>1, <2>1, <2>3, <2>6, <2>7, <2>9, <2>10, <2>11 DEF Shape
    <2>13. num' = Cardinality((F \ {p}) \cup (A \cup {new}))
      <3> DEFINE U == F \cup A
      <3>1. U \subseteq Nodes /\ p \in U /\ new \notin U /\ new \in Nodes
        BY <1>4, <1>5, <1>6
      <3>2. (F \ {p}) \cup (A \cup {new}) = (U \ {p}) \cup {new}
        BY <1>13
      <3>3. num = Cardinality(U)
        BY <1>7
      <3> HIDE DEF U
      <3>4. Cardinality(U \ {p}) = Cardinality(U) - 1
        BY <3>1, OneLess
      <3>5. U \ {p} \subseteq Nodes /\ new \in Nodes \ (U \ {p})
        BY <3>1
      <3>6. Cardinality((U \ {p}) \cup {new}) = Cardinality(U \ {p}) + 1
        BY <3>5, OneMore
      <3>7. Cardinality((F \ {p}) \cup (A \cup {new})) = Cardinality((U \ {p}) \cup {new})
        BY <3>2, Zenon
      <3>8. num' = num
        BY <2>2
      <3>9. QED  BY <1>7, <3>3, <3>4, <3>6, <3>7, <3>8
    <2>14. \A r \in F \ {p} : Gap(pool', r)
      BY <2>1, <2>10
    <2>15. Inv' /\ AllocNodes' = A \cup {new}
      BY <1>8, <2>12, <2>13, <2>14, InvNext
    <2>16. QED  BY <1>9, <1>13, <2>1, <2>8, <2>15
  <1>b. CASE pool[p].size # n
    <2>1. PICK pr : pr = pool'
      OBVIOUS
    <2>2. /\ pr = Cut(pl, p, n)
          /\ p_free' = p_free /\ num' = num + 1
      BY <1>2, <1>b, <2>1
    <2>3. n < pool[p].size /\ pool[p].base + pool[p].size <= TotalSize
      BY <1>3, <1>4, <1>5, <1>b
    <2>4. /\ pr \in Pools
          /\ pr[p].base = pool[p].base + n /\ pr[p].size = pool[p].size - n
          /\ pr[p].isused = pool[p].isused
          /\ pr[p].next = pool[p].next /\ pr[p].prev = pool[p].prev
          /\ \A k \in Nodes \ {p} : pr[k] = pl[k]
      BY <1>3, <1>9, <1>13, <2>2, <2>3, CutFields
    <2>5. List(pr, new, A \cup {new})
      <3>1. \A r \in A \cup {new} : pr[r].next = pl[r].next /\ pr[r].prev = pl[r].prev
        BY <1>5, <1>6, <1>13, <2>4
      <3>2. QED  BY <1>10, <3>1, ListKept
    <2>6. \A r \in F : pr[r].next = pool[r].next /\ pr[r].prev = pool[r].prev
      BY <1>5, <1>11, <2>4
    <2>7. List(pr, p_free', F)
      BY <1>5, <2>2, <2>6, ListKept
    <2>8. /\ \A k \in (F \cup A) \ {p} : SameBlock(pool, pr, k)
          /\ \A k \in Nodes \ ((F \cup A) \cup {new}) : pr[k] = pool[k]
          /\ pr[new] = pl[new]
      <3>1. \A k \in F \ {p} : SameBlock(pool, pr, k)
        BY <1>5, <1>11, <2>4 DEF SameBlock
      <3>2. \A k \in A : SameBlock(pool, pr, k)
        BY <1>5, <1>13, <1>14, <2>4 DEF SameBlock
      <3>3. pr[new] = pl[new] /\ \A k \in Nodes \ ((F \cup A) \cup {new}) : pr[k] = pool[k]
        BY <1>4, <1>6, <1>13, <1>15, <2>4
      <3>4. QED  BY <3>1, <3>2, <3>3
    <2>9. Arena(pr, F \cup (A \cup {new}))
      <3>1. p \in F \cup A /\ pr[new].base = pool[p].base /\ pr[new].size = n
            /\ pr[new].isused
        BY <1>4, <1>9, <2>8
      <3>2. pr[p].isused
        BY <1>5, <2>4, <3>1 DEF Arena
      <3>3. Arena(pr, (F \cup A) \cup {new})
        BY <1>3, <1>5, <1>6, <2>3, <2>4, <2>8, <3>1, <3>2, ArenaSplit
      <3>4. (F \cup A) \cup {new} = F \cup (A \cup {new})
        OBVIOUS
      <3>5. QED  BY <3>3, <3>4
    <2>10. /\ \A k \in F : pr[k].base >= pool[k].base /\ pr[k].base \in Int
           /\ \A k \in F : End(pr, k) = End(pool, k)
      <3>1. \A k \in F \ {p} : pr[k].base = pool[k].base /\ pr[k].size = pool[k].size
        BY <2>8 DEF SameBlock
      <3>2. \A k \in F : pool[k].base \in Int /\ pool[k].size \in Int
        BY <1>5
      <3>3. QED  BY <1>3, <2>4, <3>1, <3>2 DEF End
    <2>11. \A r \in F : Gap(pr, r) /\ Ascends(pr, r)
      <3>1. SUFFICES ASSUME NEW r \in F, pr[r].next # NULL
                     PROVE  /\ End(pr, r) < pr[pr[r].next].base
                            /\ End(pr, r) <= pr[pr[r].next].base
        BY DEF Gap, Ascends
      <3>2. pr[r].next = pool[r].next /\ pool[r].next \in F
        BY <1>16, <2>6, <3>1
      <3>3. End(pool, r) < pool[pool[r].next].base
        BY <1>5, <3>1, <3>2 DEF Gap
      <3>4. End(pool, r) \in Int /\ pool[pool[r].next].base \in Int
        BY <1>5, <3>2
      <3>5. QED  BY <2>10, <3>2, <3>3, <3>4
    <2>12. F \cap (A \cup {new}) = {}
      BY <1>5, <1>6
    <2>13. Shape(pool', p_free', F, p_alloc', A \cup {new})
      BY <1>1, <2>1, <2>4, <2>5, <2>7, <2>9, <2>11, <2>12 DEF Shape
    <2>14. num' = Cardinality(F \cup (A \cup {new}))
      <3>1. Cardinality((F \cup A) \cup {new}) = Cardinality(F \cup A) + 1
        BY <1>5, <1>6, OneMore
      <3>2. (F \cup A) \cup {new} = F \cup (A \cup {new})
        OBVIOUS
      <3>3. QED  BY <1>7, <2>2, <3>1, <3>2
    <2>15. Inv' /\ AllocNodes' = A \cup {new}
      BY <1>8, <2>1, <2>11, <2>13, <2>14, InvNext
    <2>16. QED  BY <1>9, <1>13, <2>1, <2>8, <2>15
  <1>18. QED  BY <1>a, <1>b

-----------------------------------------------------------------------------
(* The start, and the steps together.                                      *)

StartPool == [n \in Nodes |-> IF n = 1 THEN First ELSE Zeroed]

\* init_mmgr_by_type: one free block, the arena.
LEMMA StartShape ==
  /\ Shape(StartPool, 1, {1}, NULL, {})
  /\ \A r \in {1} : Gap(StartPool, r)
  /\ 1 = Cardinality({1} \cup {})
  <1> DEFINE pl == StartPool
  <1>1. 1 \in Nodes
    BY PoolAssumption DEF Nodes
  <1>2. First \in Mnode /\ Zeroed \in Mnode
    <2>1. Zeroed \in Mnode
      BY ArenaAssumption DEF Zeroed, Mnode
    <2>2. TotalSize \in 0 .. TotalSize
      BY ArenaAssumption
    <2>3. \A z \in Mnode : [z EXCEPT !.size = TotalSize, !.isused = TRUE] \in Mnode
      BY <2>2 DEF Mnode
    <2>4. QED  BY <2>1, <2>3 DEF First
  <1>3. pl \in Pools /\ pl[1] = First /\ \A n \in Nodes \ {1} : pl[n] = Zeroed
    BY <1>1, <1>2 DEF StartPool, Pools
  <1>4. /\ pl[1].prev = NULL /\ pl[1].next = NULL /\ pl[1].base = 0
        /\ pl[1].size = TotalSize /\ pl[1].isused = TRUE
    BY <1>3 DEF First, Zeroed
  <1> HIDE DEF pl
  <1>5. List(pl, NULL, {})
    BY DEF List
  <1>6. List(pl, 1, {1})
    <2>1. List(pl, 1, {} \cup {1})
      BY <1>1, <1>4, <1>5, ListPush
    <2>2. QED  BY <2>1
  <1>7. End(pl, 1) = TotalSize /\ TotalSize > 0 /\ TotalSize \in Int
    BY <1>4, ArenaAssumption DEF End
  <1>8. Arena(pl, {1} \cup {})
    BY <1>1, <1>3, <1>4, <1>7 DEF Arena, Covers
  <1>9. Ascends(pl, 1) /\ Gap(pl, 1)
    BY <1>4 DEF Ascends, Gap
  <1>10. Shape(pl, 1, {1}, NULL, {})
    BY <1>3, <1>5, <1>6, <1>8, <1>9 DEF Shape
  <1>11. Cardinality({1}) = 1 /\ {1} \cup {} = {1}
    BY FS_Singleton
  <1>12. QED  BY <1>9, <1>10, <1>11 DEF pl

\* The result before the first request.
LEMMA RetStart == [size |-> 0, base |-> NoBlock]
                    \in [size : Requests \cup {0}, base : -1 .. TotalSize]
  BY ArenaAssumption DEF NoBlock

\* The invariant holds at the start, with nothing allocated.
LEMMA InvInit == Init => Inv /\ AllocNodes = {}
  <1>1. SUFFICES ASSUME Init PROVE Inv /\ AllocNodes = {}
    OBVIOUS
  <1>2. /\ pool = StartPool /\ num = 1 /\ p_free = 1 /\ p_alloc = NULL
        /\ ret = [size |-> 0, base |-> NoBlock] /\ fault = FALSE
    BY <1>1 DEF Init, StartPool
  <1>3. /\ Shape(pool, p_free, {1}, p_alloc, {}) /\ \A r \in {1} : Gap(pool, r)
        /\ num = Cardinality({1} \cup {})
    BY <1>2, StartShape, Zenon
  <1>4. fault \in BOOLEAN /\ ret \in [size : Requests \cup {0}, base : -1 .. TotalSize]
    BY <1>2, RetStart, Zenon
  <1>5. QED  BY <1>3, <1>4, InvFrom

\* The same after a restart.
LEMMA RestartStep ==
  ASSUME Restart
  PROVE  Inv' /\ AllocNodes' = {}
  <1>1. /\ pool' = StartPool /\ num' = 1 /\ p_free' = 1 /\ p_alloc' = NULL
        /\ ret' = [size |-> 0, base |-> NoBlock] /\ fault' = FALSE
    BY DEF Restart, StartPool
  <1>2. /\ Shape(pool', p_free', {1}, p_alloc', {}) /\ \A r \in {1} : Gap(pool', r)
        /\ num' = Cardinality({1} \cup {})
    BY <1>1, StartShape, Zenon
  <1>3. fault' \in BOOLEAN /\ ret' \in [size : Requests \cup {0}, base : -1 .. TotalSize]
    BY <1>1, RetStart, Zenon
  <1>4. QED  BY <1>2, <1>3, InvNext

\* Nothing but the result changes.
LEMMA SameHeap ==
  ASSUME Inv, UNCHANGED <<pool, num, p_free, p_alloc>>, fault' \in BOOLEAN,
         ret' \in [size : Requests \cup {0}, base : -1 .. TotalSize]
  PROVE  Inv' /\ AllocNodes' = AllocNodes
  <1>1. /\ Shape(pool', p_free', FreeNodes, p_alloc', AllocNodes)
        /\ num' = Cardinality(FreeNodes \cup AllocNodes)
        /\ \A r \in FreeNodes : Gap(pool', r)
    BY DEF Inv
  <1>2. QED  BY <1>1, InvNext

\* A refused request changes no list.
LEMMA RejectStep ==
  ASSUME Inv, NEW size \in Requests, Reject(size)
  PROVE  Inv' /\ AllocNodes' = AllocNodes
  <1>1. fault' \in BOOLEAN
    BY DEF Inv, TypeOK, Reject
  <1>2. ret' = [size |-> size, base |-> NoBlock] /\ UNCHANGED <<pool, num, p_free, p_alloc>>
    BY DEF Reject
  <1>3. ret' \in [size : Requests \cup {0}, base : -1 .. TotalSize]
    BY <1>2, ArenaAssumption DEF NoBlock
  <1>4. QED  BY <1>1, <1>2, <1>3, SameHeap

\* Nor does a request that finds no node.
LEMMA NoNodeStep ==
  ASSUME Inv, NEW size \in Requests, NoNode(size)
  PROVE  Inv' /\ AllocNodes' = AllocNodes
  <1>1. fault' = TRUE /\ UNCHANGED <<pool, num, p_free, p_alloc, ret>>
    BY DEF NoNode
  <1>2. ret' \in [size : Requests \cup {0}, base : -1 .. TotalSize] /\ fault' \in BOOLEAN
    BY <1>1 DEF Inv, TypeOK
  <1>3. QED  BY <1>1, <1>2, SameHeap

\* Nor does a step that changes nothing.
LEMMA StutterStep ==
  ASSUME Inv, UNCHANGED vars
  PROVE  Inv' /\ AllocNodes' = AllocNodes
  <1>1. UNCHANGED <<pool, num, p_free, p_alloc, ret, fault>>
    BY DEF vars
  <1>2. ret' \in [size : Requests \cup {0}, base : -1 .. TotalSize] /\ fault' \in BOOLEAN
    BY <1>1 DEF Inv, TypeOK
  <1>3. QED  BY <1>1, <1>2, SameHeap

\* Every step keeps the invariant.
LEMMA InvStep == Inv /\ [Next]_vars => Inv'
  <1>1. SUFFICES ASSUME Inv, [Next]_vars PROVE Inv'
    OBVIOUS
  <1>2. ASSUME NEW size \in Requests, Reject(size) PROVE Inv'
    BY <1>1, <1>2, RejectStep
  <1>3. ASSUME NEW size \in Requests, Carve(size) PROVE Inv'
    BY <1>1, <1>3, CarveStep
  <1>4. ASSUME NEW size \in Requests, NoNode(size) PROVE Inv'
    BY <1>1, <1>4, NoNodeStep
  <1>5. ASSUME NEW m \in 0 .. TotalSize, FreeUnknown(m) PROVE Inv'
    BY <1>1, <1>5, StutterStep DEF FreeUnknown
  <1>6. ASSUME NEW m \in 0 .. TotalSize, FreeBlock(m) PROVE Inv'
    BY <1>1, <1>6, FreeStep
  <1>7. CASE Restart
    BY <1>7, RestartStep
  <1>8. CASE UNCHANGED vars
    BY <1>1, <1>8, StutterStep
  <1>9. QED  BY <1>1, <1>2, <1>3, <1>4, <1>5, <1>6, <1>7, <1>8 DEF Next

\* The invariant holds in every state.
LEMMA Invariance == Spec => []Inv
  <1>1. Init => Inv
    BY InvInit
  <1>2. QED  BY <1>1, InvStep, PTL DEF Spec

\* The types of the manager's state: in particular no node number, address or
\* length leaves its range, and the count of nodes (mmgr.c: num) neither goes below
\* zero nor above MAXNUM_POOL, for any pool, any arena and any requests.
THEOREM HeapTypes == Spec => []TypeOK
  <1>1. Inv => TypeOK
    BY DEF Inv
  <1>2. QED  BY <1>1, Invariance, PTL

\* The invariant says that the lists are sound.
LEMMA InvSound == Inv => ListsSound
  <1>1. SUFFICES ASSUME Inv PROVE ListsSound
    OBVIOUS
  <1>2. /\ pool \in Pools /\ FreeNodes \subseteq Nodes /\ AllocNodes \subseteq Nodes
        /\ List(pool, p_free, FreeNodes) /\ List(pool, p_alloc, AllocNodes)
        /\ FreeNodes \cap AllocNodes = {}
        /\ Unused(pool) = Nodes \ (FreeNodes \cup AllocNodes)
    BY <1>1, InvFacts
  <1>3. Linked(p_free) /\ Linked(p_alloc)
    BY <1>2 DEF List, Linked, FreeNodes, AllocNodes
  <1>4. FreeNodes \cup AllocNodes = Nodes \ Unused(pool)
    BY <1>2
  <1>5. num = Cardinality(Nodes \ Unused(pool))
    BY <1>1, <1>4 DEF Inv
  <1>6. Coalesced
    BY <1>1 DEF Inv, Gap, End, Coalesced, FreeNodes
  <1>7. QED  BY <1>2, <1>3, <1>4, <1>5, <1>6 DEF ListsSound, FreeNodes, AllocNodes

\* Both lists can be walked both ways and end, the nodes in use are those of the
\* two lists, num counts them, and no two blocks of the free list touch: whatever
\* the order of mmgr_alloc_by_type and mmgr_free_by_type, no node leaks and no
\* split is left that could be undone.
THEOREM ListsStaySound == Spec => []ListsSound
  BY Invariance, InvSound, PTL

-----------------------------------------------------------------------------
(* The promise of a memory manager.                                        *)

\* Facts about division that the rounding needs.
LEMMA MulOrder ==
  ASSUME NEW a \in Int, NEW b \in Int, NEW d \in Int, d > 0, a >= b + 1
  PROVE  a * d >= b * d + d
  OBVIOUS

\* Quotient and remainder.
LEMMA DivMod ==
  ASSUME NEW a \in Int, NEW d \in Int, d > 0
  PROVE  /\ a \div d \in Int /\ a % d \in Int
         /\ a = (a \div d) * d + (a % d) /\ 0 <= a % d /\ a % d < d
  OBVIOUS

\* There is one quotient.
LEMMA DivUnique ==
  ASSUME NEW a \in Int, NEW b \in Int, NEW c \in Int, NEW d \in Int, d > 0,
         0 <= c, c < d, a = b * d + c
  PROVE  a \div d = b
  <1> DEFINE k == a \div d  m == a % d
  <1>1. k \in Int /\ m \in Int /\ a = k * d + m /\ 0 <= m /\ m < d
    BY DivMod
  <1> HIDE DEF k, m
  <1>2. b * d \in Int /\ k * d \in Int
    BY <1>1
  <1>3. ~(b >= k + 1)
    BY <1>1, <1>2, MulOrder
  <1>4. ~(k >= b + 1)
    BY <1>1, <1>2, MulOrder
  <1>5. k = b
    BY <1>1, <1>3, <1>4
  <1>6. QED  BY <1>5 DEF k

\* The rounding of the code is the least multiple of Unit that holds the request.
LEMMA RoundedIsNeeded ==
  ASSUME NEW size \in Int
  PROVE  Rounded(size) = Memory!Needed(size)
  <1> DEFINE q == size \div Unit  r == size % Unit
  <1>1. Unit \in Int /\ Unit > 0
    BY ArenaAssumption
  <1>2. q \in Int /\ r \in Int /\ size = q * Unit + r /\ 0 <= r /\ r < Unit
    BY <1>1, DivMod
  <1>3. Rounded(size) = IF r # 0 THEN size - r + Unit ELSE size
    BY DEF Rounded
  <1> HIDE DEF q, r
  <1>4. q * Unit \in Int /\ (q + 1) * Unit = q * Unit + Unit
    BY <1>1, <1>2
  <1>5. CASE r = 0
    <2>1. size + Unit - 1 = q * Unit + (Unit - 1)
      BY <1>1, <1>2, <1>4, <1>5
    <2>2. (size + Unit - 1) \div Unit = q
      BY <1>1, <1>2, <2>1, DivUnique
    <2>3. QED  BY <1>2, <1>3, <1>5, <2>2, <1>4 DEF Memory!Needed
  <1>6. CASE r # 0
    <2>1. size + Unit - 1 = (q + 1) * Unit + (r - 1)
      BY <1>1, <1>2, <1>4
    <2>2. 0 <= r - 1 /\ r - 1 < Unit
      BY <1>1, <1>2, <1>6
    <2>3. q + 1 \in Int /\ r - 1 \in Int /\ size + Unit - 1 \in Int
      BY <1>1, <1>2
    <2>4. (size + Unit - 1) \div Unit = q + 1
      BY <1>1, <2>1, <2>2, <2>3, DivUnique
    <2>5. QED  BY <1>1, <1>2, <1>3, <1>4, <1>6, <2>4 DEF Memory!Needed
  <1>7. QED  BY <1>5, <1>6

\* The blocks in use, by node.
LEMMA LiveBlocks ==
  /\ \A k \in AllocNodes : [base |-> pool[k].base, size |-> pool[k].size] \in Live
  /\ \A b \in Live : \E k \in AllocNodes : b = [base |-> pool[k].base, size |-> pool[k].size]
  BY DEF Live, AllocNodes

\* What is in use depends on the allocated list alone.
LEMMA SameLive ==
  ASSUME AllocNodes' = AllocNodes, pool' = pool
  PROVE  Live' = Live
  BY DEF Live, AllocNodes

\* An allocation takes a hole.
LEMMA CarveAllocates ==
  ASSUME Inv, NEW size \in Requests, Carve(size)
  PROVE  Memory!Alloc(size)
  <1>1. PICK new \in Nodes \ (FreeNodes \cup AllocNodes), p \in FreeNodes :
          /\ AllocNodes' = AllocNodes \cup {new}
          /\ \A k \in AllocNodes : SameBlock(pool, pool', k)
          /\ pool'[new].base = pool[p].base /\ pool'[new].size = Rounded(size)
          /\ Rounded(size) <= pool[p].size
          /\ ret' = [size |-> size, base |-> pool[p].base]
    BY CarveStep
  <1>2. size \in Int /\ size > 0
    BY ArenaAssumption DEF Carve
  <1> DEFINE n == Memory!Needed(size)  x == pool[p].base
  <1>3. n = Rounded(size) /\ n \in Int /\ n >= size
    BY <1>2, RoundedIsNeeded, RoundedHolds
  <1> HIDE DEF n
  <1>4. /\ \A k \in FreeNodes \cup AllocNodes :
              /\ pool[k].base \in 0 .. TotalSize /\ pool[k].size \in 1 .. TotalSize
              /\ End(pool, k) = pool[k].base + pool[k].size /\ End(pool, k) <= TotalSize
        /\ FreeNodes \cap AllocNodes = {} /\ Arena(pool, FreeNodes \cup AllocNodes)
    BY InvFacts
  <1>5. x \in 0 .. TotalSize - 1 /\ x + n <= TotalSize /\ x + n <= End(pool, p)
    BY <1>1, <1>2, <1>3, <1>4, ArenaAssumption
  <1>6. ASSUME NEW b \in Live, NEW y \in Memory!Bytes(b), y \in x .. x + n - 1 PROVE FALSE
    <2>1. PICK k \in AllocNodes : b = [base |-> pool[k].base, size |-> pool[k].size]
      BY LiveBlocks
    <2>2. Apart(pool, k, p)
      BY <1>4 DEF Arena
    <2>3. y \in pool[k].base .. pool[k].base + pool[k].size - 1
      BY <1>6, <2>1 DEF Memory!Bytes
    <2>4. QED  BY <1>3, <1>4, <1>5, <1>6, <2>2, <2>3 DEF Apart
  <1>7. Memory!Hole(x, n)
    BY <1>5, <1>6 DEF Memory!Hole
  <1>8. Live' = Live \cup {[base |-> x, size |-> n]}
    <2>1. Live' = {[base |-> pool'[k].base, size |-> pool'[k].size] : k \in AllocNodes \cup {new}}
      BY <1>1 DEF Live, AllocNodes
    <2>2. \A k \in AllocNodes : pool'[k].base = pool[k].base /\ pool'[k].size = pool[k].size
      BY <1>1 DEF SameBlock
    <2>3. pool'[new].base = x /\ pool'[new].size = n
      BY <1>1, <1>3
    <2>4. Live = {[base |-> pool[k].base, size |-> pool[k].size] : k \in AllocNodes}
      BY DEF Live, AllocNodes
    <2>5. QED  BY <2>1, <2>2, <2>3, <2>4
  <1>9. ret' = [size |-> size, base |-> x]
    BY <1>1
  <1>10. QED  BY <1>2, <1>5, <1>7, <1>8, <1>9 DEF Memory!Alloc, n

\* A request is refused only when no hole is large enough: the bytes of a hole lie
\* in free blocks, and no two of these touch.
LEMMA RejectRefuses ==
  ASSUME Inv, NEW size \in Requests, Reject(size)
  PROVE  Memory!Refuse(size)
  <1>1. /\ ret' = [size |-> size, base |-> NoBlock] /\ pool' = pool /\ p_alloc' = p_alloc
        /\ \/ size <= 0
           \/ num > MaxPool
           \/ ~\E p \in FreeNodes : pool[p].size >= Rounded(size)
    BY DEF Reject, FreeNodes
  <1>2. Live' = Live
    BY <1>1 DEF Live
  <1>3. ret' = [size |-> size, base |-> -1]
    BY <1>1 DEF NoBlock
  <1>4. ~(num > MaxPool)
    <2>1. num \in 0 .. MaxPool
      BY DEF Inv, TypeOK
    <2>2. QED  BY <2>1, PoolAssumption
  <1>5. /\ pool \in Pools /\ List(pool, p_free, FreeNodes)
        /\ \A k \in FreeNodes \cup AllocNodes :
              /\ pool[k].base \in 0 .. TotalSize /\ pool[k].size \in 1 .. TotalSize
              /\ End(pool, k) = pool[k].base + pool[k].size /\ End(pool, k) <= TotalSize
        /\ Arena(pool, FreeNodes \cup AllocNodes)
        /\ \A r \in FreeNodes : Ascends(pool, r) /\ Gap(pool, r)
    BY InvFacts DEF Inv
  <1>6. \A r \in FreeNodes : pool[r].size > 0 /\ Ascends(pool, r)
    BY <1>5
  <1> DEFINE n == Memory!Needed(size)
  <1>7. ASSUME size > 0, NEW x \in 0 .. TotalSize - 1, Memory!Hole(x, n) PROVE FALSE
    <2>1. size \in Int
      BY ArenaAssumption
    <2>2. n = Rounded(size) /\ n \in Int /\ n > 0
      BY <1>7, <2>1, RoundedIsNeeded, RoundedHolds
    <2> HIDE DEF n
    <2>3. /\ \A p \in FreeNodes : pool[p].size < n
      BY <1>1, <1>4, <1>5, <1>7, <2>1, <2>2
    <2>4. x + n <= TotalSize
      BY <1>7 DEF Memory!Hole
    <2>5. ASSUME NEW y \in x .. x + n - 1 PROVE \E k \in FreeNodes : Covers(pool, k, y)
      <3>1. y \in 0 .. TotalSize - 1
        BY <2>2, <2>4, <2>5, ArenaAssumption
      <3>2. PICK k \in FreeNodes \cup AllocNodes : Covers(pool, k, y)
        BY <1>5, <3>1 DEF Arena
      <3>3. k \notin AllocNodes
        <4>1. SUFFICES ASSUME k \in AllocNodes PROVE FALSE
          OBVIOUS
        <4> DEFINE b == [base |-> pool[k].base, size |-> pool[k].size]
        <4>2. b \in Live
          BY <4>1, LiveBlocks
        <4>3. y \in Memory!Bytes(b)
          BY <1>5, <2>2, <2>5, <3>2 DEF Covers, Memory!Bytes
        <4>4. QED  BY <1>7, <2>5, <4>2, <4>3 DEF Memory!Hole
      <3>4. QED  BY <3>2, <3>3
    <2>6. PICK f \in FreeNodes : Covers(pool, f, x)
      <3>1. x \in x .. x + n - 1
        BY <1>7, <2>2
      <3>2. QED  BY <2>5, <3>1
    <2> DEFINE e == End(pool, f)
    <2>7. e \in x .. x + n - 1
      BY <1>5, <1>7, <2>2, <2>3, <2>6 DEF Covers
    <2>8. PICK g \in FreeNodes : Covers(pool, g, e)
      BY <2>5, <2>7
    <2>9. f # g
      BY <1>5, <2>8 DEF Covers
    <2>10. Apart(pool, f, g)
      BY <1>5, <2>9 DEF Arena
    <2>11. pool[g].base = e
      BY <1>5, <2>8, <2>10 DEF Apart, Covers
    <2>12. \/ pool[g].base <= pool[f].base
           \/ pool[f].next # NULL /\ pool[pool[f].next].base <= pool[g].base
      BY <1>5, <1>6, NoneBetween
    <2>13. pool[f].next # NULL /\ pool[pool[f].next].base <= pool[g].base
      BY <1>5, <2>11, <2>12
    <2>14. e < pool[pool[f].next].base
      BY <1>5, <2>13 DEF Gap
    <2>15. pool[f].next \in FreeNodes
      BY <1>5, <2>13, ListLinks
    <2>16. QED  BY <1>5, <2>11, <2>13, <2>14, <2>15
  <1>8. size <= 0 \/ \A x \in 0 .. TotalSize - 1 : ~Memory!Hole(x, n)
    <2>1. size \in Int
      BY ArenaAssumption
    <2>2. QED  BY <1>7, <2>1
  <1>9. QED  BY <1>2, <1>3, <1>8 DEF Memory!Refuse, Memory!Refused, n

\* Freeing returns the block and no other.
LEMMA FreeFrees ==
  ASSUME Inv, NEW m, FreeBlock(m)
  PROVE  \E b \in Live : Memory!Free(b)
  <1> DEFINE p == Owner(m)
             b == [base |-> pool[p].base, size |-> pool[p].size]
  <1>1. /\ p \in AllocNodes /\ AllocNodes' = AllocNodes \ {p}
        /\ \A k \in AllocNodes \ {p} : SameBlock(pool, pool', k)
    BY FreeStep
  <1> HIDE DEF p
  <1>2. b \in Live
    BY <1>1, LiveBlocks
  <1>3. ASSUME NEW k \in AllocNodes \ {p} PROVE pool[k].base # pool[p].base
    <2>1. Arena(pool, FreeNodes \cup AllocNodes)
      BY InvFacts
    <2>2. Apart(pool, k, p)
      BY <1>1, <1>3, <2>1 DEF Arena
    <2>3. \A j \in {k, p} : /\ pool[j].base \in 0 .. TotalSize /\ pool[j].size \in 1 .. TotalSize
                            /\ End(pool, j) = pool[j].base + pool[j].size
      BY <1>1, <1>3, InvFacts
    <2>4. QED  BY <2>2, <2>3 DEF Apart
  <1>4. Live' = Live \ {b}
    <2>1. Live' = {[base |-> pool'[k].base, size |-> pool'[k].size] : k \in AllocNodes \ {p}}
      BY <1>1 DEF Live, AllocNodes
    <2>2. \A k \in AllocNodes \ {p} : pool'[k].base = pool[k].base /\ pool'[k].size = pool[k].size
      BY <1>1 DEF SameBlock
    <2>3. Live = {[base |-> pool[k].base, size |-> pool[k].size] : k \in AllocNodes}
      BY DEF Live, AllocNodes
    <2>4. QED  BY <1>1, <1>3, <2>1, <2>2, <2>3
  <1>5. ret' = ret
    BY DEF FreeBlock
  <1>6. Memory!Free(b)
    BY <1>4, <1>5 DEF Memory!Free
  <1>7. QED  BY <1>2, <1>6

\* The manager implements Heap: the blocks that the allocated list says are in use
\* never overlap and lie in the arena, mmgr_free_by_type returns all of a block and
\* nothing else, and mmgr_alloc_by_type refuses a request only when no hole is large
\* enough for it, for every pool, arena, unit and set of requests.
THEOREM HeapRefinement == Spec => ImplementsHeap
  <1>1. Init => Memory!Init
    <2>1. SUFFICES ASSUME Init PROVE Memory!Init
      OBVIOUS
    <2>2. AllocNodes = {}
      BY <2>1, InvInit
    <2>3. Live = {}
      BY <2>2 DEF Live, AllocNodes
    <2>4. ret = [size |-> 0, base |-> -1]
      BY <2>1 DEF Init, NoBlock
    <2>5. QED  BY <2>3, <2>4 DEF Memory!Init, Memory!Refused
  <1>2. Inv /\ [Next]_vars => [Memory!Next]_<<Live, ret>>
    <2>1. SUFFICES ASSUME Inv, [Next]_vars PROVE [Memory!Next]_<<Live, ret>>
      OBVIOUS
    <2>2. ASSUME NEW size \in Requests, Reject(size) PROVE Memory!Next
      BY <2>1, <2>2, RejectRefuses DEF Memory!Next
    <2>3. ASSUME NEW size \in Requests, Carve(size) PROVE Memory!Next
      BY <2>1, <2>3, CarveAllocates DEF Memory!Next
    <2>4. ASSUME NEW size \in Requests, NoNode(size) PROVE UNCHANGED <<Live, ret>>
      BY <2>1, <2>4, NoNodeStep, SameLive DEF NoNode
    <2>5. ASSUME NEW m \in 0 .. TotalSize, FreeUnknown(m) PROVE UNCHANGED <<Live, ret>>
      BY <2>5 DEF FreeUnknown, vars, Live
    <2>6. ASSUME NEW m \in 0 .. TotalSize, FreeBlock(m) PROVE Memory!Next
      BY <2>1, <2>6, FreeFrees DEF Memory!Next
    <2>7. CASE Restart
      <3>1. AllocNodes' = {}
        BY <2>7, RestartStep
      <3>2. Live' = {}
        BY <3>1 DEF Live, AllocNodes
      <3>3. ret' = [size |-> 0, base |-> -1]
        BY <2>7 DEF Restart, NoBlock
      <3>4. QED  BY <3>2, <3>3 DEF Memory!Next, Memory!Restart, Memory!Refused
    <2>8. CASE UNCHANGED vars
      BY <2>8 DEF vars, Live
    <2>9. QED  BY <2>1, <2>2, <2>3, <2>4, <2>5, <2>6, <2>7, <2>8 DEF Next
  <1>3. QED  BY <1>1, <1>2, Invariance, PTL DEF Spec, ImplementsHeap, Memory!Spec
=============================================================================
