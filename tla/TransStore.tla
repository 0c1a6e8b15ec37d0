----------------------------- MODULE TransStore -----------------------------
(***************************************************************************)
(* What a transactional key-value store promises its client, with no word  *)
(* about flash.  A client sees the map `store'; the map `disk' is what the *)
(* next start would load.  A set replaces one whole map by another: at     *)
(* every moment disk is either the map before the set or the map after it, *)
(* and the set returns success only when it is the map after it.           *)
(***************************************************************************)
CONSTANT Maps       \* the key-value maps a client can build

VARIABLES up,       \* the store is initialised
          store,    \* the map flash_ts_get answers from, outside a commit
          disk,     \* the map flash_ts_init would load now
          pending   \* the map being committed; store when there is none

tsvars == <<up, store, disk, pending>>

Busy == pending # store

TSInit ==
  /\ up = FALSE
  /\ store \in Maps
  /\ disk \in Maps
  /\ pending = store

\* A client call that changes the map starts a commit.
Begin ==
  /\ up /\ ~Busy
  /\ pending' \in Maps \ {store}
  /\ UNCHANGED <<up, store, disk>>

\* At some point of the commit the new map replaces the old one, all at once.
Persist ==
  /\ up /\ Busy
  /\ disk' = pending
  /\ UNCHANGED <<up, store, pending>>

\* The commit returns success, only when the new map is on disk.
Ack ==
  /\ up /\ Busy
  /\ disk = pending
  /\ store' = pending
  /\ UNCHANGED <<up, disk, pending>>

\* Power is cut.  A commit under way may still have reached the disk.
Cut ==
  /\ up
  /\ up' = FALSE
  /\ disk' \in {disk, pending}
  /\ store' \in Maps
  /\ pending' = store'

\* The store starts again from what is on disk.
Restart ==
  /\ ~up
  /\ up' = TRUE
  /\ store' = disk
  /\ pending' = disk
  /\ UNCHANGED disk

TSNext == Begin \/ Persist \/ Ack \/ Cut \/ Restart

TSSpec == TSInit /\ [][TSNext]_tsvars
=============================================================================
