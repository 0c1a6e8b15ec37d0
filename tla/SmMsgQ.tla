------------------------------- MODULE SmMsgQ -------------------------------
(***************************************************************************)
(* A message queue of the system manager: a ring of slots in memory shared *)
(* by two CPUs that take no lock.  The sender is MV_SM_Send_Msg of the SoC *)
(* bootloader (boot/common/driver/sm/sm_comm.c; sm_send_msg of the firmware *)
(* is the same code for the other direction); the receiver is comm_task of *)
(* the system-manager firmware (sm_cm3/syna/src/sm_comm.c).                *)
(*                                                                         *)
(* Positions and totals count messages instead of bytes.  Every access to  *)
(* a word the other side may be changing is a step of its own.             *)
(***************************************************************************)
EXTENDS Integers, Sequences

CONSTANTS Slots,      \* SM_MSGQ_MSG_COUNT, 15 in the code
          Msgs,       \* message contents
          Cleared,    \* what a slot reads as after memset(0)
          Half,       \* totals are signed words: Half - 1 + 1 = -Half
          MaxSent     \* bound: messages accepted by the queue

ASSUME SlotsAssumption == Slots \in Nat \ {0}
ASSUME TotalsAssumption == Half \in Nat \ {0} /\ MaxSent \in Nat

VARIABLES m_iWrite, m_iRead,             \* next slot to write, to read
          m_iWriteTotal, m_iReadTotal,   \* messages written, read, so far
          m_Queue,                       \* the slots
          spc, smsg, sres,               \* sender: next step, message, result
          rpc,                           \* receiver: next step
          sent, got                      \* history: accepted, dispatched

sender   == <<m_iWrite, m_iWriteTotal, m_Queue, spc, smsg, sres, sent>>
receiver == <<m_iRead, m_iReadTotal, rpc, got>>
vars     == <<sender, receiver>>

\* Mutant: the end of the ring is not noticed.
Advance_NoWrap(i) == i + 1

\* m_iWrite += SM_MSG_SIZE, wrapped at the end of the ring.
Advance(i) == IF i + 1 >= Slots THEN i + 1 - Slots ELSE i + 1

\* m_iWriteTotal += SM_MSG_SIZE in a signed word.
AddTotal(t) == IF t + 1 >= Half THEN -Half ELSE t + 1

\* create_comm_task clears the whole queue.
Init ==
  /\ m_iWrite = 0 /\ m_iRead = 0
  /\ m_iWriteTotal = 0 /\ m_iReadTotal = 0
  /\ m_Queue = [i \in 0 .. Slots - 1 |-> Cleared]
  /\ spc = "idle" /\ smsg = Cleared /\ sres = "none"
  /\ rpc = "poll"
  /\ sent = <<>> /\ got = <<>>

-----------------------------------------------------------------------------
(* The sender.                                                             *)

\* Mutants: no test for a full queue; the totals are not compared.
SendCheckIndex_NoTest(m) ==
  /\ spc = "idle" /\ Len(sent) < MaxSent
  /\ smsg' = m /\ sres' = "none" /\ spc' = "write"
  /\ UNCHANGED <<m_iWrite, m_iWriteTotal, m_Queue, sent, receiver>>
SendCheckTotal_NoTest ==
  /\ spc = "checktotal" /\ spc' = "write" /\ sres' = "none"
  /\ UNCHANGED <<m_iWrite, m_iWriteTotal, m_Queue, smsg, sent, receiver>>

\* The first half of the test for a full queue reads m_iRead.
SendCheckIndex(m) ==
  /\ spc = "idle"
  /\ Len(sent) < MaxSent
  /\ smsg' = m
  /\ sres' = "none"
  /\ spc' = IF m_iRead = m_iWrite THEN "checktotal" ELSE "write"
  /\ UNCHANGED <<m_iWrite, m_iWriteTotal, m_Queue, sent, receiver>>

\* The second half reads m_iReadTotal, later.
SendCheckTotal ==
  /\ spc = "checktotal"
  /\ IF m_iReadTotal # m_iWriteTotal
       THEN spc' = "idle" /\ sres' = "full"
       ELSE spc' = "write" /\ sres' = "none"
  /\ UNCHANGED <<m_iWrite, m_iWriteTotal, m_Queue, smsg, sent, receiver>>

SendWrite ==
  /\ spc = "write"
  /\ m_Queue' = [m_Queue EXCEPT ![m_iWrite] = smsg]
  /\ spc' = "advance"
  /\ UNCHANGED <<m_iWrite, m_iWriteTotal, smsg, sres, sent, receiver>>

SendAdvance ==
  /\ spc = "advance"
  /\ m_iWrite' = Advance(m_iWrite)
  /\ spc' = "total"
  /\ UNCHANGED <<m_iWriteTotal, m_Queue, smsg, sres, sent, receiver>>

\* The message counts from here on.
SendTotal ==
  /\ spc = "total"
  /\ m_iWriteTotal' = AddTotal(m_iWriteTotal)
  /\ sent' = Append(sent, smsg)
  /\ spc' = "idle" /\ sres' = "ok"
  /\ UNCHANGED <<m_iWrite, m_Queue, smsg, receiver>>

-----------------------------------------------------------------------------
(* The receiver: one turn of the loop of comm_task.                        *)

\* Mutant: the last message of the queue is left in it.
Poll_OneShort ==
  /\ rpc = "poll"
  /\ rpc' = IF m_iReadTotal + 1 < m_iWriteTotal THEN "dispatch" ELSE "poll"
  /\ UNCHANGED <<m_iRead, m_iReadTotal, got, sender>>

Poll ==
  /\ rpc = "poll"
  /\ rpc' = IF m_iReadTotal < m_iWriteTotal THEN "dispatch" ELSE "poll"
  /\ UNCHANGED <<m_iRead, m_iReadTotal, got, sender>>

\* The handlers work on the message in its slot.
Dispatch ==
  /\ rpc = "dispatch"
  /\ got' = Append(got, m_Queue[m_iRead])
  /\ rpc' = "advance"
  /\ UNCHANGED <<m_iRead, m_iReadTotal, sender>>

ReadAdvance ==
  /\ rpc = "advance"
  /\ m_iRead' = Advance(m_iRead)
  /\ rpc' = "total"
  /\ UNCHANGED <<m_iReadTotal, got, sender>>

ReadTotal ==
  /\ rpc = "total"
  /\ m_iReadTotal' = AddTotal(m_iReadTotal)
  /\ rpc' = "poll"
  /\ UNCHANGED <<m_iRead, got, sender>>

Send    == \/ \E m \in Msgs : SendCheckIndex(m)
           \/ SendCheckTotal \/ SendWrite \/ SendAdvance \/ SendTotal
Receive == Poll \/ Dispatch \/ ReadAdvance \/ ReadTotal

Next == Send \/ Receive

\* comm_task polls every tick for ever; a call of the sender runs to its end.
Spec == /\ Init /\ [][Next]_vars
        /\ WF_vars(Receive)
        /\ WF_vars(SendCheckTotal \/ SendWrite \/ SendAdvance \/ SendTotal)

-----------------------------------------------------------------------------
TypeOK ==
  /\ m_iWrite \in 0 .. Slots - 1 /\ m_iRead \in 0 .. Slots - 1
  /\ m_iWriteTotal \in -Half .. Half - 1 /\ m_iReadTotal \in -Half .. Half - 1
  /\ m_Queue \in [0 .. Slots - 1 -> Msgs \cup {Cleared}]
  /\ spc \in {"idle", "checktotal", "write", "advance", "total"}
  /\ smsg \in Msgs \cup {Cleared}
  /\ sres \in {"none", "ok", "full"}
  /\ rpc \in {"poll", "dispatch", "advance", "total"}
  /\ sent \in Seq(Msgs) /\ got \in Seq(Msgs \cup {Cleared})

\* The receiver dispatches exactly the accepted messages, each once, in the
\* order of the sends, with the contents they were sent with, although the
\* two sides share four words and the slots without a lock.
DeliveredInOrder ==
  /\ Len(got) <= Len(sent)
  /\ \A i \in 1 .. Len(got) : got[i] = sent[i]

\* The slot the sender is writing holds no message that the receiver has still
\* to read or is reading.
SlotIsFree ==
  spc \in {"write", "advance"} => Len(sent) - Len(got) < Slots
                                  /\ (rpc = "dispatch" => m_iRead # m_iWrite)

\* Every accepted message is dispatched.
EveryMessageDispatched ==
  \A n \in 1 .. MaxSent : Len(sent) >= n ~> Len(got) >= n

-----------------------------------------------------------------------------
(* The inductive invariant behind DeliveredInOrder.                        *)

\* The slot j places after slot i.
Plus(i, j) == IF i + j >= Slots THEN i + j - Slots ELSE i + j

\* Messages accepted and not yet dispatched, and the slot of the first.  After
\* a dispatch the slot stays taken until m_iRead moves on.
Waiting   == Len(sent) - Len(got)
Held      == IF rpc = "advance" THEN 1 ELSE 0
FirstSlot == IF rpc = "advance" THEN Advance(m_iRead) ELSE m_iRead

\* The totals count the messages; the receiver's is late by the message in
\* hand.
TotalsInv ==
  /\ Len(sent) <= MaxSent
  /\ spc # "idle" => Len(sent) < MaxSent
  /\ m_iWriteTotal = Len(sent)
  /\ m_iReadTotal = Len(got) - (IF rpc \in {"advance", "total"} THEN 1 ELSE 0)

\* The ring never holds more than Slots messages, and has room for the one
\* being written.
RoomInv ==
  /\ Waiting \in 0 .. Slots - Held
  /\ rpc = "dispatch" => Waiting > 0
  /\ spc \in {"write", "advance", "total"} => Waiting < Slots - Held

\* m_iWrite is the slot after the waiting messages, and each slot holds its
\* message.
RingInv ==
  /\ m_iWrite = Plus(FirstSlot, IF spc = "total" THEN Waiting + 1 ELSE Waiting)
  /\ \A j \in 0 .. Waiting - 1 : m_Queue[Plus(FirstSlot, j)] = sent[Len(got) + 1 + j]
  /\ spc \in {"advance", "total"} => m_Queue[Plus(FirstSlot, Waiting)] = smsg
  /\ spc # "idle" => smsg \in Msgs

QueueInv == TotalsInv /\ RoomInv /\ RingInv /\ DeliveredInOrder
=============================================================================
