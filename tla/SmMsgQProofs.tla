---------------------------- MODULE SmMsgQProofs ----------------------------
(***************************************************************************)
(* Proofs about SmMsgQ, for every number of slots and every set of         *)
(* messages, as long as the totals do not overflow.                        *)
(***************************************************************************)
EXTENDS SmMsgQ, TLAPS

NoOverflow == MaxSent < Half

LEMMA AdvanceType == \A i \in 0 .. Slots - 1 : Advance(i) \in 0 .. Slots - 1
BY SlotsAssumption DEF Advance

LEMMA PlusFacts ==
  ASSUME NEW i \in 0 .. Slots - 1
  PROVE  /\ \A j \in 0 .. Slots : Plus(i, j) \in 0 .. Slots - 1
         /\ Plus(i, 0) = i
         /\ \A j \in 0 .. Slots - 1 : Plus(i, j + 1) = Advance(Plus(i, j))
         /\ \A j \in 0 .. Slots - 1 : Plus(Advance(i), j) = Plus(i, j + 1)
         /\ \A j, k \in 0 .. Slots - 1 : j # k => Plus(i, j) # Plus(i, k)
BY SlotsAssumption DEF Plus, Advance

LEMMA AddTotalType ==
  \A t \in -Half .. Half - 1 : AddTotal(t) \in -Half .. Half - 1
BY TotalsAssumption DEF AddTotal

LEMMA QueueInit == Init => TypeOK /\ QueueInv
BY SlotsAssumption, TotalsAssumption, PlusFacts
   DEF Init, TypeOK, QueueInv, TotalsInv, RoomInv, RingInv, DeliveredInOrder,
       Waiting, Held, FirstSlot

\* A call under way has a message: what is written is one of Msgs.
HasMessage == spc # "idle" => smsg \in Msgs

LEMMA TypeStep == TypeOK /\ HasMessage /\ [Next]_vars => TypeOK'
<1> SUFFICES ASSUME TypeOK, HasMessage, [Next]_vars PROVE TypeOK'
  OBVIOUS
<1>1. ASSUME NEW m \in Msgs, SendCheckIndex(m) PROVE TypeOK'
  BY <1>1 DEF SendCheckIndex, TypeOK, receiver
<1>2. CASE SendCheckTotal
  BY <1>2 DEF SendCheckTotal, TypeOK, receiver
<1>3. CASE SendWrite
  BY <1>3 DEF SendWrite, TypeOK, receiver
<1>4. CASE SendAdvance
  BY <1>4, AdvanceType DEF SendAdvance, TypeOK, receiver
<1>5. CASE SendTotal
  BY <1>5, AddTotalType DEF SendTotal, TypeOK, receiver, HasMessage
<1>6. CASE Poll
  BY <1>6 DEF Poll, TypeOK, sender
<1>7. CASE Dispatch
  BY <1>7 DEF Dispatch, TypeOK, sender
<1>8. CASE ReadAdvance
  BY <1>8, AdvanceType DEF ReadAdvance, TypeOK, sender
<1>9. CASE ReadTotal
  BY <1>9, AddTotalType DEF ReadTotal, TypeOK, sender
<1>10. CASE UNCHANGED vars
  BY <1>10 DEF vars, sender, receiver, TypeOK
<1> QED BY <1>1, <1>2, <1>3, <1>4, <1>5, <1>6, <1>7, <1>8, <1>9, <1>10
        DEF Next, Send, Receive

LEMMA MessageStep == HasMessage /\ [Next]_vars => HasMessage'
BY DEF HasMessage, Next, Send, Receive, SendCheckIndex, SendCheckTotal, SendWrite,
       SendAdvance, SendTotal, Poll, Dispatch, ReadAdvance, ReadTotal,
       vars, sender, receiver

\* Every word of the queue keeps its type (MV_SM_Send_Msg, comm_task): the
\* indices stay inside the ring and the totals inside a signed word, also when
\* they overflow.
THEOREM QueueTypes == Spec => []TypeOK
<1>1. Init => TypeOK /\ HasMessage
  BY QueueInit DEF Init, HasMessage
<1>2. TypeOK /\ HasMessage /\ [Next]_vars => (TypeOK /\ HasMessage)'
  BY TypeStep, MessageStep
<1> QED BY <1>1, <1>2, PTL DEF Spec

LEMMA SenderStep == NoOverflow /\ TypeOK /\ QueueInv /\ Send => QueueInv'
<1> SUFFICES ASSUME NoOverflow, TypeOK, QueueInv, Send PROVE QueueInv'
  OBVIOUS
<1> USE SlotsAssumption, TotalsAssumption
<1>0. /\ FirstSlot \in 0 .. Slots - 1 /\ Waiting \in 0 .. Slots /\ Held \in {0, 1}
      /\ Len(sent) \in Nat /\ Len(got) \in Nat /\ m_iRead \in 0 .. Slots - 1
  BY AdvanceType DEF TypeOK, QueueInv, RoomInv, FirstSlot, Held
<1>1. ASSUME NEW m \in Msgs, SendCheckIndex(m) PROVE QueueInv'
  <2>1. m_iRead # m_iWrite => Waiting < Slots - Held
    <3> SUFFICES ASSUME m_iRead # m_iWrite PROVE Waiting < Slots - Held
      OBVIOUS
    <3>1. m_iWrite = Plus(FirstSlot, Waiting)
      BY <1>1 DEF SendCheckIndex, QueueInv, RingInv
    <3>2. CASE rpc = "advance"
      BY <1>0, <3>1, <3>2 DEF FirstSlot, Held, Plus, Advance, QueueInv, RoomInv
    <3>3. CASE rpc # "advance"
      BY <1>0, <3>1, <3>3 DEF FirstSlot, Held, Plus, QueueInv, RoomInv
    <3> QED BY <3>2, <3>3
  <2>2. /\ UNCHANGED <<m_iWrite, m_iWriteTotal, m_Queue, sent, m_iRead, m_iReadTotal, rpc, got>>
        /\ spc' \in {"checktotal", "write"} /\ (spc' = "write" => m_iRead # m_iWrite)
        /\ spc = "idle" /\ smsg' = m /\ Len(sent) < MaxSent
    BY <1>1 DEF SendCheckIndex, receiver
  <2> QED BY <2>1, <2>2 DEF QueueInv, TotalsInv, RoomInv, RingInv, DeliveredInOrder,
                            Waiting, Held, FirstSlot
<1>2. CASE SendCheckTotal
  <2>1. /\ UNCHANGED <<m_iWrite, m_iWriteTotal, m_Queue, sent, m_iRead, m_iReadTotal, rpc, got, smsg>>
        /\ spc = "checktotal"
        /\ spc' \in {"idle", "write"} /\ (spc' = "write" => m_iReadTotal = m_iWriteTotal)
    BY <1>2 DEF SendCheckTotal, receiver
  <2>2. m_iReadTotal = m_iWriteTotal => Waiting < Slots - Held
    BY <1>0 DEF QueueInv, TotalsInv, RoomInv, Waiting, Held
  <2> QED BY <2>1, <2>2 DEF QueueInv, TotalsInv, RoomInv, RingInv, DeliveredInOrder,
                            Waiting, Held, FirstSlot
<1>3. CASE SendWrite
  <2>1. /\ UNCHANGED <<m_iWrite, m_iWriteTotal, sent, m_iRead, m_iReadTotal, rpc, got, smsg>>
        /\ spc = "write" /\ spc' = "advance"
        /\ m_Queue' = [m_Queue EXCEPT ![m_iWrite] = smsg]
    BY <1>3 DEF SendWrite, receiver
  <2>2. m_iWrite = Plus(FirstSlot, Waiting) /\ Waiting \in 0 .. Slots - 1
    BY <1>0, <2>1 DEF QueueInv, RingInv, RoomInv
  <2>3. m_Queue'[m_iWrite] = smsg
    BY <2>1 DEF TypeOK
  <2>4. ASSUME NEW j \in 0 .. Waiting - 1
        PROVE  m_Queue'[Plus(FirstSlot, j)] = sent[Len(got) + 1 + j]
    <3>1. j \in 0 .. Slots - 1 /\ j # Waiting
      BY <2>2
    <3>2. Plus(FirstSlot, j) # m_iWrite /\ Plus(FirstSlot, j) \in 0 .. Slots - 1
      BY <1>0, <2>2, <3>1 DEF Plus
    <3> QED BY <2>1, <3>2 DEF TypeOK, QueueInv, RingInv
  <2> QED BY <2>1, <2>2, <2>3, <2>4
          DEF QueueInv, TotalsInv, RoomInv, RingInv, DeliveredInOrder,
              Waiting, Held, FirstSlot
<1>4. CASE SendAdvance
  <2>1. /\ UNCHANGED <<m_iWriteTotal, m_Queue, sent, m_iRead, m_iReadTotal, rpc, got, smsg>>
        /\ spc = "advance" /\ spc' = "total" /\ m_iWrite' = Advance(m_iWrite)
    BY <1>4 DEF SendAdvance, receiver
  <2>2. m_iWrite = Plus(FirstSlot, Waiting) /\ Waiting \in 0 .. Slots - 1
    BY <1>0, <2>1 DEF QueueInv, RingInv, RoomInv
  <2>3. m_iWrite' = Plus(FirstSlot, Waiting + 1)
    BY <1>0, <2>1, <2>2, PlusFacts
  <2> QED BY <2>1, <2>3
          DEF QueueInv, TotalsInv, RoomInv, RingInv, DeliveredInOrder,
              Waiting, Held, FirstSlot
<1>5. CASE SendTotal
  <2>1. /\ UNCHANGED <<m_iWrite, m_Queue, m_iRead, m_iReadTotal, rpc, got, smsg>>
        /\ spc = "total" /\ spc' = "idle" /\ sent' = Append(sent, smsg)
        /\ m_iWriteTotal' = AddTotal(m_iWriteTotal)
    BY <1>5 DEF SendTotal, receiver
  <2>2. /\ sent \in Seq(Msgs) /\ smsg \in Msgs
        /\ Len(sent') = Len(sent) + 1 /\ sent'[Len(sent) + 1] = smsg
        /\ \A i \in 1 .. Len(sent) : sent'[i] = sent[i]
    BY <2>1 DEF TypeOK, QueueInv, RingInv
  <2>3. Waiting' = Waiting + 1 /\ FirstSlot' = FirstSlot /\ Held' = Held
    BY <1>0, <2>1, <2>2 DEF Waiting, FirstSlot, Held
  <2>4. TotalsInv'
    BY <1>0, <2>1, <2>2 DEF QueueInv, TotalsInv, AddTotal, NoOverflow
  <2>5. RoomInv'
    BY <1>0, <2>1, <2>3 DEF QueueInv, RoomInv
  <2>6. DeliveredInOrder'
    <3>1. \A i \in 1 .. Len(got) : i \in 1 .. Len(sent) /\ got[i] = sent[i]
      BY <1>0 DEF QueueInv, DeliveredInOrder
    <3>2. Len(got) <= Len(sent')
      BY <1>0, <2>2 DEF QueueInv, DeliveredInOrder
    <3> QED BY <2>1, <2>2, <3>1, <3>2 DEF DeliveredInOrder
  <2>7. ASSUME NEW j \in 0 .. Waiting
        PROVE  m_Queue[Plus(FirstSlot, j)] = sent'[Len(got) + 1 + j]
    <3>1. CASE j = Waiting
      BY <1>0, <2>1, <2>2, <3>1 DEF QueueInv, RingInv, Waiting
    <3>2. CASE j # Waiting
      <4>1. j \in 0 .. Waiting - 1 /\ Len(got) + 1 + j \in 1 .. Len(sent)
        BY <1>0, <3>2 DEF Waiting
      <4> QED BY <2>2, <4>1 DEF QueueInv, RingInv
    <3> QED BY <3>1, <3>2
  <2>8. RingInv'
    <3>1. m_iWrite' = Plus(FirstSlot', Waiting')
      BY <2>1, <2>3 DEF QueueInv, RingInv
    <3>2. \A j \in 0 .. Waiting' - 1 : m_Queue'[Plus(FirstSlot', j)] = sent'[Len(got') + 1 + j]
      <4>1. 0 .. Waiting' - 1 = 0 .. Waiting
        BY <1>0, <2>3
      <4>2. m_Queue' = m_Queue /\ got' = got /\ FirstSlot' = FirstSlot
        BY <2>1, <2>3
      <4> QED BY <2>7, <4>1, <4>2
    <3> QED BY <2>1, <3>1, <3>2 DEF RingInv
  <2> QED BY <2>4, <2>5, <2>6, <2>8 DEF QueueInv
<1> QED BY <1>1, <1>2, <1>3, <1>4, <1>5 DEF Send

LEMMA ReceiverStep == NoOverflow /\ TypeOK /\ QueueInv /\ Receive => QueueInv'
<1> SUFFICES ASSUME NoOverflow, TypeOK, QueueInv, Receive PROVE QueueInv'
  OBVIOUS
<1> USE SlotsAssumption, TotalsAssumption
<1>0. /\ FirstSlot \in 0 .. Slots - 1 /\ Waiting \in 0 .. Slots /\ Held \in {0, 1}
      /\ Len(sent) \in Nat /\ Len(got) \in Nat /\ m_iRead \in 0 .. Slots - 1
  BY AdvanceType DEF TypeOK, QueueInv, RoomInv, FirstSlot, Held
<1>1. CASE Poll
  <2>1. /\ UNCHANGED <<sender, m_iRead, m_iReadTotal, got>> /\ rpc = "poll"
        /\ rpc' \in {"poll", "dispatch"}
        /\ rpc' = "dispatch" => m_iReadTotal < m_iWriteTotal
    BY <1>1 DEF Poll
  <2>2. m_iReadTotal < m_iWriteTotal => Waiting > 0
    BY <1>0, <2>1 DEF QueueInv, TotalsInv, Waiting
  <2> QED BY <2>1, <2>2
          DEF sender, QueueInv, TotalsInv, RoomInv, RingInv, DeliveredInOrder,
              Waiting, Held, FirstSlot
<1>2. CASE Dispatch
  <2>1. /\ UNCHANGED <<m_iWrite, m_iWriteTotal, m_Queue, spc, smsg, sent, m_iRead, m_iReadTotal>>
        /\ rpc = "dispatch" /\ rpc' = "advance" /\ got' = Append(got, m_Queue[m_iRead])
    BY <1>2 DEF Dispatch, sender
  <2>2. /\ Len(got') = Len(got) + 1 /\ got'[Len(got) + 1] = m_Queue[m_iRead]
        /\ \A i \in 1 .. Len(got) : got'[i] = got[i]
    BY <2>1 DEF TypeOK
  <2>3. /\ Waiting > 0 /\ Held = 0 /\ Held' = 1 /\ FirstSlot = m_iRead
        /\ FirstSlot' = Advance(m_iRead) /\ Waiting' = Waiting - 1
    BY <1>0, <2>1, <2>2 DEF QueueInv, RoomInv, Held, FirstSlot, Waiting
  <2>4. m_Queue[m_iRead] = sent[Len(got) + 1]
    <3>1. 0 \in 0 .. Waiting - 1 /\ Plus(FirstSlot, 0) = m_iRead
      BY <1>0, <2>3, PlusFacts
    <3> QED BY <1>0, <3>1 DEF QueueInv, RingInv
  <2>5. TotalsInv'
    BY <1>0, <2>1, <2>2 DEF QueueInv, TotalsInv
  <2>6. RoomInv'
    BY <1>0, <2>1, <2>3 DEF QueueInv, RoomInv
  <2>7. DeliveredInOrder'
    <3>1. Len(got') <= Len(sent')
      BY <1>0, <2>1, <2>2, <2>3 DEF Waiting
    <3>2. ASSUME NEW i \in 1 .. Len(got') PROVE got'[i] = sent'[i]
      <4>1. CASE i = Len(got) + 1
        BY <2>1, <2>2, <2>4, <4>1
      <4>2. CASE i # Len(got) + 1
        BY <1>0, <2>1, <2>2, <4>2 DEF QueueInv, DeliveredInOrder
      <4> QED BY <4>1, <4>2
    <3> QED BY <3>1, <3>2 DEF DeliveredInOrder
  <2>8. \A j \in 0 .. Slots - 1 : Plus(FirstSlot', j) = Plus(FirstSlot, j + 1)
    BY <1>0, <2>3, PlusFacts
  <2>9. m_iWrite = Plus(FirstSlot', IF spc = "total" THEN Waiting' + 1 ELSE Waiting')
    <3>1. m_iWrite = Plus(FirstSlot, IF spc = "total" THEN Waiting + 1 ELSE Waiting)
      BY DEF QueueInv, RingInv
    <3>2. spc = "total" => Waiting < Slots
      BY <1>0, <2>3 DEF QueueInv, RoomInv
    <3> QED BY <1>0, <2>3, <2>8, <3>1, <3>2
  <2>10. ASSUME NEW j \in 0 .. Waiting' - 1
         PROVE  m_Queue[Plus(FirstSlot', j)] = sent[Len(got') + 1 + j]
    <3>1. j + 1 \in 0 .. Waiting - 1 /\ j \in 0 .. Slots - 1
      BY <1>0, <2>3
    <3>2. m_Queue[Plus(FirstSlot, j + 1)] = sent[Len(got) + 1 + (j + 1)]
      BY <3>1 DEF QueueInv, RingInv
    <3>3. Len(got') + 1 + j = Len(got) + 1 + (j + 1)
      BY <1>0, <2>2
    <3> QED BY <2>8, <3>1, <3>2, <3>3
  <2>11. spc \in {"advance", "total"} => m_Queue[Plus(FirstSlot', Waiting')] = smsg
    <3>1. Waiting' \in 0 .. Slots - 1 /\ Waiting' + 1 = Waiting
      BY <1>0, <2>3
    <3> QED BY <2>8, <3>1 DEF QueueInv, RingInv
  <2>12. RingInv'
    BY <2>1, <2>9, <2>10, <2>11 DEF QueueInv, RingInv, Plus
  <2> QED BY <2>5, <2>6, <2>7, <2>12 DEF QueueInv
<1>3. CASE ReadAdvance
  <2>1. /\ UNCHANGED <<m_iWrite, m_iWriteTotal, m_Queue, spc, smsg, sent, got, m_iReadTotal>>
        /\ rpc = "advance" /\ rpc' = "total" /\ m_iRead' = Advance(m_iRead)
    BY <1>3 DEF ReadAdvance, sender
  <2>2. /\ FirstSlot' = FirstSlot /\ Waiting' = Waiting /\ Held = 1 /\ Held' = 0
    BY <2>1 DEF FirstSlot, Waiting, Held
  <2>3. RoomInv'
    BY <1>0, <2>1, <2>2 DEF QueueInv, RoomInv
  <2>4. TotalsInv' /\ DeliveredInOrder'
    BY <2>1 DEF QueueInv, TotalsInv, DeliveredInOrder
  <2>5. RingInv'
    BY <2>1, <2>2 DEF QueueInv, RingInv, Plus
  <2> QED BY <2>3, <2>4, <2>5 DEF QueueInv
<1>4. CASE ReadTotal
  <2>1. /\ UNCHANGED <<m_iWrite, m_iWriteTotal, m_Queue, spc, smsg, sent, got, m_iRead>>
        /\ rpc = "total" /\ rpc' = "poll" /\ m_iReadTotal' = AddTotal(m_iReadTotal)
    BY <1>4 DEF ReadTotal, sender
  <2>2. /\ FirstSlot' = FirstSlot /\ Waiting' = Waiting /\ Held = 0 /\ Held' = 0
    BY <2>1 DEF FirstSlot, Waiting, Held
  <2>3. RoomInv'
    BY <1>0, <2>1, <2>2 DEF QueueInv, RoomInv
  <2>4. TotalsInv'
    BY <1>0, <2>1 DEF QueueInv, TotalsInv, AddTotal, NoOverflow, DeliveredInOrder
  <2>5. RingInv' /\ DeliveredInOrder'
    BY <2>1, <2>2 DEF QueueInv, RingInv, Plus, DeliveredInOrder
  <2> QED BY <2>3, <2>4, <2>5 DEF QueueInv
<1> QED BY <1>1, <1>2, <1>3, <1>4 DEF Receive

LEMMA QueueAlways == ASSUME NoOverflow PROVE Spec => [](TypeOK /\ QueueInv)
<1>1. TypeOK /\ QueueInv /\ UNCHANGED vars => QueueInv'
  BY DEF vars, sender, receiver, QueueInv, TotalsInv, RoomInv, RingInv,
         DeliveredInOrder, Waiting, Held, FirstSlot
<1>2. TypeOK /\ QueueInv /\ [Next]_vars => (TypeOK /\ QueueInv)'
  <2>1. RingInv => HasMessage
    BY DEF RingInv, HasMessage
  <2> QED BY <1>1, <2>1, TypeStep, SenderStep, ReceiverStep DEF Next, QueueInv
<1> QED BY <1>2, QueueInit, PTL DEF Spec

\* The lock-free queue delivers every accepted message once, in order and
\* unchanged, for every ring size, until the totals overflow.
THEOREM Delivery == ASSUME NoOverflow PROVE Spec => []DeliveredInOrder
<1>1. TypeOK /\ QueueInv => DeliveredInOrder
  BY DEF QueueInv
<1> QED BY <1>1, QueueAlways, PTL

\* The sender never writes into a slot the receiver still needs.
THEOREM FreeSlot == ASSUME NoOverflow PROVE Spec => []SlotIsFree
<1>1. TypeOK /\ QueueInv => SlotIsFree
  <2> SUFFICES ASSUME TypeOK, QueueInv, spc \in {"write", "advance"}
               PROVE  Waiting < Slots /\ (rpc = "dispatch" => m_iRead # m_iWrite)
    BY DEF SlotIsFree, Waiting
  <2>1. Waiting < Slots - Held /\ Waiting \in 0 .. Slots /\ Held \in {0, 1}
    BY SlotsAssumption DEF QueueInv, RoomInv, Held
  <2>2. rpc = "dispatch" => Waiting > 0 /\ m_iWrite = Plus(m_iRead, Waiting)
    BY DEF QueueInv, RoomInv, RingInv, FirstSlot
  <2> QED BY <2>1, <2>2, SlotsAssumption DEF TypeOK, Plus
<1> QED BY <1>1, QueueAlways, PTL
=============================================================================
