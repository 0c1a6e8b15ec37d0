---------------------------- MODULE SmCecProofs ----------------------------
(***************************************************************************)
(* Proofs about CEC in the SM, for fifos of any length and any number of   *)
(* retries: one outcome for every transmission, no message forgotten, and  *)
(* the wake-up message of the right standby.                               *)
(***************************************************************************)
EXTENDS SmCec, SequenceTheorems, FiniteSetTheorems, TLAPS

Events  == Received \cup {"TX_DONE", "TX_FAILED"}
Entries == [cmd : {"TX_MSG", "TX_FAILED"}, id : Ids]

\* The entries of the two fifos that are an outcome.
Results == {"TX_DONE", "TX_FAILED"}
Fails   == {e \in Entries : e.cmd = "TX_FAILED"}

\* No entry of a fifo is in M; exactly one is.
None(q, M) == \A n \in DOMAIN q : q[n] \notin M
Sole(q, M) == \E n \in DOMAIN q : q[n] \in M /\ \A i \in DOMAIN q : q[i] \in M => i = n

\* A message waits in a fifo.
Has(q, id) == \E n \in DOMAIN q : q[n].cmd = "TX_MSG" /\ q[n].id = id

\* The messages o are those waiting in q, once each, and those of s besides.
Holds(q, o, s) ==
  /\ \A id : id \in o <=> Has(q, id) \/ id \in s
  /\ \A id \in s : ~Has(q, id)
  /\ \A i, j \in DOMAIN q :
       q[i].cmd = "TX_MSG" /\ q[j].cmd = "TX_MSG" /\ q[i].id = q[j].id => i = j

-----------------------------------------------------------------------------
(* The inductive invariant.                                                *)

\* Where the task may be, by the power flows.
ControlInv ==
  /\ bCECTaskExit <=> SMCECTaskstate = "IDLE"
  /\ power = "active" => bCECTaskExit /\ hw = "idle"
  /\ power = "enabling" => /\ app_fifo = <<>> /\ owed = {} /\ hw = "idle"
                           /\ SMCECTaskstate # "SENDING" /\ (alloc \/ bCECTaskExit)
  /\ power # "standby" => pc = "top"
  /\ pc = "app" => app_fifo # <<>> /\ ~bCECTaskExit
  /\ pc = "count" => SMCECTaskstate = "SENDING"
  /\ SMCECTaskstate = "SENDING" => tx.id \in Ids

\* The one outcome is still to come, latched, in the ISR fifo or in the app fifo.
OnItsWay ==
  \/ hw = "sending" /\ irq_tx = NoMsg /\ None(isr_fifo, Results) /\ None(app_fifo, Fails)
  \/ hw = "idle"    /\ irq_tx # NoMsg /\ None(isr_fifo, Results) /\ None(app_fifo, Fails)
  \/ hw = "idle"    /\ irq_tx = NoMsg /\ Sole(isr_fifo, Results) /\ None(app_fifo, Fails)
  \/ hw = "idle"    /\ irq_tx = NoMsg /\ None(isr_fifo, Results) /\ Sole(app_fifo, Fails)

\* While nothing is sent there is none, but for what the handler found while CEC
\* was being enabled; that is read before the next message is.
OutcomeInv ==
  power = "standby" /\ ~lost =>
    /\ SMCECTaskstate = "LISTENING" => /\ hw = "idle" /\ irq_tx = NoMsg /\ None(app_fifo, Fails)
                                       /\ pc = "app" => None(isr_fifo, Results)
    /\ SMCECTaskstate = "SENDING" => OnItsWay

\* The identities of the waiting messages differ, also from the one being sent.
Current == IF SMCECTaskstate = "SENDING" THEN {tx.id} ELSE {}
WaitInv == power = "standby" => Holds(app_fifo, owed, Current)

\* Whether there was a wake-up is forgotten before the message is.
FreshInv == (power = "enabling" => ~woken) /\ WakeupMsgFresh

CecInv == TypeOK /\ ControlInv /\ OutcomeInv /\ WaitInv /\ FreshInv

-----------------------------------------------------------------------------
(* Fifos.                                                                  *)

\* The oldest entry is taken; there is room then.
LEMMA TakeEntry ==
  ASSUME NEW S, NEW q \in Seq(S), q # <<>>, Len(q) < FifoLen
  PROVE  /\ Len(q) \in Nat \ {0} /\ DOMAIN q = 1 .. Len(q) /\ Head(q) = q[1] /\ q[1] \in S
         /\ Tail(q) \in Seq(S) /\ DOMAIN Tail(q) = 1 .. Len(q) - 1
         /\ \A i \in 1 .. Len(q) - 1 : Tail(q)[i] = q[i + 1]
         /\ Len(Tail(q)) < FifoLen /\ ~Full(Tail(q))
  <1>1. /\ Len(q) \in Nat \ {0} /\ DOMAIN q = 1 .. Len(q)
        /\ Head(q) = q[1] /\ q[1] \in S
        /\ Tail(q) \in Seq(S) /\ Len(Tail(q)) = Len(q) - 1
    BY EmptySeq, LenProperties, HeadTailProperties
  <1>2. \A i \in 1 .. Len(q) - 1 : Tail(q)[i] = q[i + 1]
    OBVIOUS
  <1>3. DOMAIN Tail(q) = 1 .. Len(q) - 1
    BY <1>1
  <1>4. Len(Tail(q)) < FifoLen /\ ~Full(Tail(q))
    <2>1. \A a, b \in Nat : a < b => a - 1 < b /\ a - 1 # b - 1
      OBVIOUS
    <2>2. FifoLen \in Nat
      BY FifoAssumption
    <2>3. QED  BY <1>1, <2>1, <2>2, Zenon DEF Full
  <1>5. QED  BY <1>1, <1>2, <1>3, <1>4

\* An entry is added, unless the fifo is full.
LEMMA AddEntry ==
  ASSUME NEW S, NEW q \in Seq(S), NEW e \in S, Len(q) < FifoLen
  PROVE  /\ Len(q) \in Nat /\ DOMAIN q = 1 .. Len(q)
         /\ DOMAIN Append(q, e) = 1 .. Len(q) + 1
         /\ \A i \in 1 .. Len(q) : Append(q, e)[i] = q[i]
         /\ Append(q, e)[Len(q) + 1] = e /\ Append(q, e) # <<>>
         /\ Write(q, e) \in Seq(S) /\ Len(Write(q, e)) < FifoLen
         /\ ~Full(q) => Append(q, e) \in Seq(S) /\ Len(Append(q, e)) < FifoLen
  <1>1. /\ Len(q) \in Nat /\ DOMAIN q = 1 .. Len(q)
        /\ Append(q, e) \in Seq(S) /\ Len(Append(q, e)) = Len(q) + 1
        /\ DOMAIN Append(q, e) = 1 .. Len(q) + 1
        /\ \A i \in 1 .. Len(q) : Append(q, e)[i] = q[i]
        /\ Append(q, e)[Len(q) + 1] = e /\ Append(q, e) # <<>>
    OBVIOUS
  <1>2. ~Full(q) => Len(Append(q, e)) < FifoLen
    BY <1>1, FifoAssumption DEF Full
  <1>3. QED  BY <1>1, <1>2 DEF Write

LEMMA TakeMarks ==
  ASSUME NEW S, NEW q \in Seq(S), q # <<>>, Len(q) < FifoLen, NEW M
  PROVE  /\ None(q, M) => None(Tail(q), M) /\ Head(q) \notin M
         /\ Sole(q, M) /\ Head(q) \in M => None(Tail(q), M)
         /\ Sole(q, M) /\ Head(q) \notin M => Sole(Tail(q), M)
  <1> DEFINE r == Tail(q)
  <1>1. /\ Len(q) \in Nat \ {0} /\ DOMAIN q = 1 .. Len(q) /\ Head(q) = q[1]
        /\ DOMAIN r = 1 .. Len(q) - 1 /\ \A i \in 1 .. Len(q) - 1 : r[i] = q[i + 1]
    BY TakeEntry
  <1> HIDE DEF r
  <1>2. None(q, M) => None(r, M) /\ Head(q) \notin M
    BY <1>1 DEF None
  <1>3. Sole(q, M) /\ Head(q) \in M => None(r, M)
    BY <1>1 DEF None, Sole
  <1>4. ASSUME Sole(q, M), Head(q) \notin M PROVE Sole(r, M)
    <2>1. PICK n \in DOMAIN q : q[n] \in M /\ \A i \in DOMAIN q : q[i] \in M => i = n
      BY <1>4 DEF Sole
    <2>2. n - 1 \in DOMAIN r /\ r[n - 1] = q[n]
      BY <1>1, <1>4, <2>1
    <2>3. \A i \in DOMAIN r : r[i] \in M => i = n - 1
      BY <1>1, <2>1
    <2>4. QED  BY <2>1, <2>2, <2>3 DEF Sole
  <1>5. QED  BY <1>2, <1>3, <1>4 DEF r

LEMMA AddMarks ==
  ASSUME NEW S, NEW q \in Seq(S), NEW e \in S, Len(q) < FifoLen, NEW M
  PROVE  /\ None(q, M) /\ e \notin M => None(Append(q, e), M) /\ None(Write(q, e), M)
         /\ Sole(q, M) /\ e \notin M => Sole(Append(q, e), M) /\ Sole(Write(q, e), M)
         /\ None(q, M) /\ e \in M => Sole(Append(q, e), M) /\ (~Full(q) => Sole(Write(q, e), M))
  <1> DEFINE r == Append(q, e)
  <1>1. /\ Len(q) \in Nat /\ DOMAIN q = 1 .. Len(q) /\ DOMAIN r = 1 .. Len(q) + 1
        /\ \A i \in 1 .. Len(q) : r[i] = q[i]
        /\ r[Len(q) + 1] = e
    BY AddEntry
  <1> HIDE DEF r
  <1>2. None(q, M) /\ e \notin M => None(r, M)
    BY <1>1 DEF None
  <1>3. ASSUME Sole(q, M), e \notin M PROVE Sole(r, M)
    <2>1. PICK n \in DOMAIN q : q[n] \in M /\ \A i \in DOMAIN q : q[i] \in M => i = n
      BY <1>3 DEF Sole
    <2>2. n \in DOMAIN r /\ r[n] = q[n]
      BY <1>1, <2>1
    <2>3. \A i \in DOMAIN r : r[i] \in M => i = n
      BY <1>1, <1>3, <2>1
    <2>4. QED  BY <2>1, <2>2, <2>3 DEF Sole
  <1>4. None(q, M) /\ e \in M => Sole(r, M)
    BY <1>1 DEF None, Sole
  <1>5. Write(q, e) = IF Full(q) THEN q ELSE r
    BY DEF Write, r
  <1>6. QED  BY <1>2, <1>3, <1>4, <1>5 DEF r

\* A message is taken out of the app fifo, or put into it.
LEMMA TakeHolds ==
  ASSUME NEW q \in Seq(Entries), q # <<>>, Len(q) < FifoLen, NEW o, NEW s, Holds(q, o, s)
  PROVE  /\ Head(q).cmd # "TX_MSG" => Holds(Tail(q), o, s)
         /\ Head(q).cmd = "TX_MSG" => /\ ~Has(Tail(q), Head(q).id)
                                      /\ Head(q).id \in o /\ Head(q).id \notin s
                                      /\ Holds(Tail(q), o \ {Head(q).id}, s)
  <1> DEFINE r == Tail(q)
             m == Head(q)
  <1>1. /\ Len(q) \in Nat \ {0} /\ DOMAIN q = 1 .. Len(q) /\ m = q[1]
        /\ DOMAIN r = 1 .. Len(q) - 1 /\ \A i \in 1 .. Len(q) - 1 : r[i] = q[i + 1]
    BY TakeEntry
  <1> HIDE DEF r, m
  <1>2. \A id : Has(q, id) <=> Has(r, id) \/ (m.cmd = "TX_MSG" /\ m.id = id)
    <2> SUFFICES ASSUME NEW id PROVE Has(q, id) <=> Has(r, id) \/ (m.cmd = "TX_MSG" /\ m.id = id)
      OBVIOUS
    <2>1. ASSUME Has(q, id), ~(m.cmd = "TX_MSG" /\ m.id = id) PROVE Has(r, id)
      <3>1. PICK n \in DOMAIN q : q[n].cmd = "TX_MSG" /\ q[n].id = id
        BY <2>1 DEF Has
      <3>2. n - 1 \in DOMAIN r /\ r[n - 1] = q[n]
        BY <1>1, <2>1, <3>1
      <3>3. QED  BY <3>1, <3>2 DEF Has
    <2>2. Has(r, id) => Has(q, id)
      BY <1>1 DEF Has
    <2>3. m.cmd = "TX_MSG" /\ m.id = id => Has(q, id)
      BY <1>1 DEF Has
    <2>4. QED  BY <2>1, <2>2, <2>3
  <1>3. \A i, j \in DOMAIN r :
          r[i].cmd = "TX_MSG" /\ r[j].cmd = "TX_MSG" /\ r[i].id = r[j].id => i = j
    <2> SUFFICES ASSUME NEW i \in DOMAIN r, NEW j \in DOMAIN r, r[i].cmd = "TX_MSG",
                        r[j].cmd = "TX_MSG", r[i].id = r[j].id
                 PROVE  i = j
      OBVIOUS
    <2>1. i + 1 \in DOMAIN q /\ j + 1 \in DOMAIN q /\ q[i + 1] = r[i] /\ q[j + 1] = r[j]
      BY <1>1
    <2>2. i + 1 = j + 1
      BY <2>1 DEF Holds
    <2>3. QED  BY <1>1, <2>2
  <1>4. m.cmd = "TX_MSG" => ~Has(r, m.id)
    <2> SUFFICES ASSUME m.cmd = "TX_MSG", Has(r, m.id) PROVE FALSE
      OBVIOUS
    <2>1. PICK n \in DOMAIN r : r[n].cmd = "TX_MSG" /\ r[n].id = m.id
      BY DEF Has
    <2>2. n + 1 \in DOMAIN q /\ 1 \in DOMAIN q /\ q[n + 1] = r[n] /\ q[1] = m /\ n + 1 # 1
      BY <1>1
    <2>3. QED  BY <2>1, <2>2 DEF Holds
  <1>5. m.cmd # "TX_MSG" => Holds(r, o, s)
    BY <1>2, <1>3 DEF Holds
  <1>6. ASSUME m.cmd = "TX_MSG"
        PROVE  m.id \in o /\ m.id \notin s /\ Holds(r, o \ {m.id}, s)
    BY <1>2, <1>3, <1>4, <1>6 DEF Holds
  <1>7. QED  BY <1>4, <1>5, <1>6 DEF r, m

LEMMA AddHolds ==
  ASSUME NEW q \in Seq(Entries), NEW e \in Entries, Len(q) < FifoLen, NEW o, NEW s, Holds(q, o, s)
  PROVE  /\ e.cmd # "TX_MSG" => Holds(Append(q, e), o, s)
         /\ e.cmd = "TX_MSG" /\ e.id \notin o => Holds(Append(q, e), o \cup {e.id}, s)
  <1> DEFINE r == Append(q, e)
  <1>1. /\ Len(q) \in Nat /\ DOMAIN q = 1 .. Len(q) /\ DOMAIN r = 1 .. Len(q) + 1
        /\ \A i \in 1 .. Len(q) : r[i] = q[i]
        /\ r[Len(q) + 1] = e
    BY AddEntry
  <1> HIDE DEF r
  <1>2. \A id : Has(r, id) <=> Has(q, id) \/ (e.cmd = "TX_MSG" /\ e.id = id)
    <2> SUFFICES ASSUME NEW id PROVE Has(r, id) <=> Has(q, id) \/ (e.cmd = "TX_MSG" /\ e.id = id)
      OBVIOUS
    <2>1. Has(q, id) => Has(r, id)
      BY <1>1 DEF Has
    <2>2. e.cmd = "TX_MSG" /\ e.id = id => Has(r, id)
      BY <1>1 DEF Has
    <2>3. Has(r, id) => Has(q, id) \/ (e.cmd = "TX_MSG" /\ e.id = id)
      BY <1>1 DEF Has
    <2>4. QED  BY <2>1, <2>2, <2>3
  <1>3. \A i \in DOMAIN r : (i \in DOMAIN q /\ r[i] = q[i]) \/ (i = Len(q) + 1 /\ r[i] = e)
    BY <1>1
  <1>4. e.cmd # "TX_MSG" => Holds(r, o, s)
    BY <1>2, <1>3 DEF Holds
  <1>5. ASSUME e.cmd = "TX_MSG", e.id \notin o PROVE Holds(r, o \cup {e.id}, s)
    <2>1. ~Has(q, e.id) /\ e.id \notin s
      BY <1>5 DEF Holds
    <2>2. \A i \in DOMAIN q : ~(q[i].cmd = "TX_MSG" /\ q[i].id = e.id)
      BY <2>1 DEF Has
    <2>3. \A i, j \in DOMAIN r :
            r[i].cmd = "TX_MSG" /\ r[j].cmd = "TX_MSG" /\ r[i].id = r[j].id => i = j
      BY <1>3, <2>2 DEF Holds
    <2>4. QED  BY <1>2, <1>5, <2>1, <2>3 DEF Holds
  <1>6. QED  BY <1>4, <1>5 DEF r
\* While there is room there is an identity that no message has: there are as
\* many as places.
LEMMA FreshId ==
  ASSUME NEW q \in Seq(Entries), Len(q) < FifoLen, ~Full(q), NEW x,
         NEW s \in SUBSET {x}, Holds(q, owed, s)
  PROVE  NewId \in Ids /\ NewId \notin owed
  <1>1. Len(q) \in Nat /\ DOMAIN q = 1 .. Len(q) /\ Len(q) + 1 < FifoLen
    BY FifoAssumption DEF Full
  <1>2. \E id \in Ids : id \notin owed
    <2> SUFFICES ASSUME \A id \in Ids : id \in owed PROVE FALSE
      OBVIOUS
    <2> DEFINE Place(id, n) == n \in DOMAIN q /\ q[n].cmd = "TX_MSG" /\ q[n].id = id
               f == [id \in Ids |-> IF Has(q, id) THEN CHOOSE n \in 0 .. Len(q) : Place(id, n) ELSE 0]
    <2>1. \A id \in Ids : Has(q, id) => f[id] \in 0 .. Len(q) /\ Place(id, f[id])
      <3> SUFFICES ASSUME NEW id \in Ids, Has(q, id) PROVE f[id] \in 0 .. Len(q) /\ Place(id, f[id])
        OBVIOUS
      <3>1. \E n \in 0 .. Len(q) : Place(id, n)
        BY <1>1 DEF Has
      <3>2. f[id] = CHOOSE n \in 0 .. Len(q) : Place(id, n)
        OBVIOUS
      <3> HIDE DEF f, Place
      <3>3. QED  BY <3>1, <3>2
    <2>2. \A id \in Ids : ~Has(q, id) => f[id] = 0 /\ id = x
      BY DEF Holds
    <2>3. f \in [Ids -> 0 .. Len(q)]
      <3>1. \A id \in Ids : f[id] \in 0 .. Len(q)
        BY <1>1, <2>1, <2>2
      <3>2. f = [id \in Ids |-> f[id]]
        OBVIOUS
      <3> HIDE DEF f
      <3>3. QED  BY <3>1, <3>2
    <2> HIDE DEF f
    <2>4. IsFiniteSet(Ids) /\ Cardinality(Ids) = FifoLen
      BY FS_Interval, FifoAssumption DEF Ids
    <2>5. IsFiniteSet(0 .. Len(q)) /\ Cardinality(0 .. Len(q)) = Len(q) + 1
      BY <1>1, FS_Interval
    <2>6. PICK y, z \in Ids : y # z /\ f[y] = f[z]
      BY <1>1, <2>3, <2>4, <2>5, FS_PigeonHole
    <2>7. CASE Has(q, y) /\ Has(q, z)
      BY <2>1, <2>6, <2>7
    <2>8. CASE ~Has(q, y) /\ ~Has(q, z)
      BY <2>2, <2>6, <2>8
    <2>9. CASE Has(q, y) /\ ~Has(q, z)
      BY <1>1, <2>1, <2>2, <2>6, <2>9
    <2>10. CASE ~Has(q, y) /\ Has(q, z)
      BY <1>1, <2>1, <2>2, <2>6, <2>10
    <2>11. QED  BY <2>7, <2>8, <2>9, <2>10
  <1>3. QED  BY <1>2 DEF NewId

-----------------------------------------------------------------------------
(* The steps.                                                              *)

LEMMA CecInit == Init => CecInv
  <1> SUFFICES ASSUME Init PROVE CecInv
    OBVIOUS
  <1>1. TypeOK
    <2>1. isr_fifo \in Seq(Events) /\ app_fifo \in Seq(Entries) /\ Len(isr_fifo) = 0 /\ Len(app_fifo) = 0
      BY DEF Init
    <2>2. tx \in [id : Ids \cup {0}, status : Failures \cup {NoMsg}, late : BOOLEAN]
      BY DEF Init, IdleTx, NoMsg
    <2>3. Len(isr_fifo) < FifoLen /\ Len(app_fifo) < FifoLen /\ retrans \in 0 .. MaxRetrans
      BY <2>1, FifoAssumption, RetransAssumption DEF Init
    <2>4. QED
      BY <2>1, <2>2, <2>3 DEF Init, TypeOK, Events, Entries
  <1>2. ControlInv /\ OutcomeInv /\ WaitInv /\ FreshInv
    BY DEF Init, ControlInv, OutcomeInv, WaitInv, FreshInv, WakeupMsgFresh
  <1>3. QED  BY <1>1, <1>2 DEF CecInv

\* Types, part by part.
FifoTypes ==
  /\ isr_fifo \in Seq(Events) /\ Len(isr_fifo) < FifoLen
  /\ app_fifo \in Seq(Entries) /\ Len(app_fifo) < FifoLen
  /\ owed \subseteq Ids
TxTypes == /\ tx \in [id : Ids \cup {0}, status : Failures \cup {NoMsg}, late : BOOLEAN]
           /\ retrans \in 0 .. MaxRetrans
WordTypes ==
  /\ SMCECTaskstate \in {"IDLE", "LISTENING", "SENDING"}
  /\ pc \in {"top", "app", "count"}
  /\ hw \in {"idle", "sending"} /\ irq_tx \in Failures \cup {"done", NoMsg}
  /\ irq_rx \in Received \cup {NoMsg}
  /\ power \in {"active", "enabling", "standby", "disabling"}
  /\ wakeup_msg \in Received \cup {NoMsg}
FlagTypes ==
  /\ bCECTaskExit \in BOOLEAN /\ gie \in BOOLEAN
  /\ flow_asked \in BOOLEAN /\ alloc \in BOOLEAN /\ hdmi \in BOOLEAN
  /\ lost \in BOOLEAN /\ woken \in BOOLEAN

LEMMA TypeParts == TypeOK <=> FifoTypes /\ TxTypes /\ WordTypes /\ FlagTypes
  BY DEF TypeOK, FifoTypes, TxTypes, WordTypes, FlagTypes, Events, Entries

\* A reply, a wake-up, or nothing, for a message out of the ISR fifo.
LEMMA RxKeeps ==
  ASSUME CecInv, TaskIsr, Head(isr_fifo) \in Received, rx_msg(Head(isr_fifo), app_fifo)
  PROVE  CecInv'
  <1> DEFINE m == Head(isr_fifo)
  <1>1. /\ power = "standby" /\ pc = "top" /\ ~bCECTaskExit
        /\ isr_fifo # <<>> /\ isr_fifo' = Tail(isr_fifo)
        /\ UNCHANGED <<gie, irq_rx, power, alloc, hdmi>>
    BY DEF TaskIsr, CecInv, ControlInv, conf
  <1>2. FifoTypes /\ TxTypes /\ WordTypes /\ FlagTypes
    BY TypeParts DEF CecInv
  <1>3. m \notin Results
    BY DEF Received, Results
  <1>4. /\ isr_fifo' \in Seq(Events) /\ Len(isr_fifo') < FifoLen
        /\ None(isr_fifo, Results) => None(isr_fifo', Results)
        /\ Sole(isr_fifo, Results) => Sole(isr_fifo', Results)
    BY <1>1, <1>2, <1>3, TakeEntry, TakeMarks DEF FifoTypes
  <1> HIDE DEF m
  <1>5. /\ UNCHANGED <<bCECTaskExit, SMCECTaskstate, tx, retrans, hw, irq_tx, lost>> /\ pc' = "top"
    BY DEF rx_msg
  <1>6. Holds(app_fifo, owed, Current) /\ Current' = Current
    BY <1>1, <1>5 DEF CecInv, WaitInv, Current
  <1>7. \/ UNCHANGED <<app_fifo, owed>>
        \/ /\ ~Full(app_fifo) /\ app_fifo' = Append(app_fifo, TxMsg(NewId))
           /\ owed' = owed \cup {NewId}
    BY DEF rx_msg, srv_tx_msg
  <1>8. /\ app_fifo' \in Seq(Entries) /\ Len(app_fifo') < FifoLen /\ owed' \subseteq Ids
        /\ Holds(app_fifo', owed', Current)
        /\ None(app_fifo, Fails) => None(app_fifo', Fails)
        /\ Sole(app_fifo, Fails) => Sole(app_fifo', Fails)
    <2>1. CASE UNCHANGED <<app_fifo, owed>>
      BY <1>2, <1>6, <2>1 DEF FifoTypes
    <2>2. CASE /\ ~Full(app_fifo) /\ app_fifo' = Append(app_fifo, TxMsg(NewId))
               /\ owed' = owed \cup {NewId}
      <3>1. app_fifo \in Seq(Entries) /\ Len(app_fifo) < FifoLen /\ owed \subseteq Ids
        BY <1>2 DEF FifoTypes
      <3>2. NewId \in Ids /\ NewId \notin owed
        <4>1. Current \in SUBSET {tx.id}
          BY DEF Current
        <4>2. QED  BY <1>6, <2>2, <3>1, <4>1, FreshId
      <3>3. /\ TxMsg(NewId) \in Entries /\ TxMsg(NewId).cmd = "TX_MSG" /\ TxMsg(NewId).id = NewId
            /\ TxMsg(NewId) \notin Fails
        BY <3>2 DEF TxMsg, Entries, Fails
      <3>4. QED  BY <1>6, <2>2, <3>1, <3>2, <3>3, AddEntry, AddMarks, AddHolds
    <2>3. QED  BY <1>7, <2>1, <2>2
  <1>9. FifoTypes' /\ TxTypes' /\ ControlInv' /\ OutcomeInv' /\ WaitInv'
    <2>1. FifoTypes' /\ TxTypes'
      BY <1>2, <1>4, <1>5, <1>8 DEF FifoTypes, TxTypes
    <2>2. ControlInv'
      BY <1>1, <1>5 DEF CecInv, ControlInv
    <2>3. OutcomeInv'
      BY <1>1, <1>4, <1>5, <1>8 DEF CecInv, OutcomeInv, OnItsWay
    <2>4. WaitInv'
      BY <1>6, <1>8 DEF WaitInv
    <2>5. QED  BY <2>1, <2>2, <2>3, <2>4
  <1>10. \/ wakeup_msg' = "wake" /\ woken' = TRUE /\ flow_asked' = TRUE
         \/ UNCHANGED <<wakeup_msg, woken, flow_asked>>
    BY DEF rx_msg, kept
  <1>11. FlagTypes'
    BY <1>1, <1>2, <1>5, <1>10, Zenon DEF FlagTypes
  <1>12. WordTypes'
    BY <1>1, <1>2, <1>5, <1>10 DEF WordTypes, Received
  <1>13. FreshInv'
    BY <1>1, <1>10 DEF CecInv, FreshInv, WakeupMsgFresh, NoMsg
  <1>14. QED  BY <1>9, <1>11, <1>12, <1>13, TypeParts, PTL DEF CecInv

\* What the task leaves alone in every command but a received message.
Still == UNCHANGED <<gie, irq_rx, power, alloc, hdmi, wakeup_msg, woken, flow_asked, bCECTaskExit>>

LEMMA CommandKeeps ==
  ASSUME CecInv, Still, FifoTypes', TxTypes', ControlInv', OutcomeInv', WaitInv',
         SMCECTaskstate' \in {"IDLE", "LISTENING", "SENDING"}, pc' \in {"top", "app", "count"},
         hw' \in {"idle", "sending"}, irq_tx' \in Failures \cup {"done", NoMsg}, lost' \in BOOLEAN
  PROVE  CecInv'
  <1>1. WordTypes /\ FlagTypes
    BY TypeParts DEF CecInv
  <1>2. WordTypes'
    BY <1>1 DEF WordTypes, Still
  <1>3. FlagTypes'
    BY <1>1, Zenon DEF FlagTypes, Still
  <1>4. FreshInv'
    BY DEF CecInv, FreshInv, WakeupMsgFresh, Still
  <1>5. TypeOK'
    BY <1>2, <1>3, TypeParts, PTL
  <1>6. QED  BY <1>4, <1>5 DEF CecInv

\* The outcome of the transmission under way has been taken: none is left.
Taken(app) ==
  /\ power = "standby" /\ SMCECTaskstate = "SENDING"
  /\ UNCHANGED <<gie, irq_rx, power, alloc, hdmi>>
  /\ isr_fifo' \in Seq(Events) /\ Len(isr_fifo') < FifoLen
  /\ app \in Seq(Entries) /\ Len(app) < FifoLen
  /\ Holds(app, owed, {tx.id})
  /\ ~lost => /\ hw = "idle" /\ irq_tx = NoMsg
              /\ None(isr_fifo', Results) /\ None(app, Fails)

LEMMA TakenFromIsr ==
  ASSUME CecInv, TaskIsr, SMCECTaskstate = "SENDING", Head(isr_fifo) \in Results
  PROVE  Taken(app_fifo)
  <1>1. /\ power = "standby"
        /\ isr_fifo # <<>> /\ isr_fifo' = Tail(isr_fifo)
        /\ UNCHANGED <<gie, irq_rx, power, alloc, hdmi>>
    BY DEF TaskIsr, CecInv, ControlInv, conf
  <1>2. FifoTypes
    BY TypeParts DEF CecInv
  <1>3. /\ isr_fifo' \in Seq(Events) /\ Len(isr_fifo') < FifoLen
        /\ ~None(isr_fifo, Results)
        /\ Sole(isr_fifo, Results) => None(isr_fifo', Results)
    BY <1>1, <1>2, TakeEntry, TakeMarks DEF FifoTypes
  <1>4. Holds(app_fifo, owed, {tx.id})
    BY <1>1 DEF CecInv, WaitInv, Current
  <1>5. ~lost => OnItsWay
    BY <1>1 DEF CecInv, OutcomeInv
  <1>6. QED  BY <1>1, <1>2, <1>3, <1>4, <1>5 DEF Taken, FifoTypes, OnItsWay

LEMMA TakenFromApp ==
  ASSUME CecInv, TaskApp, SMCECTaskstate = "SENDING", Head(app_fifo).cmd = "TX_FAILED"
  PROVE  Taken(Tail(app_fifo))
  <1>1. /\ power = "standby" /\ app_fifo # <<>> /\ isr_fifo' = isr_fifo
        /\ UNCHANGED <<gie, irq_rx, power, alloc, hdmi>>
    BY DEF TaskApp, CecInv, ControlInv, conf
  <1>2. FifoTypes
    BY TypeParts DEF CecInv
  <1>3. /\ Tail(app_fifo) \in Seq(Entries) /\ Len(Tail(app_fifo)) < FifoLen
        /\ Head(app_fifo) \in Entries
    BY <1>1, <1>2, TakeEntry DEF FifoTypes
  <1>4. Head(app_fifo) \in Fails
    BY <1>3 DEF Fails
  <1>5. /\ ~None(app_fifo, Fails)
        /\ Sole(app_fifo, Fails) => None(Tail(app_fifo), Fails)
    BY <1>1, <1>2, <1>4, TakeMarks DEF FifoTypes
  <1>6. Holds(app_fifo, owed, {tx.id})
    BY <1>1 DEF CecInv, WaitInv, Current
  <1>7. Holds(Tail(app_fifo), owed, {tx.id})
    BY <1>1, <1>2, <1>6, TakeHolds DEF FifoTypes
  <1>8. ~lost => OnItsWay
    BY <1>1 DEF CecInv, OutcomeInv
  <1>9. QED  BY <1>1, <1>2, <1>3, <1>5, <1>7, <1>8 DEF Taken, FifoTypes, OnItsWay

\* The message is done with.
LEMMA FinishKeeps ==
  ASSUME CecInv, NEW app, Taken(app), finish(app)
  PROVE  CecInv'
  <1>1. FifoTypes /\ TxTypes /\ WordTypes /\ FlagTypes
    BY TypeParts DEF CecInv
  <1>2. /\ app_fifo' = app /\ owed' = owed \ {tx.id} /\ SMCECTaskstate' = "LISTENING"
        /\ tx' = IdleTx /\ retrans' = 0 /\ pc' = "top"
        /\ UNCHANGED <<bCECTaskExit, hw, irq_tx, flow_asked, wakeup_msg, woken, lost>>
    BY DEF finish, kept
  <1>3. Still
    BY <1>2 DEF Still, Taken
  <1>4. FifoTypes'
    BY <1>1, <1>2 DEF FifoTypes, Taken
  <1>5. TxTypes'
    BY <1>2, RetransAssumption DEF TxTypes, IdleTx, NoMsg
  <1>6. ControlInv'
    BY <1>2 DEF CecInv, ControlInv, Taken
  <1>7. OutcomeInv'
    BY <1>2 DEF OutcomeInv, Taken
  <1>8. WaitInv'
    <2>1. Holds(app, owed \ {tx.id}, {})
      BY DEF Taken, Holds
    <2>2. QED  BY <1>2, <2>1 DEF WaitInv, Current
  <1>9. QED
    BY <1>1, <1>2, <1>3, <1>4, <1>5, <1>6, <1>7, <1>8, CommandKeeps DEF WordTypes, FlagTypes

\* The message is sent again, or that fails at once.
LEMMA AgainKeeps ==
  ASSUME CecInv, NEW app, Taken(app), again(app)
  PROVE  CecInv'
  <1>1. FifoTypes /\ TxTypes /\ WordTypes /\ FlagTypes
    BY TypeParts DEF CecInv
  <1>2. /\ UNCHANGED <<bCECTaskExit, SMCECTaskstate, tx, retrans, owed, flow_asked, wakeup_msg, woken>>
        /\ pc' = "count"
    BY DEF again, kept
  <1>3. Still
    BY <1>2 DEF Still, Taken
  <1>4. TxFailed \in Entries /\ TxFailed \in Fails /\ TxFailed.cmd # "TX_MSG"
    BY DEF CecInv, ControlInv, TxFailed, Entries, Fails, Taken
  <1>5. \/ hw' = "sending" /\ irq_tx' = NoMsg /\ app_fifo' = app /\ UNCHANGED lost
        \/ /\ app_fifo' = Write(app, TxFailed) /\ lost' = (lost \/ Full(app))
           /\ UNCHANGED <<hw, irq_tx>>
    BY DEF again, hw_transmit
  <1>6. /\ app_fifo' \in Seq(Entries) /\ Len(app_fifo') < FifoLen
        /\ Holds(app_fifo', owed, {tx.id})
    <2>1. /\ Write(app, TxFailed) \in Seq(Entries) /\ Len(Write(app, TxFailed)) < FifoLen
      BY <1>4, AddEntry DEF Taken
    <2>2. Holds(Write(app, TxFailed), owed, {tx.id})
      BY <1>4, AddHolds DEF Taken, Write
    <2>3. QED  BY <1>5, <2>1, <2>2 DEF Taken
  <1>7. FifoTypes' /\ TxTypes'
    BY <1>1, <1>2, <1>6 DEF FifoTypes, TxTypes, Taken
  <1>8. ControlInv'
    BY <1>2 DEF CecInv, ControlInv, Taken
  <1>9. OutcomeInv'
    <2> SUFFICES ASSUME ~lost' PROVE OnItsWay'
      BY <1>2 DEF OutcomeInv, Taken
    <2>1. ~lost
      BY <1>5
    <2>2. CASE hw' = "sending" /\ irq_tx' = NoMsg /\ app_fifo' = app
      BY <2>1, <2>2 DEF OnItsWay, Taken
    <2>3. CASE /\ app_fifo' = Write(app, TxFailed) /\ lost' = (lost \/ Full(app))
               /\ UNCHANGED <<hw, irq_tx>>
      <3>1. Sole(app_fifo', Fails)
        BY <1>4, <2>1, <2>3, AddMarks DEF Taken
      <3>2. QED  BY <2>1, <2>3, <3>1 DEF OnItsWay, Taken
    <2>4. QED  BY <1>5, <2>2, <2>3
  <1>10. WaitInv'
    BY <1>2, <1>6 DEF WaitInv, Current, Taken
  <1>11. lost' \in BOOLEAN
    BY <1>1, <1>5 DEF FlagTypes
  <1>12. QED
    BY <1>1, <1>2, <1>3, <1>5, <1>7, <1>8, <1>9, <1>10, <1>11, CommandKeeps DEF WordTypes

\* A waiting message is taken for sending; a busy line fails at once.
LEMMA StartKeeps ==
  ASSUME CecInv, TaskApp, SMCECTaskstate = "LISTENING", Head(app_fifo).cmd = "TX_MSG",
         start(Head(app_fifo).id, Tail(app_fifo))
  PROVE  CecInv'
  <1> DEFINE e   == Head(app_fifo)
             app == Tail(app_fifo)
             bad == [cmd |-> "TX_FAILED", id |-> e.id]
  <1>1. FifoTypes /\ TxTypes /\ WordTypes /\ FlagTypes
    BY TypeParts DEF CecInv
  <1>2. /\ power = "standby" /\ pc = "app" /\ app_fifo # <<>> /\ isr_fifo' = isr_fifo
        /\ ~bCECTaskExit /\ UNCHANGED <<gie, irq_rx, power, alloc, hdmi>>
    BY DEF TaskApp, CecInv, ControlInv, conf
  <1>3. /\ retrans' = 0 /\ SMCECTaskstate' = "SENDING" /\ pc' = "top"
        /\ UNCHANGED <<bCECTaskExit, owed, flow_asked, wakeup_msg, woken, lost>>
        /\ \/ /\ tx' = [id |-> e.id, status |-> NoMsg, late |-> FALSE]
              /\ hw' = "sending" /\ irq_tx' = NoMsg /\ app_fifo' = app
           \/ /\ tx' = [id |-> e.id, status |-> "busy", late |-> FALSE]
              /\ app_fifo' = Write(app, bad)
              /\ UNCHANGED <<hw, irq_tx>>
    BY DEF start, hw_transmit, kept
  <1>4. e \in Entries /\ app \in Seq(Entries) /\ Len(app) < FifoLen /\ ~Full(app)
    BY <1>1, <1>2, TakeEntry DEF FifoTypes
  <1>5. Holds(app, owed, {e.id})
    <2>1. Holds(app_fifo, owed, {})
      BY <1>2 DEF CecInv, WaitInv, Current
    <2>2. e.id \in owed /\ ~Has(app, e.id) /\ Holds(app, owed \ {e.id}, {})
      BY <1>1, <1>2, <2>1, TakeHolds DEF FifoTypes
    <2> HIDE DEF app, e
    <2>3. QED  BY <2>2 DEF Holds
  <1>6. /\ bad \in Entries /\ bad \in Fails /\ bad.cmd # "TX_MSG" /\ e.id \in Ids
    BY <1>4 DEF Entries, Fails
  <1>7. /\ ~lost => hw = "idle" /\ irq_tx = NoMsg /\ None(isr_fifo, Results) /\ None(app, Fails)
    <2>1. ~lost => /\ hw = "idle" /\ irq_tx = NoMsg /\ None(isr_fifo, Results)
                   /\ None(app_fifo, Fails)
      BY <1>2 DEF CecInv, OutcomeInv
    <2>2. QED  BY <1>1, <1>2, <2>1, TakeMarks DEF FifoTypes
  <1> HIDE DEF e, app, bad
  <1>8. Still
    BY <1>2, <1>3 DEF Still
  <1>9. /\ app_fifo' \in Seq(Entries) /\ Len(app_fifo') < FifoLen
        /\ Holds(app_fifo', owed, {e.id}) /\ tx'.id = e.id
    <2>1. Write(app, bad) \in Seq(Entries) /\ Len(Write(app, bad)) < FifoLen
      BY <1>4, <1>6, AddEntry
    <2>2. Holds(Write(app, bad), owed, {e.id})
      BY <1>4, <1>5, <1>6, AddHolds DEF Write
    <2>3. QED  BY <1>3, <1>4, <1>5, <2>1, <2>2
  <1>10. FifoTypes'
    BY <1>1, <1>2, <1>3, <1>9 DEF FifoTypes
  <1>11. TxTypes'
    <2>1. /\ [id |-> e.id, status |-> NoMsg, late |-> FALSE]
                \in [id : Ids \cup {0}, status : Failures \cup {NoMsg}, late : BOOLEAN]
          /\ [id |-> e.id, status |-> "busy", late |-> FALSE]
                \in [id : Ids \cup {0}, status : Failures \cup {NoMsg}, late : BOOLEAN]
      BY <1>6 DEF Failures
    <2>2. 0 \in 0 .. MaxRetrans
      BY RetransAssumption
    <2>3. QED  BY <1>3, <2>1, <2>2, Zenon DEF TxTypes
  <1>12. ControlInv'
    BY <1>2, <1>3, <1>6, <1>9 DEF CecInv, ControlInv
  <1>13. OutcomeInv'
    <2> SUFFICES ASSUME ~lost PROVE OnItsWay'
      BY <1>3 DEF OutcomeInv
    <2>1. CASE hw' = "sending" /\ irq_tx' = NoMsg /\ app_fifo' = app
      BY <1>2, <1>7, <2>1 DEF OnItsWay
    <2>2. CASE app_fifo' = Write(app, bad) /\ UNCHANGED <<hw, irq_tx>>
      <3>1. Sole(app_fifo', Fails)
        BY <1>4, <1>6, <1>7, <2>2, AddMarks
      <3>2. QED  BY <1>2, <1>7, <2>2, <3>1 DEF OnItsWay
    <2>3. QED  BY <1>3, <2>1, <2>2
  <1>14. WaitInv'
    BY <1>3, <1>9 DEF WaitInv, Current
  <1>15. hw' \in {"idle", "sending"} /\ irq_tx' \in Failures \cup {"done", NoMsg} /\ lost' \in BOOLEAN
    BY <1>1, <1>3 DEF WordTypes, FlagTypes
  <1>16. QED
    BY <1>3, <1>8, <1>10, <1>11, <1>12, <1>13, <1>14, <1>15, CommandKeeps

\* An entry is dropped, or put back.
LEMMA IgnoreKeeps ==
  ASSUME CecInv, NEW app, ignore(app), UNCHANGED <<gie, irq_rx, power, alloc, hdmi>>,
         ~bCECTaskExit, power = "standby",
         isr_fifo' \in Seq(Events), Len(isr_fifo') < FifoLen,
         app \in Seq(Entries), Len(app) < FifoLen, Holds(app, owed, Current),
         ~lost => /\ SMCECTaskstate = "LISTENING" => None(app, Fails)
                  /\ None(isr_fifo, Results) => None(isr_fifo', Results)
                  /\ SMCECTaskstate = "SENDING" => /\ isr_fifo' = isr_fifo
                                                   /\ None(app_fifo, Fails) => None(app, Fails)
                                                   /\ Sole(app_fifo, Fails) => Sole(app, Fails)
  PROVE  CecInv'
  <1>1. FifoTypes /\ TxTypes /\ WordTypes /\ FlagTypes
    BY TypeParts DEF CecInv
  <1>2. /\ app_fifo' = app /\ pc' = "top"
        /\ UNCHANGED <<bCECTaskExit, SMCECTaskstate, tx, retrans, hw, irq_tx, owed, flow_asked,
                       wakeup_msg, woken, lost>>
    BY DEF ignore, kept
  <1>3. Still
    BY <1>2 DEF Still
  <1>4. FifoTypes' /\ TxTypes'
    BY <1>1, <1>2 DEF FifoTypes, TxTypes
  <1>5. ControlInv'
    BY <1>2 DEF CecInv, ControlInv
  <1>6. OutcomeInv'
    BY <1>2 DEF CecInv, OutcomeInv, OnItsWay
  <1>7. WaitInv'
    BY <1>2 DEF WaitInv, Current
  <1>8. QED
    BY <1>1, <1>2, <1>3, <1>4, <1>5, <1>6, <1>7, CommandKeeps DEF WordTypes, FlagTypes

\* An entry of the ISR fifo is handled.
LEMMA IsrKeeps == ASSUME CecInv, TaskIsr PROVE CecInv'
  <1>1. /\ power = "standby" /\ ~bCECTaskExit
        /\ isr_fifo # <<>> /\ isr_fifo' = Tail(isr_fifo)
        /\ UNCHANGED <<gie, irq_rx, power, alloc, hdmi>>
        /\ handle(Head(isr_fifo), tx.id, app_fifo)
    BY DEF TaskIsr, CecInv, ControlInv, conf
  <1>2. FifoTypes
    BY TypeParts DEF CecInv
  <1>3. /\ isr_fifo' \in Seq(Events) /\ Len(isr_fifo') < FifoLen /\ Head(isr_fifo) \in Events
        /\ None(isr_fifo, Results) => None(isr_fifo', Results)
    BY <1>1, <1>2, TakeEntry, TakeMarks DEF FifoTypes
  <1>4. CASE Head(isr_fifo) \in Received /\ rx_msg(Head(isr_fifo), app_fifo)
    BY <1>4, RxKeeps
  <1>5. CASE SMCECTaskstate = "LISTENING" /\ ignore(app_fifo)
    <2>1. Holds(app_fifo, owed, Current)
      BY <1>1 DEF CecInv, WaitInv
    <2>2. ~lost => None(app_fifo, Fails)
      BY <1>1, <1>5 DEF CecInv, OutcomeInv
    <2>3. QED  BY <1>1, <1>2, <1>3, <1>5, <2>1, <2>2, IgnoreKeeps DEF FifoTypes
  <1>6. CASE /\ SMCECTaskstate = "SENDING" /\ Head(isr_fifo) \in Results
             /\ finish(app_fifo) \/ again(app_fifo)
    <2>1. Taken(app_fifo)
      BY <1>6, TakenFromIsr
    <2>2. QED  BY <1>6, <2>1, FinishKeeps, AgainKeeps
  <1>7. Head(isr_fifo) # "TX_MSG"
    BY <1>3 DEF Events, Received
  <1>8. QED  BY <1>1, <1>4, <1>5, <1>6, <1>7 DEF handle, Results

\* An entry of the app fifo is handled.
LEMMA AppKeeps == ASSUME CecInv, TaskApp PROVE CecInv'
  <1> DEFINE e   == Head(app_fifo)
             app == Tail(app_fifo)
  <1>1. /\ power = "standby" /\ ~bCECTaskExit
        /\ app_fifo # <<>> /\ isr_fifo' = isr_fifo
        /\ UNCHANGED <<gie, irq_rx, power, alloc, hdmi>>
        /\ handle(e.cmd, e.id, app)
    BY DEF TaskApp, CecInv, ControlInv, conf
  <1>2. FifoTypes
    BY TypeParts DEF CecInv
  <1>3. e \in Entries /\ app \in Seq(Entries) /\ Len(app) < FifoLen /\ ~Full(app)
    BY <1>1, <1>2, TakeEntry DEF FifoTypes
  <1>4. Holds(app_fifo, owed, Current)
    BY <1>1 DEF CecInv, WaitInv
  <1>5. /\ e.cmd = "TX_FAILED" => Holds(app, owed, Current)
        /\ e.cmd = "TX_MSG" => e.id \in owed /\ Holds(app, owed \ {e.id}, Current)
    BY <1>1, <1>2, <1>4, TakeHolds DEF FifoTypes
  <1>6. /\ None(app_fifo, Fails) => None(app, Fails) /\ e \notin Fails
        /\ Sole(app_fifo, Fails) /\ e \notin Fails => Sole(app, Fails)
    BY <1>1, <1>2, TakeMarks DEF FifoTypes
  <1>7. CASE SMCECTaskstate = "LISTENING" /\ e.cmd = "TX_MSG" /\ start(e.id, app)
    BY <1>7, StartKeeps
  <1>8. CASE SMCECTaskstate = "LISTENING" /\ e.cmd = "TX_FAILED" /\ ignore(app)
    <2>1. ~lost => None(app_fifo, Fails)
      BY <1>1, <1>8 DEF CecInv, OutcomeInv
    <2> HIDE DEF e, app
    <2>2. QED  BY <1>1, <1>2, <1>3, <1>5, <1>6, <1>8, <2>1, IgnoreKeeps DEF FifoTypes
  <1>9. CASE SMCECTaskstate = "SENDING" /\ e.cmd = "TX_FAILED" /\ (finish(app) \/ again(app))
    <2>1. Taken(app)
      BY <1>9, TakenFromApp
    <2> HIDE DEF e, app
    <2>2. QED  BY <1>9, <2>1, FinishKeeps, AgainKeeps
  <1>10. CASE SMCECTaskstate = "SENDING" /\ e.cmd = "TX_MSG" /\ ignore(Write(app, TxMsg(e.id)))
    <2> HIDE DEF e, app
    <2> DEFINE new == Append(app, TxMsg(e.id))
    <2>1. Write(app, TxMsg(e.id)) = new
      BY <1>3 DEF Write
    <2>2. /\ TxMsg(e.id) \in Entries /\ TxMsg(e.id).cmd = "TX_MSG" /\ TxMsg(e.id).id = e.id
          /\ TxMsg(e.id) \notin Fails /\ e \notin Fails
      BY <1>3, <1>10 DEF TxMsg, Entries, Fails
    <2>3. new \in Seq(Entries) /\ Len(new) < FifoLen
      BY <1>3, <2>2, AddEntry
    <2>4. Holds(new, owed, Current)
      <3>1. Holds(new, (owed \ {e.id}) \cup {e.id}, Current)
        BY <1>3, <1>5, <1>10, <2>2, AddHolds
      <3>2. (owed \ {e.id}) \cup {e.id} = owed
        BY <1>5, <1>10
      <3>3. QED  BY <3>1, <3>2
    <2>5. /\ None(app_fifo, Fails) => None(new, Fails)
          /\ Sole(app_fifo, Fails) => Sole(new, Fails)
      BY <1>3, <1>6, <2>2, AddMarks
    <2> HIDE DEF new
    <2>6. QED  BY <1>1, <1>2, <1>10, <2>1, <2>3, <2>4, <2>5, IgnoreKeeps DEF FifoTypes
  <1>11. e.cmd \in {"TX_MSG", "TX_FAILED"}
    BY <1>3 DEF Entries
  <1>12. e.cmd \notin Received /\ e.cmd # "TX_DONE"
    BY <1>11 DEF Received
  <1> HIDE DEF e, app
  <1>13. QED  BY <1>1, <1>7, <1>8, <1>9, <1>10, <1>11, <1>12 DEF handle

-----------------------------------------------------------------------------
(* The other steps of the task, the hardware and the interrupt handler.    *)

\* What a step has to show of the next state.
LEMMA AllParts ==
  ASSUME FifoTypes', TxTypes', WordTypes', FlagTypes', ControlInv', OutcomeInv', WaitInv', FreshInv'
  PROVE  CecInv'
  <1>1. TypeOK'
    BY TypeParts, PTL
  <1>2. QED  BY <1>1 DEF CecInv

LEMMA IsrEmptyKeeps == ASSUME CecInv, TaskIsrEmpty PROVE CecInv'
  <1>1. FifoTypes /\ TxTypes /\ WordTypes /\ FlagTypes
    BY TypeParts DEF CecInv
  <1>2. /\ power = "standby" /\ ~bCECTaskExit /\ app_fifo # <<>> /\ isr_fifo = <<>> /\ pc' = "app"
        /\ UNCHANGED <<SMCECTaskstate, app_fifo, retrans, owed, isr_fifo, tx, hw, irq_tx, lost>>
        /\ Still
    BY DEF CecInv, ControlInv, TaskIsrEmpty, Still, irqs, conf, kept
  <1>3. None(isr_fifo, Results)
    BY <1>2 DEF None
  <1>4. FifoTypes' /\ TxTypes'
    BY <1>1, <1>2 DEF FifoTypes, TxTypes
  <1>5. ControlInv'
    BY <1>2 DEF CecInv, ControlInv, Still
  <1>6. OutcomeInv'
    BY <1>2, <1>3 DEF CecInv, OutcomeInv, OnItsWay, Still
  <1>7. WaitInv'
    BY <1>2 DEF CecInv, WaitInv, Current, Still
  <1>8. QED
    BY <1>1, <1>2, <1>4, <1>5, <1>6, <1>7, CommandKeeps DEF WordTypes, FlagTypes

LEMMA CountKeeps == ASSUME CecInv, TaskCount PROVE CecInv'
  <1>1. FifoTypes /\ TxTypes /\ WordTypes /\ FlagTypes
    BY TypeParts DEF CecInv
  <1>2. /\ pc = "count" /\ pc' = "top"
        /\ retrans' = IF tx.status = "sft" \/ retrans = MaxRetrans THEN retrans ELSE retrans + 1
        /\ UNCHANGED <<SMCECTaskstate, app_fifo, owed, isr_fifo, tx, hw, irq_tx, lost>>
        /\ Still
    BY DEF TaskCount, Still, irqs, conf, kept
  <1>3. FifoTypes'
    BY <1>1, <1>2 DEF FifoTypes
  <1>4. TxTypes'
    BY <1>1, <1>2, RetransAssumption DEF TxTypes
  <1>5. ControlInv'
    BY <1>2 DEF CecInv, ControlInv, Still
  <1>6. OutcomeInv'
    BY <1>2 DEF CecInv, OutcomeInv, OnItsWay, Still
  <1>7. WaitInv'
    BY <1>2 DEF CecInv, WaitInv, Current, Still
  <1>8. QED
    BY <1>1, <1>2, <1>3, <1>4, <1>5, <1>6, <1>7, CommandKeeps DEF WordTypes, FlagTypes

LEMMA AgeKeeps == ASSUME CecInv, Age PROVE CecInv'
  <1>1. FifoTypes /\ TxTypes /\ WordTypes /\ FlagTypes
    BY TypeParts DEF CecInv
  <1>2. /\ tx' = [tx EXCEPT !.late = TRUE]
        /\ UNCHANGED <<SMCECTaskstate, app_fifo, owed, isr_fifo, retrans, pc, hw, irq_tx, lost>>
        /\ Still
    BY DEF Age, Still, task, irqs, conf, kept
  <1>3. FifoTypes'
    BY <1>1, <1>2 DEF FifoTypes
  <1>4. TxTypes' /\ tx'.id = tx.id
    BY <1>1, <1>2 DEF TxTypes
  <1>5. ControlInv'
    BY <1>2, <1>4 DEF CecInv, ControlInv, Still
  <1>6. OutcomeInv'
    BY <1>2 DEF CecInv, OutcomeInv, OnItsWay, Still
  <1>7. WaitInv'
    BY <1>2, <1>4 DEF CecInv, WaitInv, Current, Still
  <1>8. QED
    BY <1>1, <1>2, <1>3, <1>4, <1>5, <1>6, <1>7, CommandKeeps DEF WordTypes, FlagTypes

\* The transmitter has an outcome: it was sending, so nothing was latched.
LEMMA HwOutcomeKeeps ==
  ASSUME CecInv, NEW o \in Failures \cup {"done"}, HwOutcome(o) PROVE CecInv'
  <1>1. FifoTypes /\ TxTypes /\ WordTypes /\ FlagTypes
    BY TypeParts DEF CecInv
  <1>2. /\ hw = "sending" /\ hw' = "idle" /\ irq_tx' = o
        /\ UNCHANGED <<SMCECTaskstate, app_fifo, owed, isr_fifo, tx, retrans, pc, lost>>
        /\ Still
    BY DEF HwOutcome, Still, task, conf, kept
  <1>3. o # NoMsg
    BY DEF Failures, NoMsg
  <1>4. FifoTypes' /\ TxTypes'
    BY <1>1, <1>2 DEF FifoTypes, TxTypes
  <1>5. ControlInv'
    BY <1>2 DEF CecInv, ControlInv, Still
  <1>6. OutcomeInv'
    BY <1>2, <1>3 DEF CecInv, OutcomeInv, OnItsWay, Still
  <1>7. WaitInv'
    BY <1>2 DEF CecInv, WaitInv, Current, Still
  <1>8. QED
    BY <1>1, <1>2, <1>4, <1>5, <1>6, <1>7, CommandKeeps DEF WordTypes, FlagTypes

\* A message comes in, is read by the SoC, or the SoC gives an order.
LEMMA OutsideKeeps ==
  ASSUME CecInv,
         \/ \E m \in Traffic : HwReceive(m)
         \/ \E b \in BOOLEAN : SocInfo(b) \/ SocHdmi(b)
         \/ SocReceives
  PROVE  CecInv'
  <1>1. FifoTypes /\ TxTypes /\ WordTypes /\ FlagTypes
    BY TypeParts DEF CecInv
  <1>2. /\ UNCHANGED <<SMCECTaskstate, app_fifo, owed, isr_fifo, tx, retrans, pc, hw, irq_tx, lost,
                       bCECTaskExit, gie, power, flow_asked, wakeup_msg, woken>>
    BY DEF HwReceive, SocInfo, SocHdmi, SocReceives, task, irqs, conf, kept
  <1>3. irq_rx' \in Received \cup {NoMsg}
    BY <1>1, TrafficAssumption DEF WordTypes, HwReceive, SocInfo, SocHdmi, SocReceives, irqs, Received
  <1>4. alloc' \in BOOLEAN /\ hdmi' \in BOOLEAN /\ (power = "enabling" => alloc' = alloc)
    <2>1. alloc \in BOOLEAN /\ hdmi \in BOOLEAN
      BY <1>1 DEF FlagTypes
    <2>2. CASE (\E m \in Traffic : HwReceive(m)) \/ SocReceives
      BY <2>1, <2>2 DEF HwReceive, SocReceives, conf
    <2>3. CASE \E b \in BOOLEAN : SocInfo(b) \/ SocHdmi(b)
      BY <2>1, <2>3 DEF SocInfo, SocHdmi
    <2>4. QED  BY <2>2, <2>3
  <1>5. FifoTypes' /\ TxTypes'
    BY <1>1, <1>2 DEF FifoTypes, TxTypes
  <1>6. WordTypes'
    BY <1>1, <1>2, <1>3 DEF WordTypes
  <1>7. FlagTypes'
    BY <1>1, <1>2, <1>4, Zenon DEF FlagTypes
  <1>8. ControlInv'
    BY <1>2, <1>4 DEF CecInv, ControlInv
  <1>9. OutcomeInv' /\ FreshInv'
    BY <1>2 DEF CecInv, OutcomeInv, OnItsWay, FreshInv, WakeupMsgFresh
  <1>10. WaitInv'
    BY <1>2 DEF CecInv, WaitInv, Current
  <1>11. QED  BY <1>5, <1>6, <1>7, <1>8, <1>9, <1>10, AllParts

\* The interrupt handler moves a latched outcome into the ISR fifo, once.
LEMMA HandlerKeeps == ASSUME CecInv, cec_isr PROVE CecInv'
  <1> DEFINE mid == TxStored(isr_fifo)
             out == IF irq_tx = "done" THEN "TX_DONE" ELSE "TX_FAILED"
             in  == IF irq_tx = "busy" THEN "ignored" ELSE irq_rx
  <1>1. FifoTypes /\ TxTypes /\ WordTypes /\ FlagTypes
    BY TypeParts DEF CecInv
  <1>2. /\ isr_fifo' = RxStored(mid) /\ irq_tx' = NoMsg /\ irq_rx' = NoMsg
        /\ lost' = (lost \/ (SMCECTaskstate = "SENDING" /\ irq_tx # NoMsg /\ Full(isr_fifo)))
        /\ tx' = IF irq_tx = NoMsg \/ SMCECTaskstate # "SENDING" THEN tx
                 ELSE [tx EXCEPT !.status = IF irq_tx = "done" THEN NoMsg ELSE irq_tx]
        /\ UNCHANGED <<bCECTaskExit, SMCECTaskstate, app_fifo, retrans, pc, owed, gie, hw, power,
                       flow_asked, alloc, hdmi, wakeup_msg, woken>>
    BY DEF cec_isr, task, conf, kept
  <1>3. isr_fifo \in Seq(Events) /\ Len(isr_fifo) < FifoLen /\ out \in Events /\ out \in Results
    BY <1>1 DEF FifoTypes, Events, Results
  <1>4. irq_rx # NoMsg => in \in Events /\ in \notin Results
    BY <1>1 DEF WordTypes, Events, Received, Results
  <1>5. mid = IF irq_tx = NoMsg THEN isr_fifo ELSE Write(isr_fifo, out)
    BY DEF TxStored
  <1>6. RxStored(mid) = IF irq_rx = NoMsg THEN mid ELSE Write(mid, in)
    BY DEF RxStored
  <1> HIDE DEF mid, out, in
  <1>7. /\ mid \in Seq(Events) /\ Len(mid) < FifoLen
        /\ irq_tx # NoMsg /\ ~Full(isr_fifo) /\ None(isr_fifo, Results) => Sole(mid, Results)
    BY <1>3, <1>5, AddEntry, AddMarks
  <1>8. /\ isr_fifo' \in Seq(Events) /\ Len(isr_fifo') < FifoLen
        /\ None(mid, Results) => None(isr_fifo', Results)
        /\ Sole(mid, Results) => Sole(isr_fifo', Results)
    <2>1. CASE irq_rx = NoMsg
      BY <1>2, <1>6, <1>7, <2>1
    <2>2. CASE irq_rx # NoMsg
      BY <1>2, <1>4, <1>6, <1>7, <2>2, AddEntry, AddMarks
    <2>3. QED  BY <2>1, <2>2
  <1>9. FifoTypes'
    BY <1>1, <1>2, <1>8 DEF FifoTypes
  <1>10. TxTypes' /\ tx'.id = tx.id
    <2>1. (IF irq_tx = "done" THEN NoMsg ELSE irq_tx) \in Failures \cup {NoMsg}
      BY <1>1 DEF WordTypes
    <2>2. QED  BY <1>1, <1>2, <2>1 DEF TxTypes, WordTypes
  <1>11. WordTypes'
    BY <1>1, <1>2 DEF WordTypes
  <1>12. FlagTypes'
    BY <1>1, <1>2, Zenon DEF FlagTypes
  <1>13. ControlInv'
    BY <1>2, <1>10 DEF CecInv, ControlInv
  <1>14. OutcomeInv'
    <2> SUFFICES ASSUME power = "standby", ~lost' PROVE
          /\ SMCECTaskstate = "LISTENING" => /\ hw = "idle" /\ None(app_fifo, Fails)
                                             /\ pc = "app" => None(isr_fifo', Results)
          /\ SMCECTaskstate = "SENDING" => OnItsWay'
      BY <1>2 DEF OutcomeInv
    <2>1. ~lost /\ (SMCECTaskstate = "SENDING" /\ irq_tx # NoMsg => ~Full(isr_fifo))
      BY <1>2
    <2>2. CASE SMCECTaskstate = "LISTENING"
      BY <1>5, <1>8, <2>1, <2>2 DEF CecInv, OutcomeInv
    <2>3. CASE SMCECTaskstate = "SENDING"
      <3>1. OnItsWay
        BY <2>1, <2>3 DEF CecInv, OutcomeInv
      <3>2. CASE irq_tx = NoMsg
        <4>1. mid = isr_fifo
          BY <1>5, <3>2
        <4>2. UNCHANGED <<hw, app_fifo>> /\ irq_tx' = NoMsg
          BY <1>2
        <4>3. QED  BY <1>8, <2>3, <3>1, <3>2, <4>1, <4>2 DEF OnItsWay
      <3>3. CASE irq_tx # NoMsg
        BY <1>2, <1>7, <1>8, <2>1, <2>3, <3>1, <3>3 DEF OnItsWay
      <3>4. QED  BY <2>3, <3>2, <3>3
    <2>4. QED  BY <2>2, <2>3
  <1>15. WaitInv' /\ FreshInv'
    BY <1>2, <1>10 DEF CecInv, WaitInv, Current, FreshInv, WakeupMsgFresh
  <1>16. QED  BY <1>9, <1>10, <1>11, <1>12, <1>13, <1>14, <1>15, AllParts

-----------------------------------------------------------------------------
(* The power flows.                                                        *)

LEMMA EnableIrqKeeps == ASSUME CecInv, EnableIrq PROVE CecInv'
  <1>1. FifoTypes /\ TxTypes /\ WordTypes /\ FlagTypes
    BY TypeParts DEF CecInv
  <1>2. /\ power = "active" /\ pc = "top" /\ bCECTaskExit /\ SMCECTaskstate = "IDLE" /\ hw = "idle"
        /\ power' = "enabling" /\ woken' = FALSE
        /\ isr_fifo' = <<>> /\ app_fifo' = <<>> /\ owed' = {} /\ lost' = FALSE
        /\ UNCHANGED <<tx, retrans, pc, hw, irq_tx, irq_rx, flow_asked, alloc, hdmi, wakeup_msg>>
        /\ \/ alloc /\ bCECTaskExit' = FALSE /\ SMCECTaskstate' = "LISTENING" /\ gie' = TRUE
           \/ ~alloc /\ UNCHANGED <<bCECTaskExit, SMCECTaskstate, gie>>
    BY DEF EnableIrq, clear_fifos, CecInv, ControlInv, irqs, conf
  <1>3. FifoTypes'
    <2>1. <<>> \in Seq(Events) /\ <<>> \in Seq(Entries) /\ Len(<<>>) < FifoLen
      BY FifoAssumption
    <2>2. QED  BY <1>2, <2>1 DEF FifoTypes
  <1>4. TxTypes' /\ WordTypes'
    BY <1>1, <1>2 DEF TxTypes, WordTypes
  <1>5. FlagTypes'
    BY <1>1, <1>2, Zenon DEF FlagTypes
  <1>6. ControlInv'
    BY <1>2 DEF ControlInv
  <1>7. OutcomeInv' /\ WaitInv' /\ FreshInv'
    BY <1>2 DEF OutcomeInv, WaitInv, FreshInv, WakeupMsgFresh
  <1>8. QED  BY <1>3, <1>4, <1>5, <1>6, <1>7, AllParts

\* The first message of a standby finds an empty fifo.
LEMMA EnableResetKeeps == ASSUME CecInv, EnableReset PROVE CecInv'
  <1>1. FifoTypes /\ TxTypes /\ WordTypes /\ FlagTypes
    BY TypeParts DEF CecInv
  <1>2. /\ power = "enabling" /\ pc = "top" /\ app_fifo = <<>> /\ owed = {} /\ hw = "idle"
        /\ SMCECTaskstate # "SENDING" /\ (alloc \/ bCECTaskExit) /\ ~woken
        /\ power' = "standby" /\ wakeup_msg' = NoMsg
        /\ UNCHANGED <<bCECTaskExit, SMCECTaskstate, retrans, pc, isr_fifo, tx, gie, flow_asked,
                       alloc, hdmi, woken, lost>>
        /\ \/ alloc /\ hw' = "idle" /\ irq_tx' = NoMsg /\ irq_rx' = NoMsg
           \/ ~alloc /\ UNCHANGED <<hw, irq_tx, irq_rx>>
    BY DEF EnableReset, CecInv, ControlInv, FreshInv, irqs, conf
  <1>3. Holds(app_fifo, owed, {})
    BY <1>2 DEF Holds, Has
  <1>4. app_fifo \in Seq(Entries) /\ Len(app_fifo) < FifoLen /\ Len(app_fifo) = 0
    BY <1>1, <1>2 DEF FifoTypes
  <1>5. ~Full(app_fifo)
    BY <1>4, FifoAssumption DEF Full
  <1>6. NewId \in Ids /\ NewId \notin owed
    <2>1. {} \in SUBSET {tx.id}
      OBVIOUS
    <2>2. QED  BY <1>3, <1>4, <1>5, <2>1, FreshId
  <1>7. app_fifo' = Append(app_fifo, TxMsg(NewId)) /\ owed' = owed \cup {NewId}
    BY <1>5 DEF EnableReset, srv_tx_msg
  <1>8. /\ TxMsg(NewId) \in Entries /\ TxMsg(NewId).cmd = "TX_MSG" /\ TxMsg(NewId).id = NewId
        /\ TxMsg(NewId) \notin Fails
    BY <1>6 DEF TxMsg, Entries, Fails
  <1>9. None(app_fifo, Fails)
    BY <1>2 DEF None
  <1>10. /\ app_fifo' \in Seq(Entries) /\ Len(app_fifo') < FifoLen /\ owed' \subseteq Ids
         /\ Holds(app_fifo', owed', {}) /\ None(app_fifo', Fails)
    BY <1>2, <1>3, <1>4, <1>5, <1>6, <1>7, <1>8, <1>9, AddEntry, AddMarks, AddHolds
  <1>11. FifoTypes' /\ TxTypes'
    BY <1>1, <1>2, <1>10 DEF FifoTypes, TxTypes
  <1>12. WordTypes'
    BY <1>1, <1>2 DEF WordTypes
  <1>13. FlagTypes'
    BY <1>1, <1>2, Zenon DEF FlagTypes
  <1>14. ControlInv'
    BY <1>2 DEF CecInv, ControlInv
  <1>15. OutcomeInv'
    BY <1>2, <1>10 DEF CecInv, ControlInv, OutcomeInv
  <1>16. WaitInv' /\ FreshInv'
    BY <1>2, <1>10 DEF WaitInv, Current, FreshInv, WakeupMsgFresh
  <1>17. QED  BY <1>11, <1>12, <1>13, <1>14, <1>15, <1>16, AllParts

LEMMA DisableKeeps == ASSUME CecInv, DisableClear \/ DisableOff PROVE CecInv'
  <1>1. FifoTypes /\ TxTypes /\ WordTypes /\ FlagTypes
    BY TypeParts DEF CecInv
  <1>2. /\ UNCHANGED <<pc, irq_tx, irq_rx, alloc, hdmi, wakeup_msg, woken>>
        /\ pc = "top" /\ power \in {"standby", "disabling"} /\ power' \in {"disabling", "active"}
    BY DEF DisableClear, DisableOff, CecInv, ControlInv, irqs, conf, kept
  <1>3. FifoTypes'
    <2>1. <<>> \in Seq(Events) /\ <<>> \in Seq(Entries) /\ Len(<<>>) < FifoLen
      BY FifoAssumption
    <2>2. CASE DisableClear
      BY <2>1, <2>2 DEF DisableClear, clear_fifos, FifoTypes
    <2>3. CASE DisableOff
      BY <1>1, <2>3 DEF DisableOff, FifoTypes
    <2>4. QED  BY <2>2, <2>3
  <1>4. TxTypes' /\ hw' \in {"idle", "sending"} /\ SMCECTaskstate' \in {"IDLE", "LISTENING", "SENDING"}
    <2>1. IdleTx \in [id : Ids \cup {0}, status : Failures \cup {NoMsg}, late : BOOLEAN]
      BY DEF IdleTx, NoMsg
    <2>2. 0 \in 0 .. MaxRetrans
      BY RetransAssumption
    <2>3. QED  BY <1>1, <2>1, <2>2 DEF DisableClear, DisableOff, TxTypes, WordTypes
  <1>5. WordTypes'
    BY <1>1, <1>2, <1>4 DEF WordTypes
  <1>6. bCECTaskExit' \in BOOLEAN /\ gie' \in BOOLEAN /\ flow_asked' \in BOOLEAN /\ lost' \in BOOLEAN
    BY <1>1, Zenon DEF DisableClear, DisableOff, FlagTypes, clear_fifos
  <1>7. FlagTypes'
    BY <1>1, <1>2, <1>6, Zenon DEF FlagTypes
  <1>8. ControlInv'
    BY <1>2 DEF CecInv, ControlInv, DisableClear, DisableOff
  <1>9. OutcomeInv' /\ WaitInv' /\ FreshInv'
    BY <1>2 DEF CecInv, OutcomeInv, WaitInv, FreshInv, WakeupMsgFresh
  <1>10. QED  BY <1>3, <1>4, <1>5, <1>7, <1>8, <1>9, AllParts

LEMMA CecStep == CecInv /\ [Next]_vars => CecInv'
  <1> SUFFICES ASSUME CecInv, [Next]_vars PROVE CecInv'
    OBVIOUS
  <1>1. ASSUME UNCHANGED vars PROVE CecInv'
    <2>1. FifoTypes /\ TxTypes /\ WordTypes /\ FlagTypes
      BY TypeParts DEF CecInv
    <2>2. /\ UNCHANGED <<bCECTaskExit, SMCECTaskstate, isr_fifo, app_fifo, tx, retrans, pc, gie, hw,
                         irq_tx, irq_rx, power, flow_asked, alloc, hdmi, wakeup_msg, owed, lost, woken>>
      BY <1>1 DEF vars, task, irqs, conf, kept
    <2>3. FifoTypes' /\ TxTypes' /\ WordTypes'
      BY <2>1, <2>2 DEF FifoTypes, TxTypes, WordTypes
    <2>4. FlagTypes'
      BY <2>1, <2>2, Zenon DEF FlagTypes
    <2>5. ControlInv' /\ FreshInv'
      BY <2>2 DEF CecInv, ControlInv, FreshInv, WakeupMsgFresh
    <2>6. OutcomeInv' /\ WaitInv'
      BY <2>2 DEF CecInv, OutcomeInv, OnItsWay, WaitInv, Current
    <2>7. QED  BY <2>3, <2>4, <2>5, <2>6, AllParts
  <1>2. ASSUME cec_task PROVE CecInv'
    BY <1>2, IsrKeeps, AppKeeps, IsrEmptyKeeps, CountKeeps DEF cec_task
  <1>3. QED
    BY <1>1, <1>2, AgeKeeps, HwOutcomeKeeps, OutsideKeeps, HandlerKeeps, EnableIrqKeeps,
       EnableResetKeeps, DisableKeeps DEF Next

LEMMA CecInvariant == Spec => []CecInv
  BY CecInit, CecStep, PTL DEF Spec

-----------------------------------------------------------------------------
(* The theorems.                                                           *)

\* Whatever arrives on the bus and whenever the handler runs, no fifo of CEC
\* is ever written beyond its length and every variable keeps its range.
THEOREM CecTypes == Spec => []TypeOK
  <1>1. CecInv => TypeOK
    BY DEF CecInv
  <1>2. QED  BY <1>1, CecInvariant, PTL

\* The message the SoC reads after a wake-up is of the standby that ended.
THEOREM WakeupFresh == Spec => []WakeupMsgFresh
  <1>1. CecInv => WakeupMsgFresh
    BY DEF CecInv, FreshInv
  <1>2. QED  BY <1>1, CecInvariant, PTL

\* One entry of a fifo, or none, counted.
LEMMA CountMarks ==
  ASSUME NEW q, NEW M
  PROVE  /\ None(q, M) => Cardinality({n \in DOMAIN q : q[n] \in M}) = 0
         /\ Sole(q, M) => Cardinality({n \in DOMAIN q : q[n] \in M}) = 1
  <1>1. ASSUME None(q, M) PROVE {n \in DOMAIN q : q[n] \in M} = {}
    BY <1>1 DEF None
  <1>2. ASSUME Sole(q, M) PROVE \E n : {i \in DOMAIN q : q[i] \in M} = {n}
    <2>1. PICK n \in DOMAIN q : q[n] \in M /\ \A i \in DOMAIN q : q[i] \in M => i = n
      BY <1>2 DEF Sole
    <2>2. {i \in DOMAIN q : q[i] \in M} = {n}
      BY <2>1
    <2>3. QED  BY <2>2
  <1>3. QED  BY <1>1, <1>2, FS_EmptySet, FS_Singleton

\* For fifos of any length and any traffic: while a message is being sent there
\* is exactly one outcome on its way to the task, unless it was dropped.
THEOREM OneOutcomeOnly == Spec => []OneOutcome
  <1>1. ASSUME CecInv PROVE OneOutcome
    <2> SUFFICES ASSUME SMCECTaskstate = "SENDING", power = "standby", ~lost PROVE Outcomes = 1
      BY DEF OneOutcome
    <2>1. OnItsWay
      BY <1>1 DEF CecInv, OutcomeInv
    <2>2. {n \in DOMAIN app_fifo : app_fifo[n].cmd = "TX_FAILED"}
             = {n \in DOMAIN app_fifo : app_fifo[n] \in Fails}
      <3>1. FifoTypes
        BY <1>1, TypeParts DEF CecInv
      <3>2. \A n \in DOMAIN app_fifo : app_fifo[n] \in Entries
        BY <3>1 DEF FifoTypes
      <3>3. QED  BY <3>2 DEF Fails
    <2> DEFINE I == Cardinality({n \in DOMAIN isr_fifo : isr_fifo[n] \in Results})
               A == Cardinality({n \in DOMAIN app_fifo : app_fifo[n] \in Fails})
    <2>3. /\ None(isr_fifo, Results) => I = 0
          /\ Sole(isr_fifo, Results) => I = 1
          /\ None(app_fifo, Fails) => A = 0
          /\ Sole(app_fifo, Fails) => A = 1
      BY CountMarks
    <2>4. Outcomes = (IF hw = "sending" THEN 1 ELSE 0) + (IF irq_tx # NoMsg THEN 1 ELSE 0) + I + A
      BY <2>2 DEF Outcomes, Results
    <2> HIDE DEF I, A
    <2>5. QED  BY <2>1, <2>3, <2>4 DEF OnItsWay
  <1>2. QED  BY <1>1, CecInvariant, PTL

\* For fifos of any length: what has been taken for sending is waiting once or
\* is the one being sent.
THEOREM NoMessageForgotten == Spec => []NoneForgotten
  <1>1. ASSUME CecInv PROVE NoneForgotten
    <2> SUFFICES ASSUME power = "standby"
                 PROVE  /\ owed = {app_fifo[n].id : n \in Waiting} \cup Current
                        /\ Cardinality(owed) = Cardinality(Waiting)
                                               + (IF SMCECTaskstate = "SENDING" THEN 1 ELSE 0)
      BY DEF NoneForgotten, Current
    <2> DEFINE ids == {app_fifo[n].id : n \in Waiting}
    <2>1. Holds(app_fifo, owed, Current)
      BY <1>1 DEF CecInv, WaitInv
    <2>2. \A id : id \in ids <=> Has(app_fifo, id)
      BY DEF Has, Waiting
    <2>3. owed = ids \cup Current
      <3> HIDE DEF ids
      <3>1. QED  BY <2>1, <2>2 DEF Holds
    <2>4. IsFiniteSet(Waiting)
      <3>1. FifoTypes
        BY <1>1, TypeParts DEF CecInv
      <3>2. DOMAIN app_fifo = 1 .. Len(app_fifo) /\ Len(app_fifo) \in Nat
        BY <3>1 DEF FifoTypes
      <3>3. IsFiniteSet(DOMAIN app_fifo)
        BY <3>2, FS_Interval
      <3>4. QED  BY <3>3, FS_Subset DEF Waiting
    <2>5. IsFiniteSet(ids) /\ Cardinality(ids) = Cardinality(Waiting)
      <3> DEFINE f == [n \in Waiting |-> app_fifo[n].id]
      <3>1. \A n, m \in Waiting : app_fifo[n].id = app_fifo[m].id => n = m
        BY <2>1 DEF Holds, Waiting
      <3>2. f \in Bijection(Waiting, ids)
        BY <3>1 DEF Bijection, Injection, Surjection, IsInjective
      <3> HIDE DEF f, ids
      <3>3. QED  BY <2>4, <3>2, FS_Bijection DEF ExistsBijection
    <2> HIDE DEF ids
    <2>6. CASE SMCECTaskstate = "SENDING"
      <3>1. Current = {tx.id} /\ tx.id \notin ids
        BY <2>1, <2>2, <2>6 DEF Holds, Current
      <3>2. Cardinality(ids \cup {tx.id}) = Cardinality(ids) + 1
        BY <2>5, <3>1, FS_AddElement
      <3>3. QED  BY <2>3, <2>5, <2>6, <3>1, <3>2 DEF ids
    <2>7. CASE SMCECTaskstate # "SENDING"
      <3>1. owed = ids /\ Cardinality(ids) \in Nat
        BY <2>3, <2>5, <2>7, FS_CardinalityType DEF Current
      <3>2. Cardinality(ids) + 0 = Cardinality(ids)
        BY <3>1
      <3>3. QED  BY <2>3, <2>5, <2>7, <3>1, <3>2, Zenon DEF ids
    <2>8. QED  BY <2>6, <2>7
  <1>2. QED  BY <1>1, CecInvariant, PTL
=============================================================================
