-------------------------------- MODULE SmCec --------------------------------
(***************************************************************************)
(* The CEC driver and service of the system manager (sm_cec.c, cec_srv.c,  *)
(* built for a BOX).  While the system is in standby the SM answers the    *)
(* CEC bus; at other times the SoC does.  Three parties share the state:   *)
(*   - the interrupt handler, which may run between any two steps of a     *)
(*     task while the CEC interrupt is enabled;                            *)
(*   - the CEC task, which takes one command per tick;                     *)
(*   - the power flows, which switch CEC on and off from another task.     *)
(* The scheduler is cooperative, so one task never runs in the middle of   *)
(* another.  An outgoing message is a number, a received one is told by    *)
(* what the service does with it; a failed reception, too, makes an entry  *)
(* that the task drops.                                                    *)
(***************************************************************************)
EXTENDS Integers, FiniteSets, Sequences

CONSTANTS FifoLen,      \* CEC_FIFO_LENGTH: a fifo holds one entry less
          MaxRetrans,   \* MAX_RETRANS_TIME
          Traffic       \* the kinds of message other devices send

ASSUME FifoAssumption == FifoLen \in Nat \ {0, 1}
ASSUME RetransAssumption == MaxRetrans \in Nat
ASSUME TrafficAssumption == Traffic \subseteq {"reply", "wake", "ignored"}

Ids      == 1 .. FifoLen        \* one for each place a message can be in
Received == {"reply", "wake", "ignored"}
IdleTx   == [id |-> 0, status |-> "none", late |-> FALSE]
Failures == {"busy", "sft", "nack"}
NoMsg    == "none"

VARIABLES
  bCECTaskExit, SMCECTaskstate,
  isr_fifo, app_fifo,     \* stCec_Isr_Fifo, stCec_App_Fifo
  tx,                     \* ucCec_tx_data: [id, status, late]; late: CEC_TX_TIMEOUT is over
  retrans,                \* ucCec_retrans_time, up to MaxRetrans; like tx it is read
                          \* only in SENDING, and has no value in other states
  pc,                     \* where the CEC task is
  gie,                    \* the CEC interrupt is enabled
  hw, irq_tx, irq_rx,     \* the transmitter, and the causes that are latched
  power,                  \* the power flows, as far as CEC sees them
  flow_asked,             \* enterflow_bysmstate was called
  alloc, hdmi,            \* a logical address is allocated; HDMI control is not off
  wakeup_msg,             \* what is kept for the SoC
  owed,                   \* messages taken for sending and not yet done with
  lost,                   \* the outcome of a transmission found no room
  woken                   \* a message has asked for a wake-up in this standby

task == <<bCECTaskExit, SMCECTaskstate, app_fifo, retrans, pc, owed>>
irqs == <<irq_tx, irq_rx>>
conf == <<alloc, hdmi>>
kept == <<wakeup_msg, woken>>
vars == <<task, isr_fifo, tx, gie, hw, irqs, power, flow_asked, conf, kept, lost>>

Init ==
  /\ bCECTaskExit = TRUE /\ SMCECTaskstate = "IDLE"
  /\ isr_fifo = <<>> /\ app_fifo = <<>>
  /\ tx = IdleTx /\ retrans = 0
  /\ pc = "top" /\ gie = FALSE
  /\ hw = "idle" /\ irq_tx = NoMsg /\ irq_rx = NoMsg
  /\ power = "active" /\ flow_asked = FALSE
  /\ alloc = TRUE /\ hdmi = TRUE
  /\ wakeup_msg = NoMsg
  /\ owed = {} /\ lost = FALSE /\ woken = FALSE

-----------------------------------------------------------------------------
(* The fifos: a full one takes nothing, and no caller looks at the result. *)

Full(fifo) == Len(fifo) = FifoLen - 1

\* Mutant: the room is not checked.
Write_NoCheck(fifo, e) == Append(fifo, e)

Write(fifo, e) == IF Full(fifo) THEN fifo ELSE Append(fifo, e)

TxMsg(id) == [cmd |-> "TX_MSG", id |-> id]
TxFailed  == [cmd |-> "TX_FAILED", id |-> tx.id]

\* sm_cec_srv_tx_msg into what is left of the app fifo.
NewId == CHOOSE id \in Ids : id \notin owed
srv_tx_msg(fifo) ==
  /\ app_fifo' = IF Full(fifo) THEN fifo ELSE Append(fifo, TxMsg(NewId))
  /\ owed' = IF Full(fifo) THEN owed ELSE owed \cup {NewId}

-----------------------------------------------------------------------------
(* The hardware.                                                           *)

HwOutcome(o) ==
  /\ hw = "sending"
  /\ hw' = "idle" /\ irq_tx' = o
  /\ UNCHANGED <<task, isr_fifo, tx, gie, irq_rx, power, flow_asked, conf, kept, lost>>

HwReceive(m) ==
  /\ irq_rx = NoMsg
  /\ irq_rx' = m
  /\ UNCHANGED <<task, isr_fifo, tx, gie, hw, irq_tx, power, flow_asked, conf, kept, lost>>

-----------------------------------------------------------------------------
(* sm_cec_isr: at most one entry for the transmitter and one for the        *)
(* receiver, in this order.                                                 *)

TxStored(fifo) ==
  IF irq_tx = NoMsg THEN fifo ELSE Write(fifo, IF irq_tx = "done" THEN "TX_DONE" ELSE "TX_FAILED")

\* After a collision the receive fifo is reset before it is read.
RxStored(fifo) ==
  IF irq_rx = NoMsg THEN fifo ELSE Write(fifo, IF irq_tx = "busy" THEN "ignored" ELSE irq_rx)

cec_isr ==
  /\ gie
  /\ irq_tx # NoMsg \/ irq_rx # NoMsg
  /\ isr_fifo' = RxStored(TxStored(isr_fifo))
  /\ lost' = (lost \/ (SMCECTaskstate = "SENDING" /\ irq_tx # NoMsg /\ Full(isr_fifo)))
  /\ tx' = IF irq_tx = NoMsg \/ SMCECTaskstate # "SENDING" THEN tx
           ELSE [tx EXCEPT !.status = IF irq_tx = "done" THEN NoMsg ELSE irq_tx]
  /\ irq_tx' = NoMsg /\ irq_rx' = NoMsg
  /\ UNCHANGED <<task, gie, hw, power, flow_asked, conf, kept>>

-----------------------------------------------------------------------------
(* MV_SM_CEC_SRV_RX_MSG_BOX.  app is the app fifo without the command that *)
(* is handled.                                                             *)

\* Mutant: what comes while a message is sent is not looked at.
rx_msg_OnlyListening(m, app) ==
  /\ IF m = "reply" /\ hdmi THEN srv_tx_msg(app) ELSE app_fifo' = app /\ UNCHANGED owed
  /\ IF m = "wake" /\ hdmi /\ power = "standby" /\ SMCECTaskstate = "LISTENING"
       THEN /\ wakeup_msg' = m /\ woken' = TRUE
            /\ flow_asked' = TRUE
       ELSE UNCHANGED <<kept, flow_asked>>
  /\ UNCHANGED <<bCECTaskExit, SMCECTaskstate, tx, retrans, hw, irq_tx, lost>>
  /\ pc' = "top"

\* A reply, a wake-up, or nothing; with HDMI control off always nothing.
rx_msg(m, app) ==
  /\ IF m = "reply" /\ hdmi THEN srv_tx_msg(app) ELSE app_fifo' = app /\ UNCHANGED owed
  /\ IF m = "wake" /\ hdmi /\ power = "standby"
       THEN /\ wakeup_msg' = m /\ woken' = TRUE
            /\ flow_asked' = TRUE
       ELSE UNCHANGED <<kept, flow_asked>>
  /\ UNCHANGED <<bCECTaskExit, SMCECTaskstate, tx, retrans, hw, irq_tx, lost>>
  /\ pc' = "top"

\* cec_hw_transmit enables the transmit causes anew, which drops a latched one.
hw_transmit == hw' = "sending" /\ irq_tx' = NoMsg

\* A message is taken for sending.  A busy line is a failure like any other.
start(id, app) ==
  /\ retrans' = 0
  /\ \/ /\ tx' = [id |-> id, status |-> NoMsg, late |-> FALSE]
        /\ hw_transmit
        /\ app_fifo' = app
     \/ /\ tx' = [id |-> id, status |-> "busy", late |-> FALSE]
        /\ app_fifo' = Write(app, [cmd |-> "TX_FAILED", id |-> id])
        /\ UNCHANGED <<hw, irq_tx>>
  /\ SMCECTaskstate' = "SENDING"
  /\ pc' = "top"
  /\ UNCHANGED <<bCECTaskExit, owed, flow_asked, kept, lost>>

\* The message is sent, or given up.
finish(app) ==
  /\ app_fifo' = app
  /\ owed' = owed \ {tx.id}
  /\ SMCECTaskstate' = "LISTENING"
  /\ tx' = IdleTx /\ retrans' = 0
  /\ pc' = "top"
  /\ UNCHANGED <<bCECTaskExit, hw, irq_tx, flow_asked, kept, lost>>

\* Mutant: a transmission is repeated for ever.
retry_Always == TRUE

\* A message that is late is repeated whatever the count says.
retry == retrans < MaxRetrans \/ tx.late

\* The count comes after the transmission, from the status as it is then.
again(app) ==
  /\ retry
  /\ \/ /\ hw_transmit
        /\ app_fifo' = app
        /\ UNCHANGED lost
     \/ /\ app_fifo' = Write(app, TxFailed)
        /\ lost' = (lost \/ Full(app))
        /\ UNCHANGED <<hw, irq_tx>>
  /\ pc' = "count"
  /\ UNCHANGED <<bCECTaskExit, SMCECTaskstate, tx, retrans, owed, flow_asked, kept>>

\* Anything else is dropped, or waits for the transmission under way.
ignore(app) ==
  /\ app_fifo' = app
  /\ pc' = "top"
  /\ UNCHANGED <<bCECTaskExit, SMCECTaskstate, tx, retrans, hw, irq_tx, owed, flow_asked,
                 kept, lost>>

\* Mutant: a message that comes while another is sent is dropped.
handle_NoRequeue(cmd, id, app) ==
  \/ cmd \in Received /\ rx_msg(cmd, app)
  \/ /\ SMCECTaskstate = "LISTENING"
     /\ \/ cmd = "TX_MSG" /\ start(id, app)
        \/ cmd \in {"TX_DONE", "TX_FAILED"} /\ ignore(app)
  \/ /\ SMCECTaskstate = "SENDING"
     /\ \/ cmd = "TX_DONE" /\ finish(app)
        \/ cmd = "TX_FAILED" /\ (again(app) \/ (~retry /\ finish(app)))
        \/ cmd = "TX_MSG" /\ ignore(app)

handle(cmd, id, app) ==
  \/ cmd \in Received /\ rx_msg(cmd, app)
  \/ /\ SMCECTaskstate = "LISTENING"
     /\ \/ cmd = "TX_MSG" /\ start(id, app)
        \/ cmd \in {"TX_DONE", "TX_FAILED"} /\ ignore(app)
  \/ /\ SMCECTaskstate = "SENDING"
     /\ \/ cmd = "TX_DONE" /\ finish(app)
        \/ cmd = "TX_FAILED" /\ (again(app) \/ (~retry /\ finish(app)))
        \/ cmd = "TX_MSG" /\ ignore(Write(app, TxMsg(id)))

-----------------------------------------------------------------------------
(* sm_cec_task: the ISR fifo first; the handler may run between the looks  *)
(* at the two fifos, and between a transmission and its count.             *)

TaskIsr ==
  /\ pc = "top" /\ ~bCECTaskExit /\ power \in {"active", "standby"}
  /\ isr_fifo # <<>>
  /\ isr_fifo' = Tail(isr_fifo)
  /\ handle(Head(isr_fifo), tx.id, app_fifo)
  /\ UNCHANGED <<gie, irq_rx, power, conf>>

\* Mutant: the app fifo is read although there is an entry in the other.
TaskIsrEmpty_NotLooked ==
  /\ pc = "top" /\ ~bCECTaskExit /\ power \in {"active", "standby"}
  /\ app_fifo # <<>>
  /\ pc' = "app"
  /\ UNCHANGED <<bCECTaskExit, SMCECTaskstate, app_fifo, retrans, owed, isr_fifo, tx, gie, hw,
                 irqs, power, flow_asked, conf, kept, lost>>

TaskIsrEmpty ==
  /\ pc = "top" /\ ~bCECTaskExit /\ power \in {"active", "standby"}
  /\ isr_fifo = <<>> /\ app_fifo # <<>>
  /\ pc' = "app"
  /\ UNCHANGED <<bCECTaskExit, SMCECTaskstate, app_fifo, retrans, owed, isr_fifo, tx, gie, hw,
                 irqs, power, flow_asked, conf, kept, lost>>

TaskApp ==
  /\ pc = "app"
  /\ handle(Head(app_fifo).cmd, Head(app_fifo).id, Tail(app_fifo))
  /\ UNCHANGED <<isr_fifo, gie, irq_rx, power, conf>>

\* Waiting for the line to be free is not counted.
TaskCount ==
  /\ pc = "count"
  /\ pc' = "top"
  /\ retrans' = IF tx.status = "sft" \/ retrans = MaxRetrans THEN retrans ELSE retrans + 1
  /\ UNCHANGED <<bCECTaskExit, SMCECTaskstate, app_fifo, owed, isr_fifo, tx, gie, hw, irqs,
                 power, flow_asked, conf, kept, lost>>

\* CEC_TX_TIMEOUT passes.
Age ==
  /\ SMCECTaskstate = "SENDING" /\ ~tx.late
  /\ tx' = [tx EXCEPT !.late = TRUE]
  /\ UNCHANGED <<task, isr_fifo, gie, hw, irqs, power, flow_asked, conf, kept, lost>>

-----------------------------------------------------------------------------
(* sm_cec_enable, called when a flow leaves for standby and when a flow    *)
(* back is entered.  The handler may run in the middle of each.            *)

clear_fifos == isr_fifo' = <<>> /\ app_fifo' = <<>> /\ owed' = {} /\ lost' = FALSE

\* With no logical address nothing is switched on.
EnableIrq ==
  /\ power = "active" /\ pc = "top"
  /\ power' = "enabling"
  /\ clear_fifos
  /\ IF alloc THEN /\ bCECTaskExit' = FALSE /\ SMCECTaskstate' = "LISTENING" /\ gie' = TRUE
              ELSE UNCHANGED <<bCECTaskExit, SMCECTaskstate, gie>>
  /\ woken' = FALSE
  /\ UNCHANGED <<tx, retrans, pc, hw, irqs, flow_asked, conf, wakeup_msg>>

\* Mutant: the message of an earlier standby is kept.
EnableReset_KeepMsg ==
  /\ power = "enabling"
  /\ power' = "standby"
  /\ IF alloc THEN hw' = "idle" /\ irq_tx' = NoMsg /\ irq_rx' = NoMsg
              ELSE UNCHANGED <<hw, irqs>>
  /\ srv_tx_msg(app_fifo)
  /\ UNCHANGED <<bCECTaskExit, SMCECTaskstate, retrans, pc, isr_fifo, tx, gie, flow_asked,
                 conf, kept, lost>>

\* cec_hw_reset; then the power status is reported.
EnableReset ==
  /\ power = "enabling"
  /\ power' = "standby"
  /\ IF alloc THEN hw' = "idle" /\ irq_tx' = NoMsg /\ irq_rx' = NoMsg
              ELSE UNCHANGED <<hw, irqs>>
  /\ wakeup_msg' = NoMsg
  /\ srv_tx_msg(app_fifo)
  /\ UNCHANGED <<bCECTaskExit, SMCECTaskstate, retrans, pc, isr_fifo, tx, gie, flow_asked,
                 conf, woken, lost>>

\* A flow back is entered, asked for by CEC or by another source.
DisableClear ==
  /\ power = "standby" /\ pc = "top"
  /\ power' = "disabling" /\ flow_asked' = FALSE
  /\ clear_fifos
  /\ UNCHANGED <<bCECTaskExit, SMCECTaskstate, retrans, pc, tx, gie, hw, irqs, conf, kept>>

DisableOff ==
  /\ power = "disabling"
  /\ power' = "active"
  /\ bCECTaskExit' = TRUE /\ SMCECTaskstate' = "IDLE" /\ gie' = FALSE /\ hw' = "idle"
  /\ tx' = IdleTx /\ retrans' = 0
  /\ UNCHANGED <<isr_fifo, app_fifo, owed, pc, irqs, flow_asked, conf, kept, lost>>

-----------------------------------------------------------------------------
(* sm_process_cec_msg: what the SoC asks for while it runs, and the SoC's  *)
(* own use of the hardware.                                                *)

SocInfo(a) ==
  /\ power = "active"
  /\ alloc' = a
  /\ UNCHANGED <<task, isr_fifo, tx, gie, hw, irqs, power, flow_asked, hdmi, kept, lost>>

SocHdmi(h) ==
  /\ power = "active"
  /\ hdmi' = h
  /\ UNCHANGED <<task, isr_fifo, tx, gie, hw, irqs, power, flow_asked, alloc, kept, lost>>

SocReceives ==
  /\ power = "active" /\ irq_rx # NoMsg
  /\ irq_rx' = NoMsg
  /\ UNCHANGED <<task, isr_fifo, tx, gie, hw, irq_tx, power, flow_asked, conf, kept, lost>>

-----------------------------------------------------------------------------
cec_task == TaskIsr \/ TaskIsrEmpty \/ TaskApp \/ TaskCount

Next ==
  \/ cec_task \/ Age
  \/ \E o \in Failures \cup {"done"} : HwOutcome(o)
  \/ \E m \in Traffic : HwReceive(m)
  \/ cec_isr
  \/ EnableIrq \/ EnableReset \/ DisableClear \/ DisableOff
  \/ \E b \in BOOLEAN : SocInfo(b) \/ SocHdmi(b)
  \/ SocReceives

\* The task runs every tick, often enough to come when the ISR fifo is empty if
\* it is empty again and again (a message takes many ticks); the handler runs
\* whenever a cause is latched; a transmission has an outcome; a flow that was
\* asked for is entered when the CEC task has given up the processor.
Fairness ==
  /\ WF_vars(cec_task) /\ SF_vars(TaskIsrEmpty)
  /\ WF_vars(cec_isr)
  /\ WF_vars(\E o \in Failures \cup {"done"} : HwOutcome(o))
  /\ WF_vars(EnableReset) /\ WF_vars(DisableOff)
  /\ SF_vars(flow_asked /\ DisableClear)

Spec == Init /\ [][Next]_vars /\ Fairness

-----------------------------------------------------------------------------
TypeOK ==
  /\ bCECTaskExit \in BOOLEAN /\ SMCECTaskstate \in {"IDLE", "LISTENING", "SENDING"}
  /\ isr_fifo \in Seq(Received \cup {"TX_DONE", "TX_FAILED"}) /\ Len(isr_fifo) < FifoLen
  /\ app_fifo \in Seq([cmd : {"TX_MSG", "TX_FAILED"}, id : Ids]) /\ Len(app_fifo) < FifoLen
  /\ tx \in [id : Ids \cup {0}, status : Failures \cup {NoMsg}, late : BOOLEAN]
  /\ retrans \in 0 .. MaxRetrans
  /\ pc \in {"top", "app", "count"} /\ gie \in BOOLEAN
  /\ hw \in {"idle", "sending"} /\ irq_tx \in Failures \cup {"done", NoMsg}
  /\ irq_rx \in Received \cup {NoMsg}
  /\ power \in {"active", "enabling", "standby", "disabling"}
  /\ flow_asked \in BOOLEAN /\ alloc \in BOOLEAN /\ hdmi \in BOOLEAN
  /\ lost \in BOOLEAN /\ woken \in BOOLEAN
  /\ wakeup_msg \in Received \cup {NoMsg}
  /\ owed \subseteq Ids

\* Where the outcome of the message that is being sent may be.
Outcomes ==
  (IF hw = "sending" THEN 1 ELSE 0) + (IF irq_tx # NoMsg THEN 1 ELSE 0)
  + Cardinality({n \in DOMAIN isr_fifo : isr_fifo[n] \in {"TX_DONE", "TX_FAILED"}})
  + Cardinality({n \in DOMAIN app_fifo : app_fifo[n].cmd = "TX_FAILED"})

\* While a message is being sent exactly one outcome is on its way to the
\* task, unless it was dropped: no outcome of an earlier message, or of an
\* earlier standby, is taken for this one, and the task is not left waiting.
OneOutcome ==
  (SMCECTaskstate = "SENDING" /\ power = "standby" /\ ~lost) => Outcomes = 1

\* A message the app fifo has taken is in the fifo once, or is the one being
\* sent, until it is sent, given up or cleared with the fifos, although it may
\* change its place many times while another is sent.
Waiting == {n \in DOMAIN app_fifo : app_fifo[n].cmd = "TX_MSG"}
NoneForgotten ==
  power = "standby" =>
    /\ owed = {app_fifo[n].id : n \in Waiting}
              \cup (IF SMCECTaskstate = "SENDING" THEN {tx.id} ELSE {})
    /\ Cardinality(owed) = Cardinality(Waiting)
                           + (IF SMCECTaskstate = "SENDING" THEN 1 ELSE 0)

\* What the SoC reads as the message that woke it is of the standby that has
\* just ended, and is there if there was one.
WakeupMsgFresh == power \in {"standby", "disabling", "active"} => (woken <=> wakeup_msg # NoMsg)

\* A transmission comes to an end: done, given up after MaxRetrans failures, or
\* cut off with standby.  Not so if its outcome was dropped, or once it is late,
\* or if the bus never calms: the ISR fifo is not empty again, or there is no
\* end of failures for want of signal free time, which are not counted.  A line
\* found busy after such a failure is not counted either.
BusCalms == []<>(isr_fifo = <<>>) /\ <>[](tx.status # "sft")
SendingEnds ==
  BusCalms =>
  ((SMCECTaskstate = "SENDING") ~> (SMCECTaskstate # "SENDING" \/ lost \/ tx.late))

\* A wake-up message that the handler has queued wakes the system, whatever is
\* being sent, even if no outcome will ever come.
WakeHeard ==
  (power = "standby" /\ hdmi /\ \E n \in DOMAIN isr_fifo : isr_fifo[n] = "wake")
     ~> (power # "standby")
=============================================================================
