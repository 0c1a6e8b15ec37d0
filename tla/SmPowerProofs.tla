---------------------------- MODULE SmPowerProofs ----------------------------
(***************************************************************************)
(* Proofs about the power management of the SM: its flows never wedge, the *)
(* state of the SM is what the SoC is doing, and the power of a SoC that   *)
(* suspends is cut only once its memory is safe.                           *)
(***************************************************************************)
EXTENDS SmPower, SequenceTheorems, TLAPS

Flows    == DownFlows \cup UpFlows \cup {"SYSRESET_2_ACTIVE"}
Statuses == {"ENTERFLOW", "ASSERT", "DEASSERT", "POWERON", "POWEROK", "POWEROFF",
             "WAITRSP", "LEAVEFLOW"}

\* NeverWedged is not inductive: wakeup_timer enters the flow that belongs to the
\* state in every state but ACTIVE, so it matters that the states of a
\* transition last no longer than their flow; and a reset, which leaves
\* the state alone, must find the state of a system that is up or in standby.
FlowInv ==
  /\ \/ flow = "IDLE" /\ status = "INVALID"
     \/ flow \in Flows /\ status \in Statuses
  /\ state \in Standby \cup DownFlows \cup {"ACTIVE", "STANDBY_2_ACTIVE"}
  /\ state \in DownFlows => flow \in DownFlows
  /\ state = "STANDBY_2_ACTIVE" => flow \in UpFlows

fs == <<flow, status, state>>

\* A flow that is entered between flows, or refused, keeps the invariant.
LEMMA EnterFlow ==
  ASSUME FlowInv, NEW f \in Flows, enterflow(f), UNCHANGED state
  PROVE  FlowInv'
  BY DEF FlowInv, enterflow, Flows, Statuses, flowVars, DownFlows, UpFlows, Standby

\* So does the flow back, in a state between flows other than ACTIVE.
LEMMA EnterFlowByState ==
  ASSUME FlowInv, state # "ACTIVE", enterflow_bysmstate, UNCHANGED state
  PROVE  FlowInv'
  <1>1. CASE flow = "IDLE" /\ status = "INVALID"
    <2>1. state \in Standby
      BY <1>1 DEF FlowInv, DownFlows, UpFlows
    <2>2. FlowOf(state) \in Flows
      BY <2>1 DEF FlowOf, Standby, Flows, UpFlows
    <2>3. QED  BY <2>2, EnterFlow DEF enterflow_bysmstate
  <1>2. CASE ~(flow = "IDLE" /\ status = "INVALID")
    <2>1. UNCHANGED fs
      BY <1>2 DEF enterflow_bysmstate, enterflow, flowVars, fs
    <2>2. QED  BY <2>1 DEF fs, FlowInv
  <1>3. QED  BY <1>1, <1>2

\* What leaves flow, status and state alone keeps the invariant.
LEMMA FlowFrame == FlowInv /\ UNCHANGED fs => FlowInv'
  BY DEF FlowInv, fs

\* Messages of the SoC (mv_sm_process_power_msg, mv_sm_process_wdt_msg).
LEMMA MessagesKeep == FlowInv /\ process_msg => FlowInv'
  <1> SUFFICES ASSUME FlowInv, process_msg PROVE FlowInv'
    OBVIOUS
  <1> DEFINE m == Head(inq)
  <1>1. CASE \/ WatchdogStart \/ Linuxready_Active \/ setup_power_up_timer(m)
             \/ SuspendResp \/ ActiveResp \/ Ignored
    <2>1. UNCHANGED fs
      BY <1>1 DEF WatchdogStart, Linuxready_Active, setup_power_up_timer, SuspendResp,
                  ActiveResp, Ignored, flowVars, fs
    <2>2. QED  BY <2>1, FlowFrame
  <1>2. CASE Request(m)
    <2>1. UNCHANGED state
      BY <1>2 DEF Request
    <2>2. \/ UNCHANGED flowVars
          \/ \E f \in Flows : enterflow(f)
      BY <1>2 DEF Request, Flows, DownFlows, UpFlows
    <2>3. QED  BY <2>1, <2>2, EnterFlow, FlowFrame DEF flowVars, fs
  <1>3. CASE state = "SUSPEND" /\ Linuxready_Suspend
    BY <1>3, EnterFlowByState DEF Linuxready_Suspend
  <1>4. QED
    BY <1>1, <1>2, <1>3 DEF process_msg

\* The power task: a transition ends in the state it leads to.
LEMMA PowerTaskKeeps == FlowInv /\ power_task => FlowInv'
  <1> SUFFICES ASSUME FlowInv, power_task PROVE FlowInv'
    OBVIOUS
  <1> USE DEF FlowInv, Goto, Flows, Statuses
  <1>1. CASE WarmdownEnter
    BY <1>1 DEF WarmdownEnter, DownFlows, UpFlows, Standby
  <1>2. CASE WarmdownWaitRsp
    BY <1>2 DEF WarmdownWaitRsp, DownFlows, UpFlows, Standby
  <1>3. CASE WarmdownPoweroff
    BY <1>3 DEF WarmdownPoweroff, DownFlows, UpFlows, Standby
  <1>4. CASE WarmdownLeave
    BY <1>4 DEF WarmdownLeave, leaveflow, DownState, DownFlows, UpFlows, Standby
  <1>5. CASE WarmupEnter
    BY <1>5 DEF WarmupEnter, DownFlows, UpFlows, Standby
  <1>6. CASE WarmupAssert \/ Deassert \/ WarmupIrq \/ Poweron \/ Powerok \/ UpWaitRsp
    BY <1>6 DEF WarmupAssert, Deassert, WarmupIrq, Poweron, Powerok, UpWaitRsp,
                DownFlows, UpFlows, Standby
  <1>7. CASE UpLeave
    BY <1>7 DEF UpLeave, leaveflow, DownFlows, UpFlows, Standby
  <1>8. CASE SysresetEnter \/ SysresetAssert
    BY <1>8 DEF SysresetEnter, SysresetAssert, DownFlows, UpFlows, Standby
  <1>9. CASE IdleWakeup
    BY <1>9, EnterFlowByState DEF IdleWakeup, Standby
  <1>10. QED
    BY <1>1, <1>2, <1>3, <1>4, <1>5, <1>6, <1>7, <1>8, <1>9 DEF power_task

\* Wake-up sources, the timer, the over-heat check and the watchdog.
LEMMA SourcesKeep ==
  ASSUME FlowInv,
         \/ \E source \in Sources : Wake(source)
         \/ uart_wake_task \/ wol_isr \/ geth_isr
         \/ sm_wifibt_isr \/ wifibt_wake_task \/ sm_wifibt_timer_isr
         \/ wakeup_timer \/ OverHeat \/ wdt_1_isr
  PROVE  FlowInv'
  <1>1. CASE (\E source \in Sources : Wake(source)) \/ uart_wake_task \/ wol_isr
    <2>1. state # "ACTIVE" /\ enterflow_bysmstate /\ UNCHANGED state
      BY <1>1 DEF Wake, uart_wake_task, wol_isr, Standby
    <2>2. QED  BY <2>1, EnterFlowByState
  <1>2. CASE geth_isr \/ sm_wifibt_isr \/ wifibt_wake_task \/ sm_wifibt_timer_isr
    BY <1>2, FlowFrame DEF geth_isr, sm_wifibt_isr, wifibt_wake_task, sm_wifibt_timer_isr,
       flowVars, fs
  <1>3. CASE wakeup_timer
    <2>1. UNCHANGED state
      BY <1>3 DEF wakeup_timer
    <2>2. CASE state = "ACTIVE"
      BY <1>3, <2>1, <2>2, FlowFrame DEF wakeup_timer, flowVars, fs
    <2>3. CASE state # "ACTIVE"
      BY <1>3, <2>1, <2>3, EnterFlowByState DEF wakeup_timer
    <2>4. QED  BY <2>2, <2>3
  <1>4. CASE OverHeat
    BY <1>4, EnterFlow DEF OverHeat, Flows, DownFlows
  <1>5. CASE wdt_1_isr
    BY <1>5, EnterFlow DEF wdt_1_isr, Flows
  <1>6. QED
    BY <1>1, <1>2, <1>3, <1>4, <1>5

\* The SoC changes nothing of the SM.
LEMMA SocKeeps ==
  ASSUME FlowInv,
         SocBootResp \/ SocLinuxready \/ SocRequest \/ SocSuspend \/ SocSelfWake
  PROVE  FlowInv'
  <1>1. UNCHANGED fs
    BY DEF SocBootResp, SocLinuxready, SocRequest, SocSuspend, SocSelfWake, sm, flowVars, fs
  <1>2. QED  BY <1>1, FlowFrame

\* Every step keeps the invariant.
LEMMA FlowStep == FlowInv /\ [Next]_vars => FlowInv'
  <1>1. FlowInv /\ Next => FlowInv'
    BY MessagesKeep, PowerTaskKeeps, SourcesKeep, SocKeeps DEF Next
  <1>2. QED  BY <1>1, FlowFrame DEF vars, fs

LEMMA FlowInit == Init => FlowInv
  BY DEF Init, FlowInv, Flows, DownFlows, UpFlows, Standby

\* No flow is in progress exactly when no status is: mv_sm_power_enterflow_bysmstate,
\* which in a state it does not support enters the flow IDLE that nothing
\* leaves, is never called between flows in such a state.
THEOREM FlowsNeverWedge == Spec => []NeverWedged
  <1>1. FlowInv => NeverWedged
    BY DEF FlowInv, NeverWedged, Flows, DownFlows, UpFlows, Statuses
  <1>2. QED
    BY <1>1, FlowInit, FlowStep, PTL DEF Spec

-----------------------------------------------------------------------------
(* Types.  The suspend type is taken from a message, so the invariant says  *)
(* which messages carry a time.                                            *)

ArgInv == \A i \in DOMAIN inq : inq[i].arg \in {"zero", "seconds"} => inq[i].type = WARMUP_TIME

\* Taking the oldest message of a queue, and adding one.
LEMMA TailFacts ==
  ASSUME NEW q \in Seq(Message), q # <<>>
  PROVE  /\ Len(q) \in Nat \ {0} /\ 1 \in DOMAIN q
         /\ Head(q) = q[1] /\ q[1] \in Message
         /\ Tail(q) \in Seq(Message) /\ Len(Tail(q)) = Len(q) - 1
         /\ DOMAIN Tail(q) = 1 .. Len(q) - 1
         /\ \A i \in DOMAIN Tail(q) : i + 1 \in DOMAIN q /\ Tail(q)[i] = q[i + 1]
         /\ Len(q) = 1 => Tail(q) = <<>>
  <1>1. /\ Len(q) \in Nat \ {0} /\ DOMAIN q = 1 .. Len(q)
        /\ Head(q) = q[1] /\ q[1] \in Message
        /\ Tail(q) \in Seq(Message) /\ Len(Tail(q)) = Len(q) - 1
    BY EmptySeq, LenProperties, HeadTailProperties
  <1>2. \A i \in 1 .. Len(q) - 1 : Tail(q)[i] = q[i + 1]
    OBVIOUS
  <1>3. DOMAIN Tail(q) = 1 .. Len(q) - 1
    BY <1>1
  <1>4. Len(q) = 1 => Tail(q) = <<>>
    <2>1. \A r \in Seq(Message) : r # <<>> => Len(r) \in Nat \ {0}
      BY EmptySeq
    <2>2. Len(q) = 1 => Len(Tail(q)) = 0 /\ Tail(q) \in Seq(Message)
      BY <1>1
    <2>3. QED  BY <2>1, <2>2, Zenon
  <1>5. QED  BY <1>1, <1>2, <1>3, <1>4

LEMMA AppendFacts ==
  ASSUME NEW q \in Seq(Message), NEW m \in Message
  PROVE  /\ Len(q) \in Nat
         /\ Append(q, m) \in Seq(Message) /\ Len(Append(q, m)) = Len(q) + 1
         /\ Append(q, m) # <<>>
         /\ DOMAIN Append(q, m) = 1 .. Len(q) + 1 /\ DOMAIN q = 1 .. Len(q)
         /\ \A i \in DOMAIN q : Append(q, m)[i] = q[i]
         /\ Append(q, m)[Len(q) + 1] = m
  OBVIOUS

\* Every message the SoC sends is one.
LEMMA MessageTypes ==
  /\ \A t \in {1, 2, 6, 7, 16, 17, 18, 30, 160, 255} : Msg(t) \in Message /\ Msg(t).arg = "none"
  /\ \A t \in {1, 2, 6, 7, 16, 17, 18, 30, 160, 255} : Msg(t).type = t
  /\ \A a \in {"none", "WFI", "PWROFF", "zero", "seconds"}, t \in {2, 12} :
       MsgArg(t, a) \in Message /\ MsgArg(t, a).type = t /\ MsgArg(t, a).arg = a
  BY DEF Msg, MsgArg, Message

\* What is sent is appended.
LEMMA SendTypes ==
  ASSUME TypeOK, ArgInv, NEW m \in Message, Send(m),
         m.arg \in {"zero", "seconds"} => m.type = WARMUP_TIME
  PROVE  inq' \in Seq(Message) /\ Len(inq') <= MaxQueue /\ ArgInv'
  <1>1. inq \in Seq(Message) /\ inq' = Append(inq, m) /\ Len(inq) < MaxQueue
    BY DEF TypeOK, Send
  <1>2. inq' \in Seq(Message) /\ Len(inq') <= MaxQueue
    BY <1>1, AppendFacts, QueueAssumption
  <1>3. ArgInv'
    BY <1>1, AppendFacts DEF ArgInv
  <1>4. QED  BY <1>2, <1>3

\* The types of what enterflow assigns.
FlowTypes ==
  /\ flow \in DownFlows \cup UpFlows \cup {"SYSRESET_2_ACTIVE", "IDLE"}
  /\ status \in {"INVALID", "ENTERFLOW", "ASSERT", "DEASSERT", "POWERON", "POWEROK",
                 "POWEROFF", "WAITRSP", "LEAVEFLOW"}
  /\ is_linux_ready \in BOOLEAN

LEMMA EnterTypes ==
  ASSUME FlowTypes, NEW f \in DownFlows \cup UpFlows \cup {"SYSRESET_2_ACTIVE", "IDLE"}, enterflow(f)
  PROVE  FlowTypes'
  BY DEF FlowTypes, enterflow, flowVars

LEMMA EnterBackTypes ==
  ASSUME FlowTypes, enterflow_bysmstate
  PROVE  FlowTypes'
  <1>1. FlowOf(state) \in DownFlows \cup UpFlows \cup {"SYSRESET_2_ACTIVE", "IDLE"}
    BY DEF FlowOf, DownFlows, UpFlows
  <1>2. QED  BY <1>1, EnterTypes DEF enterflow_bysmstate

\* The statuses of a flow, and its end.
LEMMA StatusTypes ==
  ASSUME FlowTypes,
         NEW x \in {"ASSERT", "DEASSERT", "POWERON", "POWEROK", "POWEROFF", "WAITRSP", "LEAVEFLOW"},
         Goto(x) \/ leaveflow
  PROVE  FlowTypes'
  BY DEF FlowTypes, Goto, leaveflow

\* The types of the other words that the firmware assigns, strings and flags.
WordTypes ==
  /\ state \in Standby \cup DownFlows \cup {"ACTIVE", "STANDBY_2_ACTIVE"}
  /\ boot_flag \in {"POWERON", "SUSPEND_REQUEST", "ACTIVE_2_SUSPEND",
                    "ACTIVE_2_NORMALSTANDBY", "SUSPEND_2_ACTIVE",
                    "LOWPOWERSTANDBY_2_ACTIVE", "SYSRESET_2_ACTIVE"}
  /\ wakeup_source \in {"INVALID", "IR", "BUTTON", "CEC", "WOL", "WIFI", "BT", "TIMER"}
  /\ soc \in {"boot", "kernel", "linux", "down", "susp_PWROFF", "susp_WFI", "slept",
              "wfi", "off"}
FlagTypes ==
  /\ is_get_rsp \in BOOLEAN
  /\ is_wakeup \in BOOLEAN /\ geth_wakeup \in BOOLEAN /\ wol \in BOOLEAN
  /\ wifibt_sem \in BOOLEAN /\ wifibt_timer \in BOOLEAN
  /\ wmup_timer_enable \in BOOLEAN /\ is_appwdt_enable \in BOOLEAN /\ wdt_1 \in BOOLEAN

LEMMA TypeParts == TypeOK <=> /\ FlowTypes /\ WordTypes /\ FlagTypes
                              /\ standby_type \in {"LOWPOWER", "NORMAL"}
                              /\ suspend_type \in {"WFI", "PWROFF", "none"}
                              /\ inq \in Seq(Message) /\ Len(inq) <= MaxQueue
  BY DEF TypeOK, FlowTypes, WordTypes, FlagTypes

\* The power task assigns constants.
LEMMA PowerTaskWords ==
  ASSUME FlowTypes, WordTypes, power_task
  PROVE  FlowTypes' /\ WordTypes' /\ UNCHANGED <<types, inq>>
  <1> USE DEF WordTypes, types, others
  <1>1. CASE WarmdownEnter
    <2>1. FlowTypes'
      BY <1>1, StatusTypes DEF WarmdownEnter
    <2>2. state' \in DownFlows
      BY <1>1 DEF WarmdownEnter
    <2>3. QED  BY <1>1, <2>1, <2>2 DEF WarmdownEnter
  <1>2. CASE WarmdownWaitRsp \/ WarmdownPoweroff
    BY <1>2, StatusTypes DEF WarmdownWaitRsp, WarmdownPoweroff
  <1>3. CASE WarmdownLeave
    <2>1. DownState \in Standby
      BY <1>3 DEF WarmdownLeave, DownState, DownFlows, Standby
    <2>2. FlowTypes'
      BY <1>3, StatusTypes DEF WarmdownLeave
    <2>3. QED  BY <1>3, <2>1, <2>2 DEF WarmdownLeave
  <1>4. CASE WarmupEnter
    BY <1>4, StatusTypes DEF WarmupEnter
  <1>5. CASE WarmupAssert \/ Deassert \/ WarmupIrq \/ Poweron \/ Powerok
    BY <1>5, StatusTypes DEF WarmupAssert, Deassert, WarmupIrq, Poweron, Powerok
  <1>6. CASE UpWaitRsp
    BY <1>6, StatusTypes DEF UpWaitRsp
  <1>7. CASE UpLeave
    BY <1>7, StatusTypes DEF UpLeave
  <1>8. CASE SysresetEnter \/ SysresetAssert
    BY <1>8, StatusTypes DEF SysresetEnter, SysresetAssert
  <1>9. CASE IdleWakeup
    BY <1>9, EnterBackTypes DEF IdleWakeup
  <1>10. QED
    BY <1>1, <1>2, <1>3, <1>4, <1>5, <1>6, <1>7, <1>8, <1>9 DEF power_task

LEMMA PowerTaskFlags ==
  ASSUME FlagTypes, power_task
  PROVE  FlagTypes'
  <1> USE DEF FlagTypes, latches, wifibt, wdt, others
  <1>1. CASE WarmdownEnter \/ WarmdownWaitRsp \/ WarmdownPoweroff \/ WarmdownLeave
    <2>1. wol' \in BOOLEAN
      BY <1>1, Zenon DEF WarmdownEnter, WarmdownWaitRsp, WarmdownPoweroff, WarmdownLeave
    <2>2. QED
      BY <1>1, <2>1, Zenon DEF WarmdownEnter, WarmdownWaitRsp, WarmdownPoweroff, WarmdownLeave
  <1>2. CASE \/ WarmupEnter \/ WarmupAssert \/ Deassert \/ WarmupIrq \/ Poweron \/ Powerok
             \/ UpWaitRsp
    BY <1>2, Zenon DEF WarmupEnter, WarmupAssert, Deassert, WarmupIrq, Poweron, Powerok, UpWaitRsp
  <1>3. CASE UpLeave
    BY <1>3 DEF UpLeave
  <1>4. CASE SysresetEnter \/ SysresetAssert \/ IdleWakeup
    BY <1>4, Zenon DEF SysresetEnter, SysresetAssert, IdleWakeup
  <1>5. QED
    BY <1>1, <1>2, <1>3, <1>4 DEF power_task

\* So do the wake-up sources, the timer, the over-heat check and the watchdog.
SourceSteps ==
  \/ \E source \in Sources : Wake(source)
  \/ uart_wake_task \/ wol_isr \/ geth_isr
  \/ sm_wifibt_isr \/ wifibt_wake_task \/ sm_wifibt_timer_isr
  \/ wakeup_timer \/ OverHeat \/ wdt_1_isr

LEMMA SourceWords ==
  ASSUME FlowTypes, WordTypes, SourceSteps
  PROVE  FlowTypes' /\ WordTypes' /\ UNCHANGED <<types, inq>>
  <1> USE DEF WordTypes, types
  <1>0. UNCHANGED flowVars => FlowTypes'
    BY DEF FlowTypes, flowVars
  <1>1. CASE \E source \in Sources : Wake(source)
    BY <1>1, EnterBackTypes, BuildAssumption DEF Wake
  <1>2. CASE uart_wake_task
    BY <1>2, EnterBackTypes DEF uart_wake_task
  <1>3. CASE wol_isr
    BY <1>3, EnterBackTypes DEF wol_isr
  <1>4. CASE geth_isr \/ sm_wifibt_isr \/ wifibt_wake_task \/ sm_wifibt_timer_isr
    BY <1>0, <1>4 DEF geth_isr, sm_wifibt_isr, wifibt_wake_task, sm_wifibt_timer_isr
  <1>5. CASE wakeup_timer
    BY <1>0, <1>5, EnterBackTypes DEF wakeup_timer
  <1>6. CASE OverHeat
    BY <1>6, EnterTypes DEF OverHeat, DownFlows
  <1>7. CASE wdt_1_isr
    BY <1>7, EnterTypes DEF wdt_1_isr
  <1>8. QED
    BY <1>1, <1>2, <1>3, <1>4, <1>5, <1>6, <1>7 DEF SourceSteps

LEMMA SourceFlags ==
  ASSUME FlagTypes, SourceSteps
  PROVE  FlagTypes'
  <1> USE DEF FlagTypes, latches, wifibt, wdt
  <1>1. CASE (\E source \in Sources : Wake(source)) \/ uart_wake_task
    BY <1>1, Zenon DEF Wake, uart_wake_task
  <1>2. CASE wol_isr
    <2>1. wol' \in BOOLEAN
      BY <1>2, Zenon DEF wol_isr
    <2>2. QED  BY <1>2, <2>1, Zenon DEF wol_isr
  <1>3. CASE geth_isr \/ wakeup_timer \/ sm_wifibt_isr
    BY <1>3, Zenon DEF geth_isr, wakeup_timer, sm_wifibt_isr
  <1>4. CASE wifibt_wake_task \/ sm_wifibt_timer_isr
    <2>1. wifibt_timer' \in BOOLEAN /\ is_wakeup' \in BOOLEAN
      BY <1>4, Zenon DEF wifibt_wake_task, sm_wifibt_timer_isr
    <2>2. QED  BY <1>4, <2>1, Zenon DEF wifibt_wake_task, sm_wifibt_timer_isr
  <1>5. CASE OverHeat \/ wdt_1_isr
    BY <1>5, Zenon DEF OverHeat, wdt_1_isr
  <1>6. QED
    BY <1>1, <1>2, <1>3, <1>4, <1>5 DEF SourceSteps

LEMMA FirmwareTypes ==
  ASSUME TypeOK, ArgInv, power_task \/ SourceSteps
  PROVE  TypeOK' /\ ArgInv'
  <1>1. FlowTypes' /\ WordTypes' /\ FlagTypes' /\ UNCHANGED <<types, inq>>
    BY TypeParts, PowerTaskWords, PowerTaskFlags, SourceWords, SourceFlags
  <1>2. TypeOK'
    BY <1>1, TypeParts DEF TypeOK, types, FlowTypes, WordTypes, FlagTypes
  <1>3. QED  BY <1>1, <1>2 DEF ArgInv

\* A message of the SoC is taken out of the queue and handled.
LEMMA MessageStepTypes == TypeOK /\ ArgInv /\ process_msg => TypeOK' /\ ArgInv'
  <1> SUFFICES ASSUME TypeOK, ArgInv, process_msg PROVE TypeOK' /\ ArgInv'
    OBVIOUS
  <1> DEFINE m == Head(inq)
  <1>1. /\ inq \in Seq(Message) /\ inq # <<>> /\ inq' = Tail(inq) /\ Len(inq) <= MaxQueue
    BY DEF TypeOK, process_msg
  <1>2. /\ m \in Message /\ (m.arg \in {"zero", "seconds"} => m.type = WARMUP_TIME)
        /\ inq' \in Seq(Message) /\ Len(inq') <= MaxQueue /\ ArgInv'
    BY <1>1, TailFacts, QueueAssumption DEF ArgInv
  <1> HIDE DEF m
  <1>3. FlowTypes /\ WordTypes /\ FlagTypes
    BY TypeParts
  <1>4. FlagTypes'
    <2> USE <1>3 DEF FlagTypes, latches, wifibt, wdt
    <2>1. CASE WatchdogStart \/ SuspendResp \/ ActiveResp \/ Ignored \/ Linuxready_Active
      BY <2>1, Zenon DEF WatchdogStart, SuspendResp, ActiveResp, Ignored, Linuxready_Active
    <2>2. CASE setup_power_up_timer(m)
      BY <2>2 DEF setup_power_up_timer
    <2>3. CASE Request(m) \/ Linuxready_Suspend
      BY <2>3, Zenon DEF Request, Linuxready_Suspend
    <2>4. QED
      BY <2>1, <2>2, <2>3 DEF process_msg, m
  <1>5. /\ FlowTypes' /\ WordTypes'
        /\ standby_type' \in {"LOWPOWER", "NORMAL"} /\ suspend_type' \in {"WFI", "PWROFF", "none"}
    <2> USE <1>3 DEF WordTypes, types
    <2>0. /\ UNCHANGED flowVars => FlowTypes'
          /\ UNCHANGED types => /\ standby_type' \in {"LOWPOWER", "NORMAL"}
                                /\ suspend_type' \in {"WFI", "PWROFF", "none"}
      BY DEF FlowTypes, flowVars, TypeOK
    <2>1. CASE WatchdogStart \/ SuspendResp \/ ActiveResp \/ Ignored
      BY <2>0, <2>1 DEF WatchdogStart, SuspendResp, ActiveResp, Ignored
    <2>2. CASE Linuxready_Active
      <3>1. FlowTypes'
        BY <2>2, Zenon DEF Linuxready_Active, FlowTypes
      <3>2. QED  BY <2>0, <2>2, <3>1 DEF Linuxready_Active
    <2>3. CASE setup_power_up_timer(m)
      BY <2>0, <2>3 DEF setup_power_up_timer
    <2>4. CASE Request(m)
      <3>1. suspend_type' \in {"WFI", "PWROFF", "none"}
        BY <1>2, <2>4 DEF Request, Message, SUSPEND_REQUEST, WARMUP_TIME, TypeOK
      <3>2. standby_type' \in {"LOWPOWER", "NORMAL"}
        BY <2>4 DEF Request, TypeOK
      <3>3. \/ UNCHANGED flowVars
            \/ \E f \in DownFlows \cup {"SYSRESET_2_ACTIVE"} : enterflow(f)
        BY <2>4 DEF Request, DownFlows
      <3>4. FlowTypes'
        BY <2>0, <3>3, EnterTypes
      <3>5. QED  BY <2>4, <3>1, <3>2, <3>4 DEF Request
    <2>5. CASE Linuxready_Suspend
      BY <2>0, <2>5, EnterBackTypes DEF Linuxready_Suspend
    <2>6. QED
      BY <2>1, <2>2, <2>3, <2>4, <2>5 DEF process_msg, m
  <1>6. QED
    BY <1>2, <1>4, <1>5, TypeParts DEF TypeOK, FlowTypes, WordTypes, FlagTypes

\* The SoC sends, and changes what it is doing.
LEMMA SocTypes ==
  ASSUME TypeOK, ArgInv,
         SocBootResp \/ SocLinuxready \/ SocRequest \/ SocSuspend \/ SocSelfWake
  PROVE  TypeOK' /\ ArgInv'
  <1>1. UNCHANGED sm /\ soc' \in {"boot", "kernel", "linux", "down", "susp_PWROFF", "susp_WFI",
                                  "slept", "wfi", "off"}
    BY DEF TypeOK, SocBootResp, SocLinuxready, SocRequest, SocSuspend, SocSelfWake
  <1>2. \/ UNCHANGED inq
        \/ \E x \in Message : /\ Send(x)
                              /\ x.arg \in {"zero", "seconds"} => x.type = WARMUP_TIME
    <2> USE MessageTypes
    <2>1. CASE SocBootResp
      BY <2>1 DEF SocBootResp, ActiveResps, COLD_2_ACTIVE_RESP, LOWPOWERSTANDBY_2_ACTIVE_RESP,
                  NORMALSTANDBY_2_ACTIVE_RESP, SUSPEND_2_ACTIVE_RESP
    <2>2. CASE SocLinuxready
      BY <2>2 DEF SocLinuxready, Linuxready
    <2>3. CASE SocRequest
      <3>1. CASE \E a \in {"zero", "seconds"} : Send(MsgArg(WARMUP_TIME, a))
        BY <3>1 DEF WARMUP_TIME
      <3>2. CASE \E a \in {"WFI", "PWROFF"} : Send(MsgArg(SUSPEND_REQUEST, a))
        BY <3>2 DEF SUSPEND_REQUEST
      <3>3. CASE \E t \in {1, 16, 17, 18, 255} : Send(Msg(t))
        BY <3>3
      <3>4. QED
        BY <2>3, <3>1, <3>2, <3>3 DEF SocRequest, LOWPOWERSTANDBY_REQUEST, WD_APP_START,
           NORMALSTANDBY_REQUEST, STANDBY_REQUEST, SYS_RESET
    <2>4. CASE SocSuspend
      BY <2>4 DEF SocSuspend, ACTIVE_2_SUSPEND_RESP
    <2>5. CASE SocSelfWake
      BY <2>5 DEF SocSelfWake
    <2>6. QED  BY <2>1, <2>2, <2>3, <2>4, <2>5
  <1>3. inq' \in Seq(Message) /\ Len(inq') <= MaxQueue /\ ArgInv'
    <2>1. CASE UNCHANGED inq
      BY <2>1 DEF TypeOK, ArgInv
    <2>2. QED  BY <1>2, <2>1, SendTypes
  <1>4. QED
    BY <1>1, <1>3 DEF TypeOK, sm, flowVars, types, latches, wifibt, wdt

\* Every step keeps the types.
LEMMA PowerTypeStep == TypeOK /\ ArgInv /\ [Next]_vars => TypeOK' /\ ArgInv'
  <1>1. TypeOK /\ ArgInv /\ UNCHANGED vars => TypeOK' /\ ArgInv'
    BY DEF TypeOK, ArgInv, vars
  <1>2. QED
    BY <1>1, FirmwareTypes, MessageStepTypes, SocTypes DEF Next, SourceSteps

LEMMA PowerTypeInit == Init => TypeOK /\ ArgInv
  <1> SUFFICES ASSUME Init PROVE TypeOK /\ ArgInv
    OBVIOUS
  <1>1. inq \in Seq(Message) /\ Len(inq) <= MaxQueue /\ DOMAIN inq = {}
    BY QueueAssumption DEF Init
  <1>2. QED
    BY <1>1 DEF Init, TypeOK, ArgInv, DownFlows, UpFlows, Standby

\* The state of the power management keeps its types (sm_power_flow.c): the suspend
\* type, which comes out of a message of the SoC, is always one the flow knows or none.
THEOREM PowerTypes == Spec => []TypeOK
  BY PowerTypeInit, PowerTypeStep, PTL DEF Spec

-----------------------------------------------------------------------------
(* What the state of the SM says about the SoC.                            *)

\* The SoC is woken by the SM only, and the SM empties the queue of a SoC
\* without power before it powers it up again.
Orderly == ~SelfWake /\ ~Backlog

Only(T) == \A i \in DOMAIN inq : inq[i].type \in T

\* What a running Linux sends without waiting for anything.
Notes == {WARMUP_TIME, LOWPOWERSTANDBY_REQUEST, NORMALSTANDBY_REQUEST, WD_APP_START,
          Linuxready}

\* The SoC has asked for the suspend of type t.
Asked(t) == soc = IF t = "WFI" THEN "susp_WFI" ELSE "susp_PWROFF"

\* The reset flow is never left: the answer of the bootloader is handled in no
\* state the flow can be in, and none was there before.
ResetInv ==
  /\ ~is_get_rsp
  /\ status \in {"ENTERFLOW", "ASSERT", "DEASSERT", "POWERON", "POWEROK", "WAITRSP"}

\* In ACTIVE the SoC runs.  What is in the queue is of the session of Linux that
\* is still going on, and a request to suspend is the last message of it.
ActiveInv ==
  /\ flow \in {"IDLE"} \cup DownFlows /\ status \in {"INVALID", "ENTERFLOW"}
  /\ ~is_get_rsp /\ boot_flag = "POWERON"
  /\ soc \in {"kernel", "linux", "down", "susp_PWROFF", "susp_WFI"}
  /\ soc = "kernel" => Only({ACTIVE_2_SUSPEND_RESP})
  /\ soc = "linux"  => Only(Notes)
  /\ soc = "down"   => Only(Notes \cup {STANDBY_REQUEST, SYS_RESET})
  /\ soc \in {"susp_PWROFF", "susp_WFI"} => Only(Notes \cup {SUSPEND_REQUEST})
  /\ \A i \in DOMAIN inq : inq[i].type = SUSPEND_REQUEST =>
       i = Len(inq) /\ inq[i].arg \in {"WFI", "PWROFF"} /\ Asked(inq[i].arg)
  /\ flow = "ACTIVE_2_SUSPEND" => inq = <<>> /\ Asked(suspend_type)

\* On the way to standby nothing is taken for a response.
DownInv ==
  /\ flow = state /\ ~is_get_rsp
  /\ status \in {"POWEROFF", "LEAVEFLOW"}
  /\ status = "LEAVEFLOW" => soc = "off"

\* A SoC that waits for an interrupt, or is about to, has said nothing else.
WfiInv ==
  /\ soc \in {"susp_WFI", "wfi"}
  /\ Only({ACTIVE_2_SUSPEND_RESP})
  /\ soc = "susp_WFI" => inq = <<>>

\* On the way to suspend the response is that of the SoC that has just gone to
\* sleep, in the queue or in is_get_rsp.
SuspendInv ==
  /\ flow = "ACTIVE_2_SUSPEND"
  /\ suspend_type = "WFI" => status = "LEAVEFLOW" /\ WfiInv
  /\ suspend_type # "WFI" =>
       /\ status \in {"WAITRSP", "POWEROFF", "LEAVEFLOW"}
       /\ Only({ACTIVE_2_SUSPEND_RESP}) /\ Len(inq) <= 1
       /\ is_get_rsp => status = "WAITRSP"
       /\ is_get_rsp \/ inq # <<>> => soc = "slept"
       /\ is_get_rsp \/ status # "WAITRSP" => inq = <<>>
       /\ status = "WAITRSP"   => soc \in {"susp_PWROFF", "slept"}
       /\ status = "POWEROFF"  => soc = "slept"
       /\ status = "LEAVEFLOW" => soc = "off"

\* In standby the SoC has no power, or waits for an interrupt; then no watchdog
\* of an application is running.
StandbyInv ==
  /\ flow \in {"IDLE", FlowOf(state)} /\ status \in {"INVALID", "ENTERFLOW"}
  /\ IF state = "SUSPEND" /\ suspend_type = "WFI"
       THEN WfiInv /\ ~is_appwdt_enable
       ELSE soc = "off" /\ ~is_get_rsp

\* On the way up the SoC is without power until it boots, and the queue is empty
\* but for the answer of the bootloader.
UpInv ==
  /\ flow \in UpFlows
  /\ boot_flag = "SUSPEND_2_ACTIVE" <=> flow = "SUSPEND_2_ACTIVE"
  /\ IF IsWfi
       THEN /\ status \in {"ASSERT", "DEASSERT", "POWERON", "LEAVEFLOW"}
            /\ status # "LEAVEFLOW" => WfiInv
            /\ status = "LEAVEFLOW" => /\ soc = "kernel" /\ ~is_get_rsp
                                       /\ Only({ACTIVE_2_SUSPEND_RESP})
       ELSE /\ status \in {"ASSERT", "DEASSERT", "POWERON", "POWEROK", "WAITRSP", "LEAVEFLOW"}
            /\ status = "WAITRSP"   => soc = IF is_get_rsp \/ inq # <<>> THEN "kernel" ELSE "boot"
            /\ status = "LEAVEFLOW" => soc = "kernel"
            /\ status \notin {"WAITRSP", "LEAVEFLOW"} => soc = "off"
            /\ Len(inq) <= 1 /\ Only(ActiveResps)
            /\ is_get_rsp \/ status # "WAITRSP" => inq = <<>>
            /\ is_get_rsp => status = "WAITRSP"

\* The inductive invariant: a reset, or the phase that the state names.
SessionInv ==
  IF flow = "SYSRESET_2_ACTIVE" THEN ResetInv
  ELSE /\ suspend_type \in {"WFI", "PWROFF"}
       /\ state = "ACTIVE" => ActiveInv
       /\ state \in DownFlows \ {"ACTIVE_2_SUSPEND"} => DownInv
       /\ state = "ACTIVE_2_SUSPEND" => SuspendInv
       /\ state \in Standby => StandbyInv
       /\ state = "STANDBY_2_ACTIVE" => UpInv

\* Everything the invariant speaks of.
sv == <<flow, status, state, boot_flag, is_get_rsp, suspend_type, is_appwdt_enable, inq, soc>>

LEMMA SessionFrame == SessionInv /\ UNCHANGED sv => SessionInv'
  BY DEF SessionInv, sv, ResetInv, ActiveInv, DownInv, SuspendInv, StandbyInv, UpInv,
         WfiInv, IsWfi, Only, Asked

LEMMA SessionInit == Init => SessionInv
  BY DEF Init, SessionInv, ActiveInv, Only, Asked, DownFlows, Standby, Notes

\* The power task, in a flow other than the reset.
LEMMA DownKeepsSession ==
  ASSUME TypeOK, FlowInv, SessionInv,
         WarmdownEnter \/ WarmdownWaitRsp \/ WarmdownPoweroff \/ WarmdownLeave
  PROVE  SessionInv'
  <1> USE DEF FlowInv, Flows, Statuses, SessionInv, Goto, others, types, DownFlows, UpFlows, Standby
  <1>1. CASE WarmdownEnter
    <2>1. state = "ACTIVE" /\ ActiveInv
      BY <1>1 DEF WarmdownEnter, DownInv, SuspendInv, StandbyInv, UpInv, FlowOf
    <2>2. CASE flow = "ACTIVE_2_SUSPEND"
      <3>1. SuspendInv'
        BY <1>1, <2>1, <2>2 DEF WarmdownEnter, ActiveInv, SuspendInv, WfiInv, Asked, Only
      <3>2. QED  BY <1>1, <2>1, <2>2, <3>1 DEF WarmdownEnter
    <2>3. CASE flow # "ACTIVE_2_SUSPEND"
      <3>1. DownInv'
        BY <1>1, <2>1, <2>3 DEF WarmdownEnter, ActiveInv, DownInv
      <3>2. QED  BY <1>1, <2>1, <2>3, <3>1 DEF WarmdownEnter
    <2>4. QED  BY <2>2, <2>3
  <1>2. CASE WarmdownWaitRsp
    BY <1>2 DEF WarmdownWaitRsp, ActiveInv, DownInv, SuspendInv, StandbyInv, UpInv, WfiInv, Only
  <1>3. CASE WarmdownPoweroff
    BY <1>3 DEF WarmdownPoweroff, ActiveInv, DownInv, SuspendInv, StandbyInv, UpInv, WfiInv, Only
  <1>4. CASE WarmdownLeave
    BY <1>4 DEF WarmdownLeave, leaveflow, DownState, ActiveInv, DownInv, SuspendInv, StandbyInv, UpInv, WfiInv, Only
  <1>5. QED  BY <1>1, <1>2, <1>3, <1>4

LEMMA UpKeepsSession ==
  ASSUME Orderly, TypeOK, FlowInv, SessionInv, flow \in UpFlows,
         \/ WarmupEnter \/ WarmupAssert \/ Deassert \/ WarmupIrq \/ Poweron \/ Powerok
         \/ UpWaitRsp \/ UpLeave
  PROVE  SessionInv'
  <1> USE DEF FlowInv, Flows, Statuses, SessionInv, Goto, others, types, DownFlows, UpFlows, Standby
  <1>1. CASE WarmupEnter
    BY <1>1 DEF WarmupEnter, SmKeepsUp, Orderly, ActiveInv, DownInv, SuspendInv, StandbyInv, UpInv,
                WfiInv, IsWfi, FlowOf, Only
  <1>2. CASE WarmupAssert \/ Deassert
    BY <1>2 DEF WarmupAssert, Deassert, ActiveInv, DownInv, SuspendInv, StandbyInv, UpInv, WfiInv, IsWfi, Only
  <1>3. CASE WarmupIrq
    BY <1>3 DEF WarmupIrq, ActiveInv, DownInv, SuspendInv, StandbyInv, UpInv, WfiInv, IsWfi, Only
  <1>4. CASE Poweron
    BY <1>4 DEF Poweron, ActiveInv, DownInv, SuspendInv, StandbyInv, UpInv, WfiInv, IsWfi, Only
  <1>5. CASE Powerok
    BY <1>5 DEF Powerok, ActiveInv, DownInv, SuspendInv, StandbyInv, UpInv, WfiInv, IsWfi, Only
  <1>6. CASE UpWaitRsp
    BY <1>6 DEF UpWaitRsp, ActiveInv, DownInv, SuspendInv, StandbyInv, UpInv, WfiInv, IsWfi, Only
  <1>7. CASE UpLeave
    <2>1. UpInv /\ status = "LEAVEFLOW"
      BY <1>7 DEF UpLeave, ActiveInv, DownInv, SuspendInv, StandbyInv
    <2>2. soc = "kernel" /\ ~is_get_rsp /\ Only({ACTIVE_2_SUSPEND_RESP})
      BY <2>1 DEF UpInv, Only
    <2>3. /\ flow' = "IDLE" /\ status' = "INVALID" /\ state' = "ACTIVE" /\ boot_flag' = "POWERON"
          /\ UNCHANGED <<is_get_rsp, suspend_type, inq, soc>>
      BY <1>7 DEF UpLeave, leaveflow
    <2>4. ActiveInv'
      BY <2>2, <2>3 DEF ActiveInv, Only, ACTIVE_2_SUSPEND_RESP, SUSPEND_REQUEST
    <2>5. QED  BY <2>3, <2>4
  <1>8. QED  BY <1>1, <1>2, <1>3, <1>4, <1>5, <1>6, <1>7

\* The reset flow, entered in any state.
LEMMA ResetKeepsSession ==
  ASSUME SessionInv, flow = "SYSRESET_2_ACTIVE", power_task
  PROVE  SessionInv'
  <1>1. ResetInv
    BY DEF SessionInv
  <1>2. Deassert \/ Poweron \/ Powerok \/ SysresetEnter \/ SysresetAssert
    BY <1>1 DEF power_task, ResetInv, WarmdownEnter, WarmdownWaitRsp, WarmdownPoweroff, WarmdownLeave,
          WarmupEnter, WarmupAssert, WarmupIrq, UpWaitRsp, UpLeave, IdleWakeup, DownFlows, UpFlows
  <1>3. flow' = flow /\ ResetInv'
    BY <1>1, <1>2 DEF ResetInv, Deassert, Poweron, Powerok, SysresetEnter, SysresetAssert, Goto
  <1>4. QED  BY <1>3 DEF SessionInv

\* A flow is entered between flows, or refused.
LEMMA EnterSession ==
  ASSUME TypeOK, FlowInv, SessionInv,
         UNCHANGED <<state, boot_flag, is_get_rsp, suspend_type, inq, soc>>,
         is_appwdt_enable' => is_appwdt_enable,
         \/ state = "ACTIVE" /\ \E f \in DownFlows \ {"ACTIVE_2_SUSPEND"} : enterflow(f)
         \/ state # "ACTIVE" /\ enterflow_bysmstate
         \/ UNCHANGED flowVars
         \/ is_appwdt_enable /\ enterflow("SYSRESET_2_ACTIVE")
  PROVE  SessionInv'
  <1>1. CASE UNCHANGED <<flow, status>>
    BY <1>1 DEF SessionInv, ResetInv, ActiveInv, DownInv, SuspendInv, StandbyInv, UpInv,
         WfiInv, IsWfi, Only, Asked
  <1>2. CASE ~ UNCHANGED <<flow, status>>
    <2>1. flow = "IDLE" /\ status = "INVALID" /\ state \in Standby \cup {"ACTIVE"}
      BY <1>2 DEF enterflow, enterflow_bysmstate, flowVars, FlowInv, DownFlows, UpFlows, Standby
    <2>2. CASE state = "ACTIVE" /\ \E f \in DownFlows \ {"ACTIVE_2_SUSPEND"} : enterflow(f)
      <3>1. ActiveInv'
        BY <2>1, <2>2 DEF SessionInv, enterflow, ActiveInv, Only, Asked, DownFlows
      <3>2. QED  BY <2>2, <2>1, <3>1 DEF SessionInv, DownFlows, Standby, enterflow
    <2>3. CASE state # "ACTIVE" /\ enterflow_bysmstate
      <3>1. StandbyInv'
        BY <2>1, <2>3 DEF SessionInv, enterflow_bysmstate, enterflow, StandbyInv, Standby, FlowOf, WfiInv, Only
      <3>2. QED  BY <2>1, <2>3, <3>1 DEF SessionInv, DownFlows, Standby, enterflow, enterflow_bysmstate, FlowOf
    <2>4. CASE is_appwdt_enable /\ enterflow("SYSRESET_2_ACTIVE")
      <3>1. ~is_get_rsp
        BY <2>1, <2>4 DEF SessionInv, ActiveInv, StandbyInv, Standby
      <3>2. QED  BY <2>1, <2>4, <3>1 DEF enterflow, SessionInv, ResetInv
    <2>5. QED  BY <1>2, <2>2, <2>3, <2>4 DEF flowVars
  <1>3. QED  BY <1>1, <1>2

\* The wake-up sources, the timer, the over-heat check and the watchdog.
LEMMA SourcesKeepSession ==
  ASSUME TypeOK, FlowInv, SessionInv, SourceSteps \/ IdleWakeup
  PROVE  SessionInv'
  <1>1. CASE (\E source \in Sources : Wake(source)) \/ uart_wake_task \/ IdleWakeup
    BY <1>1, EnterSession DEF Wake, uart_wake_task, IdleWakeup, types, wdt, Standby
  <1>2. CASE wol_isr \/ geth_isr \/ sm_wifibt_isr \/ wifibt_wake_task \/ sm_wifibt_timer_isr
    BY <1>2, EnterSession DEF wol_isr, geth_isr, sm_wifibt_isr, wifibt_wake_task, sm_wifibt_timer_isr,
       types, wdt, Standby
  <1>3. CASE wakeup_timer
    BY <1>3, EnterSession DEF wakeup_timer, types, wdt
  <1>4. CASE OverHeat
    BY <1>4, EnterSession DEF OverHeat, types, wdt, DownFlows
  <1>5. CASE wdt_1_isr
    BY <1>5, EnterSession DEF wdt_1_isr, types
  <1>6. QED
    BY <1>1, <1>2, <1>3, <1>4, <1>5 DEF SourceSteps

LEMMA PowerTaskKeepsSession ==
  ASSUME Orderly, TypeOK, FlowInv, SessionInv, power_task
  PROVE  SessionInv'
  <1>1. CASE flow = "SYSRESET_2_ACTIVE"
    BY <1>1, ResetKeepsSession
  <1>2. CASE flow \in DownFlows
    BY <1>2, DownKeepsSession DEF power_task, WarmupEnter, WarmupAssert, Deassert, WarmupIrq, Poweron,
       Powerok, UpWaitRsp, UpLeave, SysresetEnter, SysresetAssert, IdleWakeup, DownFlows, UpFlows
  <1>3. CASE flow \in UpFlows
    BY <1>3, UpKeepsSession DEF power_task, WarmdownEnter, WarmdownWaitRsp, WarmdownPoweroff,
       WarmdownLeave, SysresetEnter, SysresetAssert, IdleWakeup, DownFlows, UpFlows
  <1>4. CASE flow = "IDLE"
    BY <1>4, SourcesKeepSession DEF power_task, WarmupEnter, WarmupAssert, Deassert, WarmupIrq, Poweron,
       Powerok, UpWaitRsp, UpLeave, SysresetEnter, SysresetAssert, WarmdownEnter, WarmdownWaitRsp,
       WarmdownPoweroff, WarmdownLeave, DownFlows, UpFlows
  <1>5. QED
    BY <1>1, <1>2, <1>3, <1>4 DEF FlowInv, Flows

\* The oldest message is taken, and what holds of all messages holds of it and
\* of the rest.
LEMMA TakeFacts ==
  ASSUME TypeOK, process_msg
  PROVE  /\ inq # <<>> /\ Head(inq) = inq[1] /\ Head(inq) \in Message
         /\ inq' \in Seq(Message) /\ 1 \in DOMAIN inq
         /\ \A i \in DOMAIN inq' : i + 1 \in DOMAIN inq /\ inq'[i] = inq[i + 1]
         /\ Len(inq) \in Nat /\ Len(inq') = Len(inq) - 1
         /\ Len(inq) <= 1 => inq' = <<>>
         /\ inq' = Tail(inq)
  <1>1. inq \in Seq(Message) /\ inq # <<>> /\ inq' = Tail(inq)
    BY DEF TypeOK, process_msg
  <1>2. QED  BY <1>1, TailFacts

\* The messages of the SoC, phase by phase.
LEMMA ActiveMessages ==
  ASSUME TypeOK, FlowInv, SessionInv, flow # "SYSRESET_2_ACTIVE", state = "ACTIVE", process_msg
  PROVE  SessionInv'
  <1> DEFINE m == Head(inq)
  <1> USE DEF STANDBY_REQUEST, SUSPEND_REQUEST, WARMUP_TIME, LOWPOWERSTANDBY_REQUEST,
              NORMALSTANDBY_REQUEST, WD_APP_START, Linuxready, ACTIVE_2_SUSPEND_RESP, SYS_RESET
  <1>1. ActiveInv /\ suspend_type \in {"WFI", "PWROFF"}
    BY DEF SessionInv
  <1>2. /\ soc = "kernel" => Only({ACTIVE_2_SUSPEND_RESP})'
        /\ soc = "linux"  => Only(Notes)'
        /\ soc = "down"   => Only(Notes \cup {STANDBY_REQUEST, SYS_RESET})'
        /\ soc \in {"susp_PWROFF", "susp_WFI"} => Only(Notes \cup {SUSPEND_REQUEST})'
    BY <1>1, TakeFacts DEF ActiveInv, Only
  <1>3. /\ \A i \in DOMAIN inq' : inq'[i].type = SUSPEND_REQUEST =>
             i = Len(inq') /\ inq'[i].arg \in {"WFI", "PWROFF"} /\ Asked(inq'[i].arg)
        /\ m.type = SUSPEND_REQUEST => /\ inq' = <<>> /\ m.arg \in {"WFI", "PWROFF"}
                                       /\ Asked(m.arg)
        /\ flow # "ACTIVE_2_SUSPEND"
    BY <1>1, TakeFacts DEF ActiveInv, Asked
  <1>4. UNCHANGED <<state, boot_flag, is_get_rsp, soc>>
    BY DEF process_msg, WatchdogStart, Linuxready_Active, setup_power_up_timer, Request,
           Handled, Ignored
  <1>5. \/ UNCHANGED <<flow, status, suspend_type>>
        \/ Request(m)
    BY DEF process_msg, WatchdogStart, Linuxready_Active, setup_power_up_timer, Handled, flowVars, types
  <1>6. CASE UNCHANGED <<flow, status, suspend_type>>
    <2>1. ActiveInv'
      BY <1>1, <1>2, <1>3, <1>4, <1>6 DEF ActiveInv, Asked
    <2>2. QED  BY <1>1, <1>4, <1>6, <2>1 DEF SessionInv, DownFlows, Standby
  <1>7. CASE Request(m) /\ m.type = SUSPEND_REQUEST
    <2>1. /\ inq' = <<>> /\ suspend_type' = m.arg /\ m.arg \in {"WFI", "PWROFF"} /\ Asked(m.arg)
          /\ enterflow("ACTIVE_2_SUSPEND")
      BY <1>3, <1>7 DEF Request
    <2>2. ActiveInv'
      BY <1>1, <1>2, <1>3, <1>4, <2>1 DEF ActiveInv, Asked, enterflow, flowVars, DownFlows, Only
    <2>3. flow' # "SYSRESET_2_ACTIVE"
      BY <2>2 DEF ActiveInv, DownFlows
    <2>4. QED  BY <1>1, <1>4, <2>1, <2>2, <2>3 DEF SessionInv, DownFlows, Standby
  <1>8. CASE Request(m) /\ m.type # SUSPEND_REQUEST
    <2>1. /\ UNCHANGED suspend_type
          /\ \/ UNCHANGED flowVars
             \/ \E f \in (DownFlows \ {"ACTIVE_2_SUSPEND"}) \cup {"SYSRESET_2_ACTIVE"} : enterflow(f)
      BY <1>8 DEF Request, DownFlows
    <2>2. CASE flow' = "SYSRESET_2_ACTIVE"
      <3>1. status' = "ENTERFLOW" /\ ~is_get_rsp'
        BY <1>1, <1>4, <2>1, <2>2 DEF ActiveInv, enterflow, flowVars
      <3>2. QED  BY <2>2, <3>1 DEF SessionInv, ResetInv
    <2>3. CASE flow' # "SYSRESET_2_ACTIVE"
      <3>1. /\ flow' \in {"IDLE"} \cup (DownFlows \ {"ACTIVE_2_SUSPEND"})
            /\ status' \in {"INVALID", "ENTERFLOW"}
        BY <1>1, <1>3, <2>1, <2>3 DEF ActiveInv, enterflow, flowVars, DownFlows
      <3>2. ActiveInv'
        BY <1>1, <1>2, <1>3, <1>4, <2>1, <3>1 DEF ActiveInv, Asked
      <3>3. QED  BY <1>1, <1>4, <2>1, <2>3, <3>2 DEF SessionInv, DownFlows, Standby
    <2>4. QED  BY <2>2, <2>3
  <1>9. QED  BY <1>5, <1>6, <1>7, <1>8

LEMMA OtherMessages ==
  ASSUME TypeOK, FlowInv, SessionInv, flow # "SYSRESET_2_ACTIVE", state # "ACTIVE", process_msg
  PROVE  SessionInv'
  <1> DEFINE m == Head(inq)
  <1> USE DEF Linuxready, WD_APP_START, ACTIVE_2_SUSPEND_RESP
  <1>1. CASE state \in DownFlows \ {"ACTIVE_2_SUSPEND"}
    <2>1. UNCHANGED <<flow, status, state, is_get_rsp, suspend_type, soc>>
      BY <1>1 DEF process_msg, WatchdogStart, Ignored, flowVars, types, DownFlows
    <2>2. DownInv'
      BY <1>1, <2>1 DEF SessionInv, DownInv
    <2>3. QED  BY <1>1, <2>1, <2>2 DEF SessionInv, DownFlows, Standby
  <1>2. CASE state = "ACTIVE_2_SUSPEND"
    <2>1. SuspendInv
      BY <1>2 DEF SessionInv, DownFlows, Standby
    <2>2. Only({ACTIVE_2_SUSPEND_RESP})
      BY <2>1 DEF SuspendInv, WfiInv
    <2>3. m.type = ACTIVE_2_SUSPEND_RESP /\ Only({ACTIVE_2_SUSPEND_RESP})'
      BY <2>2, TakeFacts DEF Only
    <2>4. SuspendResp
      BY <1>2, <2>3 DEF process_msg, Handled
    <2>5. /\ UNCHANGED <<flow, status, state, suspend_type, soc>> /\ is_get_rsp' = TRUE
      BY <2>4 DEF SuspendResp, flowVars, types
    <2>6. SuspendInv'
      <3>1. CASE suspend_type = "WFI"
        BY <2>1, <2>3, <2>5, <3>1, TakeFacts DEF SuspendInv, WfiInv
      <3>2. CASE suspend_type # "WFI"
        <4>1. status = "WAITRSP" /\ soc = "slept" /\ inq' = <<>>
          BY <2>1, <3>2, TakeFacts DEF SuspendInv
        <4>2. Len(inq') <= 1
          BY <4>1
        <4>3. QED  BY <2>1, <2>3, <2>5, <3>2, <4>1, <4>2 DEF SuspendInv
      <3>3. QED  BY <3>1, <3>2
    <2>7. QED  BY <1>2, <2>5, <2>6 DEF SessionInv, DownFlows, Standby
  <1>3. CASE state \in Standby
    <2>1. StandbyInv
      BY <1>3 DEF SessionInv
    <2>2. CASE state = "SUSPEND" /\ suspend_type = "WFI"
      <3>1. Only({ACTIVE_2_SUSPEND_RESP})
        BY <2>1, <2>2 DEF StandbyInv, WfiInv
      <3>2. m.type = ACTIVE_2_SUSPEND_RESP /\ Only({ACTIVE_2_SUSPEND_RESP})'
        BY <3>1, TakeFacts DEF Only
      <3>3. Ignored
        BY <2>2, <3>2 DEF process_msg
      <3>4. StandbyInv'
        BY <2>1, <2>2, <3>2, <3>3, TakeFacts DEF StandbyInv, WfiInv, Ignored, flowVars, types, wdt
      <3>5. QED  BY <1>3, <3>3, <3>4 DEF SessionInv, DownFlows, Standby, Ignored, flowVars, types
    <2>3. CASE ~(state = "SUSPEND" /\ suspend_type = "WFI")
      <3>1. UNCHANGED <<state, is_get_rsp, suspend_type, soc>>
        BY <1>3 DEF process_msg, WatchdogStart, Ignored, Linuxready_Suspend, types, Standby
      <3>2. \/ UNCHANGED flowVars
            \/ enterflow(FlowOf(state))
        BY <1>3 DEF process_msg, WatchdogStart, Ignored, Linuxready_Suspend, enterflow_bysmstate, Standby
      <3>3. flow' \in {"IDLE", FlowOf(state)} /\ status' \in {"INVALID", "ENTERFLOW"}
        BY <2>1, <3>2 DEF StandbyInv, enterflow, flowVars
      <3>4. StandbyInv'
        BY <2>1, <2>3, <3>1, <3>3 DEF StandbyInv, FlowOf
      <3>5. flow' # "SYSRESET_2_ACTIVE"
        BY <3>3, <1>3 DEF FlowOf, Standby
      <3>6. QED  BY <1>3, <3>1, <3>4, <3>5 DEF SessionInv, DownFlows, Standby
    <2>4. QED  BY <2>2, <2>3
  <1>4. CASE state = "STANDBY_2_ACTIVE"
    <2>1. UpInv
      BY <1>4 DEF SessionInv, DownFlows, Standby
    <2>2. CASE IsWfi
      <3>1. Only({ACTIVE_2_SUSPEND_RESP})
        BY <2>1, <2>2 DEF UpInv, WfiInv
      <3>2. m.type = ACTIVE_2_SUSPEND_RESP /\ Only({ACTIVE_2_SUSPEND_RESP})'
        BY <3>1, TakeFacts DEF Only
      <3>3. Ignored
        BY <1>4, <3>2 DEF process_msg, ActiveResps, COLD_2_ACTIVE_RESP, SUSPEND_2_ACTIVE_RESP,
           NORMALSTANDBY_2_ACTIVE_RESP, LOWPOWERSTANDBY_2_ACTIVE_RESP
      <3>4. UNCHANGED <<flow, status, state, boot_flag, is_get_rsp, suspend_type, soc>>
        BY <3>3 DEF Ignored, flowVars, types
      <3>5. UpInv'
        BY <2>1, <2>2, <3>2, <3>4, TakeFacts DEF UpInv, WfiInv, IsWfi
      <3>6. QED  BY <1>4, <3>4, <3>5 DEF SessionInv, DownFlows, Standby
    <2>3. CASE ~IsWfi
      <3>1. Only(ActiveResps)
        BY <2>1, <2>3 DEF UpInv
      <3>2. m.type \in ActiveResps /\ Only(ActiveResps)'
        BY <3>1, TakeFacts DEF Only
      <3>3. ActiveResp
        BY <1>4, <3>2 DEF process_msg, Handled, ActiveResps, COLD_2_ACTIVE_RESP, SUSPEND_2_ACTIVE_RESP,
           NORMALSTANDBY_2_ACTIVE_RESP, LOWPOWERSTANDBY_2_ACTIVE_RESP
      <3>4. UNCHANGED <<flow, status, state, boot_flag, suspend_type, soc>> /\ is_get_rsp' = TRUE
        BY <3>3 DEF ActiveResp, flowVars, types
      <3>5. status = "WAITRSP" /\ soc = "kernel" /\ inq' = <<>>
        BY <2>1, <2>3, TakeFacts DEF UpInv
      <3>6. Len(inq') <= 1
        BY <3>5
      <3>7. UpInv'
        BY <2>1, <2>3, <3>2, <3>4, <3>5, <3>6 DEF UpInv, IsWfi
      <3>8. QED  BY <1>4, <3>4, <3>7 DEF SessionInv, DownFlows, Standby
    <2>4. QED  BY <2>2, <2>3
  <1>5. QED
    BY <1>1, <1>2, <1>3, <1>4 DEF FlowInv

LEMMA MessagesKeepSession ==
  ASSUME TypeOK, FlowInv, SessionInv, process_msg
  PROVE  SessionInv'
  <1>1. CASE flow = "SYSRESET_2_ACTIVE"
    <2>1. status # "INVALID" /\ state \notin DownFlows /\ state # "STANDBY_2_ACTIVE"
      BY <1>1 DEF FlowInv, Flows, Statuses, DownFlows, UpFlows
    <2>2. UNCHANGED <<flow, status>>
      BY <1>1 DEF process_msg, WatchdogStart, Linuxready_Active, setup_power_up_timer, Request,
         SuspendResp, ActiveResp, Linuxready_Suspend, Ignored, enterflow_bysmstate, enterflow, flowVars
    <2>3. UNCHANGED is_get_rsp
      BY <2>1 DEF process_msg, WatchdogStart, Linuxready_Active, setup_power_up_timer, Request,
         Linuxready_Suspend, Ignored, DownFlows
    <2>4. QED  BY <1>1, <2>2, <2>3 DEF SessionInv, ResetInv
  <1>2. QED  BY <1>1, ActiveMessages, OtherMessages

\* What the SoC sends joins the queue behind the rest.
LEMMA SentFacts ==
  ASSUME TypeOK, NEW m \in Message, Send(m)
  PROVE  /\ inq' # <<>> /\ Len(inq) \in Nat /\ Len(inq') = Len(inq) + 1
         /\ DOMAIN inq' = 1 .. Len(inq) + 1 /\ DOMAIN inq = 1 .. Len(inq)
         /\ \A i \in DOMAIN inq : inq'[i] = inq[i]
         /\ inq'[Len(inq) + 1] = m
         /\ inq = <<>> => Len(inq) = 0
  <1>1. inq \in Seq(Message) /\ inq' = Append(inq, m)
    BY DEF TypeOK, Send
  <1>2. inq = <<>> => Len(inq) = 0
    OBVIOUS
  <1>3. QED  BY <1>1, <1>2, AppendFacts

\* The steps of the SoC.  On the way to standby nobody cares for them.
LEMMA StandbyKeepsSession ==
  ASSUME FlowInv, SessionInv, state \in DownFlows \ {"ACTIVE_2_SUSPEND"}, UNCHANGED sm,
         soc = "off" => soc' = "off"
  PROVE  SessionInv'
  <1>1. UNCHANGED <<flow, status, state, is_get_rsp, suspend_type>>
    BY DEF sm, flowVars, types
  <1>2. DownInv'
    BY <1>1 DEF SessionInv, FlowInv, DownInv, DownFlows
  <1>3. QED  BY <1>1, <1>2 DEF SessionInv, FlowInv, DownFlows, Standby

LEMMA BootRespKeepsSession ==
  ASSUME TypeOK, FlowInv, SessionInv, flow # "SYSRESET_2_ACTIVE",
         state \notin DownFlows \ {"ACTIVE_2_SUSPEND"}, SocBootResp
  PROVE  SessionInv'
  <1>1. soc = "boot" /\ soc' = "kernel" /\ UNCHANGED sm
    BY DEF SocBootResp
  <1>2. state = "STANDBY_2_ACTIVE" /\ UpInv
    BY <1>1 DEF SessionInv, FlowInv, ActiveInv, DownInv, SuspendInv, StandbyInv, WfiInv, DownFlows
  <1>3. ~IsWfi /\ status = "WAITRSP" /\ inq = <<>> /\ ~is_get_rsp
    BY <1>1, <1>2 DEF UpInv, WfiInv
  <1>4. PICK m \in Message : Send(m) /\ m.type \in ActiveResps
    BY MessageTypes DEF SocBootResp, ActiveResps, COLD_2_ACTIVE_RESP, LOWPOWERSTANDBY_2_ACTIVE_RESP,
                NORMALSTANDBY_2_ACTIVE_RESP, SUSPEND_2_ACTIVE_RESP
  <1>5. inq' # <<>> /\ Len(inq') = 1 /\ Only(ActiveResps)'
    BY <1>3, <1>4, SentFacts DEF Only
  <1>6. UpInv'
    BY <1>1, <1>2, <1>3, <1>5 DEF UpInv, IsWfi, sm, flowVars, types
  <1>7. QED
    BY <1>1, <1>2, <1>6 DEF SessionInv, sm, flowVars, types, DownFlows, Standby

LEMMA LinuxKeepsSession ==
  ASSUME TypeOK, FlowInv, SessionInv, flow # "SYSRESET_2_ACTIVE",
         state \notin DownFlows \ {"ACTIVE_2_SUSPEND"}, SocLinuxready \/ SocRequest
  PROVE  SessionInv'
  <1> USE DEF STANDBY_REQUEST, SUSPEND_REQUEST, WARMUP_TIME, LOWPOWERSTANDBY_REQUEST,
              NORMALSTANDBY_REQUEST, WD_APP_START, Linuxready, ACTIVE_2_SUSPEND_RESP, SYS_RESET
  <1>1. UNCHANGED sm /\ soc \in {"kernel", "linux"}
    BY DEF SocLinuxready, SocRequest
  <1>2. state = "ACTIVE" /\ ActiveInv /\ suspend_type \in {"WFI", "PWROFF"}
    BY <1>1 DEF SocLinuxready, SocRequest, SmSettled, SessionInv, FlowInv, DownInv, SuspendInv,
       StandbyInv, WfiInv, UpInv, DownFlows
  <1>3. flow # "ACTIVE_2_SUSPEND"
    BY <1>1, <1>2 DEF ActiveInv, Asked
  <1>4. PICK m \in Message :
          /\ Send(m)
          /\ \/ soc' = "linux" /\ m.type \in Notes
             \/ soc' = "down" /\ m.type \in {STANDBY_REQUEST, SYS_RESET}
             \/ soc' = "susp_PWROFF" /\ m.type = SUSPEND_REQUEST /\ m.arg = "PWROFF"
             \/ soc' = "susp_WFI" /\ m.type = SUSPEND_REQUEST /\ m.arg = "WFI"
    <2>1. CASE SocLinuxready
      BY <2>1, MessageTypes DEF SocLinuxready, Notes
    <2>2. CASE SocRequest
      BY <2>2, MessageTypes DEF SocRequest, Notes
    <2>3. QED  BY <2>1, <2>2
  <1>5. Only(Notes) /\ \A i \in DOMAIN inq : inq[i].type # SUSPEND_REQUEST
    <2>1. CASE soc = "kernel"
      BY <2>1 DEF SocLinuxready, SocRequest, SmSettled, Only
    <2>2. CASE soc = "linux"
      BY <1>2, <2>2 DEF ActiveInv, Only, Notes
    <2>3. QED  BY <1>1, <2>1, <2>2
  <1>6. ActiveInv'
    <2>1. /\ soc' = "linux"  => Only(Notes)'
          /\ soc' = "down"   => Only(Notes \cup {STANDBY_REQUEST, SYS_RESET})'
          /\ soc' \in {"susp_PWROFF", "susp_WFI"} => Only(Notes \cup {SUSPEND_REQUEST})'
      BY <1>4, <1>5, SentFacts DEF Only
    <2>2. (\A i \in DOMAIN inq : inq[i].type = SUSPEND_REQUEST =>
             i = Len(inq) /\ inq[i].arg \in {"WFI", "PWROFF"} /\ Asked(inq[i].arg))'
      BY <1>4, <1>5, SentFacts DEF Asked, Notes
    <2>3. QED
      BY <1>1, <1>2, <1>3, <1>4, <2>1, <2>2 DEF ActiveInv, Asked, sm, flowVars, types
  <1>7. QED
    BY <1>1, <1>2, <1>6 DEF SessionInv, sm, flowVars, types, DownFlows, Standby

LEMMA SuspendKeepsSession ==
  ASSUME TypeOK, FlowInv, SessionInv, flow # "SYSRESET_2_ACTIVE",
         state \notin DownFlows \ {"ACTIVE_2_SUSPEND"}, SocSuspend
  PROVE  SessionInv'
  <1> USE DEF ACTIVE_2_SUSPEND_RESP
  <1>1. UNCHANGED sm /\ boot_flag = "SUSPEND_REQUEST" /\ soc \in {"susp_PWROFF", "susp_WFI"}
    BY DEF SocSuspend
  <1>2. Send(Msg(160)) \/ UNCHANGED inq
    BY DEF SocSuspend
  <1>3. \/ state = "ACTIVE_2_SUSPEND" /\ SuspendInv
        \/ state = "SUSPEND" /\ suspend_type = "WFI" /\ StandbyInv
    BY <1>1 DEF SessionInv, FlowInv, ActiveInv, StandbyInv, UpInv, WfiInv, IsWfi, DownFlows, Standby
  <1>4. Msg(160) \in Message /\ Msg(160).type = 160
    BY MessageTypes
  <1>5. Only({160}) => Only({160})'
    BY <1>2, <1>4, SentFacts DEF Only
  <1>6. CASE state = "ACTIVE_2_SUSPEND" /\ SuspendInv
    <2>1. CASE suspend_type = "WFI"
      <3>1. soc = "susp_WFI" /\ soc' = "wfi"
        BY <1>6, <2>1 DEF SuspendInv, WfiInv, SocSuspend
      <3>2. SuspendInv'
        BY <1>1, <1>5, <1>6, <2>1, <3>1 DEF SuspendInv, WfiInv, sm, flowVars, types
      <3>3. QED  BY <1>1, <1>6, <3>2 DEF SessionInv, sm, flowVars, types, DownFlows, Standby
    <2>2. CASE suspend_type # "WFI"
      <3>1. status = "WAITRSP" /\ soc = "susp_PWROFF" /\ ~is_get_rsp /\ inq = <<>>
        BY <1>1, <1>6, <2>2 DEF SuspendInv
      <3>2. soc' = "slept" /\ Send(Msg(160))
        BY <3>1 DEF SocSuspend
      <3>3. Len(inq') = 1
        BY <1>4, <3>1, <3>2, SentFacts
      <3>4. SuspendInv'
        BY <1>1, <1>5, <1>6, <2>2, <3>1, <3>2, <3>3 DEF SuspendInv, sm, flowVars, types
      <3>5. QED  BY <1>1, <1>6, <3>4 DEF SessionInv, sm, flowVars, types, DownFlows, Standby
    <2>3. QED  BY <2>1, <2>2
  <1>7. CASE state = "SUSPEND" /\ suspend_type = "WFI" /\ StandbyInv
    <2>1. soc = "susp_WFI" /\ soc' = "wfi"
      BY <1>1, <1>7 DEF StandbyInv, WfiInv, SocSuspend
    <2>2. StandbyInv'
      BY <1>1, <1>5, <1>7, <2>1 DEF StandbyInv, WfiInv, FlowOf, sm, flowVars, types, wdt
    <2>3. QED  BY <1>1, <1>7, <2>2 DEF SessionInv, sm, flowVars, types, DownFlows, Standby
  <1>8. QED  BY <1>3, <1>6, <1>7

LEMMA SessionStep ==
  ASSUME Orderly
  PROVE  TypeOK /\ FlowInv /\ SessionInv /\ [Next]_vars => SessionInv'
  <1> SUFFICES ASSUME TypeOK, FlowInv, SessionInv, [Next]_vars PROVE SessionInv'
    OBVIOUS
  <1>1. CASE UNCHANGED vars
    BY <1>1, SessionFrame DEF vars, sv
  <1>2. CASE process_msg \/ power_task \/ SourceSteps
    BY <1>2, MessagesKeepSession, PowerTaskKeepsSession, SourcesKeepSession
  <1>3. CASE SocBootResp \/ SocLinuxready \/ SocRequest \/ SocSuspend \/ SocSelfWake
    <2>1. CASE flow = "SYSRESET_2_ACTIVE"
      <3>1. UNCHANGED <<flow, status, is_get_rsp>>
        BY <1>3 DEF SocBootResp, SocLinuxready, SocRequest, SocSuspend, SocSelfWake, sm, flowVars
      <3>2. QED  BY <2>1, <3>1 DEF SessionInv, ResetInv
    <2>2. ~SocSelfWake
      BY DEF Orderly, SocSelfWake
    <2>3. CASE state \in DownFlows \ {"ACTIVE_2_SUSPEND"}
      BY <1>3, <2>3, StandbyKeepsSession
         DEF SocBootResp, SocLinuxready, SocRequest, SocSuspend, SocSelfWake
    <2>4. QED
      BY <1>3, <2>1, <2>2, <2>3, BootRespKeepsSession, LinuxKeepsSession, SuspendKeepsSession
  <1>4. QED  BY <1>1, <1>2, <1>3 DEF Next, SourceSteps

\* The four together are inductive.
PowerInv == TypeOK /\ ArgInv /\ FlowInv /\ SessionInv

LEMMA PowerInit == Init => PowerInv
  BY PowerTypeInit, FlowInit, SessionInit DEF PowerInv

LEMMA PowerStep ==
  ASSUME Orderly
  PROVE  PowerInv /\ [Next]_vars => PowerInv'
  BY PowerTypeStep, FlowStep, SessionStep DEF PowerInv

\* Between flows the state of the SM is what the SoC is doing (sm_state.c): in
\* standby it has no power, in suspend unless it only waits for an interrupt, and
\* in ACTIVE it has answered.  For every length of the queue, with the watchdog
\* and its resets, if the SoC never wakes by itself.
THEOREM StateIsTrue ==
  ASSUME Orderly
  PROVE  Spec => []StateTellsSoc
  <1>1. PowerInv => StateTellsSoc
    BY DEF PowerInv, StateTellsSoc, SessionInv, ActiveInv, StandbyInv, WfiInv, Standby, TypeOK
  <1>2. QED
    BY <1>1, PowerInit, PowerStep, PTL DEF Spec

\* The power of a SoC that suspends is cut only when it has said that its memory
\* is safe (mv_sm_power_flow_warmdown): the response that ends the wait is
\* never one of an earlier suspend.
THEOREM PowerCut ==
  ASSUME Orderly
  PROVE  Spec => PowerCutIsSafe
  <1>1. PowerInv /\ [Next]_vars
        => [flow = "ACTIVE_2_SUSPEND" /\ soc # "off" /\ soc' = "off" => soc = "slept"]_vars
    <2> SUFFICES ASSUME PowerInv, Next,
                        flow = "ACTIVE_2_SUSPEND", soc # "off", soc' = "off"
                 PROVE  soc = "slept"
      OBVIOUS
    <2>1. WarmdownPoweroff
      BY DEF Next, process_msg, WatchdogStart, Linuxready_Active, setup_power_up_timer, Request,
         SuspendResp, ActiveResp, Linuxready_Suspend, Ignored,
         power_task, WarmdownEnter, WarmdownWaitRsp, WarmdownLeave, WarmupEnter, WarmupAssert,
         Deassert, WarmupIrq, Poweron, Powerok, UpWaitRsp, UpLeave, SysresetEnter, SysresetAssert,
         IdleWakeup, Wake, uart_wake_task, wol_isr, geth_isr, sm_wifibt_isr,
         wifibt_wake_task, sm_wifibt_timer_isr, wakeup_timer, OverHeat,
         wdt_1_isr, SocBootResp, SocLinuxready, SocRequest, SocSuspend, SocSelfWake, UpFlows
    <2>2. QED
      BY <2>1 DEF PowerInv, WarmdownPoweroff, SessionInv, FlowInv, ActiveInv, DownInv, SuspendInv, StandbyInv,
         UpInv, FlowOf, DownFlows, UpFlows, Standby
  <1>2. QED
    BY <1>1, PowerInit, PowerStep, PTL DEF Spec, PowerCutIsSafe

=============================================================================
