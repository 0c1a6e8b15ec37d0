------------------------------ MODULE SmPower ------------------------------
(***************************************************************************)
(* Power management of the System Manager firmware (sm_cm3, src/power):    *)
(* the flows that take the SoC down to standby or suspend, up again and    *)
(* through a reset, driven by the power task one status at a time, against *)
(* the messages of the SoC, the wake-up sources, the wake-up timer, the    *)
(* over-heat check and the watchdog.                                       *)
(*                                                                         *)
(* The firmware is scheduled cooperatively (configUSE_PREEMPTION is 0), so *)
(* a step of a task is atomic; interrupts come between any two steps.  The *)
(* delays inside soc_assert and soc_deassert let other tasks in, but no    *)
(* other task writes what those steps go on to write.                      *)
(***************************************************************************)
EXTENDS Integers, Sequences

CONSTANTS MaxQueue,      \* bound: messages of the SoC that are waiting
          Resets,        \* whether the system is ever reset
          Giga,          \* the build: WOL through a Giga-bit PHY's pin, or by packet
          Sources,       \* the input devices that may wake the system
          SelfWake,      \* whether the SoC may be woken from WFI by itself
          Backlog        \* whether messages may outlive a power-down (SmKeepsUp)

ASSUME QueueAssumption == MaxQueue \in Nat \ {0}
ASSUME BuildAssumption == Giga \in BOOLEAN /\ Sources \subseteq {"IR", "BUTTON", "CEC"}
ASSUME SystemAssumption == Resets \in BOOLEAN /\ SelfWake \in BOOLEAN /\ Backlog \in BOOLEAN

\* Message codes (sm_common.h).  Requests of Linux and responses of the
\* bootloader share numbers: which one a number means depends on the state.
STANDBY_REQUEST         == 1
SUSPEND_REQUEST         == 2
COLD_2_ACTIVE_RESP      == 2
SUSPEND_2_ACTIVE_RESP   == 6
NORMALSTANDBY_2_ACTIVE_RESP == 7
WARMUP_TIME             == 12
LOWPOWERSTANDBY_REQUEST == 16
LOWPOWERSTANDBY_2_ACTIVE_RESP == 16
NORMALSTANDBY_REQUEST   == 17
WD_APP_START            == 18      \* to the watchdog module
Linuxready              == 30
ACTIVE_2_SUSPEND_RESP   == 160
SYS_RESET               == 255

ActiveResps == {COLD_2_ACTIVE_RESP, LOWPOWERSTANDBY_2_ACTIVE_RESP,
                NORMALSTANDBY_2_ACTIVE_RESP, SUSPEND_2_ACTIVE_RESP}

\* arg: the suspend type, or whether the time of WARMUP_TIME is not zero.
Message == [type : {1, 2, 6, 7, 12, 16, 17, 18, 30, 160, 255},
            arg  : {"none", "WFI", "PWROFF", "zero", "seconds"}]
Msg(t)       == [type |-> t, arg |-> "none"]
MsgArg(t, a) == [type |-> t, arg |-> a]

DownFlows == {"ACTIVE_2_LOWPOWERSTANDBY", "ACTIVE_2_NORMALSTANDBY", "ACTIVE_2_SUSPEND"}
UpFlows   == {"LOWPOWERSTANDBY_2_ACTIVE", "NORMALSTANDBY_2_ACTIVE", "SUSPEND_2_ACTIVE"}
Standby   == {"LOWPOWERSTANDBY", "NORMALSTANDBY", "SUSPEND"}

VARIABLES
  flow, status,     \* power_myflow, power_mystatus
  state,            \* sys_state of sm_state.c
  boot_flag,        \* the boot status register
  is_get_rsp, is_linux_ready, standby_type, suspend_type,
  wakeup_source,    \* wi.wakeup_source
  is_wakeup, geth_wakeup,   \* latched for WIFI or BT, and for GEPHY
  wifibt_sem,       \* the interrupt of WIFI and BT has given the semaphore
  wifibt_timer,     \* the timer that looks at their pin is running
  wol,              \* the magic packet interrupt is enabled
  wmup_timer_enable,
  is_appwdt_enable, \* the application, not the SM, kicks watchdog 1
  wdt_1,            \* watchdog 1 is enabled, for good
  inq,              \* messages of the SoC, oldest first
  soc               \* what the SoC is doing

flowVars == <<flow, status, is_linux_ready>>
wifibt   == <<wifibt_sem, wifibt_timer>>
latches  == <<is_wakeup, geth_wakeup, wifibt, wol>>
wdt      == <<is_appwdt_enable, wdt_1>>
types    == <<standby_type, suspend_type>>
vars == <<flow, status, state, boot_flag, is_get_rsp, is_linux_ready, standby_type,
          suspend_type, wakeup_source, is_wakeup, geth_wakeup, wifibt_sem, wifibt_timer, wol,
          wmup_timer_enable, is_appwdt_enable, wdt_1, inq, soc>>

Init ==
  /\ flow = "IDLE" /\ status = "INVALID"
  /\ state = "ACTIVE"
  /\ boot_flag = "POWERON"
  /\ is_get_rsp = FALSE /\ is_linux_ready = FALSE
  /\ standby_type = "NORMAL" /\ suspend_type = "PWROFF"
  /\ wakeup_source = "INVALID"
  /\ is_wakeup = FALSE /\ geth_wakeup = FALSE /\ wol = FALSE
  /\ wifibt_sem = FALSE /\ wifibt_timer = FALSE
  /\ wmup_timer_enable = FALSE
  /\ is_appwdt_enable = FALSE /\ wdt_1 = FALSE
  /\ inq = <<>>
  /\ soc = "kernel"

-----------------------------------------------------------------------------
(* Entering a flow.                                                        *)

enterflow(f) ==
  IF flow = "IDLE" /\ status = "INVALID"
    THEN /\ flow' = f
         /\ status' = "ENTERFLOW"
         /\ is_linux_ready' = FALSE
    ELSE UNCHANGED flowVars

\* Mutant: the number of the state is taken for the number of the flow.
FlowOf_State(s) == IF s \in Standby THEN s ELSE "IDLE"

\* In any other state this is the flow IDLE.
FlowOf(s) == CASE s = "LOWPOWERSTANDBY" -> "LOWPOWERSTANDBY_2_ACTIVE"
               [] s = "NORMALSTANDBY"   -> "NORMALSTANDBY_2_ACTIVE"
               [] s = "SUSPEND"         -> "SUSPEND_2_ACTIVE"
               [] OTHER                 -> "IDLE"

enterflow_bysmstate == enterflow(FlowOf(state))

-----------------------------------------------------------------------------
(* Messages of the SoC: mv_sm_process_power_msg and the watchdog's handler. *)

Linuxready_Active ==
  /\ is_linux_ready' = TRUE
  /\ is_wakeup' = FALSE
  /\ geth_wakeup' = FALSE
  /\ UNCHANGED <<flow, status, state, boot_flag, is_get_rsp, types, wakeup_source, wol,
                 wifibt, wmup_timer_enable, wdt, soc>>

\* sm_setup_power_up_timer: zero cancels, a second set is ignored.
setup_power_up_timer(m) ==
  /\ wmup_timer_enable' = (m.arg = "seconds")
  /\ UNCHANGED <<flowVars, state, boot_flag, is_get_rsp, types, wakeup_source,
                 latches, wdt, soc>>

\* The code stores the suspend type before it knows that the flow starts.
Request(m) ==
  /\ standby_type' = CASE m.type = LOWPOWERSTANDBY_REQUEST -> "LOWPOWER"
                       [] m.type = NORMALSTANDBY_REQUEST   -> "NORMAL"
                       [] OTHER                            -> standby_type
  /\ suspend_type' = IF m.type = SUSPEND_REQUEST THEN m.arg ELSE suspend_type
  /\ CASE m.type = STANDBY_REQUEST -> enterflow(IF standby_type = "LOWPOWER"
                                                  THEN "ACTIVE_2_LOWPOWERSTANDBY"
                                                  ELSE "ACTIVE_2_NORMALSTANDBY")
       [] m.type = SUSPEND_REQUEST -> enterflow("ACTIVE_2_SUSPEND")
       [] m.type = SYS_RESET       -> enterflow("SYSRESET_2_ACTIVE")
       [] OTHER                    -> UNCHANGED flowVars
  /\ UNCHANGED <<state, boot_flag, is_get_rsp, wakeup_source, latches,
                 wmup_timer_enable, wdt, soc>>

\* Mutant: the response only changes the boot flag.
SuspendResp_FlagOnly ==
  /\ boot_flag' = "ACTIVE_2_SUSPEND"
  /\ UNCHANGED <<flowVars, state, is_get_rsp, types, wakeup_source, latches,
                 wmup_timer_enable, wdt, soc>>

SuspendResp ==
  /\ is_get_rsp' = TRUE
  /\ boot_flag' = "ACTIVE_2_SUSPEND"
  /\ UNCHANGED <<flowVars, state, types, wakeup_source, latches,
                 wmup_timer_enable, wdt, soc>>

ActiveResp ==
  /\ is_get_rsp' = TRUE
  /\ UNCHANGED <<flowVars, state, boot_flag, types, wakeup_source, latches,
                 wmup_timer_enable, wdt, soc>>

\* Mutant: only the wake-up sources of the SM end a suspend.
Linuxready_Suspend_None ==
  UNCHANGED <<flowVars, state, boot_flag, is_get_rsp, types, wakeup_source, latches,
              wmup_timer_enable, wdt, soc>>

\* The SoC was woken from suspend by a source the SM does not know of.
Linuxready_Suspend ==
  /\ wakeup_source' = "INVALID"
  /\ enterflow_bysmstate
  /\ UNCHANGED <<state, boot_flag, is_get_rsp, types, latches, wmup_timer_enable,
                 wdt, soc>>

WatchdogStart ==
  /\ is_appwdt_enable' = TRUE /\ wdt_1' = TRUE
  /\ UNCHANGED <<flowVars, state, boot_flag, is_get_rsp, types, wakeup_source,
                 latches, wmup_timer_enable, soc>>

Ignored ==
  UNCHANGED <<flowVars, state, boot_flag, is_get_rsp, types, wakeup_source, latches,
              wmup_timer_enable, wdt, soc>>

Handled(m) ==
  \/ m.type = WD_APP_START
  \/ state = "ACTIVE"
  \/ state = "ACTIVE_2_SUSPEND" /\ m.type = ACTIVE_2_SUSPEND_RESP
  \/ state = "STANDBY_2_ACTIVE" /\ m.type \in ActiveResps
  \/ state = "SUSPEND" /\ m.type = Linuxready

\* comm_task hands the oldest message to the module it is for.
process_msg ==
  /\ inq # <<>>
  /\ inq' = Tail(inq)
  /\ LET m == Head(inq)
     IN  \/ m.type = WD_APP_START /\ WatchdogStart
         \/ state = "ACTIVE" /\ m.type = Linuxready /\ Linuxready_Active
         \/ state = "ACTIVE" /\ m.type = WARMUP_TIME /\ setup_power_up_timer(m)
         \/ /\ state = "ACTIVE" /\ m.type \notin {WD_APP_START, Linuxready, WARMUP_TIME}
            /\ Request(m)
         \/ state = "ACTIVE_2_SUSPEND" /\ m.type = ACTIVE_2_SUSPEND_RESP /\ SuspendResp
         \/ state = "STANDBY_2_ACTIVE" /\ m.type \in ActiveResps /\ ActiveResp
         \/ state = "SUSPEND" /\ m.type = Linuxready /\ Linuxready_Suspend
         \/ ~Handled(m) /\ Ignored

-----------------------------------------------------------------------------
(* The power task: one status of the current flow per round.  The waits of   *)
(* waittime() last as long as they last.                                   *)

Goto(s) == status' = s /\ UNCHANGED <<flow, is_linux_ready>>

\* Whether comm_task, which takes a message in every tick, has taken all that
\* a SoC now without power had sent.
SmKeepsUp == Backlog \/ soc # "off" \/ inq = <<>>

leaveflow == /\ flow' = "IDLE" /\ status' = "INVALID"
             /\ UNCHANGED is_linux_ready

others == <<types, wakeup_source, is_wakeup, wifibt, wmup_timer_enable, inq>>

DownState == CASE flow = "ACTIVE_2_LOWPOWERSTANDBY" -> "LOWPOWERSTANDBY"
               [] flow = "ACTIVE_2_NORMALSTANDBY"   -> "NORMALSTANDBY"
               [] flow = "ACTIVE_2_SUSPEND"         -> "SUSPEND"

WarmdownEnter ==
  /\ flow \in DownFlows /\ status = "ENTERFLOW"
  /\ geth_wakeup' = FALSE
  /\ state' = flow
  /\ boot_flag' = IF flow = "ACTIVE_2_SUSPEND" THEN "SUSPEND_REQUEST"
                                               ELSE "ACTIVE_2_NORMALSTANDBY"
  /\ Goto(IF flow # "ACTIVE_2_SUSPEND" THEN "POWEROFF"
          ELSE IF suspend_type = "WFI" THEN "LEAVEFLOW" ELSE "WAITRSP")
  /\ UNCHANGED <<is_get_rsp, wol, wdt, soc, others>>

\* Mutant: the power is cut without waiting for the SoC.
WarmdownWaitRsp_NoWait ==
  /\ flow \in DownFlows /\ status = "WAITRSP"
  /\ is_get_rsp' = FALSE
  /\ Goto("POWEROFF")
  /\ UNCHANGED <<state, boot_flag, geth_wakeup, wol, wdt, soc, others>>

WarmdownWaitRsp ==
  /\ flow \in DownFlows /\ status = "WAITRSP"
  /\ is_get_rsp
  /\ is_get_rsp' = FALSE
  /\ Goto("POWEROFF")
  /\ UNCHANGED <<state, boot_flag, geth_wakeup, wol, wdt, soc, others>>

WarmdownPoweroff ==
  /\ flow \in DownFlows /\ status = "POWEROFF"
  /\ soc' = "off"
  /\ Goto("LEAVEFLOW")
  /\ UNCHANGED <<state, boot_flag, is_get_rsp, geth_wakeup, wol, wdt, others>>

\* The broadcast stops the application watchdog and, in a build that has it,
\* enables the interrupt of the magic packet.
WarmdownLeave ==
  /\ flow \in DownFlows /\ status = "LEAVEFLOW"
  /\ state' = DownState
  /\ is_appwdt_enable' = FALSE /\ UNCHANGED wdt_1
  /\ wol' = ~Giga
  /\ leaveflow
  /\ UNCHANGED <<boot_flag, is_get_rsp, geth_wakeup, soc, others>>

WarmupEnter ==
  /\ flow \in UpFlows /\ status = "ENTERFLOW"
  /\ SmKeepsUp
  /\ state' = "STANDBY_2_ACTIVE"
  /\ boot_flag' = IF flow = "SUSPEND_2_ACTIVE" THEN "SUSPEND_2_ACTIVE"
                                               ELSE "LOWPOWERSTANDBY_2_ACTIVE"
  /\ Goto("ASSERT")
  /\ UNCHANGED <<is_get_rsp, geth_wakeup, wol, wdt, soc, others>>

WarmupAssert ==
  /\ flow \in UpFlows /\ status = "ASSERT"
  /\ Goto("DEASSERT")
  /\ UNCHANGED <<state, boot_flag, is_get_rsp, geth_wakeup, wol, wdt, soc, others>>

Deassert ==
  /\ flow \in UpFlows \cup {"SYSRESET_2_ACTIVE"} /\ status = "DEASSERT"
  /\ Goto("POWERON")
  /\ UNCHANGED <<state, boot_flag, is_get_rsp, geth_wakeup, wol, wdt, soc, others>>

\* A SoC that only waits for an interrupt gets one; a response it sent when it
\* went to sleep is forgotten.
IsWfi == boot_flag = "SUSPEND_2_ACTIVE" /\ suspend_type = "WFI"

\* Mutant: the response is not forgotten.
WarmupIrq_KeepRsp ==
  /\ flow \in UpFlows /\ status = "POWERON" /\ IsWfi
  /\ soc' = IF soc \in {"susp_WFI", "wfi"} THEN "kernel" ELSE soc
  /\ Goto("LEAVEFLOW")
  /\ UNCHANGED <<state, boot_flag, is_get_rsp, geth_wakeup, wol, wdt, others>>

WarmupIrq ==
  /\ flow \in UpFlows /\ status = "POWERON" /\ IsWfi
  /\ is_get_rsp' = FALSE
  /\ soc' = IF soc \in {"susp_WFI", "wfi"} THEN "kernel" ELSE soc
  /\ Goto("LEAVEFLOW")
  /\ UNCHANGED <<state, boot_flag, geth_wakeup, wol, wdt, others>>

\* The SoC has power, still held in reset.
Poweron ==
  /\ \/ flow \in UpFlows /\ ~IsWfi
     \/ flow = "SYSRESET_2_ACTIVE"
  /\ status = "POWERON"
  /\ Goto("POWEROK")
  /\ UNCHANGED <<state, boot_flag, is_get_rsp, geth_wakeup, wol, wdt, soc, others>>

\* soc_deassert lets the SoC start.
Powerok ==
  /\ flow \in UpFlows \cup {"SYSRESET_2_ACTIVE"} /\ status = "POWEROK"
  /\ soc' = "boot"
  /\ Goto("WAITRSP")
  /\ UNCHANGED <<state, boot_flag, is_get_rsp, geth_wakeup, wol, wdt, others>>

UpWaitRsp ==
  /\ flow \in UpFlows \cup {"SYSRESET_2_ACTIVE"} /\ status = "WAITRSP"
  /\ is_get_rsp
  /\ is_get_rsp' = FALSE
  /\ Goto("LEAVEFLOW")
  /\ UNCHANGED <<state, boot_flag, geth_wakeup, wol, wdt, soc, others>>

\* A reset has not changed the state, and leaves it and the boot flag alone.
UpLeave ==
  /\ flow \in UpFlows \cup {"SYSRESET_2_ACTIVE"} /\ status = "LEAVEFLOW"
  /\ IF flow \in UpFlows
       THEN state' = "ACTIVE" /\ boot_flag' = "POWERON"
       ELSE UNCHANGED <<state, boot_flag>>
  /\ is_appwdt_enable' = (is_appwdt_enable \/ flow = "SUSPEND_2_ACTIVE")
  /\ UNCHANGED wdt_1
  /\ leaveflow
  /\ UNCHANGED <<is_get_rsp, geth_wakeup, wol, soc, others>>

SysresetEnter ==
  /\ flow = "SYSRESET_2_ACTIVE" /\ status = "ENTERFLOW"
  /\ boot_flag' = "SYSRESET_2_ACTIVE"
  /\ Goto("ASSERT")
  /\ UNCHANGED <<state, is_get_rsp, geth_wakeup, wol, wdt, soc, others>>

SysresetAssert ==
  /\ flow = "SYSRESET_2_ACTIVE" /\ status = "ASSERT"
  /\ soc' = "off"
  /\ Goto("DEASSERT")
  /\ UNCHANGED <<state, boot_flag, is_get_rsp, geth_wakeup, wol, wdt, others>>

\* eth_wifibt_wakeup_handler: with both latches set the second one finds the
\* flow entered, and still names the source.
IdleWakeup ==
  /\ flow = "IDLE" /\ state \in Standby
  /\ is_wakeup \/ geth_wakeup
  /\ enterflow_bysmstate
  /\ wakeup_source' = IF geth_wakeup THEN "WOL" ELSE wakeup_source
  /\ is_wakeup' = FALSE
  /\ geth_wakeup' = FALSE
  /\ UNCHANGED <<state, boot_flag, is_get_rsp, types, wifibt, wol, wmup_timer_enable,
                 wdt, inq, soc>>

power_task ==
  \/ WarmdownEnter \/ WarmdownWaitRsp \/ WarmdownPoweroff \/ WarmdownLeave
  \/ WarmupEnter \/ WarmupAssert \/ Deassert \/ WarmupIrq \/ Poweron \/ Powerok
  \/ UpWaitRsp \/ UpLeave \/ SysresetEnter \/ SysresetAssert
  \/ IdleWakeup

-----------------------------------------------------------------------------
(* Wake-up sources, the wake-up timer, the over-heat check, the watchdog.  *)

\* A key of the remote control, a button or a CEC message.
Wake(source) ==
  /\ state \in Standby
  /\ wakeup_source' = source
  /\ enterflow_bysmstate
  /\ UNCHANGED <<state, boot_flag, is_get_rsp, types, latches, wmup_timer_enable,
                 wdt, inq, soc>>

\* The UART task names the source WOL too, and only if the flow was entered.
uart_wake_task ==
  /\ state \in Standby
  /\ enterflow_bysmstate
  /\ wakeup_source' = IF flow = "IDLE" THEN "WOL" ELSE wakeup_source
  /\ UNCHANGED <<state, boot_flag, is_get_rsp, types, latches, wmup_timer_enable,
                 wdt, inq, soc>>

wol_isr ==
  /\ state \in Standby /\ wol
  /\ enterflow_bysmstate
  /\ IF flow = "IDLE" THEN wakeup_source' = "WOL" /\ wol' = FALSE
                      ELSE UNCHANGED <<wakeup_source, wol>>
  /\ UNCHANGED <<state, boot_flag, is_get_rsp, types, is_wakeup, geth_wakeup,
                 wifibt, wmup_timer_enable, wdt, inq, soc>>

\* WIFI and BT share a pin.  Its falling edge only wakes a task.
sm_wifibt_isr ==
  /\ wifibt_sem' = TRUE
  /\ UNCHANGED <<flowVars, state, boot_flag, is_get_rsp, types, wakeup_source, is_wakeup,
                 geth_wakeup, wifibt_timer, wol, wmup_timer_enable, wdt, inq, soc>>

\* Mutant: state_to_wait_wakeup leaves suspend out.
wifibt_wake_task_NoSuspend ==
  /\ wifibt_sem
  /\ wifibt_sem' = FALSE
  /\ wifibt_timer' = (wifibt_timer \/ state \in {"LOWPOWERSTANDBY", "NORMALSTANDBY"})
  /\ UNCHANGED <<flowVars, state, boot_flag, is_get_rsp, types, wakeup_source, is_wakeup,
                 geth_wakeup, wol, wmup_timer_enable, wdt, inq, soc>>

\* The task starts the timer if the system is down by then.
wifibt_wake_task ==
  /\ wifibt_sem
  /\ wifibt_sem' = FALSE
  /\ wifibt_timer' = (wifibt_timer \/ state \in Standby)
  /\ UNCHANGED <<flowVars, state, boot_flag, is_get_rsp, types, wakeup_source, is_wakeup,
                 geth_wakeup, wol, wmup_timer_enable, wdt, inq, soc>>

\* The timer's callback, in the round in which it stops the timer: the pin is
\* high again or has been low for WIFIBT_GAP_MAX, and how long it was low tells
\* BT from WIFI; or an earlier latch is still set.  No state is looked at: the
\* system may be on its way up by now, or up.
sm_wifibt_timer_isr ==
  /\ wifibt_timer
  /\ wifibt_timer' = FALSE
  /\ \/ is_wakeup' = TRUE /\ wakeup_source' \in {"WIFI", "BT"}
     \/ is_wakeup /\ UNCHANGED <<is_wakeup, wakeup_source>>
  /\ UNCHANGED <<flowVars, state, boot_flag, is_get_rsp, types, wifibt_sem, geth_wakeup,
                 wol, wmup_timer_enable, wdt, inq, soc>>

geth_isr ==
  /\ Giga
  /\ state # "ACTIVE"
  /\ geth_wakeup' = TRUE
  /\ UNCHANGED <<flowVars, state, boot_flag, is_get_rsp, types, wakeup_source, is_wakeup,
                 wifibt, wol, wmup_timer_enable, wdt, inq, soc>>

\* Mutant: the state is not looked at.
wakeup_timer_Always ==
  /\ wmup_timer_enable
  /\ wmup_timer_enable' = FALSE
  /\ wakeup_source' = "TIMER"
  /\ enterflow_bysmstate
  /\ UNCHANGED <<state, boot_flag, is_get_rsp, types, latches, wdt, inq, soc>>

\* If the system is up the timer only sends a message.
wakeup_timer ==
  /\ wmup_timer_enable
  /\ wmup_timer_enable' = FALSE
  /\ IF state = "ACTIVE"
       THEN UNCHANGED <<flowVars, wakeup_source>>
       ELSE wakeup_source' = "TIMER" /\ enterflow_bysmstate
  /\ UNCHANGED <<state, boot_flag, is_get_rsp, types, latches, wdt, inq, soc>>

\* mv_sm_temp_task: too hot, forcibly enter standby.
OverHeat ==
  /\ state = "ACTIVE"
  /\ enterflow("ACTIVE_2_LOWPOWERSTANDBY")
  /\ UNCHANGED <<state, boot_flag, is_get_rsp, types, wakeup_source, latches,
                 wmup_timer_enable, wdt, inq, soc>>

\* The task kicks the watchdog itself unless an application has taken over.
wdt_1_isr ==
  /\ Resets
  /\ wdt_1 /\ is_appwdt_enable
  /\ is_appwdt_enable' = FALSE /\ UNCHANGED wdt_1
  /\ enterflow("SYSRESET_2_ACTIVE")
  /\ UNCHANGED <<state, boot_flag, is_get_rsp, types, wakeup_source, latches,
                 wmup_timer_enable, inq, soc>>

-----------------------------------------------------------------------------
(* The SoC, which is not part of the firmware:                             *)
(*   "boot"    out of reset, the bootloader has not answered yet           *)
(*   "kernel"  Linux is starting or resuming                               *)
(*   "linux"   Linux is up                                                 *)
(*   "down"    Linux has asked for standby or reset and waits for it       *)
(*   "susp_PWROFF", "susp_WFI"  asked for suspend, has not been let go     *)
(*   "slept"   memory is safe, the power may be cut                        *)
(*   "wfi"     waits for an interrupt                                      *)
(*   "off"     in reset or without power                                   *)

sm == <<flowVars, state, boot_flag, is_get_rsp, types, wakeup_source, latches,
        wmup_timer_enable, wdt>>

Send(m) == Len(inq) < MaxQueue /\ inq' = Append(inq, m)

\* The bootloader answers once.
SocBootResp ==
  /\ soc = "boot"
  /\ \E r \in ActiveResps : Send(Msg(r))
  /\ soc' = "kernel"
  /\ UNCHANGED sm

\* Linux takes longer to start or resume than the SM to finish what it can.
SmSettled == /\ inq = <<>>
             /\ status # "LEAVEFLOW"
             /\ ~(status = "WAITRSP" /\ is_get_rsp)

SocLinuxready ==
  /\ soc = "kernel" /\ SmSettled
  /\ Send(Msg(Linuxready))
  /\ soc' = "linux"
  /\ UNCHANGED sm

SocRequest ==
  /\ soc = "linux"
  /\ \/ \E t \in {LOWPOWERSTANDBY_REQUEST, NORMALSTANDBY_REQUEST, WD_APP_START} :
          Send(Msg(t)) /\ soc' = soc
     \/ \E a \in {"zero", "seconds"} : Send(MsgArg(WARMUP_TIME, a)) /\ soc' = soc
     \/ Send(Msg(STANDBY_REQUEST)) /\ soc' = "down"
     \/ Send(MsgArg(SUSPEND_REQUEST, "PWROFF")) /\ soc' = "susp_PWROFF"
     \/ Send(MsgArg(SUSPEND_REQUEST, "WFI")) /\ soc' = "susp_WFI"
     \/ Resets /\ Send(Msg(SYS_RESET)) /\ soc' = "down"
  /\ UNCHANGED sm

\* The SM has announced the suspend in the boot status register.
SocSuspend ==
  /\ boot_flag = "SUSPEND_REQUEST"
  /\ \/ /\ soc = "susp_PWROFF"
        /\ Send(Msg(ACTIVE_2_SUSPEND_RESP))
        /\ soc' = "slept"
     \/ /\ soc = "susp_WFI"
        /\ Send(Msg(ACTIVE_2_SUSPEND_RESP)) \/ UNCHANGED inq
        /\ soc' = "wfi"
  /\ UNCHANGED sm

SocSelfWake ==
  /\ SelfWake
  /\ soc = "wfi"
  /\ soc' = "kernel"
  /\ UNCHANGED <<sm, inq>>

-----------------------------------------------------------------------------
Next ==
  \/ process_msg
  \/ power_task
  \/ \E source \in Sources : Wake(source)
  \/ uart_wake_task \/ wol_isr \/ geth_isr
  \/ sm_wifibt_isr \/ wifibt_wake_task \/ sm_wifibt_timer_isr
  \/ wakeup_timer \/ OverHeat \/ wdt_1_isr
  \/ SocBootResp \/ SocLinuxready \/ SocRequest \/ SocSuspend \/ SocSelfWake

\* The tasks run once a tick or when their semaphore is given, the timer runs
\* until it finds the pin high or low for too long; the SoC boots, answers and
\* goes to sleep.
Fairness == /\ WF_vars(power_task)
            /\ WF_vars(process_msg)
            /\ WF_vars(wifibt_wake_task)
            /\ WF_vars(sm_wifibt_timer_isr)
            /\ WF_vars(SocBootResp)
            /\ WF_vars(SocSuspend)

Spec == Init /\ [][Next]_vars /\ Fairness

-----------------------------------------------------------------------------
TypeOK ==
  /\ flow \in DownFlows \cup UpFlows \cup {"SYSRESET_2_ACTIVE", "IDLE"}
  /\ status \in {"INVALID", "ENTERFLOW", "ASSERT", "DEASSERT", "POWERON", "POWEROK",
                 "POWEROFF", "WAITRSP", "LEAVEFLOW"}
  /\ state \in Standby \cup DownFlows \cup {"ACTIVE", "STANDBY_2_ACTIVE"}
  /\ boot_flag \in {"POWERON", "SUSPEND_REQUEST", "ACTIVE_2_SUSPEND",
                    "ACTIVE_2_NORMALSTANDBY", "SUSPEND_2_ACTIVE",
                    "LOWPOWERSTANDBY_2_ACTIVE", "SYSRESET_2_ACTIVE"}
  /\ is_get_rsp \in BOOLEAN /\ is_linux_ready \in BOOLEAN
  /\ standby_type \in {"LOWPOWER", "NORMAL"}
  /\ suspend_type \in {"WFI", "PWROFF", "none"}
  /\ wakeup_source \in {"INVALID", "IR", "BUTTON", "CEC", "WOL", "WIFI", "BT", "TIMER"}
  /\ is_wakeup \in BOOLEAN /\ geth_wakeup \in BOOLEAN /\ wol \in BOOLEAN
  /\ wifibt_sem \in BOOLEAN /\ wifibt_timer \in BOOLEAN
  /\ wmup_timer_enable \in BOOLEAN /\ is_appwdt_enable \in BOOLEAN /\ wdt_1 \in BOOLEAN
  /\ inq \in Seq(Message) /\ Len(inq) <= MaxQueue
  /\ soc \in {"boot", "kernel", "linux", "down", "susp_PWROFF", "susp_WFI", "slept",
              "wfi", "off"}

\* No flow is in progress exactly when no status is: a flow IDLE that has been
\* entered (enterflow_bysmstate in a state it does not support) would never be
\* left, and mv_sm_power_enterflow would refuse every later flow.
NeverWedged == (flow = "IDLE") <=> (status = "INVALID")

\* Between flows the state of the SM is what the SoC is really doing: in standby
\* it has no power, in suspend only if it asked for it, and it is ACTIVE only
\* after the bootloader has answered.
StateTellsSoc ==
  flow = "IDLE" =>
    /\ state \in {"LOWPOWERSTANDBY", "NORMALSTANDBY"} => soc = "off"
    /\ state = "SUSPEND" => (soc = "off" <=> suspend_type # "WFI")
    /\ state = "ACTIVE" => soc \notin {"off", "boot", "slept", "wfi"}

\* The power of a SoC that suspends is cut only once it has said that its
\* memory is safe; no response left over from before counts
\* (mv_sm_power_flow_warmdown, STA_WAITRSP).
PowerCutIsSafe ==
  [][flow = "ACTIVE_2_SUSPEND" /\ soc # "off" /\ soc' = "off" => soc = "slept"]_vars

\* Every flow that is entered is left ("wait for response from bootloader",
\* sm_power.h): mv_sm_power_enterflow refuses a flow until then.
EveryFlowEnds == (flow # "IDLE") ~> (flow = "IDLE")

\* A wake-up signalled while the system was down is served, through whatever
\* hands it passes: the edge of WIFI or BT through interrupt, task, timer and
\* latch to the power task, that of GEPHY through its latch.
WakePending ==
  \/ state \in Standby /\ (wifibt_sem \/ wifibt_timer \/ is_wakeup)
  \/ state # "ACTIVE" /\ geth_wakeup
LatchedWakeServed == WakePending ~> (state = "ACTIVE")

\* A SoC that has left its suspend by itself does not stay suspended for the SM
\* ("corner case that suspend waked up by none-SM source", sm_power_flow.c).
SelfWakeNoticed ==
  (state = "SUSPEND" /\ \E i \in DOMAIN inq : inq[i].type = Linuxready) ~> (state = "ACTIVE")
=============================================================================
