-------------------------------- MODULE SmIr --------------------------------
(***************************************************************************)
(* The remote control in the system manager (sm_ir.c): frames are collected *)
(* by the interrupt handler, the IR task makes key-down, key-hold and key-up *)
(* events of them, and an event goes to the SoC, wakes the system or is    *)
(* dropped, by the power state.  The power flows switch the interrupt off  *)
(* and on (mv_sm_process_internal_ir_msg, mv_sm_power_socpoweroff).        *)
(*                                                                         *)
(* A frame is one element of the ring: the levels it is made of, and their *)
(* decoding, are not modelled.  The scheduler is cooperative.              *)
(***************************************************************************)
EXTENDS Naturals, Sequences

CONSTANTS CbuffLength,      \* frames the ring holds
          HoldKeySkipTime,  \* hold frames that are not reported
          MaxPress          \* presses of the user in a behaviour

ASSUME RingAssumption == CbuffLength \in Nat \ {0}
ASSUME HoldAssumption == HoldKeySkipTime \in Nat
ASSUME PressAssumption == MaxPress \in Nat

Keys  == {"POWER", "OTHER"}
NoKey == "NULL"
Kinds == {"standby", "suspend", "suspend_wfi"}

VARIABLES
  cbuffer,                            \* frames not yet read: [key, hold]
  int_en,                             \* the interrupt of the IR port is enabled
  keydown, keyhold, currkey, iHoldKeyCount,
  elapsed,                            \* longer without a frame than a key that is held
  state, kind,                        \* the power state, and the way down taken
  source,                             \* wi.wakeup_source
  flow_asked,                         \* enterflow_bysmstate was called
  is_linuxready, bInputDisable,
  soc_down,                           \* keys that are down for the SoC
  user, presses,                      \* the key the user holds; how many there were
  ready                               \* IR ready came since the last wake-up

fsm   == <<keydown, keyhold, currkey, iHoldKeyCount, elapsed>>
pow   == <<state, kind, source, flow_asked>>
flags == <<is_linuxready, bInputDisable>>
usr   == <<user, presses>>
vars  == <<cbuffer, int_en, fsm, pow, flags, soc_down, usr, ready>>

Init ==
  /\ cbuffer = <<>> /\ int_en = TRUE
  /\ keydown = FALSE /\ keyhold = FALSE /\ currkey = NoKey
  /\ iHoldKeyCount = 0 /\ elapsed = FALSE
  /\ state = "ACTIVE" /\ kind = "standby" /\ source = "INVALID" /\ flow_asked = FALSE
  /\ is_linuxready = FALSE /\ bInputDisable = FALSE
  /\ soc_down = {}
  /\ user = NoKey /\ presses = 0
  /\ ready = FALSE

-----------------------------------------------------------------------------
(* The user, and mv_sm_ir_isr with store_ircbuffer.                        *)

\* Mutant: a full ring keeps all.
store_NoDrop(frame) == Append(cbuffer, frame)

\* A full ring loses its oldest element.
store(frame) ==
  IF Len(cbuffer) = CbuffLength THEN Append(Tail(cbuffer), frame) ELSE Append(cbuffer, frame)

Frame(key, hold) ==
  cbuffer' = IF int_en THEN store([key |-> key, hold |-> hold]) ELSE cbuffer

UserPress(key) ==
  /\ user = NoKey /\ presses < MaxPress
  /\ user' = key /\ presses' = presses + 1
  /\ Frame(key, FALSE)
  /\ UNCHANGED <<int_en, fsm, pow, flags, soc_down, ready>>

UserHold ==
  /\ user # NoKey
  /\ Frame(user, TRUE)
  /\ UNCHANGED <<int_en, fsm, pow, flags, soc_down, usr, ready>>

UserRelease ==
  /\ user # NoKey
  /\ user' = NoKey
  /\ UNCHANGED <<cbuffer, int_en, fsm, pow, flags, soc_down, presses, ready>>

\* FRAME_CYCLE_NORMAL_MAX or FRAME_CYCLE_FIRSTHOLD_MAX passes without a frame.
Elapse ==
  /\ keydown /\ ~elapsed
  /\ elapsed' = TRUE
  /\ UNCHANGED <<cbuffer, int_en, keydown, keyhold, currkey, iHoldKeyCount, pow, flags, soc_down, usr,
                 ready>>

-----------------------------------------------------------------------------
(* mv_sm_process_key: what becomes of an event.                            *)

active  == state \in {"ACTIVE", "RESET"}

wake(s) == source' = s /\ flow_asked' = TRUE /\ UNCHANGED <<state, kind>>

\* Mutant: in standby the system is woken when a key goes down.
process_key_WakeOnDown(key, event) ==
  /\ soc_down' = IF active /\ is_linuxready /\ ~bInputDisable
                   THEN CASE event = "down" -> soc_down \cup {key}
                          [] event = "up"   -> soc_down \ {key}
                          [] OTHER          -> soc_down
                   ELSE soc_down
  /\ IF state = "STANDBY" /\ event = "down" THEN wake("IR") ELSE UNCHANGED pow

\* The SoC gets it once it is ready for it; in standby a key that goes up wakes
\* the system, one that goes down or is held does not.
process_key(key, event) ==
  /\ soc_down' = IF active /\ is_linuxready /\ ~bInputDisable
                   THEN CASE event = "down" -> soc_down \cup {key}
                          [] event = "up"   -> soc_down \ {key}
                          [] OTHER          -> soc_down
                   ELSE soc_down
  /\ IF state = "STANDBY" /\ event = "up" THEN wake("IR") ELSE UNCHANGED pow

-----------------------------------------------------------------------------
(* ir_preprocess_key and mv_sm_ir_task: at most one frame a tick, and the  *)
(* look for a key-up only when there is none.                              *)

Read == /\ cbuffer # <<>>
        /\ cbuffer' = Tail(cbuffer)
        /\ UNCHANGED <<int_en, flags, usr, ready>>

\* A key that comes while another is down is thrown away.
NewKey ==
  /\ Read /\ ~Head(cbuffer).hold
  /\ IF keydown
       THEN UNCHANGED <<fsm, pow, soc_down>>
       ELSE /\ currkey' = Head(cbuffer).key /\ keydown' = TRUE
            /\ iHoldKeyCount' = 0 /\ elapsed' = FALSE
            /\ UNCHANGED keyhold
            /\ process_key(currkey', "down")

\* Only for the key that is down; the first ones are not reported.
HoldKey ==
  /\ Read /\ Head(cbuffer).hold
  /\ IF keydown /\ Head(cbuffer).key = currkey
       THEN /\ keyhold' = TRUE /\ elapsed' = FALSE
            /\ iHoldKeyCount' = IF iHoldKeyCount < HoldKeySkipTime THEN iHoldKeyCount + 1
                                                                   ELSE iHoldKeyCount
            /\ UNCHANGED <<keydown, currkey>>
            /\ IF iHoldKeyCount' < HoldKeySkipTime THEN UNCHANGED <<pow, soc_down>>
                                                   ELSE process_key(currkey, "hold")
       ELSE UNCHANGED <<fsm, pow, soc_down>>

\* Mutant: currkey is cleared before the event is made of it.
KeyUp_Cleared ==
  /\ cbuffer = <<>> /\ keydown /\ elapsed
  /\ keydown' = FALSE /\ keyhold' = FALSE /\ currkey' = NoKey
  /\ process_key(NoKey, "up")
  /\ UNCHANGED <<cbuffer, int_en, iHoldKeyCount, elapsed, flags, usr, ready>>

KeyUp ==
  /\ cbuffer = <<>> /\ keydown /\ elapsed
  /\ keydown' = FALSE /\ keyhold' = FALSE /\ currkey' = NoKey
  /\ process_key(currkey, "up")
  /\ UNCHANGED <<cbuffer, int_en, iHoldKeyCount, elapsed, flags, usr, ready>>

ir_task == NewKey \/ HoldKey \/ KeyUp

-----------------------------------------------------------------------------
(* mv_sm_process_ir_msg: messages of the SoC.                              *)

IrLinuxready ==
  /\ is_linuxready' = TRUE /\ int_en' = TRUE /\ ready' = TRUE
  /\ UNCHANGED <<cbuffer, fsm, pow, bInputDisable, soc_down, usr>>

InputDisable(b) ==
  /\ active
  /\ bInputDisable' = b
  /\ UNCHANGED <<cbuffer, int_en, fsm, pow, is_linuxready, soc_down, usr, ready>>

\* The key comes back to the SoC, which made it up; SM keeps nothing of it.
InputSendKey(key, down) ==
  /\ active
  /\ soc_down' = IF down THEN soc_down \cup {key} ELSE soc_down \ {key}
  /\ UNCHANGED <<cbuffer, int_en, fsm, pow, flags, usr, ready>>

-----------------------------------------------------------------------------
(* The power flows, as far as they concern the remote control.             *)

DownEnter(k) ==
  /\ state = "ACTIVE"
  /\ state' = "DOWN" /\ kind' = k
  /\ is_linuxready' = FALSE
  /\ UNCHANGED <<cbuffer, int_en, fsm, source, flow_asked, bInputDisable, soc_down, usr, ready>>

\* Mutant: the interrupt stays as it is.
PowerOff_KeepInt ==
  /\ state = "DOWN" /\ kind # "suspend_wfi"
  /\ soc_down' = IF kind = "standby" THEN {} ELSE soc_down
  /\ state' = "DOWN_OFF"
  /\ UNCHANGED <<cbuffer, int_en, fsm, kind, source, flow_asked, flags, usr, ready>>

\* mv_sm_power_socpoweroff.  A SoC that only waits for an interrupt keeps its power.
PowerOff ==
  /\ state = "DOWN" /\ kind # "suspend_wfi"
  /\ int_en' = TRUE
  /\ soc_down' = IF kind = "standby" THEN {} ELSE soc_down
  /\ state' = "DOWN_OFF"
  /\ UNCHANGED <<cbuffer, fsm, kind, source, flow_asked, flags, usr, ready>>

DownLeave ==
  /\ state = IF kind = "suspend_wfi" THEN "DOWN" ELSE "DOWN_OFF"
  /\ state' = "STANDBY"
  /\ is_linuxready' = FALSE
  /\ UNCHANGED <<cbuffer, int_en, fsm, kind, source, flow_asked, bInputDisable, soc_down, usr, ready>>

OtherWake(s) ==
  /\ state = "STANDBY"
  /\ wake(s)
  /\ UNCHANGED <<cbuffer, int_en, fsm, flags, soc_down, usr, ready>>

UpEnter ==
  /\ state = "STANDBY" /\ flow_asked
  /\ flow_asked' = FALSE /\ state' = "UP"
  /\ int_en' = IF is_linuxready THEN int_en ELSE FALSE
  /\ ready' = FALSE
  /\ UNCHANGED <<cbuffer, fsm, kind, source, flags, soc_down, usr>>

\* After a suspend the SoC gets a power key, down and up, for most sources.
UpLeave ==
  /\ state = "UP"
  /\ state' = "ACTIVE"
  /\ soc_down' = IF kind # "standby" /\ source \in {"IR", "BUTTON"} THEN soc_down \ {"POWER"}
                                                                    ELSE soc_down
  /\ UNCHANGED <<cbuffer, int_en, fsm, kind, source, flow_asked, flags, usr, ready>>

\* The state stays that of an active system.
SysReset ==
  /\ state = "ACTIVE"
  /\ state' = "RESET"
  /\ is_linuxready' = FALSE /\ soc_down' = {}
  /\ UNCHANGED <<cbuffer, int_en, fsm, kind, source, flow_asked, bInputDisable, usr, ready>>

\* The flow never ends, and is broadcast in every tick.
SysResetTick ==
  /\ state = "RESET" /\ is_linuxready
  /\ is_linuxready' = FALSE
  /\ UNCHANGED <<cbuffer, int_en, fsm, pow, bInputDisable, soc_down, usr, ready>>

-----------------------------------------------------------------------------
Next ==
  \/ \E key \in Keys : UserPress(key)
  \/ UserHold \/ UserRelease \/ Elapse
  \/ ir_task
  \/ IrLinuxready
  \/ \E b \in BOOLEAN : InputDisable(b) \/ \E key \in Keys : InputSendKey(key, b)
  \/ \E k \in Kinds : DownEnter(k)
  \/ PowerOff \/ DownLeave \/ UpEnter \/ UpLeave \/ SysReset \/ SysResetTick
  \/ \E s \in {"BUTTON", "CEC"} : OtherWake(s)

\* The IR task runs in every tick, time passes, flows go on, and nobody holds a
\* key for ever.
Fairness == /\ WF_vars(ir_task) /\ WF_vars(Elapse) /\ WF_vars(UserRelease)
            /\ WF_vars(PowerOff) /\ WF_vars(DownLeave) /\ WF_vars(UpEnter) /\ WF_vars(UpLeave)

Spec == Init /\ [][Next]_vars /\ Fairness

-----------------------------------------------------------------------------
TypeOK ==
  /\ cbuffer \in Seq([key : Keys, hold : BOOLEAN]) /\ Len(cbuffer) <= CbuffLength
  /\ int_en \in BOOLEAN /\ keydown \in BOOLEAN /\ keyhold \in BOOLEAN /\ elapsed \in BOOLEAN
  /\ flow_asked \in BOOLEAN /\ is_linuxready \in BOOLEAN /\ bInputDisable \in BOOLEAN
  /\ ready \in BOOLEAN
  /\ currkey \in Keys \cup {NoKey} /\ iHoldKeyCount \in 0 .. HoldKeySkipTime
  /\ state \in {"ACTIVE", "DOWN", "DOWN_OFF", "STANDBY", "UP", "RESET"} /\ kind \in Kinds
  /\ source \in {"INVALID", "IR", "BUTTON", "CEC"}
  /\ soc_down \subseteq Keys
  /\ user \in Keys \cup {NoKey} /\ presses \in 0 .. MaxPress

\* In standby the remote control is listened to, although every wake-up switches
\* its interrupt off and only the SoC's driver switches it on again: cutting the
\* power does, too.  Only a suspend that keeps the power can be deaf, if the
\* driver has not reported since the last wake-up.
StandbyListens == (state = "STANDBY" /\ ~int_en) => (kind = "suspend_wfi" /\ ~ready)

\* A key that is down in standby wakes the system when it goes up, be it pressed
\* before or during standby, held or not, with frames lost or another key pressed.
RemoteWakes == (state = "STANDBY" /\ keydown) ~> (state # "STANDBY")

\* A key that has gone down for the SoC goes up for the SoC (ir_preprocess_key,
\* mv_sm_process_key), whatever frames are lost or of another key, unless the SoC
\* goes down or is reset or switches the input off before.
Session == state = "ACTIVE" /\ is_linuxready /\ ~bInputDisable
KeyReleased ==
  \A k \in Keys : (Session /\ keydown /\ currkey = k /\ k \in soc_down)
                   ~> (k \notin soc_down \/ ~Session)
=============================================================================
