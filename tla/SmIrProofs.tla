----------------------------- MODULE SmIrProofs -----------------------------
(***************************************************************************)
(* Proofs about the remote control, for rings of any length and any number *)
(* of presses: standby listens to it, and the ring is never overrun.  The  *)
(* first property speaks of STANDBY only; its invariant follows the        *)
(* interrupt from the last report of the SoC's driver, or from cutting the *)
(* power, to the end of the way down.                                      *)
(***************************************************************************)
EXTENDS SmIr, TLAPS

\* Whoever has switched the interrupt on, nothing has switched it off since.
IntInv ==
  /\ ready => int_en
  /\ state = "DOWN_OFF" => (int_en /\ kind # "suspend_wfi")
  /\ (state = "STANDBY" /\ kind # "suspend_wfi") => int_en

\* Initially the interrupt is on and the system is up.
LEMMA IntInit == Init => IntInv
  BY DEF Init, IntInv

\* Events of keys, whoever makes them, leave the interrupt and the state alone.
LEMMA KeysKeepInt ==
  ASSUME IntInv, ir_task \/ UserHold \/ UserRelease \/ Elapse
                 \/ \E key \in Keys : UserPress(key)
  PROVE  IntInv'
  <1>1. UNCHANGED <<int_en, state, kind, ready>>
    BY DEF ir_task, NewKey, HoldKey, KeyUp, Read, process_key, wake, pow, fsm, usr, flags,
           UserHold, UserRelease, Elapse, UserPress
  <1>2. QED  BY <1>1 DEF IntInv

\* Every step keeps the invariant.
LEMMA IntStep == IntInv /\ [Next]_vars => IntInv'
  <1> SUFFICES ASSUME IntInv, [Next]_vars PROVE IntInv'
    OBVIOUS
  <1>1. CASE ir_task \/ UserHold \/ UserRelease \/ Elapse \/ \E key \in Keys : UserPress(key)
    BY <1>1, KeysKeepInt
  <1>2. CASE IrLinuxready
    BY <1>2 DEF IrLinuxready, IntInv, pow
  <1>3. CASE \E b \in BOOLEAN : InputDisable(b) \/ \E key \in Keys : InputSendKey(key, b)
    BY <1>3 DEF InputDisable, InputSendKey, IntInv, pow
  <1>4. CASE \E k \in Kinds : DownEnter(k)
    BY <1>4 DEF DownEnter, IntInv
  <1>5. CASE PowerOff
    BY <1>5 DEF PowerOff, IntInv
  <1>6. CASE DownLeave
    BY <1>6 DEF DownLeave, IntInv
  <1>7. CASE UpEnter
    BY <1>7 DEF UpEnter, IntInv
  <1>8. CASE UpLeave
    BY <1>8 DEF UpLeave, IntInv
  <1>9. CASE SysReset \/ SysResetTick
    BY <1>9 DEF SysReset, SysResetTick, IntInv, pow
  <1>10. CASE \E s \in {"BUTTON", "CEC"} : OtherWake(s)
    BY <1>10 DEF OtherWake, wake, IntInv
  <1>11. CASE UNCHANGED vars
    BY <1>11 DEF vars, pow, IntInv
  <1>12. QED
    BY <1>1, <1>2, <1>3, <1>4, <1>5, <1>6, <1>7, <1>8, <1>9, <1>10, <1>11 DEF Next

\* In standby the interrupt of the remote control is on, unless the suspend keeps
\* the power and the driver has not reported since the last wake-up
\* (mv_sm_power_socpoweroff, mv_sm_process_internal_ir_msg).
THEOREM Listening == Spec => []StandbyListens
  <1>1. IntInv => StandbyListens
    BY DEF IntInv, StandbyListens
  <1>2. QED
    BY <1>1, IntInit, IntStep, PTL DEF Spec

-----------------------------------------------------------------------------
(* Types, part by part: numbers and sequences are for one prover, Boolean  *)
(* values for the other.                                                   *)

Frames == [key : Keys, hold : BOOLEAN]
RingTypes == /\ cbuffer \in Seq(Frames) /\ Len(cbuffer) <= CbuffLength
             /\ iHoldKeyCount \in 0 .. HoldKeySkipTime /\ presses \in 0 .. MaxPress
WordTypes ==
  /\ currkey \in Keys \cup {NoKey}
  /\ state \in {"ACTIVE", "DOWN", "DOWN_OFF", "STANDBY", "UP", "RESET"} /\ kind \in Kinds
  /\ source \in {"INVALID", "IR", "BUTTON", "CEC"}
  /\ soc_down \subseteq Keys
  /\ user \in Keys \cup {NoKey}
FlagTypes ==
  /\ int_en \in BOOLEAN /\ keydown \in BOOLEAN /\ keyhold \in BOOLEAN /\ elapsed \in BOOLEAN
  /\ flow_asked \in BOOLEAN /\ is_linuxready \in BOOLEAN /\ bInputDisable \in BOOLEAN
  /\ ready \in BOOLEAN

LEMMA TypeParts == TypeOK <=> RingTypes /\ WordTypes /\ FlagTypes
  BY DEF TypeOK, RingTypes, WordTypes, FlagTypes, Frames

LEMMA TypeInit == Init => TypeOK
  <1> SUFFICES ASSUME Init PROVE TypeOK
    OBVIOUS
  <1>1. RingTypes
    BY RingAssumption, HoldAssumption, PressAssumption DEF Init, RingTypes
  <1>2. WordTypes
    BY DEF Init, WordTypes, Kinds
  <1>3. FlagTypes
    BY Zenon DEF Init, FlagTypes
  <1>4. QED  BY <1>1, <1>2, <1>3, TypeParts

\* A frame is stored without overrunning the ring: a full one has an oldest.
LEMMA StoreFits ==
  ASSUME RingTypes, NEW f \in Frames
  PROVE  store(f) \in Seq(Frames) /\ Len(store(f)) <= CbuffLength
  <1>1. cbuffer \in Seq(Frames) /\ Len(cbuffer) \in Nat /\ Len(cbuffer) <= CbuffLength
    BY DEF RingTypes
  <1>2. CASE Len(cbuffer) = CbuffLength
    <2>1. cbuffer # <<>>
      BY <1>1, <1>2, RingAssumption
    <2>2. Tail(cbuffer) \in Seq(Frames) /\ Len(Tail(cbuffer)) = Len(cbuffer) - 1
      BY <1>1, <2>1
    <2>3. /\ Append(Tail(cbuffer), f) \in Seq(Frames)
          /\ Len(Append(Tail(cbuffer), f)) = Len(cbuffer)
      BY <1>1, <2>2
    <2>4. QED  BY <1>1, <1>2, <2>3 DEF store
  <1>3. CASE Len(cbuffer) # CbuffLength
    <2>1. Append(cbuffer, f) \in Seq(Frames) /\ Len(Append(cbuffer, f)) = Len(cbuffer) + 1
      BY <1>1
    <2>2. QED  BY <1>1, <1>3, <2>1, RingAssumption DEF store
  <1>4. QED  BY <1>2, <1>3

LEMMA FrameFits ==
  ASSUME RingTypes, NEW key \in Keys, NEW hold \in BOOLEAN, Frame(key, hold)
  PROVE  cbuffer' \in Seq(Frames) /\ Len(cbuffer') <= CbuffLength
  <1>1. [key |-> key, hold |-> hold] \in Frames
    BY DEF Frames
  <1>2. QED  BY <1>1, StoreFits DEF Frame, RingTypes

\* An event that is passed on keeps the types.
LEMMA EventTypes ==
  ASSUME WordTypes, NEW key \in Keys \cup {NoKey}, NEW event \in {"down", "hold", "up"},
         process_key(key, event), event = "down" => key \in Keys
  PROVE  /\ soc_down' \subseteq Keys /\ source' \in {"INVALID", "IR", "BUTTON", "CEC"}
         /\ state' = state /\ kind' = kind
         /\ flow_asked' = flow_asked \/ flow_asked' = TRUE
  <1>1. \/ soc_down' = soc_down \cup {key} /\ event = "down"
        \/ soc_down' \in {soc_down, soc_down \ {key}}
    BY DEF process_key
  <1>2. soc_down' \subseteq Keys
    BY <1>1 DEF WordTypes
  <1>3. \/ state' = state /\ kind' = kind /\ source' = "IR" /\ flow_asked' = TRUE
        \/ UNCHANGED <<state, kind, source, flow_asked>>
    BY DEF process_key, wake, pow
  <1>4. QED  BY <1>2, <1>3 DEF WordTypes

LEMMA TaskTypes == ASSUME TypeOK, ir_task PROVE TypeOK'
  <1>1. RingTypes /\ WordTypes /\ FlagTypes
    BY TypeParts
  <1>2. UNCHANGED <<int_en, is_linuxready, bInputDisable, user, presses, ready>>
    BY DEF ir_task, NewKey, HoldKey, KeyUp, Read, flags, usr
  <1>3. \/ cbuffer # <<>> /\ cbuffer' = Tail(cbuffer)
        \/ cbuffer' = cbuffer
    BY DEF ir_task, NewKey, HoldKey, KeyUp, Read
  <1>4. cbuffer' \in Seq(Frames) /\ Len(cbuffer') <= CbuffLength
    <2>1. CASE cbuffer # <<>> /\ cbuffer' = Tail(cbuffer)
      <3>1. Tail(cbuffer) \in Seq(Frames) /\ Len(Tail(cbuffer)) = Len(cbuffer) - 1
            /\ Len(cbuffer) \in Nat
        BY <1>1, <2>1 DEF RingTypes
      <3>2. QED  BY <1>1, <2>1, <3>1, RingAssumption DEF RingTypes
    <2>2. QED  BY <1>1, <1>3, <2>1 DEF RingTypes
  <1>5. cbuffer # <<>> => Head(cbuffer).key \in Keys
    <2>1. cbuffer # <<>> => Head(cbuffer) \in Frames
      BY <1>1 DEF RingTypes
    <2>2. QED  BY <2>1 DEF Frames
  <1>6. /\ iHoldKeyCount' \in 0 .. HoldKeySkipTime
    BY <1>1, HoldAssumption DEF ir_task, NewKey, HoldKey, KeyUp, RingTypes, fsm
  <1>7. /\ currkey' \in Keys \cup {NoKey}
    BY <1>1, <1>5 DEF ir_task, NewKey, HoldKey, KeyUp, Read, WordTypes, fsm
  <1>8. /\ keydown' = keydown \/ keydown' = TRUE \/ keydown' = FALSE
        /\ keyhold' = keyhold \/ keyhold' = TRUE \/ keyhold' = FALSE
        /\ elapsed' = elapsed \/ elapsed' = FALSE
    BY DEF ir_task, NewKey, HoldKey, KeyUp, fsm
  <1>9. \/ UNCHANGED <<soc_down, state, kind, source, flow_asked>>
        \/ \E key \in Keys \cup {NoKey}, event \in {"down", "hold", "up"} :
              process_key(key, event) /\ (event = "down" => key \in Keys)
    <2>1. CASE NewKey
      BY <1>5, <2>1 DEF NewKey, Read, pow
    <2>2. CASE HoldKey
      BY <1>1, <2>2 DEF HoldKey, pow, WordTypes
    <2>3. CASE KeyUp
      BY <1>1, <2>3 DEF KeyUp, WordTypes
    <2>4. QED  BY <2>1, <2>2, <2>3 DEF ir_task
  <1>10. /\ soc_down' \subseteq Keys /\ source' \in {"INVALID", "IR", "BUTTON", "CEC"}
         /\ state' = state /\ kind' = kind
         /\ flow_asked' = flow_asked \/ flow_asked' = TRUE
    <2>1. CASE UNCHANGED <<soc_down, state, kind, source, flow_asked>>
      BY <1>1, <2>1 DEF WordTypes
    <2>2. QED  BY <1>1, <1>9, <2>1, EventTypes
  <1>11. RingTypes'
    BY <1>1, <1>2, <1>4, <1>6 DEF RingTypes
  <1>12. WordTypes'
    BY <1>1, <1>2, <1>7, <1>10 DEF WordTypes
  <1>13. FlagTypes'
    BY <1>1, <1>2, <1>8, <1>10, Zenon DEF FlagTypes
  <1>14. QED  BY <1>11, <1>12, <1>13, TypeParts, PTL

\* The user: only these steps store frames.
LEMMA UserTypes ==
  ASSUME TypeOK, (\E key \in Keys : UserPress(key)) \/ UserHold \/ UserRelease
  PROVE  TypeOK'
  <1>1. RingTypes /\ WordTypes /\ FlagTypes
    BY TypeParts
  <1>2. UNCHANGED <<int_en, keydown, keyhold, currkey, iHoldKeyCount, elapsed, state, kind, source,
                    flow_asked, is_linuxready, bInputDisable, soc_down, ready>>
    BY DEF UserPress, UserHold, UserRelease, fsm, pow, flags
  <1>3. presses' \in 0 .. MaxPress
    <2>1. (presses < MaxPress /\ presses' = presses + 1) \/ presses' = presses
      BY DEF UserPress, UserHold, UserRelease, usr
    <2>2. QED  BY <1>1, <2>1, PressAssumption DEF RingTypes
  <1>4. user' \in Keys \cup {NoKey}
    BY <1>1 DEF UserPress, UserHold, UserRelease, usr, WordTypes
  <1>5. cbuffer' \in Seq(Frames) /\ Len(cbuffer') <= CbuffLength
    <2>1. CASE \E key \in Keys : UserPress(key)
      BY <1>1, <2>1, FrameFits DEF UserPress
    <2>2. CASE UserHold
      <3>1. user \in Keys /\ Frame(user, TRUE)
        BY <1>1, <2>2 DEF UserHold, WordTypes
      <3>2. QED  BY <1>1, <3>1, FrameFits
    <2>3. CASE UserRelease
      BY <1>1, <2>3 DEF UserRelease, RingTypes
    <2>4. QED  BY <2>1, <2>2, <2>3
  <1>6. RingTypes'
    BY <1>1, <1>2, <1>3, <1>5 DEF RingTypes
  <1>7. WordTypes'
    BY <1>1, <1>2, <1>4 DEF WordTypes
  <1>8. FlagTypes'
    BY <1>1, <1>2, Zenon DEF FlagTypes
  <1>9. QED  BY <1>6, <1>7, <1>8, TypeParts, PTL

\* Messages of the SoC, time, and the power flows.
LEMMA OtherTypes ==
  ASSUME TypeOK,
         \/ Elapse \/ IrLinuxready \/ SysReset \/ SysResetTick
         \/ \E b \in BOOLEAN : InputDisable(b) \/ \E key \in Keys : InputSendKey(key, b)
         \/ \E k \in Kinds : DownEnter(k)
         \/ PowerOff \/ DownLeave \/ UpEnter \/ UpLeave
         \/ \E s \in {"BUTTON", "CEC"} : OtherWake(s)
  PROVE  TypeOK'
  <1>1. RingTypes /\ WordTypes /\ FlagTypes
    BY TypeParts
  <1>2. UNCHANGED <<cbuffer, iHoldKeyCount, presses, keydown, keyhold, currkey, user>>
    BY DEF Elapse, IrLinuxready, SysReset, SysResetTick, InputDisable, InputSendKey, DownEnter,
           PowerOff, DownLeave, UpEnter, UpLeave, OtherWake, fsm, usr
  <1>3. RingTypes'
    BY <1>1, <1>2 DEF RingTypes
  <1>4. WordTypes'
    <2>1. soc_down' \subseteq Keys
      BY <1>1 DEF WordTypes,
           Elapse, IrLinuxready, SysReset, SysResetTick, InputDisable, InputSendKey, DownEnter,
           PowerOff, DownLeave, UpEnter, UpLeave, OtherWake
    <2>2. source' = source \/ source' \in {"BUTTON", "CEC"}
      BY DEF pow,
           Elapse, IrLinuxready, SysReset, SysResetTick, InputDisable, InputSendKey, DownEnter,
           PowerOff, DownLeave, UpEnter, UpLeave, OtherWake, wake
    <2>3. /\ kind' = kind \/ kind' \in Kinds
          /\ state' = state \/ state' \in {"ACTIVE", "DOWN", "DOWN_OFF", "STANDBY", "UP", "RESET"}
      BY DEF pow,
           Elapse, IrLinuxready, SysReset, SysResetTick, InputDisable, InputSendKey, DownEnter,
           PowerOff, DownLeave, UpEnter, UpLeave, OtherWake, wake
    <2>4. QED  BY <1>1, <1>2, <2>1, <2>2, <2>3 DEF WordTypes
  <1>5. /\ elapsed' = elapsed \/ elapsed' = TRUE
        /\ int_en' = int_en \/ int_en' = TRUE \/ int_en' = FALSE
        /\ flow_asked' = flow_asked \/ flow_asked' = TRUE \/ flow_asked' = FALSE
        /\ is_linuxready' = is_linuxready \/ is_linuxready' = TRUE \/ is_linuxready' = FALSE
        /\ ready' = ready \/ ready' = TRUE \/ ready' = FALSE
    BY DEF Elapse, IrLinuxready, SysReset, SysResetTick, InputDisable, InputSendKey, DownEnter,
           PowerOff, DownLeave, UpEnter, UpLeave, OtherWake, wake, fsm, pow, flags
  <1>6. bInputDisable' = bInputDisable \/ bInputDisable' \in BOOLEAN
    BY DEF Elapse, IrLinuxready, SysReset, SysResetTick, InputDisable, InputSendKey, DownEnter,
           PowerOff, DownLeave, UpEnter, UpLeave, OtherWake, flags
  <1>7. FlagTypes'
    BY <1>1, <1>2, <1>5, <1>6, Zenon DEF FlagTypes
  <1>8. QED  BY <1>3, <1>4, <1>7, TypeParts, PTL

LEMMA TypeStep == TypeOK /\ [Next]_vars => TypeOK'
  <1> SUFFICES ASSUME TypeOK, [Next]_vars PROVE TypeOK'
    OBVIOUS
  <1>1. ASSUME UNCHANGED vars PROVE TypeOK'
    <2>1. RingTypes /\ WordTypes /\ FlagTypes
      BY TypeParts
    <2>2. RingTypes' /\ WordTypes'
      BY <1>1, <2>1 DEF vars, fsm, pow, flags, usr, RingTypes, WordTypes
    <2>3. FlagTypes'
      BY <1>1, <2>1, Zenon DEF vars, fsm, pow, flags, usr, FlagTypes
    <2>4. QED  BY <2>2, <2>3, TypeParts, PTL
  <1>2. QED
    BY <1>1, TaskTypes, UserTypes, OtherTypes DEF Next

\* The ring of the remote control is never written beyond its length, however
\* fast frames come (store_ircbuffer), no key but a real one is ever down for
\* the SoC, and every other variable keeps its range.
THEOREM RemoteTypes == Spec => []TypeOK
  BY TypeInit, TypeStep, PTL DEF Spec
=============================================================================
