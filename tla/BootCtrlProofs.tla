--------------------------- MODULE BootCtrlProofs ---------------------------
(***************************************************************************)
(* Proofs about the slot selection: types, the rollback of an update that  *)
(* never booted, and the agreement of kernel and root file system.         *)
(***************************************************************************)
EXTENDS BootCtrl, TLAPS

SlotMeta == [priority : Byte, tries : 0 .. 2, successful : BOOLEAN]
MiscType == [valid : BOOLEAN, info : [Slots -> SlotMeta]]

USE DEF BOOTSEL_A, BOOTSEL_B, BOOTSEL_DEFAULT, BOOTSEL_INVALID, Slots

(* Every value that is written to the medium is metadata.                  *)
LEMMA DefaultType ==
  ASSUME NEW d
  PROVE  Default(d) \in MiscType /\ Default(d).valid
  BY DEF Default, MiscType, SlotMeta, Meta, Byte

LEMMA ErasedType == Erased \in MiscType
  BY DEF Erased, MiscType, SlotMeta, Meta, Byte

LEMMA SetActiveType ==
  ASSUME NEW m \in MiscType, NEW s
  PROVE  SetActive(m, s) \in MiscType
<1>1. CASE ~m.valid
  BY <1>1, DefaultType DEF SetActive
<1>2. CASE m.valid
  <2> DEFINE i == [t \in Slots |->
         IF t = s THEN Meta(15, 2, FALSE)
         ELSE [m.info[t] EXCEPT !.priority = IF @ >= 15 THEN 14 ELSE @]]
  <2>1. ASSUME NEW t \in Slots PROVE i[t] \in SlotMeta
    <3>1. m.info[t] \in SlotMeta
      BY <2>1 DEF MiscType
    <3> QED BY <2>1, <3>1 DEF SlotMeta, Meta, Byte
  <2>2. i \in [Slots -> SlotMeta]
    BY <2>1
  <2>3. SetActive(m, s) = [m EXCEPT !.info = i]
    BY <1>2 DEF SetActive
  <2> HIDE DEF i
  <2> QED BY <2>2, <2>3 DEF MiscType
<1> QED BY <1>1, <1>2

LEMMA SpendType ==
  ASSUME NEW m \in MiscType, NEW s \in Slots
  PROVE  /\ Spend(m, s) \in MiscType
         /\ Spend(m, s).info[1 - s] = m.info[1 - s]
         /\ Spend(m, s).info[s].successful = m.info[s].successful
         /\ m.info[s].tries = 0 => Spend(m, s).info[s].tries = 0
<1>1. m.info \in [Slots -> SlotMeta] /\ m.info[s] \in SlotMeta /\ 1 - s # s /\ 1 - s \in Slots
  BY DEF MiscType
<1>2. m.info[s].tries \in 0 .. 2 /\ m.info[s].priority \in Byte
  BY <1>1 DEF SlotMeta
<1>3. CASE m.info[s].tries > 0
  BY <1>1, <1>2, <1>3 DEF Spend, MiscType, SlotMeta
<1>4. CASE ~(m.info[s].tries > 0)
  <2>1. (m.info[s].priority - 2) % 256 \in Byte
    BY <1>2 DEF Byte
  <2> QED BY <1>1, <1>2, <1>4, <2>1 DEF Spend, MiscType, SlotMeta
<1> QED BY <1>3, <1>4

LEMMA HalfWrittenType ==
  ASSUME misc \in MiscType, NEW m \in MiscType
  PROVE  HalfWritten(m) \subseteq MiscType
  BY ErasedType DEF HalfWritten

LEMMA GetType ==
  ASSUME misc \in MiscType, budget \in 0 .. MaxBudget, NEW r, get_current_slot(r)
  PROVE  misc' \in MiscType /\ budget' \in 0 .. MaxBudget
  BY DefaultType, HalfWrittenType, BudgetAssumption
     DEF get_current_slot, WriteFails, Disturb, Undisturbed

\* TypeOK and HasSlot are preserved by every step.
LEMMA TypeStep ==
  ASSUME TypeOK, HasSlot, [Next]_vars
  PROVE  TypeOK' /\ HasSlot'
<1> USE BudgetAssumption
<1>o. spi' \in BOOLEAN
  BY DEF Next, Boot, show_logo, SelectSlot, load_android_image, try_abmode,
     boot_android_image, set_active_slot, LinuxMarksSuccess, LinuxUpdates, Decay, Reboot,
     PowerCut, vars, TypeOK
<1>0. misc \in MiscType
  BY DEF TypeOK, MiscType, SlotMeta
<1>t. ASSUME misc' \in MiscType PROVE
        misc' \in [valid : BOOLEAN,
          info : [Slots -> [priority : Byte, tries : 0 .. 2, successful : BOOLEAN]]]
  BY <1>t DEF MiscType, SlotMeta
<1>1. CASE show_logo
  <2>1. misc' \in MiscType /\ budget' \in 0 .. MaxBudget
    BY <1>0, <1>1, GetType DEF show_logo, TypeOK
  <2> QED BY <1>o, <1>1, <1>t, <2>1 DEF show_logo, TypeOK, HasSlot, Running
<1>2. CASE SelectSlot
  <2>1. misc' \in MiscType /\ budget' \in 0 .. MaxBudget
    BY <1>0, <1>2, GetType DEF SelectSlot, TypeOK
  <2> QED BY <1>o, <1>2, <1>t, <2>1 DEF SelectSlot, Off, TypeOK, HasSlot, Running
<1>3. CASE load_android_image
  BY <1>o, <1>3 DEF load_android_image, Disturb, Undisturbed, TypeOK, HasSlot, Running
<1>4. CASE try_abmode
  <2>1. slot \in Slots
    BY <1>4 DEF try_abmode, HasSlot
  <2>2. Spend(misc, slot) \in MiscType
    BY <1>0, <2>1, SpendType
  <2>3. misc' \in MiscType /\ budget' \in 0 .. MaxBudget
    BY <1>0, <1>4, <2>2, HalfWrittenType DEF try_abmode, WriteFails, Disturb, Undisturbed, TypeOK
  <2> QED BY <1>o, <1>4, <1>t, <2>3 DEF try_abmode, Off, TypeOK, HasSlot, Running
<1>5. CASE boot_android_image
  <2>1. misc' \in MiscType /\ budget' \in 0 .. MaxBudget
    BY <1>0, <1>5, GetType DEF boot_android_image, TypeOK
  <2> QED BY <1>o, <1>5, <1>t, <2>1 DEF boot_android_image, RootOf, TypeOK, HasSlot, Running
<1>6. ASSUME NEW s \in Slots, set_active_slot(s) PROVE TypeOK' /\ HasSlot'
  <2>1. SetActive(misc, s) \in MiscType
    BY <1>0, SetActiveType
  <2>2. misc' \in MiscType /\ budget' \in 0 .. MaxBudget
    BY <1>0, <1>6, <2>1, HalfWrittenType, DefaultType DEF set_active_slot, Disturb, TypeOK
  <2> QED BY <1>o, <1>6, <1>t, <2>2 DEF set_active_slot, Off, TypeOK, HasSlot, Running
<1>7. CASE LinuxMarksSuccess
  <2>1. misc' \in MiscType
    <3>1. misc.info \in [Slots -> SlotMeta]
      BY <1>0 DEF MiscType
    <3>2. [misc.info EXCEPT ![Running].successful = TRUE] \in [Slots -> SlotMeta]
      BY <3>1 DEF SlotMeta
    <3> QED BY <1>0, <1>7, <3>2 DEF LinuxMarksSuccess, MiscType
  <2> QED BY <1>o, <1>7, <1>t, <2>1 DEF LinuxMarksSuccess, TypeOK, HasSlot, Running
<1>8. CASE LinuxUpdates
  <2>1. misc' \in MiscType
    BY <1>0, <1>8, SetActiveType DEF LinuxUpdates
  <2>2. image' \in [Slots -> ImageKinds]
    <3> DEFINE other == 1 - Running
    <3>1. PICK k \in ImageKinds : image' = [image EXCEPT ![other] = k]
      BY <1>8 DEF LinuxUpdates
    <3> HIDE DEF other
    <3> QED BY <3>1 DEF TypeOK
  <2> QED BY <1>o, <1>8, <1>t, <2>1, <2>2 DEF LinuxUpdates, Disturb, TypeOK, HasSlot, Running
<1>9. CASE Decay
  <2>1. image' \in [Slots -> ImageKinds]
    BY <1>9, ImageAssumption DEF Decay, Disturb, TypeOK
  <2> QED BY <1>o, <1>9, <2>1 DEF Decay, Disturb, TypeOK, HasSlot, Running
<1>10. CASE Reboot
  BY <1>o, <1>10 DEF Reboot, Off, TypeOK, HasSlot, Running
<1>11. CASE PowerCut
  BY <1>o, <1>11 DEF PowerCut, Off, Disturb, TypeOK, HasSlot, Running
<1>12. CASE UNCHANGED vars
  BY <1>12 DEF vars, TypeOK, HasSlot, Running
<1> QED
  BY <1>1, <1>2, <1>3, <1>4, <1>5, <1>6, <1>7, <1>8, <1>9, <1>10, <1>11, <1>12 DEF Next, Boot

LEMMA TypeInit == Init => TypeOK /\ HasSlot
  BY DefaultType, ErasedType, BudgetAssumption, MediumAssumption DEF Init, TypeOK, HasSlot, Running, MiscType, SlotMeta

\* Whatever disturbs it, U-Boot keeps bytes in the metadata's fields and works
\* on one of the two slots.
THEOREM BootTypes == Spec => [](TypeOK /\ HasSlot)
<1>1. TypeOK /\ HasSlot /\ [Next]_vars => TypeOK' /\ HasSlot'
  BY TypeStep
<1> QED BY <1>1, TypeInit, PTL DEF Spec

\* After the last attempt of an update that never booted, try_abmode and the
\* reset lead to the other slot, if that one can boot.
THEOREM Rollback == Spec => RollbackAfterUpdate
<1>1. ASSUME TypeOK, HasSlot, [Next]_vars, Exhausted, ~misc.info[slot].successful,
             slot_is_bootable(misc.info[1 - slot])
      PROVE  CurrentSlot(misc') = 1 - slot
  <2>1. misc \in MiscType /\ budget \in Nat
    BY <1>1, BudgetAssumption DEF TypeOK, MiscType, SlotMeta
  <2>2. slot \in Slots /\ 1 - slot \in Slots
    BY <1>1 DEF Exhausted, HasSlot
  <2>3. try_abmode
    BY <1>1, <2>1 DEF Exhausted, Next, Boot, show_logo, SelectSlot, load_android_image,
       boot_android_image, set_active_slot, LinuxMarksSuccess, LinuxUpdates, Decay,
       Reboot, PowerCut, Disturb, vars
  <2>4. misc' = Spend(misc, slot) /\ ~(misc.info[slot].tries > 0)
    BY <1>1, <2>1, <2>3 DEF Exhausted, try_abmode, WriteFails, Disturb, Undisturbed
  <2>5. misc.info[slot].tries = 0
    BY <2>1, <2>2, <2>4 DEF MiscType, SlotMeta
  <2>6. ~slot_is_bootable(misc'.info[slot]) /\ slot_is_bootable(misc'.info[1 - slot])
    <3>1. misc'.info[1 - slot] = misc.info[1 - slot] /\ misc'.info[slot].tries = 0
          /\ misc'.info[slot].successful = misc.info[slot].successful
      BY <2>1, <2>2, <2>4, <2>5, SpendType
    <3> QED BY <1>1, <3>1 DEF slot_is_bootable
  <2> QED BY <2>2, <2>6 DEF CurrentSlot
<1>2. TypeOK /\ HasSlot /\ [Next]_vars =>
        [Exhausted /\ ~misc.info[slot].successful
           /\ slot_is_bootable(misc.info[1 - slot])
           => CurrentSlot(misc') = 1 - slot]_vars
  BY <1>1
<1> QED BY <1>2, BootTypes, PTL DEF Spec, RollbackAfterUpdate

-----------------------------------------------------------------------------
(* Kernel and root file system.                                            *)

RankedM(m) == (\A s \in Slots : m.info[s].tries > 0) =>
                m.info[BOOTSEL_A].priority # m.info[BOOTSEL_B].priority

UsedUpM(m, s) == /\ m.info[s].tries = 0
                 /\ \/ ~m.info[s].successful
                    \/ m.info[BOOTSEL_A].priority = m.info[BOOTSEL_B].priority

\* Metadata with which the slot s of do_syna_boot is still current.
CurrentM(m, s) == IF m.valid THEN UsedUpM(m, s) \/ CurrentSlot(m) = s
                             ELSE s = BOOTSEL_DEFAULT

\* The defaults rank the default slot first.
LEMMA DefaultRanked ==
  ASSUME NEW d \in Slots
  PROVE  RankedM(Default(d)) /\ CurrentSlot(Default(BOOTSEL_DEFAULT)) = BOOTSEL_DEFAULT
  BY DEF RankedM, CurrentSlot, Default, Meta, slot_is_bootable, Preferred

LEMMA SetActiveRanked ==
  ASSUME NEW m \in MiscType, NEW s \in Slots, RankedM(m)
  PROVE  RankedM(SetActive(m, s))
<1>1. CASE ~m.valid
  BY <1>1, DefaultRanked DEF SetActive
<1>2. CASE m.valid
  <2> DEFINE i == [t \in Slots |->
         IF t = s THEN Meta(15, 2, FALSE)
         ELSE [m.info[t] EXCEPT !.priority = IF @ >= 15 THEN 14 ELSE @]]
  <2>1. SetActive(m, s) = [m EXCEPT !.info = i]
    BY <1>2 DEF SetActive
  <2>2. SetActive(m, s).info = i
    BY <2>1 DEF MiscType
  <2>3. i[s].priority = 15
    BY DEF Meta
  <2>4. ASSUME NEW t \in Slots, t # s PROVE i[t].priority # 15
    <3>1. m.info[t] \in SlotMeta
      BY DEF MiscType
    <3> QED BY <2>4, <3>1 DEF SlotMeta, Byte
  <2> HIDE DEF i
  <2>5. i[BOOTSEL_A].priority # i[BOOTSEL_B].priority
    BY <2>3, <2>4
  <2> QED BY <2>2, <2>5 DEF RankedM
<1> QED BY <1>1, <1>2

LEMMA SpendRanked ==
  ASSUME NEW m \in MiscType, NEW s \in Slots, RankedM(m)
  PROVE  RankedM(Spend(m, s))
<1>1. m.info \in [Slots -> SlotMeta] /\ m.info[s] \in SlotMeta /\ 1 - s \in Slots /\ 1 - s # s
  BY DEF MiscType
<1>2. CASE m.info[s].tries > 0
  <2>1. Spend(m, s).info[s].priority = m.info[s].priority
        /\ Spend(m, s).info[s].tries = m.info[s].tries - 1
    BY <1>1, <1>2 DEF Spend, MiscType, SlotMeta
  <2>2. Spend(m, s).info[1 - s] = m.info[1 - s]
    BY SpendType
  <2> QED BY <1>1, <1>2, <2>1, <2>2 DEF RankedM
<1>3. CASE ~(m.info[s].tries > 0)
  <2>1. m.info[s].tries = 0
    BY <1>1, <1>3 DEF SlotMeta
  <2>2. Spend(m, s).info[s].tries = 0
    BY <2>1, SpendType
  <2> QED BY <2>2 DEF RankedM
<1> QED BY <1>2, <1>3

\* Using an attempt leaves the slot current, unless it was the last one and only
\* the attempts spoke for it.
LEMMA SpendCurrent ==
  ASSUME NEW m \in MiscType, NEW s \in Slots, RankedM(m), m.valid,
         m.info[s].tries > 0, CurrentM(m, s)
  PROVE  CurrentM(Spend(m, s), s)
<1> DEFINE n == Spend(m, s)
           o == 1 - s
<1>1. m.info \in [Slots -> SlotMeta] /\ o \in Slots /\ o # s
  BY DEF MiscType
<1>2. m.info[s] \in SlotMeta /\ m.info[o] \in SlotMeta
  BY <1>1
<1>3. /\ n.info[s].priority = m.info[s].priority
      /\ n.info[s].tries = m.info[s].tries - 1
      /\ n.info[s].successful = m.info[s].successful
      /\ n.valid = m.valid
  BY <1>1, <1>2 DEF Spend, MiscType, SlotMeta
<1>4. n.info[o] = m.info[o]
  BY SpendType
<1>5. CurrentSlot(m) = s
  BY DEF CurrentM, UsedUpM
<1> SUFFICES CurrentM(n, s)
  OBVIOUS
<1> HIDE DEF n
<1>6. /\ m.info[s].tries \in 1 .. 2 /\ m.info[o].tries \in 0 .. 2
      /\ m.info[s].priority \in Nat /\ m.info[o].priority \in Nat
      /\ m.info[s].successful \in BOOLEAN /\ m.info[o].successful \in BOOLEAN
  BY <1>2 DEF SlotMeta, Byte
<1>7. CASE n.info[s].tries = 0 /\ ~n.info[s].successful
  BY <1>3, <1>7 DEF CurrentM, UsedUpM
<1>8. CASE n.info[s].tries = 0 /\ n.info[s].successful
  <2>1. CASE m.info[s].priority = m.info[o].priority
    BY <1>1, <1>3, <1>4, <1>8, <2>1 DEF CurrentM, UsedUpM
  <2>2. CASE m.info[s].priority # m.info[o].priority
    <3>1. slot_is_bootable(m.info[s]) /\ slot_is_bootable(n.info[s])
      BY <1>3, <1>5, <1>6, <1>8 DEF slot_is_bootable, CurrentSlot
    <3>2. CurrentSlot(n) = s
      BY <1>1, <1>3, <1>4, <1>5, <1>6, <2>2, <3>1 DEF CurrentSlot, Preferred
    <3> QED BY <1>3, <3>2 DEF CurrentM
  <2> QED BY <2>1, <2>2
<1>9. CASE n.info[s].tries > 0
  <2>1. m.info[o].tries > 0 => m.info[s].priority # m.info[o].priority
    BY <1>1, <1>6 DEF RankedM
  <2>2. slot_is_bootable(m.info[s]) /\ slot_is_bootable(n.info[s])
    BY <1>3, <1>5, <1>6, <1>9 DEF slot_is_bootable, CurrentSlot
  <2>3. CurrentSlot(n) = s
    BY <1>1, <1>3, <1>4, <1>5, <1>6, <1>9, <2>1, <2>2 DEF CurrentSlot, Preferred
  <2> QED BY <1>3, <2>3 DEF CurrentM
<1> QED BY <1>3, <1>6, <1>7, <1>8, <1>9

\* On eMMC get_current_slot returns what the metadata it leaves says again,
\* whether or not it could be read or written.
LEMMA GetAgain ==
  ASSUME ~spi, NEW r, get_current_slot(r)
  PROVE  /\ misc'.valid => r = CurrentSlot(misc')
         /\ ~misc'.valid => r = BOOTSEL_DEFAULT
  BY DefaultRanked, DefaultType DEF get_current_slot, WriteFails, HalfWritten

LEMMA GetRanked ==
  ASSUME misc \in MiscType, RankedM(misc), NEW r, get_current_slot(r)
  PROVE  RankedM(misc')
<1>1. RankedM(Erased)
  BY DEF RankedM, Erased, Meta
<1> QED BY <1>1, DefaultRanked DEF get_current_slot, WriteFails, HalfWritten

\* The inductive step.
LEMMA SlotStep ==
  ASSUME SlotInv, [Next]_vars
  PROVE  Ranked' /\ StillCurrent'
<1> USE DEF SlotInv
<1>0. misc \in MiscType /\ RankedM(misc)
  BY DEF TypeOK, MiscType, SlotMeta, Ranked, RankedM
<1>e. RankedM(Erased)
  BY DEF RankedM, Erased, Meta
<1>r. ASSUME RankedM(misc') PROVE Ranked'
  BY <1>r DEF Ranked, RankedM
<1>c. ASSUME pc' \in {"load", "failed", "bootm"} /\ ~spi' => CurrentM(misc', slot')
      PROVE  StillCurrent'
  BY <1>c DEF StillCurrent, UsedUp, CurrentM, UsedUpM
<1>k. pc \in {"load", "failed", "bootm"} /\ ~spi => CurrentM(misc, slot)
  BY DEF StillCurrent, UsedUp, CurrentM, UsedUpM
<1>1. CASE UNCHANGED vars
  BY <1>0, <1>1, <1>r, <1>c, <1>k DEF vars
<1>2. CASE show_logo
  <2>1. RankedM(misc')
    BY <1>0, <1>2, GetRanked DEF show_logo
  <2> QED BY <1>2, <2>1, <1>r DEF show_logo, StillCurrent
<1>3. CASE SelectSlot
  <2>1. PICK r \in Slots \cup {BOOTSEL_INVALID} :
          /\ get_current_slot(r)
          /\ IF r \in Slots THEN pc' = "load" /\ slot' = r /\ UNCHANGED root ELSE Off
    BY <1>3 DEF SelectSlot
  <2>2. RankedM(misc')
    BY <1>0, <2>1, GetRanked
  <2>3. pc' \in {"load", "failed", "bootm"} /\ ~spi' => CurrentM(misc', slot')
    BY <1>3, <2>1, GetAgain DEF SelectSlot, Off, CurrentM
  <2> QED BY <2>2, <2>3, <1>r, <1>c
<1>4. CASE load_android_image
  BY <1>0, <1>4, <1>r, <1>c, <1>k DEF load_android_image
<1>5. CASE try_abmode
  <2>1. slot \in Slots /\ pc = "failed"
    BY <1>5 DEF try_abmode, HasSlot
  <2>2. RankedM(Spend(misc, slot))
    BY <1>0, <2>1, SpendRanked
  <2>3. RankedM(misc')
    BY <1>0, <1>5, <1>e, <2>2 DEF try_abmode, WriteFails, HalfWritten
  <2>4. ASSUME pc' \in {"load", "failed", "bootm"}, ~spi'
        PROVE  CurrentM(misc', slot')
    <3>1. /\ ~spi /\ misc.valid /\ misc.info[slot].tries > 0 /\ slot' = slot
          /\ misc' \in {misc, Spend(misc, slot)}
      BY <1>5, <2>4 DEF try_abmode, Off, WriteFails, HalfWritten
    <3>2. CurrentM(misc, slot)
      BY <1>k, <2>1, <3>1
    <3>3. CurrentM(Spend(misc, slot), slot)
      BY <1>0, <2>1, <3>1, <3>2, SpendCurrent
    <3> QED BY <3>1, <3>2, <3>3
  <2> QED BY <2>3, <2>4, <1>r, <1>c
<1>6. CASE boot_android_image
  <2>1. RankedM(misc')
    BY <1>0, <1>6, GetRanked DEF boot_android_image
  <2> QED BY <1>6, <2>1, <1>r DEF boot_android_image, StillCurrent
<1>7. ASSUME NEW s \in Slots, set_active_slot(s) PROVE Ranked' /\ StillCurrent'
  <2>1. RankedM(SetActive(misc, s)) /\ RankedM(Default(s))
    BY <1>0, SetActiveRanked, DefaultRanked
  <2>2. RankedM(misc')
    BY <1>0, <1>7, <1>e, <2>1 DEF set_active_slot, HalfWritten
  <2> QED BY <1>7, <2>2, <1>r DEF set_active_slot, Off, StillCurrent
<1>8. CASE LinuxMarksSuccess
  <2>1. ASSUME NEW t \in Slots
        PROVE  misc'.info[t].priority = misc.info[t].priority
               /\ misc'.info[t].tries = misc.info[t].tries
    <3>1. misc.info \in [Slots -> SlotMeta] /\ misc.info[t] \in SlotMeta
      BY <1>0 DEF MiscType
    <3>2. misc' = [misc EXCEPT !.info[Running].successful = TRUE]
      BY <1>8 DEF LinuxMarksSuccess
    <3> QED BY <1>0, <3>1, <3>2 DEF MiscType, SlotMeta
  <2>2. RankedM(misc')
    BY <1>0, <2>1 DEF RankedM
  <2> QED BY <1>8, <2>2, <1>r DEF LinuxMarksSuccess, StillCurrent
<1>9. CASE LinuxUpdates
  <2>1. Running \in Slots /\ 1 - Running \in Slots
    BY <1>9 DEF LinuxUpdates, HasSlot
  <2>2. RankedM(misc')
    BY <1>0, <1>9, <2>1, SetActiveRanked DEF LinuxUpdates
  <2> QED BY <1>9, <2>2, <1>r DEF LinuxUpdates, StillCurrent
<1>10. CASE Decay
  BY <1>0, <1>10, <1>r DEF Decay, StillCurrent
<1>11. CASE Reboot
  BY <1>0, <1>11, <1>r DEF Reboot, Off, StillCurrent
<1>12. CASE PowerCut
  BY <1>0, <1>12, <1>r DEF PowerCut, Off, StillCurrent
<1> QED BY <1>1, <1>2, <1>3, <1>4, <1>5, <1>6, <1>7, <1>8, <1>9, <1>10, <1>11, <1>12
        DEF Next, Boot

\* The kernel of do_syna_boot and the root file system of setup_rootfs are of
\* the same slot for every number of misread images and failed accesses to the
\* metadata before it, as long as the slot has an attempt left or has booted
\* before and outranks the other.
THEOREM OneSlotBoots == Spec => KernelMatchesRootfs
<1>1. Init => SlotInv
  BY TypeInit, DefaultRanked DEF SlotInv, Init, Ranked, RankedM, StillCurrent, Erased, Meta
<1>2. SlotInv /\ [Next]_vars => SlotInv'
  BY TypeStep, SlotStep DEF SlotInv
<1>3. ASSUME SlotInv, [Next]_vars, KernelStarts PROVE root' = slot \/ UsedUp
  <2>0. budget \in Nat /\ slot \in Slots /\ pc = "bootm" /\ ~spi
    BY <1>3, BudgetAssumption DEF SlotInv, TypeOK, HasSlot, KernelStarts
  <2>1. boot_android_image
    BY <1>3, <2>0 DEF KernelStarts, Next, Boot, show_logo, SelectSlot, load_android_image,
       try_abmode, set_active_slot, LinuxMarksSuccess, LinuxUpdates, Decay, Reboot,
       PowerCut, Off, Disturb, vars
  <2>2. PICK r \in Slots \cup {BOOTSEL_INVALID} : get_current_slot(r) /\ root' = RootOf(r)
    BY <1>3, <2>0, <2>1 DEF boot_android_image, KernelStarts
  <2>3. IF misc.valid THEN r = CurrentSlot(misc) ELSE r = BOOTSEL_DEFAULT
    BY <1>3, <2>0, <2>2 DEF KernelStarts, get_current_slot, WriteFails, Disturb
  <2>4. r = slot \/ UsedUp
    BY <1>3, <2>0, <2>3 DEF SlotInv, StillCurrent
  <2> QED BY <2>0, <2>2, <2>4 DEF RootOf
<1>4. SlotInv /\ [Next]_vars => [KernelStarts => root' = slot \/ UsedUp]_vars
  BY <1>3
<1> QED BY <1>1, <1>2, <1>4, PTL DEF Spec, KernelMatchesRootfs
=============================================================================
