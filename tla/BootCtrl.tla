------------------------------ MODULE BootCtrl ------------------------------
(***************************************************************************)
(* Choosing the slot to boot in U-Boot for Synaptics                       *)
(* (arch/arm/mach-synaptics: drivers/fastboot/fastboot_syna.c,             *)
(* cmd/syna_boot.c, cmd/fdt_update.c).  The "misc" partition says for each *)
(* of the slots A and B how it is ranked, how many attempts it has left    *)
(* and whether it ever booted.  Every caller reads it again: the logo, the *)
(* kernel and the root file system each ask for the current slot.          *)
(***************************************************************************)
EXTENDS Integers

CONSTANTS Media,         \* what boards have: TRUE is SPI flash, where a write erases
                         \* the block first, and FALSE is eMMC
          ImageKinds,    \* what an update may install
          Disturbances,  \* what may disturb a boot, see Disturb
          MaxBudget      \* bound: disturbances explored

ASSUME MediumAssumption == Media \subseteq BOOLEAN
ASSUME ImageAssumption  == "bad" \in ImageKinds \/ "decay" \notin Disturbances
ASSUME BudgetAssumption == MaxBudget \in Nat

BOOTSEL_A       == 0
BOOTSEL_B       == 1
BOOTSEL_DEFAULT == BOOTSEL_A
BOOTSEL_INVALID == 255
Slots           == {BOOTSEL_A, BOOTSEL_B}

\* misc_slot_metadata; the fields are bytes.
Byte == 0 .. 255
Meta(priority, tries, successful) ==
  [priority |-> priority, tries |-> tries, successful |-> successful]

VARIABLES spi,     \* the board has SPI flash (built for one medium, so it never changes)
          misc,    \* misc_boot_ctrl on the medium: magic and version valid, slot_info
          image,   \* image[s]: the kernel image of slot s
          pc,      \* where U-Boot is: see TypeOK
          slot,    \* ab_mode of do_syna_boot
          root,    \* slot of the root file system on the kernel's command line
          budget   \* disturbances that are left

vars == <<spi, misc, image, pc, slot, root, budget>>

\* Init values of a board: an empty misc partition, or a factory-made one.
Erased == [valid |-> FALSE, info |-> [s \in Slots |-> Meta(0, 0, FALSE)]]

\* init_bootctrl: the contents written for the default slot d.
Default(d) ==
  [valid |-> TRUE,
   info  |-> [s \in Slots |-> IF s = d THEN Meta(8, 2, FALSE) ELSE Meta(3, 2, FALSE)]]

-----------------------------------------------------------------------------
(* get_current_slot.                                                       *)

\* Mutant: the attempts left are not looked at.
slot_is_bootable_NoTries(m) == m.priority > 0

slot_is_bootable(m) == m.priority > 0 /\ (m.successful \/ m.tries > 0)

\* Both slots are bootable: by priority, then success, then attempts left.
Preferred(a, b) ==
  CASE a.priority # b.priority -> IF a.priority > b.priority THEN BOOTSEL_A ELSE BOOTSEL_B
    [] a.priority = b.priority /\ a.successful # b.successful ->
         IF a.successful THEN BOOTSEL_A ELSE BOOTSEL_B
    [] OTHER -> IF b.tries > a.tries THEN BOOTSEL_B ELSE BOOTSEL_DEFAULT

\* The slot get_current_slot returns for valid metadata m.
CurrentSlot(m) ==
  LET a == m.info[BOOTSEL_A]
      b == m.info[BOOTSEL_B]
  IN  IF slot_is_bootable(a) /\ slot_is_bootable(b) THEN Preferred(a, b)
      ELSE IF slot_is_bootable(a) THEN BOOTSEL_A
      ELSE IF slot_is_bootable(b) THEN BOOTSEL_B
      ELSE BOOTSEL_INVALID

-----------------------------------------------------------------------------
(* What may disturb a boot, each a bounded number of times:                *)
(*   "load"     a read of a good kernel image fails once;                  *)
(*   "meta"     a read or a write of the metadata fails once;              *)
(*   "cut"      power is cut;                                              *)
(*   "console"  the user enters "bootslot set";                            *)
(*   "update"   Linux installs an image in the slot it does not run from;  *)
(*   "decay"    the image of a slot goes bad on the medium.                *)

Disturb(kind) ==
  /\ kind \in Disturbances
  /\ budget > 0
  /\ budget' = budget - 1

Undisturbed == UNCHANGED budget

\* Power is cut or the board is reset: everything but the medium is lost.
Off == /\ pc' = "off"
       /\ slot' = BOOTSEL_INVALID
       /\ root' = BOOTSEL_INVALID

\* What is on the medium when a write of m does not complete.
HalfWritten(m) == {misc, m} \cup (IF spi THEN {Erased} ELSE {})

\* write_bootctrl_metadata fails: SPI reports it, eMMC ignores the result.
WriteFails(m) == misc' \in HalfWritten(m) \ {m} /\ Disturb("meta")

\* get_current_slot with r as its result: it writes the defaults over invalid
\* metadata.  On eMMC the result of the read is ignored: the caller then sees
\* what the buffer happened to hold, here the same or invalid metadata.  On
\* SPI a failed read yields the slot that the previous stage booted from.
get_current_slot(r) ==
  \/ /\ misc.valid
     /\ r = CurrentSlot(misc)
     /\ UNCHANGED misc /\ Undisturbed
  \/ /\ ~misc.valid
     /\ \/ r = BOOTSEL_DEFAULT /\ misc' = Default(BOOTSEL_DEFAULT) /\ Undisturbed
        \/ /\ WriteFails(Default(BOOTSEL_DEFAULT))
           /\ r = IF spi THEN BOOTSEL_INVALID ELSE BOOTSEL_DEFAULT
  \/ /\ spi
     /\ Disturb("meta")
     /\ r \in Slots
     /\ UNCHANGED misc
  \/ /\ ~spi
     /\ Disturb("meta")
     /\ r = BOOTSEL_DEFAULT
     /\ misc' = Default(BOOTSEL_DEFAULT)

-----------------------------------------------------------------------------
Init ==
  /\ spi \in Media
  /\ misc \in {Erased, Default(BOOTSEL_A)}
  /\ image \in [Slots -> ImageKinds]
  /\ pc = "off"
  /\ slot = BOOTSEL_INVALID
  /\ root = BOOTSEL_INVALID
  /\ budget = MaxBudget

\* On eMMC the "preboot" command shows the logo of the current slot.
show_logo ==
  /\ pc = "off"
  /\ IF spi THEN UNCHANGED <<misc, budget>>
            ELSE \E r \in Slots \cup {BOOTSEL_INVALID} : get_current_slot(r)
  /\ pc' = "boot"
  /\ UNCHANGED <<spi, image, slot, root>>

\* What "bootslot set" makes of the metadata m.
SetActive(m, s) ==
  IF ~m.valid THEN Default(s)
  ELSE [m EXCEPT !.info = [t \in Slots |->
         IF t = s THEN Meta(15, 2, FALSE)
         ELSE [m.info[t] EXCEPT !.priority = IF @ >= 15 THEN 14 ELSE @]]]

\* "bootslot set" on the console.  Metadata that cannot be read or written is
\* reported and left; eMMC takes an unreadable one as invalid.
set_active_slot(s) ==
  /\ pc \in {"boot", "prompt"}
  /\ \/ /\ Disturb("console")
        /\ misc' = SetActive(misc, s)
        /\ UNCHANGED <<pc, slot, root>>
     \/ /\ Disturb("meta")
        /\ misc' \in HalfWritten(SetActive(misc, s))
                    \cup (IF spi THEN {} ELSE {Default(s)})
        /\ UNCHANGED <<pc, slot, root>>
     \/ /\ Disturb("cut")
        /\ misc' \in HalfWritten(SetActive(misc, s))
        /\ Off
  /\ UNCHANGED <<spi, image>>

\* do_syna_boot up to the load: without a slot it resets.
SelectSlot ==
  /\ pc = "boot"
  /\ \E r \in Slots \cup {BOOTSEL_INVALID} :
       /\ get_current_slot(r)
       /\ IF r \in Slots THEN pc' = "load" /\ slot' = r /\ UNCHANGED root ELSE Off
  /\ UNCHANGED <<spi, image>>

\* The image is read and verified; a good one may be misread.
load_android_image ==
  /\ pc = "load"
  /\ \/ image[slot] # "bad" /\ pc' = "bootm" /\ Undisturbed
     \/ image[slot] = "bad" /\ pc' = "failed" /\ Undisturbed
     \/ image[slot] # "bad" /\ pc' = "failed" /\ Disturb("load")
  /\ UNCHANGED <<spi, misc, image, slot, root>>

\* Mutant: the priority does not wrap.
Spend_NoWrap(m, s) ==
  IF m.info[s].tries > 0 THEN [m EXCEPT !.info[s].tries = @ - 1]
                         ELSE [m EXCEPT !.info[s].priority = @ - 2]

\* Mutant: a slot without attempts left is given new ones.
Spend_Refill(m, s) ==
  IF m.info[s].tries > 0 THEN [m EXCEPT !.info[s].tries = @ - 1]
                         ELSE [m EXCEPT !.info[s].tries = 2]

\* Mutant: every failed load demotes the slot.
Spend_Demote(m, s) ==
  [m EXCEPT !.info[s].tries = IF @ > 0 THEN @ - 1 ELSE @,
            !.info[s].priority = (@ - 2) % 256]

\* try_abmode: use an attempt, or demote the slot (the byte wraps).
Spend(m, s) ==
  IF m.info[s].tries > 0 THEN [m EXCEPT !.info[s].tries = @ - 1]
                         ELSE [m EXCEPT !.info[s].priority = (@ - 2) % 256]

\* try_abmode and what do_syna_boot makes of its result: load again, or reset.
try_abmode ==
  LET Again == pc' = "load" /\ UNCHANGED <<slot, root>>
  IN  /\ pc = "failed"
      /\ \/ /\ misc.valid
            /\ \/ misc' = Spend(misc, slot) /\ Undisturbed
               \/ WriteFails(Spend(misc, slot))      \* the result is ignored
            /\ IF misc.info[slot].tries > 0 THEN Again ELSE Off
         \/ /\ misc.valid                            \* power is cut in the write
            /\ misc' \in HalfWritten(Spend(misc, slot)) /\ Disturb("cut")
            /\ Off
         \/ /\ UNCHANGED misc                        \* invalid or unreadable
            /\ \/ ~misc.valid /\ Undisturbed
               \/ Disturb("meta")
            /\ Off
      /\ UNCHANGED <<spi, image>>

\* setup_rootfs: anything but slot A is slot B.
RootOf(r) == IF r = BOOTSEL_A THEN BOOTSEL_A ELSE BOOTSEL_B

\* boot_android_image: an image without a header or a device tree returns to
\* the prompt; otherwise bootm calls fdt_update, which on eMMC sets the root
\* file system on the command line, and starts the kernel.
boot_android_image ==
  /\ pc = "bootm"
  /\ \/ /\ image[slot] = "headless"
        /\ pc' = "prompt"
        /\ UNCHANGED <<misc, root, budget>>
     \/ /\ image[slot] = "good"
        /\ IF spi THEN UNCHANGED <<misc, root, budget>>
           ELSE \E r \in Slots \cup {BOOTSEL_INVALID} :
                  get_current_slot(r) /\ root' = RootOf(r)
        /\ pc' = "linux"
  /\ UNCHANGED <<spi, image, slot>>

\* The slot Linux runs from.
Running == IF spi THEN slot ELSE root

\* Linux (external): the boot control service marks the slot it runs from.
LinuxMarksSuccess ==
  /\ pc = "linux"
  /\ misc.valid
  /\ misc' = [misc EXCEPT !.info[Running].successful = TRUE]
  /\ UNCHANGED <<spi, image, pc, slot, root, budget>>

\* Linux (external): an update writes the other slot and makes it active.
LinuxUpdates ==
  /\ pc = "linux"
  /\ Disturb("update")
  /\ \E k \in ImageKinds : image' = [image EXCEPT ![1 - Running] = k]
  /\ misc' \in {misc, SetActive(misc, 1 - Running)}
  /\ UNCHANGED <<spi, pc, slot, root>>

\* The medium (external): an image that once was good no longer verifies.
Decay ==
  /\ pc = "off"
  /\ Disturb("decay")
  /\ \E s \in Slots : image' = [image EXCEPT ![s] = "bad"]
  /\ UNCHANGED <<spi, misc, pc, slot, root>>

\* Linux (external) reboots; the prompt resets.
Reboot ==
  /\ pc \in {"linux", "prompt"}
  /\ Off
  /\ UNCHANGED <<spi, misc, image, budget>>

PowerCut ==
  /\ pc # "off"
  /\ Disturb("cut")
  /\ Off
  /\ UNCHANGED <<spi, misc, image>>

Boot ==
  show_logo \/ SelectSlot \/ load_android_image \/ try_abmode \/ boot_android_image

Next ==
  \/ Boot
  \/ \E s \in Slots : set_active_slot(s)
  \/ LinuxMarksSuccess
  \/ LinuxUpdates
  \/ Decay
  \/ Reboot
  \/ PowerCut

\* U-Boot boots by itself: autoboot needs no key.
Spec == Init /\ [][Next]_vars /\ WF_vars(Boot)

-----------------------------------------------------------------------------
TypeOK ==
  /\ spi \in BOOLEAN
  /\ misc \in [valid : BOOLEAN,
               info  : [Slots -> [priority : Byte, tries : 0 .. 2, successful : BOOLEAN]]]
  /\ image \in [Slots -> ImageKinds]
  /\ pc \in {"off", "boot", "load", "failed", "bootm", "prompt", "linux"}
  /\ slot \in Slots \cup {BOOTSEL_INVALID}
  /\ root \in Slots \cup {BOOTSEL_INVALID}
  /\ budget \in 0 .. MaxBudget

\* The kernel and the root file system it is told to mount are of one slot,
\* although do_syna_boot and setup_rootfs each call get_current_slot and
\* try_abmode uses up attempts in between: also if the image had to be read
\* again, if the metadata could not be read or written before, and whatever
\* earlier boots, updates and power cuts left.  Two cases are excepted:
\* setup_rootfs itself fails to read the metadata, or the attempts are used up
\* and nothing else speaks for the slot (after two misreads the third load of a
\* slot that never booted starts its kernel with the other root file system).
KernelStarts == pc = "bootm" /\ pc' = "linux" /\ ~spi /\ UNCHANGED budget
UsedUp == /\ misc.valid /\ misc.info[slot].tries = 0
          /\ \/ ~misc.info[slot].successful
             \/ misc.info[BOOTSEL_A].priority = misc.info[BOOTSEL_B].priority
KernelMatchesRootfs == [][KernelStarts => root' = slot \/ UsedUp]_vars

\* After an update that never booted has used up its attempts, the reset that
\* follows try_abmode boots the other slot, if that one can boot at all.
Exhausted == pc = "failed" /\ pc' = "off" /\ misc.valid /\ UNCHANGED budget
RollbackAfterUpdate ==
  [][Exhausted /\ ~misc.info[slot].successful
       /\ slot_is_bootable(misc.info[1 - slot])
       => CurrentSlot(misc') = 1 - slot]_vars

\* A slot that U-Boot takes for bootable and that has a good image.
Usable(s) == misc.valid /\ slot_is_bootable(misc.info[s]) /\ image[s] = "good"

\* If a slot stays usable with a priority above 1 (which the first stage,
\* boot_mode.c, demands of a bootable slot), Linux starts again and again,
\* however many resets it takes to give up the other slot and wherever power
\* was cut: do_syna_boot does not come back to a bad image for ever.  (An image
\* that verifies but has no header ends at the prompt and uses no attempt.)
GoodSlotBoots ==
  (\E s \in Slots : <>[](/\ Usable(s) /\ misc.info[s].priority > 1
                         /\ image[1 - s] # "headless"))
    => []<>(pc = "linux")

-----------------------------------------------------------------------------
(* The inductive invariant behind KernelMatchesRootfs.                     *)

\* do_syna_boot works on a slot it has found, Linux runs from one.
HasSlot == /\ pc \in {"load", "failed", "bootm", "linux"} => slot \in Slots
           /\ pc = "linux" => Running \in Slots

\* Two slots with attempts left are ranked by their priorities alone, which
\* using an attempt does not change.
Ranked == (\A s \in Slots : misc.info[s].tries > 0) =>
            misc.info[BOOTSEL_A].priority # misc.info[BOOTSEL_B].priority

\* Until its kernel starts, the slot of do_syna_boot is what get_current_slot
\* would return again, unless its attempts are used up (UsedUp).
StillCurrent == pc \in {"load", "failed", "bootm"} /\ ~spi =>
  IF misc.valid THEN UsedUp \/ CurrentSlot(misc) = slot ELSE slot = BOOTSEL_DEFAULT

SlotInv == TypeOK /\ HasSlot /\ Ranked /\ StillCurrent
=============================================================================
