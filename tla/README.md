# Verification of the Synaptics boot loader

TLA+ models, TLC runs and TLAPS proofs for the parts of this repository that
keep state across failures, power cuts and processors:

| part | source | module |
|---|---|---|
| flash transactional store | `boot/common/driver/flash_ts` | `FlashTs`, abstract `TransStore` |
| message queue between SoC and System Manager | `boot/common/driver/sm`, `sm_cm3/syna/src/sm_comm.c` | `SmMsgQ` |
| power management of the System Manager (SM) | `sm_cm3/syna/src/power`, `sm_wdt.c`, `sm_temperature.c` | `SmPower` |
| CEC driver and service of the SM | `sm_cm3/syna/src/cec` | `SmCec` |
| remote control of the SM | `sm_cm3/syna/src/ir/sm_ir.c` | `SmIr` |
| A/B slot selection of U-Boot | `mach-synaptics/drivers/fastboot`, `cmd/syna_boot.c`, `cmd/fdt_update.c` | `BootCtrl` |
| USB console of U-Boot | `mach-synaptics/drivers/usbconsole` | `ConsoleRing`, abstract `BoundedFifo` |
| memory manager of U-Boot | `mach-synaptics/drivers/plat/mmgr.c` | `Mmgr`, abstract `Heap` |

`X.tla` is the component, `MCX.tla` what TLC needs to instantiate it,
`X_<run>.cfg` one run, `XProofs.tla` its theorems. Run
`tlc -config X_<run>.cfg MCX` and `tlapm XProofs.tla`. `PROJECT.json` lists the
runs with their properties, the mutants that break each property, the source
lines behind each definition, the findings, the hazards and the theorems.

## Inventory

The repository is the boot software of a set-top-box SoC. Three programs are of
its own making; the rest is vendored (FreeRTOS, U-Boot 2019.10) or register
programming (`boot/common/chip`, most of `boot/common/driver`).

1. **Boot stages** (`boot/common`): drivers and stores linked into the stages
   before U-Boot.
   * *flash_ts*: key-value store in a flash partition. State: records on flash,
     a cache in RAM, the offset of the current record. Operations: `flash_ts_init`
     (scan), `flash_ts_get`, `flash_ts_set` with its commit loop. Hard: every
     driver call may fail, power may go at any time, a record may be written and
     not verified. Correct if a set that returned 0 is durable and a set that was
     interrupted is atomic.
   * *sm_comm*: sends messages to the SM over a ring in shared memory.
   * *ram_ts*: the same key-value idea in RAM, handed from stage to stage.
   * *rpmb*, *emmc*, *nor*, *flash/load_\**: media, partition tables, images.
   * *misc/boot_mode.c*: a first-stage A/B selection without a caller.
   * *tz*: client of the secure world.
2. **SM firmware** (`boot/bootloader/sm_cm3/syna`): runs on a Cortex-M3 that
   keeps power when the SoC has none. Cooperative FreeRTOS tasks and interrupts.
   * *sm_comm*: receives messages and hands them to modules, sends messages;
     internal messages are direct calls of the modules' handlers.
   * *power*: state of the system, flow in progress and its status, flags set
     by messages and interrupts, wake-up source, timers. Operations: one per
     message, one per status of a flow, one per wake-up source. Hard: messages
     and interrupts arrive between any two steps of a flow; requests and
     responses share numbers. Correct if the power is cut only when that is safe, flows
     end, no wake-up is lost, and the state is what the SoC is doing.
   * *CEC*: the bus of the HDMI connector, which the SM answers while the SoC is
     in standby. State: a fifo filled by the interrupt, a fifo filled by the
     service, the message being sent, its retries. Hard: the handler runs between
     any two steps of the task, and power flows clear the fifos and switch the
     interrupt from another task. Correct if each transmission gets one outcome,
     an accepted message is sent or given up, and a wake-up message is heard.
   * *remote control*: a ring filled by the interrupt, the state of the key that
     is down, whether the SoC's driver is ready. Hard: key events are made of
     silences, and presses overlap power flows. Correct if standby listens, a key
     wakes the system and no key stays down for the SoC.
   * *watchdog*, *temperature*, *buttons*: each may start a flow through
     `mv_sm_power_enterflow`.
3. **U-Boot for Synaptics** (`u-boot_2019_10/arch/arm/mach-synaptics`):
   * *A/B selection*: metadata in the `misc` partition; `get_current_slot`,
     `set_active_slot`, `try_abmode`; callers are the logo, `syna_boot` and
     `fdt_update`. Hard: attempts are used up in the middle of a boot, power may
     go in a write, results are ignored. Correct if a boot uses one slot, a bad update is
     rolled back and a good slot boots in the end.
   * *USB console*: a ring of bytes for each direction in memory shared with the
     CPU of the USB device. Hard: no lock; each side tests and moves indices while
     the other one does; the ring is created by whoever comes first. Correct if
     it is a bounded FIFO.
   * *memory manager*: free list and list of allocated blocks for the ION pools
     and the heap, linked through a fixed pool of nodes. Hard: orders of
     allocating and freeing. Correct if live blocks do not overlap and all memory
     comes back.
   * *emmcburn*, *usbload*, *fastboot flashing*, drivers.

Interaction: the boot stages and Linux send requests and responses to the SM
through the queue (`SmMsgQ`), whose receiver calls the handlers of `SmPower`. The SM
powers and resets the SoC, which then runs the boot stages and U-Boot
(`BootCtrl`) again. `SmPower` takes from `SmMsgQ` that messages arrive once, in
order and unchanged, which is what `DeliveredInOrder` says and what is proved.
CEC and the remote control wake the system through `enterflow_bysmstate`, and
the power flows switch both of them: `SmCec` and `SmIr` hold as much of the flows
as that takes, and `SmPower` holds their wake-ups (`Wake`).

## The models

### TransStore and FlashTs

`TransStore` is what a client may expect: a map in memory, a map on disk, and a
set that at some point between its call and its return moves the disk to the
new map; a power cut loses memory and a restart loads the disk.

`FlashTs` has one step per call of the flash driver. A partition is `NB` blocks
of `CPB` chunks; a chunk is blank, torn or a record (version and data; the CRC
is what tells a record from a torn chunk). `flash_ts_set` computes the new
contents, checks the space, raises the version and starts the commit; the steps
`CommitErase`, `CommitWrite`, `CommitVerify`, `CommitErasePrev`, `CommitFail`
follow the loop of `flash_ts_commit`, each with its failing branch. `PowerCut`
may happen in every state, also in the middle of an erase or a write.
`flash_ts_init` is `ScanCache`/`ScanOffset`: the highest version, the first of
equals in scan order, a block left at its first blank chunk. Data are maps from
keys to values; `DataLen` keeps their length. `is_block_bad` of the driver never
reports a bad block, so the model has none; a block that fails is one whose calls fail.

`MaxFaults` bounds the driver calls that fail in one commit, `MaxVersion` the
versions, `ScanFaults` says whether pages may be unreadable while scanning.

### SmMsgQ

One direction of the queue, one sender (the SM sends from its tasks only, which do
not preempt each other), one receiver, one step per access to a
word the other side may be changing. Positions count messages rather than
bytes. Stores to the shared memory are taken to arrive in program order (it is
volatile and mapped as device memory). `Half` stands for 2^31: totals are signed.
`sent` and `got` are history variables.

### SmPower

One action per status of a flow, as one round of `power_task` runs it; one per
message; one per wake-up source. A task step is atomic since the scheduler is
cooperative (`configUSE_PREEMPTION` is 0 in `FreeRTOSConfig.h`); interrupts come
between steps. Waiting times are left out: a wait lasts as long as it lasts.
The SoC is external, modelled from the protocol: it boots and answers once,
reports Linux, asks for standby, suspend or reset, and goes to sleep when the SM
has announced the suspend. Two assumptions about it are named: `SmSettled`
(Linux takes longer to start than the SM to finish what it can) and `SmKeepsUp`
(the SM, which takes a message in every tick, has emptied the queue of a SoC
without power before it powers it up again). `Backlog = TRUE` drops the second
one; `StateTellsSoc` then fails, see below.

A wake-up of WIFI or BT passes through four hands: `sm_wifibt_isr` gives a semaphore
(`wifibt_sem`), `wifibt_wake_task` starts a timer if the system is down
(`wifibt_timer`), `sm_wifibt_timer_isr` latches the wake-up without a look at the
state (`is_wakeup`), and the power task serves the latch (`IdleWakeup`). Both
platforms define `SM_GPIO_PORT_WIFIBT`, so this is the path that is compiled, not
the direct interrupt behind its `#else`. The timer's periods are one step, the last one.
`Giga` is the build (`CONFIG_SM_GIGA_ETHERNET`): wake on LAN by the pin of a Giga-bit
PHY (`geth_isr`) or by packet (`wol_isr`), never both. `Sources` are the input
devices that call `Wake`.

### SmCec

Three parties: the interrupt handler (`cec_isr`), enabled or not by `gie`; the
CEC task, one command a tick, with a step wherever the handler may come in
between and it matters (`TaskIsr`, `TaskIsrEmpty`, `TaskApp`, `TaskCount`); and
`sm_cec_enable` as the power flows call it, again in two steps each. The task
never runs in the middle of another one: the scheduler is cooperative. The
hardware latches one transmit and one receive cause. An outgoing message is a
number, a received one is told by what the service does with it: a reply, a
wake-up, nothing. `owed`, `lost` and `woken` are history variables: messages
taken and not done with, whether the outcome of a transmission found no room in
a fifo, whether a wake-up was asked for in this standby.

Two behaviours of the code weaken what can be said of sending, and the property
names them: an outcome that finds a full fifo is dropped (`lost`), and a message
older than `CEC_TX_TIMEOUT` is retried whatever the count says (`late`). `BusCalms` is
the assumption on the bus: the ISR fifo is empty again and again, and the signal
free time is met in the end (a failure to meet it is not counted as a retry).

### SmIr

`UserPress`, `UserHold` and `UserRelease` make frames, which the handler stores if
its interrupt is enabled; a full ring loses its oldest frame. `NewKey`, `HoldKey`
and `KeyUp` are the three things one tick of the IR task may do; `Elapse` is the
time without a frame after which a key counts as released. `process_key` sends
the event to the SoC, wakes the system or drops it, by the power state.
`soc_down` is what the SoC has been told: `KeyReleased` follows one key in it. The
flows are taken over as far as they touch the remote control: the way down (cut
power switches the interrupt on), the way up (switches it off until the driver
reports), the reset. A frame is one element of the ring; the levels it consists
of and their decoding are left out.

### ConsoleRing and BoundedFifo

`BoundedFifo` is what a byte stream promises. `ConsoleRing` is one of the two
rings, with a step for every access to a word the other CPU may change: the
two halves of the test for a full ring are two steps, and the loop spins between
them. Attaching is modelled in full, twice per side, since U-Boot probes its
console before and after it relocates. `Overlap = FALSE` is an assumption: one
side has finished creating the ring before the other one looks. Nothing in the
code ensures it, see below. The reader pops one byte or more.

### Mmgr and Heap

`Heap` is what a memory manager promises: live blocks are disjoint, and a request
is refused only if no hole is large enough. `Mmgr` keeps both doubly linked lists and
the pool of nodes; one action per outcome of `mmgr_alloc_by_type` and
`mmgr_free_by_type`. The caller is single-threaded. Two accesses through NULL are
in the code (below). They are taken to stop U-Boot: `fault`, followed by `Restart`.
This assumes that address 0 is not mapped. `mem.c` takes the regions it maps from
the TZ kernel at run time (lines 76-99), so the repository does not show it; the
build whose regions come from the device tree maps 0 but does not contain `mmgr.c`.
`Heap` may restart at any time, so no property forbids the two accesses. The loops over a
list are `Search` and `Listed`, the least set of nodes that its head leads to.

### BootCtrl

`misc` is the medium, and every function that reads it again reads it again in
the model. `spi` is the medium of the board: SPI flash erases before it writes and
reports errors; eMMC does neither. `Disturb` is the budget of what may go wrong:
misreads, failing metadata accesses, power cuts, console commands, updates by
Linux, decaying images. `load_android_image`, `try_abmode` and
`boot_android_image` follow `do_syna_boot`; `boot_android_image` includes the
call of `fdt_update` that bootm makes, which chooses the root file system.

`KernelMatchesRootfs` speaks of every start of a kernel on eMMC, also after failed
loads and attempts that `try_abmode` has used up since the slot was chosen. It excepts
two cases, which do occur: the slot has no attempt left and never booted, or has the
priority of the other one (`UsedUp`), and a metadata access that fails inside
`setup_rootfs`. On SPI flash the root file system is not chosen here. A write of
the metadata that is cut leaves the old, the new or, on SPI flash, erased metadata
(`HalfWritten`); a page of which the magic has landed and the slots have not is
not among them.

## Runs

Passing:

| run | instance | shows |
|---|---|---|
| `flash_atomic` | 3 blocks of 2 chunks, 1 key, values of two lengths, 5 versions, 1 fault per commit | durability, atomicity, the old record stays, versions are unique, `TransStore` is implemented |
| `flash_faulty` | 2 blocks, 2 keys, any number of faults, unreadable pages | the client never sees a failed set; every set returns |
| `msgq_order` | 3 slots, 2 messages, 7 sends | order, no overwriting, every message dispatched |
| `power_safe` | 2 messages in flight, all sources, resets | no wedge, state tells the SoC, power is cut safely |
| `power_live` | 1 message in flight, Giga-bit PHY, remote control | flows end, wake-ups of WIFI, BT and GEPHY are served |
| `power_selfwake` | 1 message, packet WOL, remote control, SoC wakes by itself | the SM notices |
| `slots` | boards with eMMC and with SPI flash, good, bad and headless images, all disturbances, 4 of them | kernel and root file system are of one slot also after failed loads, rollback after an update, a good slot boots |
| `console_fifo` | 3 cells, 2 different bytes, 5 pushes, pops of 1 and 2, two attaches per side | `BoundedFifo` is implemented, copies do not meet, bytes arrive, `putc` returns |
| `mmgr_heap` | 5 units, 4 nodes, requests of 0, 1 and 2 units | lists are sound and merged, `Heap` is implemented |
| `cec_bus` | fifos of the code's length, 2 retries | one outcome per transmission, nothing forgotten, sending ends, wake-ups are heard |
| `ir_keys` | ring of 2 frames, 2 presses, 2 skipped hold frames | standby listens, keys wake, keys are released |

Violation, a finding in `PROJECT.json` with the line that says otherwise:

| run | what happens |
|---|---|
| `flash_failedset` | a write fails after its record has reached the flash, all later erases fail and the set returns `-EIO` with the old cache; a set that changes nothing in that cache returns 0 without a commit; a restart loads the failed set |

Other disagreements were met while modelling and are listed as hazards with a
note, without a run of their own.

* *flash_ts*: with two blocks one failing call erases the only record; a page that
  cannot be read while scanning counts as blank, and an older record is loaded
  without a word (no property covers this one: durability is stated for pages that can
  be read).
* *message queue*: a sender may refuse a message just as the receiver makes room.
* *power*: the reset flow waits for a response that is not handled in ACTIVE, so it
  never ends (hence `Resets = FALSE` in `power_live`); a wake-up timer that runs
  out on the way down is lost; a refused wake-up overwrites the recorded source; a
  watchdog that expires during a flow is lost; a request left over from before a
  power-down is taken for the response of the bootloader (`Backlog = TRUE`); a
  wake-up of WIFI or BT that is latched after another source has woken the
  system, and Linux has reported, ends the next standby at once.
* *CEC*: an outcome that finds a full fifo is dropped, and the task waits for it
  until CEC is switched off; once a message is late it is retried without end.
* *remote control*: a reset clears the ready flag in every tick of a flow that
  never ends, so no key reaches the SoC after it; a suspend in WFI is deaf if the
  driver has not reported since the last wake-up; a key held from before standby
  wakes the system when it goes up.
* *A/B slots*: two misreads of a good image in one boot use up the attempts of its
  slot, and the third load starts its kernel with the root file system of the other
  slot if the slot never booted or both have the same priority; the priority wraps below zero and
  the bad slot is then tried for ever; a slot that booted before is retried after
  "reset to backup image"; an image without a header never falls back to the
  other slot.
* *USB console*: `putc` spins for ever if no host reads; two sides that create the
  ring at the same time may lose bytes.
* *memory manager*: `num > MAXNUM_POOL` is never true, so a request with all nodes
  in use gets a NULL node; freeing into the last place of a list that is not empty
  reads the NULL behind it.

### Bounds and why they are enough

* Three blocks are the least for which a commit with one fault has a block to
  go to besides that of the old record; five versions take the writer round the
  partition of six chunks through block changes and the wrap. Two blocks are the
  least the code accepts. One key of two lengths reaches the space check.
* Three slots and seven messages wrap the ring twice with the queue full and
  empty. `Half` is above the number of messages, so totals do not overflow here:
  the overflow is a hazard without a run.
* Two messages in flight are one more than a request and its answer; liveness
  runs use one, since a longer queue only delays. Input devices differ only in the
  name they record, so the liveness runs have one; both builds of wake on LAN occur.
* Two attempts per slot, two slots: four disturbances exhaust a slot that is
  good (three misreads) and leave one for the metadata or an update; bad images
  cost nothing, so demotions, resets and the wrap of the priority are unbounded.
* Three cells hold two bytes: the ring is full, empty and wraps at every index, and
  five bytes go round it more than once. The initial indices are arbitrary.
* Four nodes and five units: either can run out first, and a block has neighbours
  on both sides. The number of allocations and frees is not bounded.
* The CEC fifos have the code's length, `CEC_FIFO_LENGTH` = 3. Two retries instead
  of the code's number are enough to go below, to and past the limit; nothing else is
  bounded, replies and wake-ups arrive for ever. Messages that are ignored behave
  as a failed reception does, which the collision case of the handler includes.
* Two frames fill the IR ring in the middle of a press; two presses let a second key
  come while the first is down, across any sequence of power flows.

Deadlock is checked in all runs. No run uses symmetry.

### Fairness

* `FlashTs`: weak fairness of the commit step. It is sequential code; only a
  power cut stops it.
* `SmMsgQ`: weak fairness of the receiver, which polls in every tick, and of a
  call of the sender once begun.
* `SmPower`: weak fairness of both tasks (both run once a tick), of the task that
  waits for the semaphore of WIFI and BT, of their timer (it reloads itself until the
  pin is high or `WIFIBT_GAP_MAX` has passed), of the answer of the bootloader and of the SoC going to sleep after it has asked for it.
  Wake-ups, requests, timers and the watchdog are not fair: they may never come.
* `SmCec`: weak fairness of the task, the handler, the transmitter and the second
  halves of switching on and off. Strong fairness of `TaskIsrEmpty`: a message on
  the bus takes many ticks, so a fifo that is empty again and again is found
  empty; and of entering a flow that was asked for, which the power task does as
  soon as the CEC task gives up the processor.
* `SmIr`: weak fairness of the task, of time passing, of the flows once begun, and of
  the user letting go of a key.
* `ConsoleRing`: weak fairness of attaching, of a push once begun, and of the
  reader, which polls. `Mmgr` has no liveness property.
* `BootCtrl`: weak fairness of the boot steps; `CONFIG_BOOTDELAY` is 0, the board
  boots without a key.

## Proofs

* `FlashTsProofs`. `TypeCorrect` and `OnlyAcks` need no assumption beyond those on
  the constants: any call may fail, any page may be unreadable. `OnlyAcks` rests on
  `ReadBack`: the previous block is erased only after the new record was read back
  from another one. The others hold under `Reliable`: pages can be read while scanning
  and fewer than `NB - 1` driver calls fail in one commit. The properties are not
  inductive: a commit may go round the partition, so the invariant
  `StoreInv` says for each phase where the last acknowledged record is
  (`Anchored`), that the scan reaches it, that copies of the new record left by
  failed passes lie between it and the write position (`NewCopies`, `Ahead`),
  and that nothing else on flash is newer. The bound on faults is what keeps the
  write position from coming round to the anchored block. `Durability`, `Atomicity`,
  `OldRecordKept` and `VersionsUnique` follow from it; `Refinement` shows that
  every step is a step of `TransStore` or a stutter.
* `SmMsgQProofs`. Under `NoOverflow` the inductive invariant `QueueInv` ties
  indices and totals to the lengths of the histories, says which slots hold
  which messages, and that at most `Slots` are in use. `Delivery` and `FreeSlot`.
  `QueueTypes` needs no bound: the words keep their types when totals overflow.
* `SmPowerProofs`. `FlowsNeverWedge` and `PowerTypes` for every value of the
  constants. `NeverWedged` alone is not inductive: the wake-up timer enters the
  flow of the state in every state but ACTIVE. `FlowInv` adds that the states of a
  transition last no longer than their flow; `ArgInv` says what a message in the
  queue may carry. `StateIsTrue` and `PowerCut` hold under `Orderly`: the SoC does
  not leave a suspend by itself (`SelfWake`), and no request is left over when it is
  powered up (`Backlog`). With `SelfWake` TLC finds the power cut under a SoC
  that is awake (`PowerCutIsSafe`), with `Backlog` a request left over taken for
  the bootloader's response (`StateTellsSoc`). `SessionInv` ties the SoC to the flow,
  status by status: what it may be doing, what it may have in the queue (a request,
  `Suspend`, at most one response), and that `is_get_rsp` was set by the response the
  flow waits for. The reset flow never ends (see above), so its part says that
  nothing follows it.
* `SmIrProofs`. `Listening` for any ring and any number of presses. `IntInv` follows
  the interrupt from whoever switched it on, the driver's report or the power
  being cut, to standby. `RemoteTypes`: the ring is never overrun.
* `ConsoleRingProofs`. `RingTypes`, `NoTornCopies` and `RingIsFifo` for any size of
  the ring and any number of bytes, under `Apart`: one side has created the ring
  before the other one looks (`~Overlap`), which nothing in the code ensures.
  `RingInv` follows each side through its attach (`AttachInv`) and says what each may
  conclude from the index it has read, although the other side moves its own
  in the meantime (`WriterInv`, `ReaderInv`): a stale index only makes the ring
  look fuller to the writer and emptier to the reader.
* `SmCecProofs`. `CecTypes`, `OneOutcomeOnly`, `NoMessageForgotten` and `WakeupFresh`
  for fifos of any length, any traffic and any number of retries. None of the
  properties is inductive. In `CecInv`, `OnItsWay` says where the one outcome is: still
  to come, latched, in the ISR fifo or in the app fifo, with none in the other
  places; while nothing is sent there is none, but for what the handler found while CEC
  was being enabled, and that is read before the next message, since the ISR fifo comes
  first (`OutcomeInv`). `Holds` counts waiting messages by identity; that a new
  message finds a free identity is a pigeonhole argument over the places of the fifo
  (`FreshId`).
* `MmgrProofs`. `HeapTypes`, `ListsStaySound` and `HeapRefinement` for any number of
  nodes, any arena, unit and requests. `List` says that a set holds exactly the nodes
  of a list that can be walked both ways; four lemmas say what pushing, inserting and
  removing a node and assignments elsewhere do to it. They argue with the least
  set of nodes that the links lead to, so that no induction over the list is needed.
  `ListsSound` is not inductive, since it does not say where blocks lie:
  `Inv` adds that the blocks of both lists divide the arena (`Arena`: no overlap, and
  every byte in one of them) and that a node in no list is zeroed.
  `FreeBlock` is proved in three stages of the same `Shape`, as the code does it: the node
  is placed (`InsertStep`), then merged with the block before and the block behind
  (`MergeStep`, twice); `GapsBut` says where gaps are not certain yet. That a refused
  request has no hole follows from `Arena` and the gaps: the bytes of a hole lie in
  free blocks, and no two of these touch.
* `BootCtrlProofs`. `BootTypes`, `Rollback` and `OneSlotBoots` hold on either
  medium and for any set and number of disturbances. `KernelMatchesRootfs` needs to know
  what `try_abmode` did since the slot was chosen. `SlotInv` adds that, until its
  kernel starts, the slot is what `get_current_slot` would return again or is used up
  (`StillCurrent`). An attempt that is used up keeps this, because it changes no
  priority, and two slots that both have attempts left differ in priority (`Ranked`):
  the defaults and `set_active_slot` see to that, and a tie needs a demotion, which
  happens without attempts. A demotion ends in a reset, so no boot goes on with it.

Every invariant, action property and refinement the passing runs check is also proved.
Only model-checked: liveness (`SetReturns`, `EveryMessageDispatched`, `EveryFlowEnds`, `LatchedWakeServed`,
`SelfWakeNoticed`, `GoodSlotBoots`, `EveryByteArrives`,
`SendingEnds`, `WakeHeard`, `RemoteWakes`, `KeyReleased`), which needs fairness
and is beyond the proof system. No module uses RECURSIVE operators; sums over keys
(`DataLen`) are left uninterpreted in the proofs.

## Not modelled

FreeRTOS and upstream U-Boot (vendored), chip bring-up and drivers (register
sequences; their headers make up most of the lines of the repository), the TEE
(not in the repository), image loading (straight-line reads), RPMB and the
first-stage A/B selection (no caller here), the power-down timer and queries of
the SM (they change no power state), the cold state of the SM (never entered),
watchdog 0 and the exit and kick messages of watchdog 1, the buttons (only their
wake-up is), the decoders of the remote control, the parsing of CEC messages and
its launch request, the CEC service of a TV (no build selects it).

## Plan

In this order, the most important behaviour first:

1. done: `TransStore`, `FlashTs`, `SmMsgQ`, `SmPower`, `BootCtrl`, `BoundedFifo`,
   `ConsoleRing`, `Heap`, `Mmgr`, `SmCec`, `SmIr`, their runs; the proofs of all their
   safety properties and refinements.
2. `SmWdt` (all messages, both watchdogs) and `SmTimer` (the FreeRTOS command
   queue: cancelling a timer whose expiry is queued), composed with `SmPower`.
3. `RamTs` against `TransStore`; `LoadGpt`, `LoadVt` as operators against a
   reference definition; `EmmcBurn`.
