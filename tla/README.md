# A verification development for stm32g0-usb-device-lab

The firmware turns an STM32G0B1 board with a 4x4 keypad into a composite USB
device: a HID keyboard, a CDC log port and a vendor interface that dumps SRAM
over a bulk endpoint. This directory holds TLA+ models of that firmware, the TLC
configurations that check them, and TLAPS proofs about them. `PROJECT.json` maps
every definition to the lines it models.

To repeat a run: `tlc -workers 2 -config MCKeyDetect.cfg MCKeyDetect`; to repeat
the proofs of a module: `tlapm KeyInput_proofs.tla`.

## 1. Inventory

The firmware is a main loop (`HID_Keyboard_App`) and two interrupt sources: TIM6
every 5 ms and the USB peripheral. Both have priority 0
(`usbd_conf.c:102`, `stm32g0xx_hal_msp.c:100`), so a handler is never interrupted
by another one; only the main loop is. Everything difficult in this code comes
from there: state the main loop reads, and an interrupt changes before it is used.

| Component | State | Operations | Interacts with |
|---|---|---|---|
| Control endpoint (`usbd_core.c`, `usbd_ctlreq.c`, `usbd_ioreq.c`, EP0 in `stm32g0xx_hal_pcd.c`) | both directions of EP0, their completion flags, `ep0_state`, `rem_length`, `total_length`, `ep0_data_len`, the waiting address | SETUP, data and status stages, standard, class and vendor requests | every other component is reached through it |
| USB core (`usbd_core.c`, `usbd_ctlreq.c`, `usbd_conf.c`) | `dev_state`, `dev_old_state`, `dev_config` | reset, suspend, resume, SetAddress, SetConfiguration, ENDPOINT_HALT | calls the class on configuration and completion |
| Composite class (`usbd_composite.c`, `usb_lifecycle.c`) | the class handle, three TxBusy flags, DTR | Init, DeInit, Setup, DataIn, three Transmit functions | flags shared by the main loop and interrupts |
| IN endpoints (HAL) | STAT_TX, packet memory | transmit, IN token, open, close, stall | the host |
| Vendor dump (`usb_vendor_bulk.c`) | `sDumpActive/Total/Offset/Addr/Done` | Start, Abort, OnTxCplt, Run, SendNextChunk | started by EP0, driven by main loop and DataIn alike |
| Vendor commands (`usb_vendor_cmd.c`) | repeat flag, LED mode, a one-event log slot | HandleSetup, FlushPendingLog, UpdateLed | slot shared with the main loop |
| CDC log (`usb_cdc_log.c`) | ring buffer, greeting state | Write, Printf, Run | main loop only; DTR and the flag come from interrupts |
| Key event queue (`key_event_queue.c`) | ring of events | Push, Pop, Peek | detector to converter |
| Scan scheduler, keypad, detector (`scan_scheduler.c`, `keypad.c`, `key_detect.c`, `key_table.c`) | request counter, samples, held keys, repeat ticks, latch | tick, take request, run | TIM6 shares the counter; pushes events |
| HID converter and transport (`hid_keyboard_convert.c`, `usb_hid_keyboard.c`) | pending null report, macro sequence | Run, SendReport | pops events, fills EP1 |
| Host tools (`tools/vendor_usb.py`, `tools/composite_debug_tool/gui.py`) | device handle, worker threads, result queue, buttons | connect, disconnect, commands, dump, poll | control transfers and EP4; the threads share the handle without a lock |
| Start-up, descriptors, drivers (`Core/`, `usbd_desc.c`, `Drivers/`) | hardware set-up, tables | - | generated or third-party |

What makes each part correct:

- *Control endpoint*: a request is answered once, with all of its data in order, and
  ends; what the host was told is what the device does; both use the same address.
- *USB side*: the handle exists exactly while the device is configured; a raised
  TxBusy flag always has a completion coming; a packet is not overwritten unread.
- *Dump*: the host reads the region once, in order, whole; nothing past SRAM1 is
  read; an accepted dump does not hang.
- *Log*: bytes arrive once and in order; what overflows is the newest; the log
  drains; events are logged in order and with their own value.
- *Keys*: one key is held at a time; an OFF separates two ONs; ghost keys are
  silent; every release is noticed.
- *Reports*: an event is typed once, in order, and released; no key sticks.
- *Host tool*: what is saved as a dump is a whole dump; the buttons come back.

`PROJECT.json` lists the hazards one by one ("hazards"), each at its line with the
properties that would notice it going wrong.

## 2. Modules

| Module | Models | Run(s) | Proofs |
|---|---|---|---|
| `UsbComposite` | device state, class handle, flags, endpoints; no Spec of its own | through the modules that extend it | `UsbComposite_proofs` |
| `UsbTransmit` | the Transmit path of all three channels | `transmit` | `UsbTransmit_proofs` |
| `ControlTransfer` | abstract: a control transfer as its host sees it | - | - |
| `ControlPipe` | EP0, the request decoder, the requests, and the host | `control` | `ControlPipe_proofs` (refines `ControlTransfer`) |
| `VendorDump` | the dump, its main-loop kick and the host that reads | `dump`, `dump_preempted`, `dump_resumed` | `VendorDump_proofs` |
| `KeyFifo` | abstract: a bounded FIFO that refuses when full | - | - |
| `KeyEventQueue` | the ring buffer | `queue` | `KeyInput_proofs` (refines `KeyFifo`) |
| `KeyDetect` | tick, scan, debounce, repeat, latch | `keys` | `KeyInput_proofs` |
| `HidConvert` | events to reports to the host's view of the keys | `hid`, `hid_macro` | `HidConvert_proofs` (refines `UsbTransmit`) |
| `CdcLog` | pending-log slots, ring buffer, EP3, the port | `log`, `log_suspend` | `CdcLog_proofs` |
| `HostTool` | the debug tool's main thread and dump workers | `host` | `HostTool_proofs` |

**How code becomes actions.** An interrupt handler, with everything it calls, is one
action. A main-loop function is one action when it touches only what the main loop
owns (`KeyDetect`'s scan, the queue's calls, the ring buffer), and is otherwise cut
at each access to state a handler also writes: `pc` says where it is. The
Transmit functions are cut into guards, flag and transfer; `VendorDump_Run` with
`SendNextChunk` into fifteen, one per load or store of `sDump*`: the three operands of the
condition at line 131 are three steps, and `sDumpOffset += chunkLen` is a load and a store;
`FlushPendingLog` into the load of the event, the load of the value, the clear (the
two values that `usb_lifecycle.c` loads one after the other are one load of the
model).
`IsTxIdle` and the guards of a Transmit function load the handle, the device state and a flag
in one step: the handle is the same static memory whenever it is there, and an interrupt
between the loads gives the outcome of one before or one after them.

**UsbComposite** is extended by five modules, each of which conjoins its own part of a
handler to the core's: `Resume` of `VendorDump` is `LL_Resume` and
`VendorDump_Abort`, as in `UsbLifecycle_OnResume`. The class handle is static memory
(`USBD_static_malloc`), so the flags survive DeInit and only Composite_Init clears
them. A packet on an endpoint is its `epStat = "VALID"`; resume does not touch it.
A completion's interrupt is one step with the host's read of the packet.

**VendorDump** counts in 64-byte chunks; `RAM_DUMP_MAX_SIZE` is a multiple of 64. A
packet is the number of its chunk, `Zlp`, or `Junk` for 64 bytes read through a
cleared `sDumpAddr`. `reg` is the register between the two loads of a sum or a difference;
a compiler that loads `sDumpOffset` once for length and source gives no result that these
steps do not also give. `sent`, `clean` and `excuses` are ghosts; `KickDue` and `AbortTears`
only say when an excuse is recorded, no step of the main loop depends on them.

**KeyDetect** has two of the four samples of `sScanBuffer` (nothing reads the others)
and a queue that is the FIFO of `KeyFifo`. The user closes and opens switches in any
order, bounce included; a scan is one snapshot of the switches.

**HidConvert** numbers the events; a report is an event and its macro step, all zeros is
`Null`. The kind of each event is chosen initially. The ghost `disowned` marks a packet on EP1
whose flag a resume has lowered over it, until the host reads EP1 or a reset or a
configuration drops what is there.

**ControlPipe** has the host and the hardware on one side, the interrupt handler on the
other, and the completion flags between them: the host may send its next SETUP packet
while the completion of its last transfer is still waiting to be served. One pass of
`PCD_EP_ISR_Handler` is one step, receptions first; `HAL_PCD_IRQHandler` serves
completions before RESET and SUSP, so those wait until the flags are down. Only
CLEAR_FEATURE(ENDPOINT_HALT) takes two steps, since it arms the status stage, calls the
class, and then stalls. A SETUP packet is an operation, a direction, an argument and
`wLength`; a descriptor is its length; `IN_ep[0].xfer_len` is folded into the length of the
packet in the buffer, which is 0 exactly when it is. A host keeps to one *menu* of requests,
which splits the requests into four families that each contain what brings the device
up and down. Three ghosts mark what the code does not promise: `late` (a completion was
still pending when the next SETUP packet was served, or a SETUP packet met the stall of
the request before it), `silent` (the decoder took a path without an answer), `whole` (the
bytes of the answer came in order). After a `late` one the transfer it hit is followed to
its end and no further, until the bus is reset. A host repeats a SET_ADDRESS whose status
it did not see, or resets: it cannot know which address the device has.

**HostTool** takes one step per access of `VendorUsb._dev`, because `Disconnect` in the main
thread may have set it to None since the last one; the lock around `ctrl_transfer` makes
that call a single step. The device is what the tool sees of it: the packets not yet
sent and the one waiting on EP4. The ghost `clean` holds the workers whose dump had the
endpoint to itself.

**CdcLog** numbers the cells the ring accepts, and the events of each slot. Where a line
comes from does not matter once it is in the ring, so the lines of the dump and of the
converter are left out; the two boot lines are in the initial state.

## 3. Runs

Bounds are the constants of the `.cfg` files.

| Run | Question | Bounds |
|---|---|---|
| `transmit` | do flags, packets and handle stay in step; does every flag fall? | three endpoints, halt requests on one; no other bound |
| `dump` | bookkeeping and order of the dump; does every read end? | 4 chunks, 2 completions inside one call, all bus events, halts on EP4 |
| `queue` | does the ring implement the FIFO? | 3 slots, 2 event values |
| `keys` | one key held, OFF between ONs, silent ghosts; releases, presses and the latch's opening noticed | 2 keys, one of them repeating, repeat after 2 ticks, queue of 3 events, backlog of 1 |
| `control` | does EP0 implement the abstract transfer, do requests end, is what the host was told true? | the real packet and descriptor sizes, 4 menus of requests, one early SETUP packet and one suspend per bus reset |
| `host` | is what can be saved a whole dump; does the button come back? | 2 worker threads, dumps of 2 packets |
| `hid` | typed once, in order, released; no key sticks; every event typed | 2 events of five kinds, all bus events |
| `log` | bytes once, in order, without gaps; slots in order; the log drains | ring of 4, packets of 2, 1 request, 3 lifecycle events, 1 opening |
| `dump_preempted`, `dump_resumed`, `hid_macro`, `log_suspend` | the code against a sentence of its documentation (section 5) | smallest instance that shows it |

Why the bounds suffice: a dump has a first, a middle and a last chunk, and the proofs
hold for every number of chunks; two keys make a rollover, a glitch and a ghost, and
the key proofs hold for every keypad; a ring of 3 or 4 wraps several times; two events
are what a tap, its release and the next tap need, and a macro of 2 or 3 steps has a
first and a last step; three lifecycle events are a configuration, a suspend and a
resume, or three configurations. In `control` one early SETUP packet is enough to abort
any stage of any request and to meet a completion not yet served, and a reset, of which
there may be any number, gives the host another; the proofs hold for any number between
resets. The sizes are those of the firmware (packets of 64, descriptors of 18, 45, 62 and
116 bytes), and 64 stands for a product string one character longer, so that answers
of one packet, of two, of exactly one, and with and without the empty packet all occur.
Two worker threads are one left behind by `Disconnect` and the one of the next `Start Dump`;
two packets are a first and a last. A bound on events never keeps the bus
suspended: a suspend happens only when its resume still fits.

Kinds in `hid`: `ERROR` takes the branch of `ON` (`RunTap`), so it is not enumerated.
Halts are left out of `hid` and `log`: they drop packets, which `transmit` covers.

**What a property is about.** Besides one type invariant per module, the main ones are:
`BusyHasPacket`, `PacketHasBusy`, `BusyClears` (`transmit`); `BeliefHolds`,
`AddressAgrees`, `ImplementsTransfer`, `RequestsEnd` (`control`); `ReadsInsideRam`,
`CleanStreamInOrder`, `CleanDumpIsWhole`, `NoEmptyOrForeignPacket`, `ReadEnds` (`dump`);
`ImplementsFifo` (`queue`); `AtMostOneHeld`, `OffBetweenOns`, `TaintedKeysSilent`,
`ReleaseSeen`, `PressSeen`, `LatchOpens` (`keys`); `TapsOnceInOrder`, `ReleasedBetween`,
`TapReleases`, `EveryTapTyped` (`hid`); `StreamContiguous`, `NeverRepeated`,
`EventsInOrder`, `ValueNotStale`, `GreetedOncePerOpening`, `LogDrains` (`log`);
`SavedDumpIsWhole`, `ButtonReturns` (`host`). Each is preceded by its statement in words.
For each one `PROJECT.json` names a mutant, a plausible bug kept in the module next to the
definition it changes, that violates it. `NoOverwrite`, `SentCoversOffset` and
`SomeoneReports` are in no run: they are proved (section 6).

Some properties name the circumstance under which the code does not keep them, as a
ghost variable, and the violation runs show that circumstance at work: `clean` (the
START found an old packet on EP4, or a completion came before the first chunk was
credited), `stale`/`disowned` (a resume lowered a flag over an unread packet),
`halted`, `refused` (the event queue overflowed), `disturbed` (a bus event),
`excuses` (below), `late` and `silent` (section 2), the `clean` of the host tool.

## 4. Assumptions

*Timing.* These are the only assumptions about time, and each is a guard or a ghost:

- After reset and resume the host leaves the device 10 ms (`busQuiet`); a single
  Transmit call is over by then (`Recover`).
- A round of the main loop is shorter than the 3 ms of idle bus before a suspend. In
  `VendorDump` this is not assumed but recorded: `excuses` contains "late" once it was
  false (a suspend that finds the main loop in `SendNextChunk`, or a kick still due), and the
  three properties that need it say so. In `HidConvert` it is the guard `OwesRelease`.
- One call of `VendorDump_Run` or `HidKeyboardConvert_Run` is shorter than a dump
  (`MaxPreempt + 1 < Chunks`), and one of `SendNextChunk` than taking a configuration down
  and up again (else "late") and than the time the host takes from a resume or a
  configuration to a START that is accepted (the guard of `StartAccepted`).
- Polling is not late: the main loop may be anywhere in the tests of `VendorDump_Run` when the
  bus falls asleep, wakes up or is configured. An abort after its load of `sDumpActive` is
  recorded as "torn" in `excuses`; section 5 says what it does.

*Host.* It starts no transfer on a suspended or recovering bus, and polls no endpoint of
an unconfigured device. It may do everything else at any time.

*Fairness.* `WF(Main)`: the main loop contains no wait (TakeRequest's loop is bounded by
the backlog), and interrupts end. `WF(DataIn)`: a host polls the endpoints of an open
channel; in `HidConvert` it is `SF`, because each suspend interrupts the polling and
the host polls in some of the periods it is awake. In `CdcLog` only an open port is
read. `WF(Resume)`, `WF(Recover)`: a suspended bus is woken in the end; only `BusyClears`,
`TapReleases`, `EveryTapTyped`, `LogDrains`, `RequestsEnd` and the temporal violation run
`log_suspend` use it. `WF(Tick)`, `WF(Scan)`: the timer runs.
In `ControlPipe`, `WF(Handler)`: the interrupt is taken, and `WF(HostStep)`: a host that
started a transfer sends its tokens, and sees a stall; that it starts one is never assumed.
In `HostTool`, `WF(Worker)` for each thread, `WF(Poll)`, since `_poll` reschedules itself, and
`WF(Submit)`, a device that sends what it has.

## 5. Where code and documentation disagree

Each is a run with `"expect": "violation"`; TLC's trace is the explanation.

- `dump_preempted`: `SendNextChunk` submits the first chunk before it advances
  `sDumpOffset`. A completion between the two (the main loop delayed by another handler
  for the 50 us of a packet) sends chunk 0 twice and leaves another one out; the length
  is still right, unless the completion falls inside the `+=` (below).
- `dump_resumed`: resume aborts the dump and lowers the flag, but the packet on EP4
  stays. The retried dump begins with it.
- `hid_macro`: a reset between the converter's two looks at IsIdle leaves a macro active
  *and* its event queued; the macro runs twice.
- `log_suspend`: while the bus sleeps, `CdcLog_Run` goes on popping bytes that
  `CDC_Transmit` refuses; the SUSPEND line never arrives.

Met while modelling, each part of what a model does, without a run of its own:

- `docs/vendor-protocol.md:133-134` says that no zero-length packet ends a dump; it does not say
  that one may come first. A resume or a
  SET_CONFIGURATION between `VendorDump_Run`'s load of `sDumpActive` and its load of
  `sDumpOffset` (or of the busy flag), while an old dump is under way, clears the offset and
  lowers the flag; the main loop goes on to kick the aborted dump, and `SendNextChunk`
  queues `0 - 0` bytes. The next dump's first packet is then empty.
  `NoEmptyOrForeignPacket` shows that this is the only way to an empty packet, and that no
  packet is read through the cleared address. After it a further suspend can leave a read one
  chunk short (the empty packet without its flag, over which the retried dump is started),
  which is why `ReadEnds` excuses "torn".
- A completion between the load and the store of the main loop's `sDumpOffset += chunkLen`
  is counted by the handler and taken back by the store. The dump then sends a packet more
  than it promised, which waits on EP4 for the next read; after two of them it is still active
  when the host has read all it expects, and refuses the next START until the bus intervenes.
- A host that stops reading leaves `sDumpActive` set: without a bus event every retry is
  refused, which `docs/vendor-protocol.md:144-147` does not mention.
- `HID_Keyboard_App` works off a backlog of scan requests in one go (`app_main.c:57`), so
  after a delay of the main loop the two debounce samples can be microseconds apart.
- `docs/vendor-protocol.md:20-22` promises an explicit answer to every vendor request.
  `Composite_Setup` returns without one, and without a stall, when there is no handle
  (`usbd_composite.c:378`), and so does the core for CLEAR_FEATURE with a feature other than
  REMOTE_WAKEUP: the host waits for its timeout.
- CLEAR_FEATURE(ENDPOINT_HALT) on a configured device clears the halt, arms the status
  stage, and then stalls EP0 (`usbd_ctlreq.c:322`): carried out and refused.
- SET_ADDRESS with address 0 takes effect before its status stage
  (`USB_SetDevAddress` writes `DADDR` at once), so the host does not see it end.
- A `dump_done` that is polled after `Disconnect` enables `Start Dump` and `Save Dump` on a tool
  without a device (`gui.py:591`).
- A dump whose worker ends on a `None` handle is lost without a message (an
  `AttributeError`, where only `USBError` is caught).

## 6. Proofs

All proofs hold for every value of the constants, under the named assumptions of the
modules (`HaltAssumption`, `SizeAssumption`, `PipeAssumption`, `KeyAssumption`, ...), which
TLC evaluates on every run.

- **UsbComposite_proofs.** `CoreInv` (types of the core, `HandleIffConfigured`, and
  `SleepInv`: a suspended device saved a state other than suspended) is preserved by every
  handler; the proofs of `UsbTransmit`, `VendorDump`, `HidConvert`, `CdcLog` and `ControlPipe` use
  it without looking into a handler again.
- **UsbTransmit_proofs.** `TypeCorrect`, `HandleCorrect`, `NoLostCompletion`,
  `PacketsAreOwned`, `OverwritesOnlyDisowned`. `PacketHasBusy` is not inductive: what
  the main loop will do between guards and transfer must be known. `PendingInv` says it.
- **VendorDump_proofs.** `TypeCorrect`, `OffsetNeverAhead`, `NeverReadsPastRam`,
  `StreamIsInOrder`, `DumpIsWhole`, for every number of chunks and of completions inside
  a call. `DumpInv` ties the position of a preempted call to the shared state: from the test of
  `sDumpOffset` on, the offset is at most the completions taken inside the call, an armed total
  belongs to an active dump, and the source offset in hand is never one past the end. `CallInv`
  says what the locals are worth while the dump is active: the offset loaded for the `+=` is
  at most the real one, and equal to it as long as nothing has come in between.
  `OffsetNeverAhead` (`SentCoversOffset`) follows: the offset may fall behind what was sent,
  never ahead of it. `StreamInv` says what is on EP4 while the host reads: nothing before the
  first `start`, afterwards the chunk the host needs next. `EveryPacketIsChunk`
  (`NoEmptyOrForeignPacket`) rests on `TimelyInv`: as long as the main loop is not late and
  nothing was halted, no abort changes `sDumpTotal` under `SendNextChunk`. The bus sleeps with
  nothing to kick, so a `SendNextChunk` that an abort meets was let through by a torn condition
  and finds the cleared state from its first load on. The step needs `BusyInv`: while a dump is
  under way EP4's flag is up, so the tests let nobody in.
  `ReadsHaveDriver` is about the host that waits: while it reads and nothing has been excused, a
  packet waits on EP4, the main loop is inside `SendNextChunk`, or the kick is due. What the
  host still lacks is the chunks the dump has not sent (`ReadInv`, `DriverInv`), and a raised flag
  outside the call has a packet (`FlagInv`).
- **KeyInput_proofs**, the queue and its producer. *The ring:* `RingTypeCorrect`, and `RingIsFifo`:
  the ring with its three indices implements `KeyFifo` under `Contents`, for every size up to 255.
  The type invariant is itself inductive; the lemmas `PushAppends` and `TakeTails` say what a
  call does to the sequence the ring stands for. *Detection:* `OneKeyHeld`, `GhostsAreSilent`,
  `TypeCorrect`, `OffsSeparateOns`, for every keypad, key table and queue size. `HeldInv` bounds
  the newest sample to one key and ties held keys to samples. `OrderInv` adds to
  `OffBetweenOns` what the last ON in the queue implies about the key held now; it is
  shown for appending an OFF, an ON and anything else, and for taking the head, and
  `PushAll` is reduced to these. `TwoScans`: two scans in a row decide about a key and one about
  the latch, whatever happens between them. `ScansDebounce`: nothing less does, so a key goes on
  only when two samples show it alone, although only the newer one is tested for other keys.
- **HidConvert_proofs.** `TypeCorrect`, `TapsTypedInOrder`, `KeysReleasedBetween`, for any number and
  kinds of events. The two action properties are about a report the host reads, which an earlier
  step has put on EP1 and a still earlier one has built, so the invariant carries facts between
  these three: what the call in progress is about (`MacroInv`, `JobInv`), which reports are behind
  the queue already (`OrderInv`), whose packet the flag stands for (`FlagInv`), who owes the host a
  release (`ReleaseInv`), and why a release is not dropped on a sleeping device (`SleepingInv`).
  `ConverterUsesTransmit` is a refinement of a component by the one that uses it: seen through
  EP1 alone, every step of the converter and of its bus is a step of `UsbTransmit` or a stutter,
  and `FlagHasPacket` is `NoLostCompletion` of `UsbTransmit`, inherited instead of proved again.
  `HeldKeysAreOwed`: a key the host holds has its release on EP1 or still to come.
  `CalmBusLosesNothing`: when nothing happens on the bus, an event that has left the queue and
  types something has been read or waits on EP1. Its hypothesis `BusEvents = {}` is needed, since
  `UsbHidKeyboard_SendReport` counts a report that a torn-down or sleeping device refuses as sent.
- **CdcLog_proofs.** `TypeCorrect`, `Contiguity`, `NothingRepeated`, `OrderKept`, `ValueFresh`,
  `GreetedOnce`, `AcceptedIsKept`, `LogHasDriver`, for every size of ring, line and packet and any
  number of events.
  `RingInv`: the ring holds the cells `Top + 1 .. accepted` in order, where `Top` is the newest
  that has left it. `StreamInv`: what the main loop has popped, what waits on EP3 and what
  the host has read are older, in that order; `Contiguous`: undisturbed, they follow each
  other without a gap. `EventsInv` orders the events of a slot: logged, being flushed,
  pending, raised, and no value is older than the event beside it. `GreetInv` counts.
  `AcceptedIsKept`: undisturbed, every accepted cell is read, on EP3, in the main loop's hands or in
  the ring. `LogHasDriver` holds on any bus: a ring that holds something finds EP3 idle, or busy with
  a packet that waits or is about to.
- **ControlPipe_proofs.** `TypeCorrect`, `BeliefsTrue`, `AddressesAgree`, `PipeIsTransfer` and
  `TransfersAreAnswered`,
  for every packet size and every menu of well-formed requests, any number of early SETUP
  packets and suspends. What may be pending together is the heart of it: while a SETUP
  packet waits for the handler, `req` is already the new request and EP0 still as the old one
  left it, except that its transmitter is silent (`RequestInv`, `ReceiveInv`). `AnswerInv`: the
  answer in the buffer, and what the host has of it, agree with the setting they are about.
  `AddrInv`: a waiting address belongs to the SET_ADDRESS in its status stage, on one side
  of the completion or the other. For the refinement, `StageInv` relates the stage the host
  is in to `ep0_state`, and the bytes read, sent and left to the length of the answer; each
  action is then shown to be one step of `ControlTransfer` under the mapping `stageBar`, or
  a stutter. `TransfersAreAnswered`: once the handler is through, a transfer in flight that was
  neither ignored (`silent`) nor hit by an early SETUP packet (`late`) has its answer or its stall
  armed on EP0, at the address the host talks to. `MoverInv` says it for each stage, and is shown
  branch by branch for the decoder.
- **HostTool_proofs.** `TypeCorrect`, `SavedDumpWhole`, `ButtonHasReporter`, for any number of
  threads and any length of a dump. `CleanReads`: what a worker with the endpoint to itself
  holds, the chunk on EP4 and what the device has left make one whole dump in order, or
  nothing will come again. `ButtonHasReporter` is the safety behind `ButtonReturns`.

Only model-checked: what must happen in the end (`BusyClears`, `ReadEnds`, `RequestsEnd`,
`ReleaseSeen`, `PressSeen`, `LatchOpens`, `TapReleases`, `EveryTapTyped`, `LogDrains`,
`ButtonReturns`), since TLAPS does not reason about liveness under fairness. Every invariant and
action property of a passing run is a theorem, and for each liveness property its safety half
is one: there is always somebody whose fair step brings the goal nearer.

| Liveness, by TLC | Safety half, proved |
|---|---|
| `BusyClears` | `NoLostCompletion` |
| `ReadEnds` | `ReadsHaveDriver` |
| `RequestsEnd` | `TransfersAreAnswered` |
| `ReleaseSeen`, `PressSeen`, `LatchOpens` | `TwoScans` |
| `TapReleases` | `HeldKeysAreOwed`, `FlagHasPacket` |
| `EveryTapTyped` | `CalmBusLosesNothing` |
| `LogDrains` | `LogHasDriver` |
| `ButtonReturns` | `ButtonHasReporter` |

`EveryTapTyped` is checked on a bus with events, for the events it makes exceptions of; its
proved half is about the bus without them.

## 7. Not modelled

- *Third-party drivers* (`Drivers/`): all of CMSIS and the HAL but what EP0 and the IN
  endpoints use of the PCD driver. They are 133 000 of the repository's 143 000 lines, most
  of them register definitions and drivers for peripherals the program does not use or only
  configures at start-up; a model of them would say nothing about this program. It is why
  the models stand for a small share of the lines of the repository.
- *Start-up and interrupt vectors* (`Core/`): generated code that runs once. The models take
  from it that the USB and TIM6 interrupts do not nest.
- *Contents*: descriptors (only their lengths matter, in `ControlPipe`), usage codes and
  report layout, wording of the log, layout of the GUI.
- *USB*: EP2, which is never used; EP3 OUT, whose data the firmware drops; GET_INTERFACE,
  SET_INTERFACE, SET_PROTOCOL, GET_PROTOCOL and SEND_BREAK, which take the paths of
  requests that are modelled.
- *LED*: its mode is a setting of `ControlPipe`; the blinking (`VendorCmd_UpdateLed`), a
  comparison of tick counts in the main loop, is not.
- *Keypad*: the row-by-row drive of the matrix; a scan is one snapshot of the switches.
- *Host tools*: the progress reports and the log reader thread of the GUI, the synchronous
  commands, which are single control transfers as in `ControlPipe`, and `usb.core` itself.

## 8. Order of work

Modelled in this order: `UsbComposite` and `UsbTransmit`, on which all else stands;
`VendorDump`; `KeyFifo` and `KeyEventQueue`; `KeyDetect`; `HidConvert`; `CdcLog`;
`ControlTransfer` and `ControlPipe`; `HostTool`.

What is left, in the order of what it would add: an abstract keyboard (events are pressed and
released one at a time) that `HidConvert` implements while nothing is `disowned`; an abstract
dump (a host asks, is refused or gets a prefix of the region) that `VendorDump` implements while
`clean`; the blinking of the LED with the wrap of `HAL_GetTick`.
