# TLA+ models of the FRIENDS-2 firmware

This directory specifies, model-checks and partly proves the behaviour of the
FRIENDS-2 application firmware (STM32WB5, Cortex-M4 core). Paths such as
`main.c` are relative to the repository: `Core/Src/main.c`,
`Core/Src/usb_mode.c`, `Core/Src/hw_timerserver.c`,
`USB_Device/App/usbd_cdc_if.c`, `STM32_WPAN/App/app_ble.c` and so on.
`PROJECT.json` maps every definition to the lines it stands for.

## 1. The system

The firmware is one free-running main loop (`main.c:480-737`) preempted by
interrupts. TIM2, USB, IPCC and HSEM have priority 0,0 and never nest; the RTC
wakeup interrupt (priority 3) and SysTick (15) come below them and share no
state with them outside critical sections, so the models take one at a time:

| Actor | Code | Shares with the main loop |
|-------|------|---------------------------|
| TIM2 interrupt | `HAL_TIM_IC_CaptureCallback`, `HAL_TIM_OC_DelayElapsedCallback` | the puff state, the event queue, puff numbers |
| USB interrupt | `CDC_Receive_FS`, `STORAGE_Write_FS`, `USB_Device_NotifyMSCEjected`, `HAL_PCD_*Callback` | the command line, the eject and disconnect flags, the SD card itself |
| RTC wakeup interrupt | `HW_TS_RTC_Wakeup_Handler` | the timer list, sequencer tasks |
| IPCC interrupts | `hw_ipcc.c` | queues of BLE events |
| CPU2 (radio) | external | events, command responses |
| the USB host, the BLE central, the RF signal | external | |

One pass of the loop: run the sequencer's tasks (BLE events, advertising),
`USB_Device_Service`, the restored message, `SDLog_ProcessCommand`, read both
magnetometers, `P2PS_APP_SetMagSample` and `P2PS_APP_Process`,
`SDLog_WriteSample`, `PuffLogService`, `SDLog_Service`, `P2PS_APP_Process`.

### Inventory

| Component | State | Operations | What is hard | What makes it correct |
|-----------|-------|------------|--------------|-----------------------|
| Puff detection | TIM2 registers, `puff_active`, `rf_puff_id`, `rf_dur_ticks`, edge counters | capture, compare, `RF_PuffStart`, `RF_PuffEnd` | HAL dispatches CC1 and CC3 from one sample of the flags; edges arrive during the handler | one puff per burst, exact measures, every puff ends |
| Event queue | 16 slots, head, tail, loss counter | `RF_QueuePush`, `PuffLogService` | no lock; indices wrap; full | a FIFO that tells of its losses |
| Run log | `sd_mounted`, `sd_logging`, `sd_faulted`, double buffer, two files | `d`, `s`, `e`, `boot`, sample, service, puff rows | any FatFs call may fail; power cuts; buffers left from an aborted run | files hold the first rows of their runs, clean runs complete |
| USB class switch | mode, eject and pending flags, suspend timer, restore reason | switch to mass storage, service, notifications | interrupt between any two assignments; failing restarts | mode and class agree; the port comes back |
| Card ownership | the above, one command line | the main loop | commands during the switch | the card has one owner |
| BLE link | status, advertising timer, subscription, pending pair, sequence number | GAP events, advertising, notifications | CPU2 is ahead of its events; timer races; refused sends | status follows the link, each pair once, no gap |
| Timer server | 6 contexts in a sorted list, the wakeup timer, the last setup | create, start, stop, delete, the handler | interrupt between a check and its critical section; register wrap; split counts | sorted list, counts agree with time, timers fire in time |
| Magnetometer pairing and zeroing | ready flags, busy timers, baseline sums, the announcement | the sensor part of the loop, `MagZero_Arm/Feed/Apply`, `z` | parts that fail or fall idle; re-arming in the middle of a capture; a wrapping tick; rounding and saturation | the baseline is the mean of one whole capture and is the one announced; pairs go on |
| Console | `cdc_rx_line`, `cdc_cmd_line`, the buffer of `USB_CDC_Print` | `CDC_Receive_FS`, `CDC_ReadCommand`, `USB_CDC_Print` | deletions, overlong lines; resets and suspends between a test and its use | the command carried out is the one meant; a line being fetched is not overwritten |
| SD SPI driver | card type, status | initialise, read, write, ioctl | transfers that fail half-way, busy or exchanged cards, waits that need ticks | RES_OK is true, calls return |
| Start-up and DFU entry | one backup register, the vector table in use | `BootDFU_Request`, `BootDFU_CheckAndJump`, `main()` up to its loop, `Error_Handler` | a reset or power cycle between any two steps; a bootloader left by Go | one entry for each request, none forgotten |
| The USB clock | CLK48 selection, HSI48, one hardware semaphore | `USB_ClockConfig_ClaimCLK48`, `USB_ClockGuard` | CPU2 switches the clock at a moment of its own | USB has a clock while the host sees a device |
| IPCC mailbox | channel flags and masks, lists of events, freed buffers | the handlers and senders of `hw_ipcc.c` | acknowledge order between two cores; interrupt against loop | one core at a time on a list; every buffer comes back |
| Application entry, CPU2 start-up | what of CPU2 runs, the sequencer's tasks, the stack of waits | `MX_APPE_Init`, the ready event, `APP_BLE_Init`, the waits for answers | tasks that run inside a wait; two kinds of firmware on CPU2 | each wait ends on its own answer; start-up ends |
| Low-power manager | stop and off masks | | unreachable: `CFG_LPM_SUPPORTED` is 0 | |
| Thermistors, LED, texts, descriptors, registers of pins and clocks | | | not modelled, see section 8 | |

## 2. Modules

| Module | Models | Kind |
|--------|--------|------|
| `PuffChannel` | what the event queue promises | abstract specification |
| `RfEvtQueue` | the ring of `main.c`, step by step | refines `PuffChannel` |
| `RFPuff` | TIM2, HAL's dispatch, both callbacks, and the main-loop code that shares puff state; instantiates `RfEvtQueue` | component, composed |
| `RFPuffProofs` | the ring and its refinement, puff detection | proofs |
| `SdSession` | what each command may do to the three SD flags | abstract specification |
| `SDLog` | the run log, its buffers and files | refines `SdSession` |
| `SDLogProofs` | the files, the buffers, the refinement of `SdSession` | proofs |
| `UsbMode` | `usb_mode.c` against the USB interrupt | component |
| `CardOwnership` | main loop, command line, `UsbMode` and `SdSession` together | composition |
| `CardOwnershipProofs` | ownership, mode and reasons | proofs |
| `BleLink` | `app_ble.c` and `p2p_server_app.c` against CPU2 | component |
| `BleLinkProofs` | the link and the notification stream | proofs |
| `TimerServer` | `hw_timerserver.c` | component |
| `SdSpi` | `sd_spi_diskio.c` behind `diskio.c` against a card | component |
| `MagZero` | the sensor part of the loop and `mag_zero.c` | component |
| `MagZeroProofs` | rounding, captures and announcements | proofs |
| `BootDfu` | `boot_dfu.c`, `main()` up to its loop, `Error_Handler`, CLK48 | component |
| `PlatformProofs` | timer server; start-up: entries and the clock | proofs |
| `CdcConsole` | the console character by character, and printing | component |
| `DriverProofs` | the console and the SD driver | proofs |
| `WirelessLink` | `hw_ipcc.c`, `app_entry.c` and the waits of `app_ble.c` against CPU2 | component |
| `WirelessLinkProofs` | one core at a time on each list, own answers | proofs |
| `MC*` | each of the above with small constants for TLC | model checking |

### How state and actions correspond to the code

*`RfEvtQueue`.* Variables have the names of the code. A push is one step,
since the interrupt preempts the loop and never the reverse; the test of head,
the copy of the slot and its release are three steps of the loop. Indices wrap
at `IDX` (2^32 in the code); `accepted` and `logged` are history.

*`RFPuff`.* A tick is a fraction of `RF_END_TIMEOUT_US`. `cnt` is the time
since the last edge, saturated at the timeout because every comparison with
CCR3 has the same outcome beyond it. `EnterHandler` is HAL's single sample of
SR and DIER, `ClearCC1`, `ReadCapture`, `Capture*` and `CountEdge` are the
capture callback in program order, `ClearCC3` and `Compare*` the compare
callback; edges and ticks fall between any two of them. `StartRun` is the part
of `SDLog_Start` that masks interrupts and restarts the numbering;
`ReadRowId` and `ReadRowActive` are the two reads of `SDLog_WriteSample`.

*`SDLog`.* An action is a whole call with one outcome of FatFs: `MountFails`,
`FindOrOpenFails`, `HeaderFails` and `RunOpens` are the four ways
`SDLog_Start` ends, and so on. A file is a sequence of row numbers and the
number its directory entry covers; a power cut keeps only those. A write that
fails, or ends short with `FR_OK` (`main.c:1757`, `1769`, `2040`, `2131`, a full
card), leaves nothing or a part of its row (`Torn`), which the closing of the
files that follows may make permanent. `pc` keeps the order of the calls in the
loop, which is what makes `mag_overrun` unreachable.

*`UsbMode`, `CardOwnership`.* `usb_pc` is the place in
`USB_Device_SwitchToMSC` or `USB_Device_Service` between two accesses the USB
interrupt can see; `at` is the call of the loop that comes next. The card is a
version number the host raises, and `view` the version FatFs mounted.
`storage_call` is TRUE while the USB interrupt is in a function of
`usbd_storage_if.c`: the loop and everything else of the interrupt stand still
until `StorageReturns`, which nothing obliges to happen.

*`BleLink`.* CPU2's state (`radio_adv`, `radio_link`) runs ahead of the events
it queues. Tasks that may send a command to CPU2 are paused while one is
pending (`BLE_StatusNot`), so a task is one step.

*`TimerServer`.* `ts` gathers the static variables; operators take and return
it as the C functions read and write it. The three or four places where the
interrupt may come between a client's critical sections are the values of
`call`. Time is the sub-second register, `due` is history.

*`SdSpi`.* `pc` is the command a call has reached; a block is transferred in one
step. `todo` is the code's `count` as it counts down, whose value at the end
is the result. Every timed wait is `elapsed`, which only `SysTick_Handler`
advances. `promised` (history) is what a write that returned RES_OK left to be
found, until it is overwritten or the card taken out.

*`MagZero`.* A pass of the loop is three steps: the command, the reads with
their busy timers, the pair. Between them the parts get samples, fall out of
continuous mode or refuse a transfer, and `HAL_GetTick` moves, modulo `TICKS`.
The variables of `mag_zero.c` keep their names; `seen` and `total` are history:
how many pairs came since the capture was last asked for, and their sum.

*`BootDfu`.* `pc` is the step `main()` or `Cmd_EnterBootloader` takes next, and
`Reset` and `PowerCycle` may replace any of them. `bkp` and `dbp` are the flag
in the backup register and whether it can be written, `map` the vector table in
use. `Go` starts the application without a reset, and may leave the bootloader's
USB device on the bus (`boot_dfu.c:71-73`) while the start-up code has put the
clocks back. CPU2 resets the selection of CLK48 unless the semaphore is held.

*`CdcConsole`.* Each character is a step of the USB interrupt; a packet is a run of
them. `typed` and `meant` (history) are the line as the user sees it and what it
was to do when it was taken. `USB_CDC_Print` is its test, its copy and
`CDC_Transmit_FS`, with resets, suspends and the host's reading in between.

*`WirelessLink`.* `flag` and `open` are the mailbox's registers, `isr` what the
handler under way still does, `frames` the stack of the main loop: a wait for
CPU2's answer runs the sequencer, which pushes a frame. `Goto` and `Advance`
move the topmost frame. The answer of an HCI command is `rsp_posted` and not an
element of the list of events: its place there tells nothing, since the handler
takes the list whole. The interrupt preempts the loop, so the steps of the
loop need `Quiet`. What the commands and events mean is in `BleLink`.

## 3. Runs

All pass unless marked.

| Run | Question | Bounds | Result |
|-----|----------|--------|--------|
| `rf_puff` | do bursts and puffs correspond, are measures exact, do events pair, does every puff end and get logged, is the ring a lossy FIFO under every interleaving, and is each event stored or reported lost? | timeout 4 ticks, latency 1, 3 edges, queue of 2 with indices modulo 4, 1 run start, 1 row | holds |
| `sd_log` | do files and buffers account for every row, whatever fails or is written in part, and do the flags obey `SdSession`? | blocks of 2 rows, 2 runs, 5 rows, 1 cut | holds |
| `card_ownership` | one owner, fresh view, true reasons, lines taken, port restored | suspend limit 2 calls, 1 host write, late lines `s`, `e` and `boot` | holds |
| `card_late` | `main.c:1889`: one owner | late line `d` | **violated** |
| `eject_late` | `README.md:25`: "and back again on eject" | late line `e` | **violated** |
| `ble_link` | status, subscription, each pair once and in sequence, pairs are sent | 2 links, 3 pairs, sequence modulo 2, 3 queued events | holds |
| `timer_server` | sorted list, counts and clock, neither late nor early | 3 timers, register wraps at 3, timeouts 0 and 2, 4 calls | holds |
| `sd_spi` | is RES_OK true whatever the card does, and do the calls of the loop return? | 3 sectors, calls of 1 or 2, 2 writes, 1 exchange, waits of 1 tick, callers the main loop and the USB interrupt | holds |
| `mag_zero` | is a pair zeroed by the mean of one whole capture, is that the baseline announced, do pairs go on? | int16_t as -3 .. 2, captures of 2 after 1, tick modulo 4, busy limit 2, 2 faults, 1 `z` | holds |
| `boot` | one entry for each `boot`, none forgotten, the right vectors, a clock for USB once it is set | 2 requests, 4 resets or power cycles | holds |
| `cdc_console` | is the command carried out the one meant, is a line being fetched kept? | lines of 3, 2 letters and the blank, the word `bt`, 5 characters typed, 2 texts | holds |
| `wireless_link` | one core at a time, own answers, everything handled in the end | 2 buffers, 2 start-up commands, 5 events, 3 calls, either firmware | holds |

Why these bounds are enough for the interesting cases: three edges are the
least for two bursts with an overcapture between them; they give up to six
events, which take both indices past a wrap of the modulus of 4, past full and
empty, and a queue of 2 can lose either event of the second puff; 5 rows fill the write buffer, the fill
buffer and one row more, with puff rows in between, and two runs with one cut
let a run follow an aborted one; timeouts of 2 with a longest count of 1 make
the timer server split a count, and a wrap at 3 makes the register wrap while
a timer runs; two sectors are the least multiple transfer, which can fail
before or after its first block, and one exchange leaves the driver with the
kind of the card that is gone. In `mag_zero` the
difference saturates at the low end, the zeroed difference at the high one, a
sum of two can be odd, so that the mean falls on a half, and `z` can come
before, in and after a capture; both signs of the rounding are in the proof. In
`boot` a second request can follow a first that a reset interrupted, and four
resets reach every step of both. In `cdc_console` a line can be one too long,
and its tail can be the word. In `wireless_link` two buffers can both be
with CPU1, so that CPU2 waits for them, and three calls fill a wait with every
other task. `rf_puff` asks for `IDX` a multiple of `QLEN`, as the ring does.

Several invariants are conjunctions that a run checks as one: `PuffInv`, `LogInv`,
`TimerInv`, `CallInv`, `MagInv`, `BootInv`, `ConsoleInv` and `LinkInv` contain
the type invariant of their module and named parts, `LinesAreServed`,
`NotifiedInOrder` and `PortComesBack` named parts, each with its own comment in
the module. The types of `CardOwnership` and `BleLink` are
proved and not checked by a run. Every property
of a passing run has a mutant of the code that TLC finds (`mutants`).

Two runs end in a disagreement with what the code or its documents say. Both
are lines received during `HAL_Delay(300)` of `SDLog_Eject` or in the switch, and
executed after it. `card_late`: a `d` mounts the card when the host already owns
it. `eject_late`: a second `e` calls `USB_Device_SwitchToMSC` in mass-storage
mode; `usb_mode.c:193` clears an eject the host has made since
`USB_Device_Service` looked, and the port does not come back.

`card_ownership` therefore excludes a late `d` and nothing else. Its
`PortComesBack` says that an eject brings the port back *unless* such a second
switch reaches the clearing of the flags (`usb_pc = "clear"`), and that a
suspended bus does so unless it is resumed. These two and the liveness half of
`LinesAreServed` are under `CallsReturn`, that the storage functions of the USB
interrupt return; the safety properties are not.

### Reproductions

Four more configurations reproduce disagreements and end in a counterexample.
They are kept beside the runs and are not in the list of `PROJECT.json`:

| Configuration | With | Definition | What it shows |
|---------------|------|------------|---------------|
| `RFPuff_skip.cfg` | `MCRFPuff` | `SkippedTimeoutEndsPuff` (`main.c:1433-1436`) | HAL samples CC3, an edge restarts CNT, the compare callback skips; a second edge before the capture reads CCR1 overwrites the long period, and two bursts become one puff. It needs two edges within one latency, and CC1OF tells of it. |
| `RFPuff_lost.cfg` | `MCRFPuff` | `LostPeriodIsFlagged` (`main.c:1368`) | an edge between HAL's clearing of CC1IF and the read of CCR1 replaces the period without setting CC1OF |
| `RFPuff_row.cfg` | `MCRFPuff` | `RowNamesItsPuff` (`main.c:1447`) | `rf_puff_id` and `puff_active` are two reads |
| `SdSpi_usb.cfg` | `MCSdSpi` | `StorageCallReturns` (`README.md:24`) | `STORAGE_Init_FS` calls `disk_initialize` in the USB interrupt, and `HAL_Delay` there waits for a SysTick of lower priority |

### Read, without a run

* `Adv_Cancel` ends in `APP_BLE_IDLE` and nothing starts advertising again
  (`app_ble.c:1172`); 0 as the handle of no connection (`app_ble.c:564`).
* The switch-failed message is printed only when it cannot be seen
  (`main.c:1907`).
* A part initialised again in the middle of a capture is not reported
  (`main.c:534`), and the line with the baseline is tried once
  (`main.c:616-618`).
* `CDC_Transmit_FS` uses `pClassData` after `USB_CDC_Print` has tested it, with
  the interrupt that clears it enabled in between (`usbd_cdc_if.c:311`).
* The list of tasks that send no command holds one that does
  (`app_conf.h:692`); `AnswerIsItsOwn` shows that it does no harm.
* No `RTC_WKUP` handler (`stm32wbxx_it.c:200-260`). The startup file is not in the
  repository, so it may be there; `TimerServer` and `BleLink` take the handler
  to be called as `hw_if.h` requires.

## 4. Fairness

* `rf_puff`: weak fairness of time, of the handler once entered or pending, and
  of the loop's next call, `PuffLogService` among them. Edges are never forced.
* `card_ownership` and `eject_late`: strong fairness of the main loop's next step
  (`Loop`). The loop stands still while a storage call of the USB interrupt runs,
  but the host has to fetch the answer to one call before it causes the next, so
  a loop that can go on again and again does. That a storage call returns is not
  assumed of the specification: it is the premise `CallsReturn` of the liveness
  properties, because as configured a call that waits for a tick never does.
  Nothing is asked of the host: `PortComesBack` allows it to resume the bus.
* `ble_link`: weak fairness of the sequencer's tasks and the timers, strong
  fairness of a successful send: CPU2 may refuse any number of times but not
  for ever, since its pool is emptied by the radio.
* `sd_spi` and `SdSpi_usb.cfg`: weak fairness of the driver's next step and of SysTick when it
  can run. Nothing is asked of the card, not even that it ever stops being busy.
* `mag_zero`: weak fairness of the loop, of the tick and of each part's next sample
  while it is in continuous mode. Parts may stay idle: the loop has to notice.
* `boot`: weak fairness of CPU1. Resets are bounded, so in the end one start-up is
  left alone.
* `wireless_link`: weak fairness of CPU1, of its interrupts and of each thing CPU2
  owes an answer to or has begun; CPU2 says once that it is ready, and need
  not send anything else.
* `sd_log`, `timer_server` and `cdc_console` are checked for safety, under no
  fairness; `FiresInTime` bounds lateness by a state invariant instead: a delay of
  the handler for each timer, and one less a tick where it found a tick still to be
  counted, which happens when the longest count of the wakeup timer is passed by one.

Deadlock is checked where the system cannot stop (`sd_log`, `card_ownership`,
`timer_server`, `mag_zero`, `cdc_console`). The others stop at their
bounds, in `Error_Handler` or, in `sd_spi`, in a call of the USB interrupt that waits
for a tick for ever, and say `CHECK_DEADLOCK FALSE`.

## 5. Proofs

`tlapm` checks every leaf. The theorems hold for every value of the constants
that the named assumptions allow.

*The event queue* (`RFPuffProofs`, from `QueueSizes`, a part of `PuffConstants`: a
length that divides a larger index modulus). `QueueIInv` is `QueueTypeOK` with
`IndicesCount` (the wrapped indices stand for the numbers of events stored and
drained, at most `QLEN` apart), `SlotsIntact` (every waiting event is in its
slot) and `CopyIntact` (what the loop holds is the oldest). None is inductive
alone: a push is safe only because the indices count, and a copy is untorn
only because slots are intact. The lemmas on remainders (`RemainderUnique`,
`WrappedDifference`, `WrappedSlot`, `SlotsDiffer`) are where divisibility is
used. From `QueueIInv` follow `QueueTypeCorrect`, `QueueCorrect` and, step by
step, `QueueImplementsChannel`.

*Puff detection* (`RFPuffProofs`, from `PuffConstants`: a timeout of more than
three latencies). `Latency` bounds the counter by the place of the handler while
an edge waits: the run before, the edge's own wait and its own run, three
latencies in all, so that an edge is served before the timeout can pass
(`ServedInTime`). `Armed` then says that the end of a puff is always to come,
which is `EndIsComing`. `BurstsStarted` counts bursts against puffs and says
where the edge is that opens the next one; it gives `OnePuffEach` whatever is
lost. Measures need `Exact`: while no capture is lost, every period of the signal
is in exactly one place (the register, the callback's variables, the sums of the
puff or those of the next), and `LossIsLate`, that the first lost capture is in
no earlier burst than the one being measured, so that an END already in the
queue is exact whatever is lost later (`MeasuresExact`). `EndsLogged` and
`OpenStart` give `StartAndEndPaired`; the numbering restarts only in `StartRun`,
which masks the interrupts. `DetectorImplementsChannel` composes the ring with
the rest: each step of the detector is a step of the ring or leaves it alone
(`StepIsQueueStep`).

*The run log* (`SDLogProofs`, from `LogConstants`). The inductive invariant adds
two parts to the types. `Safe` is about every run there ever was: its files hold
its first rows and at most a part of the next one, and all of them, none torn, if
it was closed without an error; it survives a power cut because a cut takes only
what the directory entry does not cover. A torn row is always the last, because
every path that may leave one ends the run (`SDLog_Abort`, or `SDLog_Start` giving
up) before anything else is written, and the next run takes a free number.
`RunInv` is about the run being logged: it is none of those closed, both files are
open on a mounted card, the file, the block waiting to be written and the block
being filled hold its rows in order, and no block waits when a command or a sample
comes, which is why `mag_overrun` is unreachable. `LogImplementsSession` maps
each step to one of `SdSession`, failing calls included.

*The class switch and the card* (`CardOwnershipProofs`). A storage call only
delays the rest: every step is one of `CardNext` or leaves `card_vars` alone
(`CardStep`). Three strengthenings, each inductive with the types:

* `ModeInv` says what mode and class are at every place of the two switches;
  `ModeIsClass` alone is not inductive, since it is silent inside them.
* `OwnerInv`: from the unmount in `SDLog_Eject` until mass storage leaves the
  bus FatFs has released the card *and no waiting line takes it back*. The
  second half needs the assumption `"d" \notin LateLines` of `CardOwnedOnce` and
  `ViewCurrent`: without it the theorem is false, and `card_late` is the
  counterexample. The argument is that serial lines come only with the serial
  port on the bus (`LineStep`), that mass storage comes only in the switch `e`
  makes (`ClassStep`), and that no command but `d` mounts (`ReleasedStep`, from
  the outcomes of `SdSession`).
* `ReasonInv`: the eject flag implies an eject of the host, and the suspend timer
  is never ahead of the bus (`SuspendWatch`) and is 0 outside mass-storage mode,
  which is what `ServiceTakes` and `ClearForMSC` reset it for.

*The BLE link* (`BleLinkProofs`). `ChangeInv` says that CPU2's link is what the
last connection event in the queue tells, or the status when none waits;
`SubscribeInv` that every queued subscription comes after the connection of its
own peer with no disconnection in between. Together with `EnabledByThisPeer`
they are inductive (`LinkInv`) and give `LinkFollowed` and `EnabledByPeer` for
queues of any length. `PairInv` (the newest pair is the one kept, and while valid
it is newer than all sent) and `SequenceInv` give `PairsOnce` and `NoGap`, together
`InOrder`.

*The timer server* (`PlatformProofs`, from `TimerConstants`; `TimerIInv`). The list is
a chain of indices in an array whose other entries may point anywhere, also in
circles. `Chain` says that the running timers are listed by a rank that falls along
`NextID` one timer at a time, leads back along `PreviousID` and orders the counts; a
walk ends because the rank falls, and `Reach` gives the walks from a free context,
which may not end, what they visit. `Clock` reads a count as what is left until the
timer is due plus what has elapsed since the last setup; at 0 the timer was due
by then. `Wakeup` says what the wakeup timer counts for, in parts if it has to,
and that it may have expired one tick early. Two parts are less obvious:

* The previous timer is never the current one between two sections. That is why
  `HW_TS_Start` and `HW_TS_Stop` always reschedule when the head changes: with the
  two equal a new head would go by the old setup.
* `InTime` bounds the lateness of every timer, not of the head alone: `Slack` takes one
  handler delay off the bound for each timer before it, because each of them may still
  delay it once, and adds a delay less a tick for the last part of a split count
  (`Again`). `FiresInTime` is the bound of the head, for a full set of timers.

Each operator has one lemma for what it does to the chain (`ChainRemoved`, and those of
`linkTimer` and `RescheduleTimerList`), each action one for the invariant.
`TimersInvariant`, `TimersFireInTime`, `WakeupsExpected` and `TimersFireNotEarly`
follow for any number of timers, any width of the register, any margin and
any delay it covers.

*Start-up and the clock* (`PlatformProofs`). `CountInv` says that entries never
outnumber requests, `FlagInv` that a flag in the backup register is a request not
yet entered, and `TableIsTheProgramsOwn` and `ClockInv` what each step of `main()`
has set up. The flag is what makes them one invariant: an entry is counted
against a request only because the flag was cleared before the jump, and could
be, because access was enabled first. `BootCorrect` and `ClockKept` follow; the latter
starts at `SystemClock_Config` (`ClockNotSet`), because a device that the bootloader's
Go left on the bus has no clock before it.

*The console* (`DriverProofs`, from `ConsoleConstants`). `BufferIsText` says that
between its copy and its transmission `USB_CDC_Print` holds its own text,
`NothingElseSends` that no line is in flight from its test to its return. The test
of `TxState` is made before the copy, and only the loop starts a transmission: that
is why it is still true after it. `ConsoleCorrect` follows. For `CommandCarriedOut`,
`MeantInv` says that the buffer is the line as its user sees it until the line is
too long, and `MeaningIsCommand` that `SDLog_ProcessCommand` reads such a line as
the user means it: it skips blanks and, for a `b`, wants the word with only blanks after it. The
lemma shows this for lines and words of any length; where the induction over the
characters would be, it takes the least place that is no blank (`Least`).

*The SD driver* (`DriverProofs`, from `DriverConstants`). A block sent is not yet in
the card, which stays busy with it: `Will` is what the sectors hold once it is
stored, and `Kept` states what was promised of `Will`. `KindIsKnown` says that a
card in service is addressed as its kind wants, also after an exchange: the new
one answers only after an initialisation. `InStep` says that card and driver are at
the same sector in the same direction, `WrittenSoFar` and `ReadSoFar` what
the blocks counted down in `todo` amount to. `OkIsWritten` and `ResultsAreTrue`
follow for any number of sectors, any length of a call and any removals.

*The baseline* (`MagZeroProofs`, from `MagZeroConstants`). The lemmas `Quotient`,
`RoundedHalfUp` and `Rounding` show that C's truncating division with half the
divisor added is the nearest mean, halves away from zero, for every sum and
count: the definition `IsMean` knows nothing of division. `CaptureInv` relates
the sums of `mag_zero.c` to the pairs seen since the last `z`, `ToldInv` the
announcement to the baseline. `ZeroingCorrect` and `AnnouncementCorrect` follow for every number of
samples and every range of integers.

*The mailbox* (`WirelessLinkProofs`). `OneCoreAtATime` is not inductive: that the
flag of the buffers' channel is clear when the main loop moves them does not
say that it stays so, since the interrupt also sets it. `MoverInv` adds that the
channel's mask is closed meanwhile, which holds because the loop runs only
when no interrupt is pending, so that a clear flag means a closed mask
(`SendFreeBuf`). `StackInv` says that only the topmost frame is in the middle of
anything, all others wait, so no second frame opens the mask; `HandlerInv` says
what a handler may still do and under which flag. `ListsCorrect` follows for
any number of buffers, commands and events and any depth of the stack.

`AnswersCorrect` needs `LinkIInv` beside it. That no second HCI command is sent while
one waits for its answer has three reasons: tasks that may send one are paused
meanwhile; the system task, which is not paused, sends them only in the start-up,
which is over before any other task may (`StartInv`, `AskersInv`: CPU2 reports
ready once and before everything else); and no task is on the stack twice
(`TasksInv`). `SysCmdInv` says where a system command is for each value of `cpu2_sys`
while the mask of its channel is open, so the event of the wait is set only by its own
answer. `BuffersInv` counts the buffers: with CPU2, in a list, or held by a frame.

Left to TLC: liveness (fairness and ENABLED are beyond the prover), and
`LinesAreServed`, whose safety half is `LineNotReplaced`.

## 6. Assumptions to know about

* Interrupts do not nest and preempt the main loop only (NVIC priorities are
  0,0 but for the RTC wakeup interrupt, 3, which changes what it shares in critical
  sections, and SysTick, 15, which only advances the tick).
* A TIM2 interrupt waits and runs for much less than 10 ms (`PuffConstants`).
  The properties of `rf_puff` fail without it: the code has no defence against
  a longer delay.
* HAL, FatFs, the ST device library and CPU2 behave as their use in the code
  implies; each of their calls may fail where the code tests a result.
* The host sends no `d` while a switch is under way, in `card_ownership`
  only (`LateLines`); `card_late` shows what happens otherwise. `e` may come late:
  `eject_late` shows what that can do.
* The liveness properties of `CardOwnership` have the premise that the calls of the
  USB interrupt return (`CallsReturn`). As configured a call that waits for a tick does
  not (`SdSpi_usb.cfg`): these properties say something of the firmware with SysTick raised
  above the USB interrupt, or with the card's calls moved to the main loop. The
  safety properties hold either way.
* `CommandIsMeant` says nothing of a line that was ever longer than the buffer: the
  model takes its tail as a command, as the code does, and no document says what
  it should mean.
* CPU2 touches a list only while the channel's flag gives it that list, and answers
  every command once (`WirelessLink`); it leaves the selection of CLK48 alone while
  CPU1 holds the semaphore (`BootDfu`).
* The bootloader leaves the backup register alone.
* The central agrees to an ATT_MTU of at least 29 before it subscribes, as
  `ble_notify_len.h` assumes: the firmware asks for one at each connection and
  never looks at the answer, so `BleLink` has packets of one kind only.
* The critical sections of the timer server take less than a tick.

## 7. Plan

Done, in this order: event queue, puff detection, run log, class switch and
ownership, BLE link, timer server, SD driver, magnetometers, start-up and DFU,
console, mailbox and start-up of CPU2, the proofs of section 5.

Of what is checked only the liveness properties have no proof. What could come next is
breadth: the ACL channel of the mailbox if the application starts to use it, and the
exchange of PHY and MTU in `BleLink` if the firmware starts to look at the answer.

## 8. Not modelled

* Thermistors, LED and console texts: straight-line I/O that nothing reads back.
* Register values of clocks, pins and peripherals, USB descriptors and
  configuration headers: tables, set once. The order of the initialisations and
  the failures that stop the program are in `BootDfu`.
* The low-power manager: `CFG_LPM_SUPPORTED` is 0 and the loop has no idle path.
* The ACL and trace channels of the mailbox: nothing uses the first, and CPU1
  drops the messages of the second. The contents of CPU2's commands.
* C library stubs and debug pins.
* HAL, FatFs, the ST middleware, CPU2, the bootloader and the start-up code are
  not in the repository and appear as the environment.

In modelled parts: the two other magnetometer axes, which are treated as the
first, and the magnitudes; duty-cycle statistics, `start_ms` and the 32-bit
microseconds of `Puff_LogEnd`; the contents of rows and packets; PHY and MTU
exchange; the notifications of coprocessor errors, which only print;
`P2PS_APP_SetPuffEvent`, `rf_rising_count`, `SDLog_NextFileName`,
`hw_ts_InitMode_Limited` and `HW_TS_RTC_ReadLeftTicksToCount`, which nothing
calls or changes.
