# TLA+ models of the inductance measurement firmware

The repository holds the firmware of a four-channel inductance measurement module
(LDC1614 converter on an STM32WB55, results over Bluetooth LE and a UART), a simpler
wired variant of the board, and scripts that plot the data on a host. This directory
holds TLA+ specifications of the parts of the BLE firmware whose correctness depends on
the order in which things happen, TLC configurations that check them on small instances,
and TLAPS proofs of safety properties of the task sequencer everything else runs on, of
the transport layers on top of it, of the timer server, the advertising state machine, the
measurements, the trace output, the mailbox and the host's recorder.

Paths below are relative to `src/Software/imss-ide/`, those of scripts to `src/Software/`.

## 1. The system

### Execution model

One Cortex-M4 core. `main` calls `MX_APPE_Process` in a loop; it runs the sequencer
(`UTIL_SEQ_Run`), which calls the tasks that have been requested. A task runs to its end,
except that it may wait for an event in `UTIL_SEQ_WaitEvt`: the wait calls `UTIL_SEQ_Run`
again, on the same stack, so other tasks run *inside* the wait. Interrupt handlers
interleave with all of this; they request tasks and set events. The BLE stack runs on a
second core, which is reached through a shared-memory mailbox and the IPCC peripheral.

### Inventory

| Component | State | Operations | Interacts with | Hard behaviours | What makes it correct |
|---|---|---|---|---|---|
| Task sequencer `Utilities/sequencer/stm32_seq.c` | `TaskSet`, `TaskMask`, `SuperMask`, `EvtSet`, `EvtWaited`, `CurrentTaskIdx`, `TaskPrio[]` | Run, SetTask, SetEvt, WaitEvt, Pause/ResumeTask | tasks (calls), interrupts (SetTask, SetEvt) | re-entrance through waits, interrupts between any two reads, unbounded search | requests are neither lost nor starved; index, event and mask are restored at every depth; the search ends |
| HCI transport `.../tl/hci_tl.c`, `shci_tl.c`, glue in `app_ble.c`, `app_entry.c` | one command buffer, command and asynchronous event queues | hci_send_req, shci_send, user_evt_proc, receive callbacks | sequencer, mailbox, second core | answers without credit, events left over from an earlier wait, tasks running inside a wait | one command at a time; each caller gets its own answer; no event is forgotten |
| Timer server `Core/Src/hw_timerserver.c` | linked list of timers, last set-up value of a wrapping register, RTC wakeup counter | Create, Start, Stop, Delete, wakeup handler | RTC, callbacks in the interrupt | wrap-around, late interrupts, calls racing with the interrupt | timers expire once, in time; the list stays sorted and complete |
| Connection and advertising `STM32_WPAN/App/app_ble.c` | `Device_Connection_Status`, `connectionHandle`, timer | Adv_Request, Adv_Update, Adv_Mgr, event handler | HCI transport, timer server, sequencer | three commands per request with events arriving between them, stale timer requests | a device without links can be found; the status follows the links |
| Heart-rate application `STM32_WPAN/App/hrs_app.c`, `hrs.c` | measurement timer, energy counter and its reset flag | notifications on/off, control point, HrMeas, Measurement update | timer server, BLE services, converter | two clients, no stop on disconnection, a reset between two measurements | a subscriber is served; a reset is reported; what is notified can be decoded |
| Measurement loop and driver `Core/Src/main.c`, `ldc1614.c` | `read_flag`, four floats, the frame | TIM2 interrupt, main loop step, I2C reads | UART, heart-rate application | flag shared with the interrupt, words read one by one while the converter goes on, I2C failures | a frame is made of whole conversions; frames keep coming |
| Trace `stm_queue.c`, `dbg_trace.c`, `app_debug.c`, `hw_uart.c` | circular byte queue, ready flag, UART state | Add, Remove, Sense, transmit, complete callback | everybody who traces, measurement frames on the same UART | wrap-around with split elements, refused transmissions | what is added is sent once, in order |
| Mailbox and memory manager `tl_mbox.c`, `hw_ipcc.c`, `stm_list.c` | free-buffer queues, IPCC flags | event release, release handler, receive handlers | second core | release racing with the flag's interrupt | every buffer comes back |
| Service controller `svc_ctl.c` | handler table | registration, dispatch | HCI transport | - | - |
| Low-power manager `stm32_lpm.c` | two masks | SetOffMode, SetStopMode | - | switched off in this build (`CFG_LPM_SUPPORTED` is 0) | - |
| Wired board `firmware_oriforce_board/` | `read_flag`, frame | same loop without BLE | UART | frame length | each frame is sent complete |
| Host scripts `Software/scripts/` | a bounded queue between threads, the recording, a lock | read, plot, record, save | serial port, BLE | queue full, thread end, a flag tested outside the lock | a saved recording is complete; nobody blocks |

HAL, CMSIS, the BLE command encoders and the reference designs are vendor or generated
code. They appear as the environment of the modules.

PROJECT.json lists the hazards of this code one by one, each with its line and the
properties that would catch it going wrong.

## 2. Modules

| Module | What it is |
|---|---|
| `Sequencer` | the task sequencer, with interrupts and re-entrant waits |
| `SequencerRoundRobin` | the same with a history variable that counts, at each priority, how often a task was selected over another |
| `SequencerProofs` | TLAPS proofs about both |
| `MCSequencer`, `MCSequencerRoundRobin` | instances of them for TLC |
| `CommandChannel` | abstract: what `hci_send_req` promises |
| `HciTransport`, `MCHciTransport` | both transport layers, composed with the *whole* sequencer (it EXTENDS `Sequencer` and conjoins its actions) |
| `Alarms` | abstract: what a timer promises |
| `TimerServer`, `MCTimerServer` | the timer server on an RTC |
| `TimerServerProofs` | TLAPS proofs about it, the refinement of `Alarms` included |
| `Advertising`, `MCAdvertising` | the connection state machine, with timer, tasks and BLE stack |
| `AdvertisingProofs` | TLAPS proofs of its safety properties |
| `CircularQueue` | the byte queue of the trace, as operators on a record |
| `TraceUart` | the trace output on that queue, with the DMA, its interrupt and the measurement frames |
| `TraceUartProofs` | TLAPS proofs of its safety properties: what the queue holds, what is transmitted, and that the transmitter is never started while busy |
| `HciTransportProofs` | TLAPS proofs about both transport layers, the refinement included |
| `HeartRateProfile` | the measurement characteristic, as the service writes it and the host script reads it |
| `Measurement`, `MCMeasurement` | the main loop's and the notified measurements over one converter |
| `MeasurementProofs` | TLAPS proofs of the encoding and of the safety properties |
| `SerialRecorder` | the threads of the host script that plots and records the serial port |
| `SerialRecorderProofs` | TLAPS proofs of its safety properties |
| `Mailbox` | the mailbox: the way of event buffers between the cores, with a system command in progress |
| `MailboxProofs` | TLAPS proofs of its safety properties |

Operators commented "Mutant" are deliberately wrong variants of the definition that follows
them. No specification uses them; PROJECT.json pairs each property with one that breaks it,
which shows that the property depends on that piece of code.

### Sequencer

Masks are sets of task numbers or of events. The variables carry the names of the C statics;
`priority` and `round_robin` are the two fields of `TaskPrio[]`; `local_taskset`, `counter`
and `super_mask_backup` are the locals of the innermost `UTIL_SEQ_Run`; `callers` is the
stack of suspended `UTIL_SEQ_WaitEvt` calls with their backups. `pc` splits `UTIL_SEQ_Run`
where an interrupt could make a difference: reading the sets (`Sample`), testing them
(`Test`), each iteration of the unbounded search (`Search`), choosing (`Select`), the
critical section (`Clear`), leaving (`Leave`). `UTIL_SEQ_WaitEvt` is `WaitEvt`, `EvtIdle`
(the nested run), `EvtSeen` and `WaitDone`. `SetTask` and `SetEvt` are one step each, because
the code makes them critical sections, and may happen at any time. The bodies of the tasks
are arbitrary: they may pause and resume tasks, wait and return.

`SequencerRoundRobin` adds `overtaken` to these variables and guards nothing with it: `overtaken[p][t][u]` counts
the selections of `u` at priority `p` while `t` was eligible there too, and goes back to 0 when `t` is selected or is
found not to be eligible. It counts up to `CountLimit`, one more selection from there being the violation.

Left out: `UTIL_SEQ_RegTask` and `TaskCb` (registration precedes the first request),
`UTIL_SEQ_ClrEvt`, the queries and `DeInit` (no caller in this program).

### HciTransport

The environment of `Sequencer` is replaced by the real tasks: the two transport tasks, which
take one event from their queue per call and ask to be called again when more are left, and
tasks requested by timers. `hci_send_req` is `NotifyBusy` (pauses the tasks that send
commands), `SendCmd`, `WaitResponse`, `Drain`, `NotifyAvailable`; `shci_send` is `ShciSend`,
`ShciWait`, `ShciDone`. `act` is the execution of the running task, `acts` those suspended in
a wait. The second core answers each command once, with or without credit for another one,
and gives a withheld credit later. The buffer is written by `SendCmd` *whatever it holds*, as
in the code: that no command is overwritten is a property, not a guard.

`OneCommandAtATime` is the refinement of `CommandChannel`: the channel is "sent" while the
second core has given no credit, "answered" until the call returns, "idle" otherwise.

Left out: the user event flow control (`UserEventFlow`): the handlers of this application
leave it enabled once the wireless firmware runs.

### TimerServer

`ts` is the record of all statics and of the RTC registers it programs. One tick is a period
of the wakeup counter and of the sub-second register; both divide the clock by 16
(`WakeupTimerDivider`, `AsynchPrescalerUserConfig` in `hw_conf.h`/`app_conf.h`), so the
conversion `ReturnTimeElapsed` does between the two scales is exact. `Tick` is real time:
the register counts down and wraps, the wakeup counter counts down and raises the interrupt,
which the CPU takes at most `Latency` ticks later. `ExpireEarly` is the phase between counter
and register. The ghost `rem` is the real time each timer has left.

The register is read more than once in a call, and time passes in between. A call, and the handler, is therefore
up to three steps, `pc` naming the next: the change of the list (`HW_TS_Stop`, `HW_TS_Delete`, `HW_TS_Started`, the handler),
in which `linkTimer` reads the register; `RescheduleTimerList` (`pc = "reschedule"`), which stops the counter and
reads it for the elapsed time (`hw_timerserver.c:425`); and `RestartWakeupCounter` (`pc = "restart"`), which, after it has polled
WUTWF (:360), reads it again as the next reference (:346, :378). `Continue` decides whether a call ends or goes on.
Interrupts are masked throughout, so only `Tick` and `ExpireEarly` come between these steps, at most `Latency` ticks for the call.
`HW_TS_Start` reads the status before its critical section: it is `HW_TS_Start`, which stops a running timer, and
`HW_TS_Started`, and the interrupt may come between them. The callback of a timer is called when the handler
ends; the ghost `callback` marks it in the first step.

**Ticks that are lost.** A tick between the reading at line 425 and the one at 346 or 378 is in no difference of two
readings: for every timer in the list it does not count. The code does nothing about it (the comment at :376, "after the
WUTWF polling that may take some time", is about the second reading only), and neither does the model: the ghost `lost` counts these
ticks for each timer since its start, together with those between the start of the first timer, when there
is no reference yet, and the counter's first restart. The polling takes about two RTC clocks and a tick is 16, so it is mostly nothing and sometimes one
tick for each time the list is rescheduled; but a long delay that is split, or during which other timers are started and stopped, loses
one each time, and the loss adds up. A timer is late by that much. What remains true is what the properties say:

- `CountLeftIsExact`: a count differs from the real time left by `lost` *and by nothing else*: not by the wrap of the register, a late
  interrupt, the order of the calls or the interrupt that comes within `HW_TS_Start`. In particular it never runs ahead of real time.
- `AlwaysArmed`: between calls, the counter runs and expires when nothing more is left to count for the first timer (`Due`, the real time plus
  `lost`), or before.
- `TimersExpireInTime` is the refinement of `Alarms`: no timer expires more than `Jitter` ticks early, or more than
  `(MaxTimer + 1) * Latency` ticks late *after the ticks lost are set aside* (timers due together are handled
  by one interrupt each, and the last part of a delay that was split may itself be started late), and
  stopped timers do not expire. `Alarms` is not told when ticks are lost, but it limits them: each time the counter is
  programmed (`Programs`), at most `Loss` of the following ticks may count for no timer, and while nothing is programmed every tick counts
  for all. `Loss` is `Latency` here.

`TimerServerAssumption` asks that the interrupt, and a call, be no later than
`HandlerMaxDelay` (`CFG_HW_TS_RTC_HANDLER_MAX_DELAY`), the margin by which the code keeps the counter limit
below the period of the register: with a later interrupt the register could wrap unnoticed and the counts be wrong.

Left out: the limited initialisation after standby (not called), `HW_TS_RTC_ReadLeftTicksToCount`
(only reads). Branches that no reachable state enters are named in comments.

### Advertising

`request` is the `Adv_Request` being executed and the command it will complete next; it stops
the timer, may send `set_non_discoverable`, then `set_discoverable`, then `update_adv_data`.
The stack connects and disconnects centrals between any two of these steps and queues its
events. The sequencer is abstracted to the set of requested tasks: either may be chosen, but
neither while the other waits for a command, which is what `NoSenderRuns` shows of
`HciTransport`. `set_discoverable` is refused by a stack that already advertises or has no
link left, `update_adv_data` may be refused for any reason; the code traces both. Handles 0
and 0xFFFF are both `NoHandle`: neither names a link. `APP_BLE_IDLE` is written and
overwritten in one step; `APP_BLE_LP_CONNECTING` and with it `APP_BLE_CONNECTED_CLIENT`
are never reached.

### CircularQueue and TraceUart

The queue is modelled as the trace configures it: elements of variable size, a header of two
bytes before each, `CIRCULAR_QUEUE_SPLIT_IF_WRAPPING_FLAG` and no other flag. `Fits` is the test in
`CircularQueue_Add`, with its `uint8_t` remainder and its difference that may wrap below zero;
`CircularQueue_Add` and `CircularQueue_Remove` keep where `first` and `last` stay when the
queue is emptied. The buffer is written and read byte by byte (`Write`, `SizeAt`), so
a header or an element that lands on another one is seen.

`DbgTraceWrite` is the critical section: it adds the message and, if the transmitter is
ready, takes it (`pc = "output"`); `DbgOutputTraces` starts the DMA outside the critical
section. `DmaByte` reads one byte, `DbgTrace_TxCpltCallback` is the interrupt: it removes the
first element and starts the next transmission or declares the transmitter ready. `SendFrame`
and `FrameSent` are the polled `HAL_UART_Transmit` of the main loop on the same UART; while
the UART is busy it returns at once, which changes nothing here. `Transmit` ignores a
refusal, as the code does. The bytes of all messages are one stream, numbered modulo
`StreamMod`; the ghosts `written` and `removed` are positions in it, and `misdirected` marks
the transmission of finding 3. Only the thread traces: with the debug switches of this
build, no interrupt handler does.

### Mailbox

A buffer of the pool goes from the second core over `EvtQueue` to the queue of the transport, is
released by the thread (`TL_MM_EvtDone`) into `LocalFreeBufQueue` and moved by `SendFreeBuf` to
`FreeBufQueue`, which the second core reads while the flag of the channel is active. `Test`,
`ReadMask` and `WriteMask` are `HW_IPCC_MM_SendFreeBuf` when the flag is active, `Test`, the loop `Empty`,
`Remove`, `Insert`, and `SetFlag` when it is not; in the interrupt (`HW_IPCC_MM_FreeBufHandler`)
the same loop is one step. `LL_C1_IPCC_EnableTransmitChannel` is a read and a write of C1MR, so
what an interrupt disables between them is enabled again. To show what that does,
a system command (`HW_IPCC_SYS_SendCmd`, `CommandDone`) can be in progress, during whose
wait tasks run and release buffers; commands follow each other without bound.

An interrupt that is pending and enabled is taken before the next step of the thread (`Quiet`). The
Cortex-M4 takes it within a few cycles; the one window the code leaves open, a flag that is
cleared just before it is read, is allowed for: `Test` may still come first. The next access
of the thread to a list is a call and two dozen instructions later.

Left out: ACL data, which this application does not send, traces of the second core, and the
channels of other radio stacks.

### HeartRateProfile

`Update_Char_Measurement` is the byte sequence that `hrs.c` writes with the flags of
`HRSAPP_Init`: the four inductances, in units of 1/10000, take the places of the heart rate and
of values added to the profile, before the energy and one RR interval. `notification_handler` is the part of
`scripts/connect.py` that takes the values back out. It reverses *all* bytes and
reads eight of them big-endian; the values come out right and the channels in reverse, which is
what the model says, and what `NotificationDecodes` proves.

### Measurement

`pc` is the one thread: "run" stands for the sequencer, which executes `HCI_ASYNCH`
(`HciAsynch`) or `MEAS_REQ` (`RunMeasurement`) when requested and returns to the main loop
(`Leave`) when nothing is. `TestReadFlag`, `StopTimer`, `ClearReadFlag`, `StartTimer` and `SendFrame` are the loop
of `main.c`, one step for each access to what the interrupt shares. Both readers call
`ldc1614_processDRDY`, which reads eight words into the one `allData` (`ReadWord`); the converter may have a new
conversion at any word, except that reading the MSB of a channel latches the LSB of the same
conversion. A word that cannot be read ends in `Error_Handler` (`ReadFails`, `pc = "dead"`), with interrupts
masked. `htim2` has the HAL's `State` and the register bits that `HAL_TIM_Base_Start_IT` and
`HAL_TIM_Base_Stop_IT` change: an update flag raised while the interrupt is disabled stays.
Conversions are model values, their codes in the characteristic 16-bit numbers; `TornCode` is
the code of two halves of different conversions.

`HRS_Notification` and `HeartRate_Event_Handler` are the four kinds of `Event`; a write to the
control point is answered with a command (`WritePermit`) before it is carried out
(`ResetEnergy`, `WriteRefused`). The waits for these commands execute no other step of this
module but interrupts, for both tasks are paused then (`NoSenderRuns`).

`UpdateDone` is the answer to `aci_gatt_update_char_value`. The stack may refuse the update, busy with a previous
notification or out of resources (`ble_gatt_aci.h:251-267`); `HRSAPP_Measurement` does not look at the status (`hrs_app.c:214`),
and the update is not repeated. `Encode` has then already consumed `ResetEnergyExpended` (`hrs_app.c:211`). So the 0 that should
follow a reset may be refused, or be sent while nobody is subscribed, and the value notified first is 5 or more.
The ghosts `resetDue` (a reset is acknowledged and nothing notified since) and `unheard` (5 for each update since then that was refused or had no
subscriber) let `ResetIsReported` say what is true: what is notified counts from the reset, exactly.

`NotificationEnabled` stops and starts the timer, so that its delay of 0.1 s begins again (`hrs_app.c:106-107`). A client, or several,
that keep enabling notifications postpone the measurement for ever: `timer` stays true, but its expiry is not assured. The
fairness is therefore that of `HrMeas \/ NotificationEnabled`, and `SubscriberIsServed` has as premises that from some time on
no such write is handled and no update refused. "Served" is `pc = "notified"`: an update that the stack accepted.

Left out: the arithmetic from words to inductances (floating point), the text of the frame, the
body sensor location, which is written once, and the firmware-update characteristic. The
configuration of the converter is assumed to have arrived.

### SerialRecorder

`read_serial_data` is `ReadLine`, `Put`, `TestRecording` and `AppendRecord`; `on_press` is `PressR`,
`ClearRecords`, `BeginRecording` for the key 'r' and `PressS`, `Save`, `Saved` or `SaveFails` for
's'; `update` is `Plot`. Steps are split where the Python threads share something: the queue, `recording`,
the lock. `Malformed` is the exception that ends the reader. Samples are numbered within a session, 0 being any
sample of an earlier one: `ClearRecords` changes nothing, for the reason given in section 5.
`handled` is a ghost.

Left out: what is plotted, the layout of the file, `seed_actuators.py` (a robot hand) and `test.py`. Of
`connect.py` only the decoding is modelled, in `HeartRateProfile`.

## 3. Runs

| Run | Bounds | What it shows |
|---|---|---|
| `Sequencer_safety` | 2 tasks, 2 priorities, 2 events, waits nested 2 deep, all run masks, one pause mask | `SearchInBounds` (the search without a bound ends in `TaskPrio[]`), `SelectedIsPending` (no request is cleared without being executed), `CurrentTaskIsRunning`, `WaitsForInnermost`, `MaskNesting` |
| `Sequencer_roundrobin` | 3 tasks, 1 priority, 1 event, depth 1 | `PendingTaskRuns`, `WaitsEnd`, and `OvertakenAtMostTwice`: nested runs make no difference to the fairness of the round robin. One run mask and no task paused; `RoundRobinFair` proves the last for all of them |
| `HciTransport` | 3 tasks, 1 opcode, 2 commands per execution, depth 2, 2 asynchronous and 1 system event queued | `AnswerIsOwn`, `SystemAnswerIsThere`, `NoSenderRuns`, `EventsNotForgotten`, the refinement `OneCommandAtATime`, `CommandsReturn`, `EventsProcessed` |
| `HciTransport_starvation` | as above, 1 asynchronous event | violation: `NobodyStarves` (finding 1) |
| `TimerServer_safety` | 3 timers, register period 5, counter limit 3, delays 1 and 4, latency 1, jitter 1, one tick lost per delay (1.7 million states) | `ListIsRunning`, `CountLeftIsExact`, `AlwaysArmed`, `NoSpuriousInterrupt`, and the refinement `TimersExpireInTime` |
| `Advertising` | 2 handles, 2 links, 3 events queued | `Discoverable`, `HandleIsALink`, `TimerInFastAdvOnly`, `FastAdvEnds`, `Reachable` |
| `Advertising_connected` | same | violation: `ConnectedUntilDisconnection` (finding 2) |
| `TraceUart` | 8 bytes of queue, messages of 1, 2 and 3 bytes, 7 positions in the stream | `ChainIsExact`, `HoldsUnsent`, `DmaReadsFirst`, `NeverRefused`, `QueueMoves` |
| `TraceUart_split` | same | violation: `SendsTheFirst` (finding 3) |
| `Mailbox` | 3 buffers | `ThreadOwnsLists`, `AnswerIsThere`, `BuffersReturn` |
| `Measurement` | channel 0 with 2 conversions, the others with 1, energy modulo 15, 2 clients, 2 events queued (0.5 million states) | `OutputsAreMeasurements`, `ResetIsReported`, `SubscriberIsServed`, `FramesKeepComing` |
| `SerialRecorder` | queue of 2, sessions of 3 samples | `SavedIsComplete`, `PlotNeverBlocks`, `ReaderGoesOn` |

Type invariants are not part of the runs. They are proved (section 4; what `HTypeOK` says of
the transport is spread over the parts of `HInv`).

Why the bounds are enough to be interesting:

- Two tasks on two priorities give every outcome of the search; depth 2 is the first at which
  an outer wait has to be restored from an inner one, and the one reached in the program
  (the ready handler waits in `shci_send`, which pauses nobody; a task run meanwhile may wait
  for a command; that wait pauses all other senders). All run masks are tried, although the callers of `UTIL_SEQ_Run` in this
  program all pass `~0` (`app_entry.c:550`, `:573`): the intersection at `stm32_seq.c:318` is of full masks and endangers nothing
  here. `MaskNesting` is about the sequencer as it would be used with other masks.
- Three tasks in `HciTransport` are `ADV_UPDATE`, `HCI_ASYNCH_EVT` and `SYSTEM_HCI_ASYNCH_EVT`:
  two that send commands by themselves, and one that is never paused. Two commands per
  execution let a stale event or answer of the first reach the second; two asynchronous events let one be left
  in the queue. Answers are told apart by the task they are for. With two opcodes the run passes as well, in twice the
  time; `AnswersMatch` proves it for any number of them.
- Period 5 and delay 4 make every delay-4 timer longer than the counter limit
  (`MaxWakeupTimerSetup` is 3), so that it is split, and the register wraps within each delay.
  Three timers is the smallest list with a middle element. `MaxLost` is 1, in the guard of `Tick`: each timer may lose one tick, at
  any of the times the list is rescheduled; that losses add up is left to the proofs, which hold for any `MaxLost`. `View` in `MCTimerServer`
  identifies states that differ only in the absolute value of the register, in dead fields of
  timers that do not run, or in which timer the last step notified.
- Both links the controller accepts (`CFG_BLE_NUM_LINK` is 2) and three events in the queue let
  a disconnection overtake the handling of its connection, for both centrals.
- With their headers, messages take 3, 4 or 5 of the queue's 8 bytes, so elements and
  headers begin at every position: a header lies across the end, an element is
  split with and without room before the end, the queue is full and refuses. `StreamMod` is 7, more
  than the bytes of data 8 bytes of queue can hold, so two positions in it are never confused.
- With three buffers, one can be released while a second waits in `LocalFreeBufQueue` for the
  interrupt and the second core reads the third. Both lost updates of C1MR happen: a release
  enables the system channel again after the response, and a command enables the release channel
  again after the release. Both are harmless: the event is set twice before the wait is
  left, and the handler finds an empty list.

- One channel with two conversions is enough to tear a word pair or to mix readers; more would only
  multiply the states. Energy grows by 5 from 10, so modulo 15 it takes 10, 0 and 5: the wrap-around gives a 0
  that is no reset, and a lost reset, or a wrong number of unheard updates, shows as another value. Two queued
  events let a reset follow a subscription; two clients let one leave, or disable the timer, while the
  other is subscribed.
- A queue of 2 can be empty, partly filled and full; 3 samples let one be in the reader's hands while one is
  recorded and one is still to come, across the end of a recording and the start of the next.

Deadlock is checked everywhere but in `Measurement`, which stops in `Error_Handler`, and in
`SerialRecorder`, whose threads may all have ended: elsewhere interrupts, time or the stack can
always do something.

### Fairness

- `Sequencer!FairSpec`: weak fairness of the thread (the CPU executes), strong fairness of
  `Return` (every task body ends: none in the program loops, but a body interleaves with
  pausing and waiting, so its end is not continuously enabled), weak fairness of setting an
  event that is waited for (in the program, the answer of the second core).
  Nothing is assumed of interrupts.
- `HciTransport!HFairSpec`: weak fairness of the CPU and of the second core's answers and
  credits. `WF(Cpu1)` is a single condition on all steps of the thread: it is deterministic but
  for the tasks' decisions, and `n` bounds the commands of an execution.
  No fairness of timers, asynchronous or system events.
- `Advertising!FairSpec`: commands are answered, timers expire, and *strong* fairness of the
  two tasks: a task can be requested while the other one waits for a command, so it is
  not continuously enabled, but it is selected sooner or later. That is what the round robin
  is for (`OvertakenAtMostTwice`); finding 1 is the exception, and it needs an unbroken sequence of
  system events, which the wireless firmware does not produce in normal operation.
- `TraceUart!FairSpec`: weak fairness of the DMA and its interrupt, of `DbgOutputTraces` and of
  `FrameSent`. The thread may trace and send frames for ever, or never.
- `Mailbox!FairSpec`: weak fairness of the thread within a release, of the interrupts, and of the second core's
  reading of the list. The thread need not process events, nor the second core send or answer.
- `Measurement!FairSpec`: weak fairness of the thread, of TIM2 and its interrupt, and of the measurement
  timer's expiry *or its restart* (`HrMeas \/ NotificationEnabled`: the delay passes unless it is begun again); *strong* fairness of `RunMeasurement` and `HciAsynch` (a requested task is selected sooner
  or later, though others come between: `PendingTaskRuns`) and of `Leave`. `FramesKeepComing` assumes
  besides that the sequencer is left again and again: that is so because the measurement timer has a
  period of 0.1 s, far more than a measurement takes. Clients need not do anything. A read that fails stops
  everything, and both liveness properties allow for it.
- `SerialRecorder!FairSpec`: weak fairness of the threads once they have something to do, strong fairness of
  `AppendRecord`: the lock is taken at the pace of the keys, and released at the end of each save. Neither lines,
  keys nor the closing of the window need ever come.

## 4. Proofs

`SequencerProofs` proves, for any numbers of tasks, priorities and nested waits, any events,
run masks and pause masks that satisfy `SequencerAssumption`:

| Theorem | Statement |
|---|---|
| `TypeCorrect` | `Spec => []TypeOK` |
| `SearchStops` | `Spec => []SearchInBounds` |
| `NoRequestLost` | `Spec => []SelectedIsPending` |
| `IndexRestored` | `Spec => []CurrentTaskIsRunning` |
| `WaitsNested` | `Spec => []WaitsForInnermost` |
| `MasksNested` | `Spec => []MaskNesting` |
| `RoundRobinFair` | `RRSpec => OvertakenAtMostTwice` |

None of the first six is inductive. The inductive invariant `IInv` has four parts:

- `SchedInv`: types; `PendingHasPriority` (`TaskSet` is the union of the `priority` sets: `SetTask` and
  the critical section keep the two representations of a request together);
  `SearchWillStop` (at the test, what was sampled is still pending; during the search,
  an eligible request is at or above the level looked at; at the selection, at this level) -
  true although interrupts add requests, because only the thread removes them; and
  `RunningInv` (the index is that of the running task, and each frame of `callers` saved the
  index of the task it belongs to).
- `WaitInv`: each frame saved the event of the frame below it.
- `MaskNesting` itself.
- `MainMaskInv`: at whatever depth it is kept, the backup of the outermost run is the full mask.

The lemmas `Sched...`, `Wait...` and `Mask...` show one group of actions each; `BitPositionIsSet`
says that the highest set bit exists (through the well-foundedness of `<`), which keeps the
chosen task in range. `Invariance` combines them.

`RoundRobinFair` rests on `OvertakenInv`: at each priority, `overtaken[p][t][u]` is at most 1 if the bit of `t` is
left in `round_robin`, plus 1 if the bit of `u` is gone. A task whose bit is left is selected before the mask is filled
again, and whoever is selected loses its bit, so `u` can pass `t` once on this filling and, if `t` has lost its
bit already, once more on the next. It is preserved whatever is set, paused, resumed or nested in between
(`MaskChanges`): only a selection touches the mask, and a selection that finds `t` not eligible starts the count of `t` again.
That last clause is why finding 1 does not contradict it: there, the tasks are not eligible when the mask is
filled without them.

`AdvertisingProofs` proves, for any handles, any number of links (at least one) and any bound
on the queued events:

| Theorem | Statement |
|---|---|
| `TypeCorrect` | `Spec => []TypeOK` |
| `TimerStopped` | `Spec => []TimerInFastAdvOnly` |
| `AlwaysDiscoverable` | `Spec => []Discoverable` |
| `HandleCorrect` | `Spec => []HandleIsALink` |

`IInv` is `TypeOK`, `TimerInFastAdvOnly` and three parts that say what each property rests on.
`RequestInv`: the timer is stopped for as long as a request is executed. `OffInv`: whenever the
stack does not advertise, something is on its way that will bring it back - a link that
will be lost, the event of one that was, or a command of the request. `LinkInv`: the remembered
handle *and the handle of every connection still in the queue* exist or have their disconnection queued
*behind*; without the second half it is not preserved when a connection is handled late. The lemmas
`CommandsInv`, `TimerInv` and those that follow show one group of actions each.

`TraceUartProofs` proves, for any size of the queue, any messages and any modulus of the stream:

| Theorem | Statement |
|---|---|
| `TransmitNeverRefused` | `Spec => []NeverRefused` |
| `TypeCorrect` | `Spec => []TypeOK` |
| `ChainCorrect` | `Spec => []ChainIsExact` |
| `UnsentHeld` | `Spec => []HoldsUnsent` |
| `DmaCorrect` | `Spec => []DmaReadsFirst` |

All but the first assume `ShortMessages`: no message is longer than the 254 bytes that a `uint8_t` can hold
together with a header. No trace of this program is; a longer one that is split may not leave the room it needs (section 5).

`NeverRefused` follows from ownership (`OwnerInv`): the UART belongs to nobody, to the DMA
or to the thread with a frame, `gState` says which, and the ready flag implies that
it is not the DMA. The rest of `IInv` (`QueueOK`) is there because the interrupt reads the
length of the next transmission from the buffer, and has to find a number.

The others follow from `DataInv`, whose first half, `StreamInv`, describes the queue without walking along it. It says
that some sequence `L` of `elementCount + 1` distances is what the buffer holds (`Chain`): element `k` begins
`L[k]` bytes behind the first, its header and its bytes of the stream are there (`Stored`), none goes across the end of the buffer, the
last distance is `byteCount`, at most the capacity, and `last` is where the last element is. `Position` and
`Offset`, the recursive functions by which `ChainIsExact` and `HoldsUnsent` find the elements, are then shown to be
`L` (`PositionIs`, `OffsetIs`): a recursive function on the naturals is pinned down by its equations, through
the well-foundedness of `<`, which needs no induction theorem. The second half, `SendInv`, says that a transmission lies within
the buffer and, unless it was misdirected, ends where the first element ends; and that the queue is empty when the
transmitter is ready.

The lemmas come in layers. `Remainder...` to `WriteHere` are about positions in a ring: two distances below the size that give the
same position are equal (`Distance`), so a write behind what is held (`WriteBehind`) leaves it alone. `FitsRoom` reads
`Fits`, its wrapping remainder and difference included, as room in the ring for the one or two elements that
`CircularQueue_Add` places; `PlacedChain` appends one, `AddChain` all that is added, the header across the end and the message in two parts
among it. `RemoveChain` drops the first and shifts the distances. `AddBytes` shows that the parts of a message are the
stream's next bytes in their order. `WriteData`, `ThreadData`, `ByteData` and `CpltData` are the actions.

`MailboxProofs` proves, for any pool of buffers:

| Theorem | Statement |
|---|---|
| `TypeCorrect` | `Spec => []TypeOK` |
| `ListsOwned` | `Spec => []ThreadOwnsLists` |
| `AnswerCorrect` | `Spec => []AnswerIsThere` |

`ListInv` adds to the first property why the interrupt cannot come during the loop: the flag is clear
*and the channel disabled*; before the loop it may still come, but then it leaves the list empty. It also has the
callback set wherever the channel is, or is about to be, enabled. `CommandInv` adds
to the second that between commands the system channel is neither enabled nor in a mask about to
be written back, which is what makes the lost update harmless.

`HciTransportProofs` proves, for any tasks, opcodes, depth of waits, commands per execution and
bounds on the queues that satisfy `SequencerAssumption` and `HciAssumption`:

| Theorem | Statement |
|---|---|
| `UsesSequencer` | `HSpec => Spec` of `Sequencer`: the six theorems above hold under the transport layers |
| `AnswersMatch` | `HSpec => []AnswerIsOwn` |
| `SystemAnswers` | `HSpec => []SystemAnswerIsThere` |
| `SendersPaused` | `HSpec => []NoSenderRuns` |
| `NothingForgotten` | `HSpec => []EventsNotForgotten` |
| `ImplementsChannel` | `HSpec => OneCommandAtATime`, the refinement of `CommandChannel` |

The assumptions say which tasks there are (`HCI_ASYNCH` sends, the system task does not), that `HciTasks` is a
mask the program pauses, that the two events differ, and that opcodes are not the markers of the model. `HInv` is the
sequencer's own `IInv` and five parts. `ExecInv` describes the stack of executions: each frame is that of an
event or of the ready event (which is in the queue first, and once: `BootInv`), and *only the innermost wait can be one of
`hci_send_req`* (`StackInv`), because whoever sends has masked all other senders (`PauseInv`) and the system
task sends in the ready event only. So there is at most one request, `Req`, wherever it is kept, and
`ChannelInv` can say where its answer is: still to come, in the queue or read; a request that has its credit has its answer too, and leaves the queue
empty. `EventsInv` says that the queue holds that answer and credits only, the credit last. `SysInv` does the same for
`shci_send`, `IdleInv` and `EventsNotForgotten` itself complete it. The lemmas `...Step` show one part each, and
`SequencerStep` that every action is one of `Sequencer` or a stutter, so that `IInv` need not be proved
again. The refinement reads the mapped state off `ChannelInv`.

`TimerServerProofs` proves, for any number of timers, delays, period of the register, latency, jitter and `MaxLost` that
satisfy `TimerServerAssumption`:

| Theorem | Statement |
|---|---|
| `TypeCorrect` | `Spec => []TypeOK` |
| `ListCorrect` | `Spec => []ListIsRunning` |
| `CountsCorrect` | `Spec => []CountLeftIsExact` |
| `NeverForgotten` | `Spec => []AlwaysArmed` |
| `InterruptFindsTimer` | `Spec => []NoSpuriousInterrupt` |
| `ImplementsAlarms` | `Spec => TimersExpireInTime`, the refinement of `Alarms` |

`IInv` is `Types` and `Lists`: some sequence `N` of `n` timers is what the list is (`List`: the links in both directions lead from
each of them to the next). `Shape`: its members are the running timers, and `Previous # Current` if there is one, so that
every start and every stop reschedules and the branch of `HW_TS_Start` and `HW_TS_Stop` that would not is never taken.
`Timed`: the counts are sorted and, less what has elapsed, are what is left to count (`due`, which is `rem + lost`), and the timer at place `k` is
late by no more than `Slack(k)`, what the interrupts of the timers before it can cost, and `Lateness`. The rest depends on the
step a call has reached. Between calls, `Armed`: the counter is set for the first timer
or, if that one is too far, for as much as the limit allows; what has elapsed and what is still to count never exceed the
limit, so the register cannot wrap even if the interrupt is as late as it may be. Before the register is read for the elapsed ticks, `Changed`:
the counter is still that of the list as it was, and the register has not wrapped. Between
its two readings, `Programmed`: the value about to be written is that of the first timer. A tick there changes no count and adds one to `lost` of each
timer that runs, which keeps `due` and with it all of `Timed`: that is why the invariant is about `due` and not about real time.
The lemmas come in layers: what
linking and unlinking do to a sequence (`InsertBehind`, `DeleteFirst`...; `Node`, the walk along the links, is a
recursive function, and its properties follow from the well-foundedness of `<`), what they do to times (`TimedInsert`...),
then the functions of the C file (`Unlinked`, `Linked`, `Stopped`, `Started`), each action (`...Inv`; `TickIdle` and `TickCalled` for
time), and `ServiceStep` for the refinement.

`MeasurementProofs` proves, for any conversions and their codes, clients, number of queued events and
energy modulus from 11 to 2^16:

| Theorem | Statement |
|---|---|
| `NotificationDecodes` | for four 16-bit values and any energy, `notification_handler(Update_Char_Measurement(...))` is those values, last first |
| `TypeCorrect` | `Spec => []TypeOK` |
| `OutputsCorrect` | `Spec => []OutputsAreMeasurements` |
| `ResetCorrect` | `Spec => []ResetIsReported` |

`IInv` is the types, `DataInv` and `EnergyInv`. `DataInv`: while words are read, the channels before
`word` are whole, and between the two words of a channel the latch still holds the conversion of the first: true
because one thread has both readers, and neither waits. `EnergyInv`: while a
reset is due, the energy is what `unheard` says during an update; before one, either the reset is still flagged and both are 0, or the
measurement to come will add the 5 that `unheard` already has for the update nobody heard.

`SerialRecorderProofs` proves, for any size of the queue and length of the sessions:

| Theorem | Statement |
|---|---|
| `TypeCorrect` | `Spec => []TypeOK` |
| `SavedCorrect` | `Spec => []SavedIsComplete` |
| `PlotCorrect` | `Spec => []PlotNeverBlocks` |

`OrderInv` relates the list to the sample in the reader's hands: it comes after all in the list, or is of an earlier
session, when no sample of this one has been recorded. `SaveInv`: what was handled is in the list, and who saves has the
lock, so that the list remains what is being written.

Only model-checked: liveness (`PendingTaskRuns`, `WaitsEnd`, `CommandsReturn`,
`EventsProcessed`, `FastAdvEnds`, `Reachable`, `QueueMoves`, `BuffersReturn`, `SubscriberIsServed`,
`FramesKeepComing`, `ReaderGoesOn`), which is out of the prover's reach, together with `ENABLED` and induction over
data. Every invariant of a passing run is proved, and so are the refinements and the other properties of steps.

## 5. Findings

1. **Round robin and nested runs** (`HciTransport_starvation`). The comment at
   `stm32_seq.c:254` says that of two tasks whose flags are always set, the sequencer "does not run
   always only the first one". `round_robin` is shared by nested runs. While `HCI_ASYNCH` waits
   for a command, the tasks that send commands are paused; if system events keep coming, the
   system task is the only eligible one, the nested run finds `round_robin` without it and
   fills it for *all* tasks, `HCI_ASYNCH` included. After the wait `HCI_ASYNCH` is chosen
   again, and `ADV_UPDATE`, requested all the time, is never executed.
2. **A late advertising request leaves the connected state** (`Advertising_connected`). The handler
   of a connection stops the timer because "there is no need anymore to schedule the LP ADV"
   (`app_ble.c:523`). If the timer has expired between the connection and its
   handling, `ADV_UPDATE` is already requested; it overwrites `APP_BLE_CONNECTED_SERVER` with
   `APP_BLE_LP_ADV` and advertises during the connection. `Discoverable`, `HandleIsALink` and `Reachable` hold
   all the same.
3. **A split message while the transmitter is idle** (`TraceUart_split`). "If queue emepty and TX
   free, send directly" (`dbg_trace.c:275`). When the message is split at the end of the buffer,
   `CircularQueue_Add` returns a pointer to its *second* part, and `DbgTraceWrite` transmits from there,
   with the length of the whole message (`dbg_trace.c:285`). The first part is lost (the
   interrupt removes it, taking it for what was sent); in its place the second part is sent twice, the
   first time with stale bytes behind it. What is in the queue stays intact (`HoldsUnsent`), and the
   next transmissions are right again (`DmaReadsFirst`).

Noted, without a run:

- The bytes left before the end of the buffer are kept in a `uint8_t` (`stm_queue.c:106`). Only an element of
  more than 254 bytes that is split could lose the 2 bytes of the second header that way, and overrun the capacity by as
  much; no trace of this program is that long, which is the assumption `ShortMessages`.
- Every reschedule of the timer list may lose a tick between its two readings of the register (`hw_timerserver.c:425`, `:378`), and the
  losses add up over a delay (section 2, TimerServer). For the 0.1 s timer of the measurements that is a fraction of a percent.
- The 0 that should follow a reset of the energy is lost when its update is refused, the status of which `hrs_app.c:214` ignores, or when nobody is
  subscribed. Repeated writes that enable notifications postpone the measurement (`hrs_app.c:106`). See section 2, Measurement.
- A disconnection does not stop the measurement timer, and two links share it: one client's unsubscription
  stops it for both (`hrs_app.c:115`). `SubscriberIsServed` excludes that case, and says what remains true.
- One failed I2C transfer ends in `Error_Handler` for good (`ldc1614.c:24`). The status of the writes that configure
  the converter is ignored, although `ldc1614.h:68` announces an error result.
- The comment at `HRSAPP_MEASUREMENT_INTERVAL` (`hrs_app.c:53`) says 1 s; the value is 0.1 s.
- `connect.py` numbers the channels in the reverse order of the firmware (see `HeartRateProfile`). Its plot and its second
  consumer both test the queue and then get from it (`connect.py:76`): the one that comes second waits in `get`,
  the window with it, until the next notification.
- `on_press` declares only `recording` global, so `data_records = []` (`wire_connect.py:163`) sets a local variable: the
  second recording of a run is saved with the samples of the first in front. The model has it; `SavedIsComplete` asks for the samples
  of the session and allows older ones.
- When the plot window is closed, nobody empties the queue; 100 samples later the reader stops in `put`, and a recording with it.
- A sample that was being handled when 's' came is appended after the file was written, and is not in it.

## 6. Not modelled, and the plan

Done: the sequencer, the transport on top of it, the timer server, the connection state machine, the trace
output, the mailbox, the measurements with the service that notifies them, the host's recorder. What is left:

1. `HciTransport` composed with `Mailbox`, so that events and credit depend on buffers that are really
   returned. Each models the other's interface already.

Not modelled, and why:

- The arithmetic from words to inductance and to text or 16-bit codes (`ldc1614_readInductance`, `encode_floats`): floating
  point, for which neither tool has a theory.
- The service controller: a dispatch table filled at start-up. The low-power manager: switched off in this build.
- The wired board (`firmware_oriforce_board/`): the loop of `Measurement` with three channels and no BLE, an instance of what is
  modelled. (It sends 28 bytes of the buffer, whatever the length of the text in it, `main.c:134`.)
- The robot hand script, plotting, wording and configuration.
- HAL, CMSIS, the BLE command encoders and the wireless interface headers: vendor and generated code, most of the
  repository. The parts whose order of effects matters here (`HAL_TIM_Base_Start_IT`, `HAL_TIM_Base_Stop_IT`,
  `HAL_TIM_IRQHandler`, `LL_C1_IPCC_EnableTransmitChannel`) are modelled where they are used.
