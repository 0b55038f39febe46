# Verification of SWL2001-Zephyr (LoRa Basics Modem on Zephyr)

TLA+ modules, TLC configurations and TLAPS proofs kept beside the code of
IRNAS/SWL2001-Zephyr. Paths below are relative to
`src/drivers/smtc/smtc_modem_core/` unless they start with `src/`.

## 1. The system

The modem is a single C library called from two contexts:

* the **main thread** of the application, which loops over
  `smtc_modem_run_engine` and a `k_sleep` of the time the engine returns, and
  from the engine's event callback reads events and downlinks;
* the **work queue** of Zephyr, which runs the radio interrupt (`lr11xx`
  driver event) and the one-shot timer (`src/drivers/smtc_modem_hal_impl/`).
  Both end up in the radio planner, and from there in the callbacks of the MAC.

There is no lock. What excludes the two contexts is the gate
`prv_modem_irq_enabled` of the HAL, closed and opened by the library's critical
sections.

### Components

| component | state it keeps | operations | interacts with | what makes it correct |
|---|---|---|---|---|
| radio planner `radio_planner/src/radio_planner.c` | a task per hook, the radio task, the priority task, the task of the timer, a semaphore | `rp_task_enqueue`, `rp_task_abort`, `rp_radio_irq_callback`, `rp_timer_irq_callback` | calls the launch and hook callbacks of its clients, which call it again; radio chip; timer | one user of the radio; a result goes to the task that earned it; nothing is forgotten: every waiting task has a wake-up and is launched or reported |
| HAL `smtc_modem_hal.c`, `radio_planner_hal.c` | interrupt gate, skip flag, a kernel timer, a work item; storage | enable/disable irq, start/stop timer, clear pending | work queue to planner | interrupts are delivered once, to the operation that raised them, outside critical sections |
| downlink FIFO `modem_services/fifo_ctrl.c` | ring of bytes, two offsets, free space, counters | set, get, clear | written by the MAC's downlink callbacks, read by `smtc_modem_get_event` | a queue of messages that forgets its oldest, never a torn one |
| events `device_management/modem_context.c`, `modem_core/smtc_modem.c` | a stack of pending event types, a count per type | raise, `smtc_modem_get_event`, `smtc_modem_run_engine` | every component raises; the application pops | each type stacked at most once, no event stranded, all reported |
| supervisor `modem_supervisor/modem_supervisor.c` | a task per service with date and priority | add, elect, launch, update, engine | MAC, all services, device management downlinks | a service that is on keeps its task; nothing is overslept; debts (a mute to count, a duty cycle to restore) are kept |
| MAC `lr1mac/src/lr1mac_core.c`, `lr1_stack_mac_layer.c` | state IDLE/SEND/RX1/RX2/TX_WAIT, radio state, join status, counters, nonces, requests and answers | join, send, process, the planner's callback, the parser of commands | planner, supervisor, regions, crypto, storage | at every abort and timeout it comes back to idle; counters and nonces are not reused; a downlink is handed up once; the network and the device agree on what was set |
| regions `lr1mac/src/smtc_real` | channel masks, snapshot of the channels left, data rate and its distribution | join channel, next channel, mask, next rate, back-off | MAC, network | channels are hopped on, one is found for every rate that has one, the back-off recovers |
| class C and multicast `lr1mac_class_c`, `lr1mac/src/services/smtc_multicast.c` | own hook, a table of sessions, the counters | start, stop, launch, callback, start and stop of a session | planner, MAC, class B | every session enabled is heard; no downlink is taken twice; the callback always finds a session |
| class B `lr1mac_class_b` | beacon, ping slots, device to device | start, stop, callbacks | planner, MAC | they give way to class A and resume |
| duty cycle `smtc_duty_cycle.c` | a ring of time on air per band | update, sum, free channel, next free time | MAC, supervisor | no band over its time; the wait announced is the one it takes |
| listen before talk `smtc_lbt.c` | own hook | listen, clear | MAC, planner | the channel is sensed before each uplink |
| stream/ROSE `smtc_modem_services/src/stream` | a ring of records, a window, a random vector | add, frame, the server's commands | supervisor | what a frame carries can be decoded |
| file upload `src/file_upload` | session, counters, the file | create, start, chunk, done | supervisor | a file reported as sent is whole at the server |
| clock synchronisation `smtc_clock_sync.c`, `alc_sync.c` | service, periods, token, correction | start, stop, trigger, callback, answers | supervisor, MAC | a valid time is right; a lapse is noticed |
| modem API, `lorawan_api`, device management, certification, crypto, test mode, RAL and drivers, application layer, samples | | | | see PROJECT.json for why each is in or out |

### Hard behaviours

Re-entrant callbacks (a hook callback enqueues from the middle of the arbiter);
the work queue preempting the main thread inside the planner, inside
`smtc_modem_get_event`, inside the decoding of a downlink or between the launch of
a task and its removal; dates compared with clocks read at different times;
interrupts that are pending when their operation is stopped; a timer that
expires while the gate is closed; a ring that wraps; a stack of events that may
starve its bottom; resets between a transmission and the write of a nonce;
requests closed while their answer is under way; answers lost with a frame and
repeated until a downlink; a mask, a phase and a back-off that write the same set of
channels; windows of time and of octets that move while they are used. The list with lines, and the properties that cover each, is `hazards` in
PROJECT.json.

## 2. Modules

| module | models | kind |
|---|---|---|
| `RadioPlanner` | `radio_planner.c` | detailed specification |
| `RadioGrant` | what the owners of the hooks are promised | abstract; implemented by `RadioPlanner` |
| `RadioPlannerProofs` | | theorems about `RadioPlanner` and `PlannerOnHal` |
| `PlannerOnHal` | `RadioPlanner` composed with the HAL's gate, timer and work queue | extends `RadioPlanner` |
| `FifoCtrl` | `fifo_ctrl.c` | detailed specification |
| `FifoQueue` | a queue of messages bounded by bytes | abstract; implemented by `FifoCtrl` |
| `ModemEvents` | events, engine loop, application loop | detailed specification |
| `Lr1Mac` | the class A MAC: `lr1mac_core.c`, `lr1_stack_mac_layer.c`, the counter of `lr1mac_utilities.c` | detailed specification |
| `Lr1MacProofs` | | theorems about `Lr1Mac` |
| `MacCommands` | the requests and the network's commands in `lr1_stack_mac_layer.c` | detailed specification |
| `Supervisor` | `modem_supervisor.c`, the commands of `smtc_modem.c` and of `dm_downlink.c` that add tasks | detailed specification |
| `FixedPlan` | `region_us_915.c` and the data rates of `smtc_real.c` | detailed specification |
| `ClassC` | `lr1mac_class_c.c`, `smtc_multicast.c` | detailed specification |
| `DutyCycle` | `smtc_duty_cycle.c` | detailed specification beside a history of what was sent |
| `Stream` | `rose.c` and the parts of `stream.c` that drive it | detailed specification beside what the server can decode |
| `FileUpload` | `file_upload.c` and its server | detailed specification |
| `ClockSync` | `smtc_clock_sync.c`, `alc_sync.c` and the time server | detailed specification beside the true time |
| `ModemEventsProofs`, `SupervisorProofs`, `ClassCProofs`, `FixedPlanProofs` | | theorems about `ModemEvents`, `Supervisor`, `ClassC`, `FixedPlan` |
| `FifoProofs` | | theorems about `FifoCtrl`, and that it implements `FifoQueue` |
| `Services` | `FifoCtrl`, `DutyCycle`, `Stream`, `FileUpload`, `MacCommands`, `ClockSync`, `FixedPlan` and `ClassC`, each an instance with variables and constants of its own; a behaviour is one of one of them | composition |
| `ServicesProofs` | | theorems about `Services`, and through it about `Stream`, `ClockSync`, `MacCommands`, `FileUpload` and `DutyCycle`; uses `ClassCProofs`, `FifoProofs` and `FixedPlanProofs` |
| `MCServices` | `Services` | small instance |
| the other `MC*` | | small instances |

A module's variables carry, in comments, the names they have in the code.
Definitions called *Mutant* are changed copies of the definition that follows
them, one for each property; TLC finds the property violated when the mutant
takes the place of the definition.

### RadioPlanner

The C call stack is the variable `stack`. Its head names the piece of code to
run next: the planner calls hook and launch callbacks, which call the planner
again, and the rest of the caller then runs on state that has changed. One
action is one piece of code between two calls back. `Arbiter` is
`rp_task_update_time`, `rp_task_select_next` and the launch decision; `Launch`
the launch callback; `Expire` and `Rearm` the rest of `rp_task_arbiter`;
`Collect` the loop of `rp_task_call_aborted`; `HookCall` and `HookReturn` what a
hook callback does; `RadioIrq` and `TimerIrq` the two interrupts; `IrqEnd` and
`Leave` the ends of `rp_radio_irq` and of the API calls.

Dates are relative to now and saturate where no comparison of the code can tell
them apart, so that the clock needs no bound: `Tick` moves all of them. `lag`
is the time spent since the activation began, because the arbiter keeps using
the time it read on entry while `rp_task_get_next` reads the clock again.

Two types stand for callbacks rather than radio operations: `NONE` is the
beacon whose launch callback finds its window gone and aborts itself, `USER`
the suspension, whose launch callback is empty. Priorities are the code's
`state * RP_NB_HOOKS + hook` and its variant for low priority. Statistics,
payloads and radio parameters are left out; no decision of the planner reads
them.

### PlannerOnHal

The work queue outranks the main thread and is not preempted by it: its frames
are on top of the main thread's in the one stack and `base` tells where they
begin. `IrqGate` is the flag as the code sets it: closed by the beginning of a
section, opened by the end of *any* section. `ReadFifo`, `Suspend` and `Resume`
are the other users of the gate. The build modelled is the one whose driver
calls back from the system work queue
(`CONFIG_LR11XX_EVENT_TRIGGER_GLOBAL_THREAD`).

The gate keeps the work queue out of the launches of a plain `rp_task_enqueue`, but not
out of the launch that ends an `rp_radio_irq` run by the main thread: the hook's callback
has enqueued by then, and the end of its section has opened the gate. `crossed` remembers
that the work queue entered under such a launch. Up to there the port keeps what
`RadioPlanner` promises (`OneUserUnlessCrossed`, `SemaphoreUnlessCrossed`,
`ResultsUnlessCrossed`, `WakeupUnlessMasked`); past it two activations overwrite each
other's data, and a run goes on only if the bound `PastCrossing` says so: with
`PastCrossing = TRUE`, TLC finds `OneRadioUser` itself violated in the instance of
`hal_reentry` (see Findings).

### FifoCtrl and FifoQueue

The ring holds symbolic bytes (length, metadata and payload bytes of a message)
at their exact offsets. The refinement reads the messages back from the ring at
`read_offset` exactly as `ctrl_get` would, so a length that is written one byte
off, a wrap that is computed wrong, or a free space that drifts shows as a
message the queue never held.

### ModemEvents

One action per step of the main thread that the work queue can come after:
`increment_asynchronous_msgnumber` is three of them, `smtc_modem_get_event`
four. `uses` is what the application has turned on, once: class C receptions
(`CLASS_C`), which store downlinks from the work queue; the commands of the device
management among them (`CLASS_C_DM`), which raise events of types of their own there;
and user radio accesses (`USER_RADIO`), which raise an event from there. Of a stored
downlink the FIFO keeps its length: a new one drops as many of the oldest as it needs, so
the number stored may fall (`Store`; what the ring itself does is `FifoCtrl`). `lost`
remembers that one was dropped since the engine counted.

### Lr1Mac

Three actors take turns: the main thread (`Process*`, one action per branch of
`lr1mac_core_process`, and `Join`, `Send`, `DrStrategySet`, `JoinStatusClear`
for the commands), the radio planner (`Report*`, the callback of the MAC's
hook) and the network, which chooses what a window hears. The planner is seen
through its promises only: a task is reported once, done or aborted. A window
may be too late to open or be refused by the planner (`OpenWindow`). If it is accepted the
main thread still has to write `RX_ON` (`WriteRxOn`), and the work queue may report before
it does (`task = "OPENING"`): an abort, whose report the write then overwrites
(`EarlyAbort`), or the end of the window, in whose callback the modem panics (`EarlyEnd`).

`MacUpdate` is the whole end of an exchange: the join accept, the decision to
repeat, to answer or to stop, and the choice of a channel, which may fail after
the frame was prepared. Frames are records of the keys, the counter and an
identity; `seen` is the memory of an observer and no action reads it in a guard
but to bound a session. The network's counter has 4 values and the one on the
air 2, so that it rolls over. `Boot` keeps only `CONTEXT_DEVNONCE`, and a reset
comes at any step.

Left out: activation by personalisation, listen before talk, the contents of
the MAC commands (see MacCommands; here any of them may set the number of
transmissions), data rates (see FixedPlan), time other than "too soon to join" and
the failsafe, and the statistics that end in a panic (a reset may come at any step
anyway). The steps of the main thread are atomic: a report of the work queue comes
between two of them. The one place where that is not enough, the write of `RX_ON`,
is a step of its own (`WriteRxOn`); the counter that class C writes is in ClassC.

### MacCommands

An exchange with what it carries: the requests of the modem (`req`, with the code's
IDLE, REQUESTED and SENT), the commands of a downlink that are not parsed yet
(`todo`), the answers (`ans`), those that are repeated until a downlink (`sticky`,
and `current`, what the next frame takes of them). `Parse` is one pass of the loop of
`lr1_stack_mac_cmd_parse`, `Update` the end of an exchange (`lr1mac_mac_update` and
the answers of `lr1_stack_mac_update`), which cuts the answers to the payload and
repeats or closes. The network is a part of the model: what it has set, what it has
been told and what it therefore believes (`net`), and the transmission of a time
request that its answer is about. Frames are lost both ways. Left out: the early
return of `lr1_stack_mac_tx_frame_build` on `DEVICE_MAC_PAYLOAD_MAX_SIZE`, and what each
command sets.

### Supervisor

The main thread's place in `smtc_modem_run_engine` is `main.pc`: `EngineStart`,
`Process` (the MAC is called), `StackIdle`, `Update` (the task whose exchange ended),
`Events` (the application is called back and may call any command), `Sleep` or
`Elect` and `Launch`, `Remove`. `tasks` is the date of each task, `elected` the one
launched and not updated. `WorkCommand` is the device management downlink that class C
hands over on the work queue, between any two of these steps; the same downlink in
class A is handled in `Update`. `uses` is the set of features an application turns on:
fixed once, so that the question asked of one service does not multiply with the
others. The MAC is seen through its promises: an exchange is refused, or ends. Left
out: the status of class B, the back-off of the mobile profile, the crash log, a
duty cycle switched off by the host, certification, and the tasks USER, FRAG, ALM.

### FixedPlan

`dev` is the region's context with the parts of the MAC's that choose a channel:
`enabled`, `unwrapped` and `snapshot` are the three masks, `phase` the code's
`first_ch_mask_received` (`Init0`, `Eight`, `FiftySix`, `Full`), `mode` the kind of
distribution of the rates: `STATIC` (the network's rate), `JOIN`, `MOBILE` and `USER`.
The random draw of a channel or of a rate is any member of the set it draws from; the
224 trials of the rate reach every rate of the distribution, so they fail only when no
enabled channel has one. A channel's frequency is kept, because the block that a
phase enables is computed from it (`LastBlock`), with the unsigned subtraction.
`taken` is the history of the hopping: how often each channel was chosen over the
least chosen one of its bandwidth.

### ClassC

`table` is the table of sessions that class C and class B share, `hook` the
parameters of class C's task, whose callback (`CallbackEmpty`, `CallbackFrame`) runs on
the work queue. `main` is the place in the main thread where the callback may come in
the middle: after `rp_task_enqueue` and before `started` (`WriteStarted`), between the
two halves of a stop of the last session (`StopEnd`), between the network and the class
in a leave (`LeaveEnd`), and between class A's read of the downlink counter and its
write (`ClassAWrite`). `past` remembers what the properties except: the second window
moved since the sessions were alone (`moved`), a reception that ended before `started`
(`deaf`), a command of class B that stopped the last session (`crossed`), a unicast frame
inside class A's decoding (`overtaken`).

### DutyCycle, Stream, FileUpload, ClockSync

Each is the component beside what it is judged by. `DutyCycle` has the ring of slots
with its index, its time stamp and its wrapping clock, and `sent`, the time on air by
age. `Stream` names an octet by its offset in the stream, so that the buffer, the
window, the pending octets and a frame are sequences of offsets: a shift by one too few
or a window taken after the systematic data is a sequence that is not consecutive.
`FileUpload` has the server and the FILEDONEs that the network holds back. `ClockSync`
has the error of the clock (`err`) and the server's answers on their way with the
error each would correct (`flight`).

The server may shorten the window at any time, with octets pending (`Shrink`), and
`unsent` has its 16 bits (`Wrap`). A window that was lengthened and is shortened, before it
is full again, by more octets than it holds of those sent makes `unsent` wrap (`Astray`);
the code then copies and moves memory with negative lengths. Such a state is reached and
`FrameDecodable` names it, but of what follows only a new stream is modelled.

### Services and MCServices

These components do not meet between two calls of the engine, so one run holds
them all: `which` picks the component, the others are off. Each is an
INSTANCE with constants of its own, and its properties are stated again by name.
`Services` has the constants, and `ServicesAssumption` is the conjunction of the
components' own assumptions; `MCServices` and `Services.cfg` give them values. Deadlock
is not checked there, because bounds end some of the components (the files of a session,
the octets of a stream) and a panic ends others.

## 3. Runs

| run | bounds | shows |
|---|---|---|
| `planner_classes` | 3 hooks, margin 2, timer on time, one call per callback | the first hook's scheduled task is never lost but for the case named; every wait has a wake-up; `RadioGrant` is implemented |
| `planner_liveness` | 2 hooks that starve each other, timer late by 1, callbacks that take time | every task is launched or reported |
| `hal_reentry` | 2 hooks with the task types that the planner treats apart, under the real gate, timer late by 1, suspensions and FIFO reads; nothing past a crossing | until the work queue enters under a launch of the main thread, re-entry breaks neither the one user of the radio, nor the semaphore, nor the owner of a result; the only wake-up lost is the timer's while the gate is closed |
| `hal_section` | 2 hooks under the gate | finding, below |
| `events` | an event type of the main thread, DOWNDATA, ALARM; class A alone, class C, user radio accesses; a FIFO of 2 octets, downlinks of 1 or 2 | stack, counts and FIFO agree; every event and every downlink reaches the application |
| `events_preempted` | the same with user radio accesses | finding, below |
| `mac` | 2 nonces, 2 repetitions, downlink counters 0..3 seen modulo 2, 2 exchanges counted and 2 frames built in a session | a counter names one frame, a nonce one join request, an answered frame is not repeated, downlinks are fresh and handed up once, the planner's reports find the state they expect (but for a window that ends before `RX_ON` is written), every exchange ends |
| `mac_parser` | 2 requests, 2 set-ups, 2 payload sizes, 2 transmissions | finding, below |
| `supervisor` | 13 sets of features, dates 1 and 2, 2 fragments | every service keeps its task, nothing is overslept, debts are kept, uplinks and joins are answered |
| `supervisor_leave` | the alarm's callback leaves | finding, below |
| `services` | below | the ring is a queue; no band over its share, and the wait announced is the one it takes; frames of a stream can be decoded, until a window is shortened by more than it holds; a confirmed file is whole; a network time belongs to its transmission; the network and the device agree on the parameters; a synchronised time is right and its lapse noticed; channels are hopped on and the back-off recovers; class C takes a downlink once, hears every session and finds one |
| `plan_mask` | the plan below with one mask | finding, below |

Why the bounds are enough. Three hooks are what the selection rule compares
(the best task, a lower one that fits before it, a third one that is due); two
are enough for preemption and re-entry. Durations and dates range on both sides
of the margin and of the ASAP limits. The depth of re-entry lets a callback of
a callback call the planner. Counts saturate at 2 or 3 instead of 255; no property
depends on reaching the limit by counting. In `mac` two nonces reach the saturation and
a reset in each state of an exchange; two transmissions distinguish the first, the
last and a repetition in the middle of which a downlink comes; one full turn of
the downlink counter shows the duplicate, the gap and the roll-over. In
`supervisor` the sets of features pair the services that touch the same state (a mute
and an upload, a suspension and an alarm, class C and each service); two dates
tell "now", "soon" and "later" apart; two fragments a task that comes back and one
that is done.

In `services`: the ring of 10 bytes has messages of five shapes, one longer than the
ring, and every one wraps at every offset. The duty cycle has 2 bands, 2 slots of 2
ticks and a clock of 7 ticks, no multiple of a slot, so that the clock wraps inside a
slot as the code's does. The stream's buffer of 9 octets holds windows of 2 and 4; its
records and rooms make frames that take a part of the pending octets, all, or none, and
the window is shortened when it is full, partly full and empty. The
upload has 3 counters for 4 sessions, so that one comes again. The MAC commands have
payloads of 11 and 51 octets: the answers of the longest downlink are cut in one and fit
in the other; 3 octets of answers are kept instead of 15, so that one downlink fills them
and asks for the same parameter again. The clock has 2 tokens and 2 answers in flight; a first retry that is
shorter than the period, a period that is shorter than the delay, and a jitter that can
take a date past the delay. The plan has 2 banks of 2 narrow channels with 2 wide ones,
2 rates of each bandwidth with one LR-FHSS, and masks that leave LR-FHSS alone, a lone
narrow channel, nothing, and one refused. Class C has 2 groups, 2 pairs of parameters
(those of unicast and others) and 2 counters.

### Findings

* `hal_section`: the gate does not nest. A hook callback that enqueues or aborts
  ends the outer critical section, and the work queue may enter the planner
  inside the main thread's `rp_task_enqueue`. A suspension, which masks the
  interrupts and then enqueues, unmasks them the same way. The worst place is the
  launch callback at the end of an `rp_task_abort`, which waits for the start of its
  task: main ends a suspension, the hook's callback enqueues a task, the arbiter then
  launches another hook's reception, the timer expires during the wait, and the work
  queue's arbiter preempts that reception, launches and ends the other task; back on the
  main thread the callback starts the radio for a task that is not running any more.
* `events_preempted`: `smtc_modem_get_event` reports a user radio access, resets its count
  and is preempted before it takes it off the stack; the work queue raises the same event,
  whose count is 0, and stacks it a second time.
* `mac_parser`: a request is closed at the end of the first transmission although the
  frame is repeated; the answer to the repetition is then left where it is by the parser,
  whose loop does not end.
* `supervisor_leave`: a leave does not cancel a join whose accept was received, or whose
  request the planner does not hold yet; the accept joins the device.
* `plan_mask`: a LinkADRReq with a data rate of 15 may mask every channel.

### Met on the way

What follows is in the models, or was met while writing them, and is no run.

*Planner and HAL.* `NoLostWakeup` needs callbacks that return within the margin
(`MaxLag <= Margin`, see Proofs): with slower ones, an ASAP task that came due between
`rp_task_select_next` and `rp_task_get_next` has neither a timer nor a running task.
Preempting a task with no interrupt pending makes the port discard
the next interrupt, which belongs to the new task (`clear_pending` remembers to skip
it). A timer that expires while the gate is closed is dropped (`WakeupUnlessMasked`
names it). An ASAP task that waits while a task runs is skipped by `rp_task_get_next`
once its date has passed and waits for the end of that task. Dates are 32-bit
milliseconds compared through signed differences; the models keep them relative to
now, so nothing is said of a task more than 24 days ahead.

*Events.* Once the stack is past its array, which only `smtc_modem_get_event` looks at
(and panics), an event is not stacked any more, and DOWNDATA is counted all the same;
`MainEventsKept` excepts these states. `missed_events` of a downlink counts downlinks that are still waiting to be
read (`smtc_modem.c:323`); under user radio accesses `smtc_modem_get_event` may report
DOWNDATA with an empty FIFO and uninitialised metadata, and an event of another type that
is raised between the reset of a count and the pop is popped in place of the one reported.
A class C downlink that finds the FIFO full may drop downlinks that the engine has counted;
until the engine runs again, `missed_events` counts them (`MissedAreStored` names the case
with `lost`).

*MAC.* `lr1mac_core_abort` leaves `lr1mac_state`, so a frame waiting for its repetition
is transmitted after the user left. The DevNonce of a join request that was cancelled,
or whose transmission a reset interrupts, is used again. A refused or aborted exchange
hands the previous downlink up a second time. `NonceUsedOnce` and `HandedUpOnce` name
these cases. `RX_ON` is written after `rp_task_enqueue` returns (lr1_stack_mac_layer.c:587):
a window whose abort is reported before has its report overwritten, and only the failsafe
ends the exchange; a window that ends before finds `TX_FINISHED` or `RX_FINISHED`, and the
callback panics, although "you should not receive an IT in this radio state" (line 712).
`InterruptExpected` names this case.

*MAC commands.* `lr1mac_cmd_mac_ans_size` (lr1mac_defs.h:244) has no entry for
PING_SLOT_CHANNEL and BEACON_FREQ. A request of the user that the MAC refused stays
REQUESTED: the next frame of a request leaves out that request and the sticky answers. An
answer that finds no channel is dropped for good, and an answer past the 15 octets that
are kept is sent once. `ParametersAgreed` excepts them (`gap`).

*Supervisor.* The modem stays muted, or off the duty cycle, after a leave, which clears
the tasks that would end both. The device management's reports are sent once only when
the first is refused; DM_NOW is lost when its sending fails. STREAMDONE may be raised
for a new stream when the task of the old one is still elected. `up_count` stays above 0
after a leave, without its task. SEND has id 0 and is always elected before the other
tasks of its priority. `file_upload_reset` leaves its task.

*Clock.* A MAC service that was synchronised and gets no answer asks every 128 s for
ever. An answer with another token still raises TIME_VALID. An interval of 0 means a
request every 0 to 30 s. A time set by hand is never valid for the MAC service, and
one set while an AppTimeReq is outstanding marks the wrong time as synchronised (the
exception of `SyncedIsRight`). `clock_sync_set_interval_second` stores the MAC's
period before ALCSync refuses it.

*File upload.* FILEDONE is compared by a counter of four bits only ("TODO" in
`file_upload.c`), which is not persisted (`modem_context.c:1661`). `file_upload_prepare`
encrypts the user's buffer in place, and the last chunk reads up to 7 bytes past it.

*Stream.* UPDWL decreases `fill` and `unsent`, which are unsigned, without a check:
"we can always do it" (rose.c:594), "This is always possible, as we don't risk to overwrite
pending data" (rose.c:552). A window of 16 octets, lengthened to 64 and shortened to 16 at
once, drops 48 octets, of which 16 were sent, and `unsent` wraps (`FrameDecodable` names
the case).
`redcnt` goes negative when a frame carries more octets than a window of 16.

*Duty cycle.* The ring forgets up to one slot of two minutes. When the clock wraps, every
49 days, it forgets up to another of what was sent before: 2^32 ms are no multiple of a
slot, and the slots shift by 47 s (`Remembered` leaves both out of the window of
`WithinLimit`). The wait that is announced across the wrap may be off by less than a slot
for the same reason (`WaitFrees` excepts it). A frame is a tick late at most and the modem asks at least once in a
turn of the clock: both are bounds of the model.

*Regions.* The block of a phase is computed from the last frequency with the bandwidth
of the next frame, so another block may be enabled. In the phases after a join an
LR-FHSS rate panics in `smtc_real_lora_dr_to_sf_bw`. A refused LinkADRReq leaves its mask
in the unwrapped one, and the next request takes it. The back-off enables all channels
but not the unwrapped mask, and it stops at a lone narrow channel or at LR-FHSS on wide
channels only. The loop of `smtc_real_is_channel_mask_for_mobile_mode` that looks for the
highest rate (`i <= 0`) never runs. `smtc_real_get_next_dr` never returns an error, so
the rollback of `lr1mac_core_dr_strategy_set` (lr1mac_core.c:624-628) is dead. A join
accept sets the channels before it is found invalid. An ADR profile set while a join is
under way (lr1mac_core.c:1161), or a join after one that failed and a leave (407-413),
loses the profile. A frame refused by the duty cycle has already taken its channel.

*Class C.* A multicast or an unconfirmed frame overwrites `tx_ack_bit`, so the
acknowledgement owed to a confirmed class A downlink is lost. After a leave
`smtc_modem_get_class` still answers C and the next join does not start it. A frame that
comes between a leave's two halves is decoded with an index past the table.

*Class B, read and not modelled.* `smtc_beacon_sniff_start` returns with `started` true
and no task when the time is not synchronised. Class B set while the beacon's task runs is
a panic (the enqueue is refused). The beacon's check, `is_valid_beacon`, is always true.

### Fairness

`RadioPlanner!FairSpec`: weak fairness of the planner's code (the processor runs
it to its end) and of the chip for operations that end by themselves; strong
fairness of the interrupts and of time, because the main thread may call the
planner again and again, and the work queue outranks it, so between two calls
the interrupt is served. Continuous receptions may last for ever: only
preemption ends them. `ModemEvents!FairSpec`: weak fairness of the main thread
(the engine returns a finite sleep time); a pass of the engine raises finitely
many events; the MAC comes back to idle, because
`FAILSAFE_DURATION` panics otherwise. `Lr1Mac!FairSpec`: weak fairness of the
engine's calls to `lr1mac_core_process`, of the planner's report for a task it
holds (the promise `planner_liveness` checks; the write of `RX_ON` is a step of the same
call of the engine) and of the failsafe, whose delay is a
constant of the code. `Supervisor!FairSpec`: weak fairness of the engine, of the return
of the application's callback and of time; strong fairness of the end of an exchange,
which comes while the engine keeps calling the MAC (`MacReturnsIdle`).
`MacCommands!FairSpec`: weak fairness of the parser and of the end of an exchange, which
run in the main thread and wait for nothing. The network, the user and resets are not
fair.

## 4. Proofs

Every theorem holds for all values of the constants that satisfy the module's named
assumption: any number of hooks, sessions, tasks, counters, octets, tokens. The pattern
is the same everywhere: a property that runs check is not inductive, an invariant that
implies it is, and a lemma per action shows that the step preserves it. Each invariant
was checked by TLC, on the instance of the run that checks the property, before it was
proved.

| module | inductive invariant | what it is made of, and why it is needed |
|---|---|---|
| `RadioPlannerProofs` | `IInv` | `OneRadioUser` alone is not kept by `Launch`, which sets the chip to work for the task named by the launch frame: the frame must belong to the radio task, and that task must be running (`LaunchOnTop`). `StartedInTime` bounds the duration of a running reception that is extended, without which the types are not kept |
| | `RadioInv` | `IInv`, the owner of the pending interrupt of the chip (`IrqInv`), and a semaphore taken only for a running task or by a `rp_radio_irq` that is about to release it |
| | `HalInv` | on the port: `RadioInv` until a crossing, for a work item that enters on a stack without a launch on top leaves it without one below (`EntersQuiet`); and a timer for every scheduled task while no arbiter is to come, no callback of the timer is on the way and none was dropped (`Timed`) |
| | `WakeInv` | `RadioInv`, the age of waiting tasks, and the timer, in the middle of an activation too (`TimerInv`, `AsapInv`): between `rp_task_select_next` and `rp_task_get_next` an ASAP task has neither a timer nor a running task, and what is selected still waits |
| | `TopInv` | for the first hook's task: its rank is the best and no other has it (`FitTop`); its start is not past, and it is now only if the timer has expired or the arbiter is to come (`DueTop`); a task whose launch waits, or a running one for which it would be given up, ends before it starts (`LaunchTop`, `ExpireTop`). The property alone says nothing of the past, and a start that is past is what the arbiter gives a task up for |
| `Lr1MacProofs` | `ExchangeInv`, `MacInv` | an idle MAC has no radio state left, and no exchange is under way while a join is held back; what was heard is an answer to the frame on the air; the non volatile nonce is not behind the one that keyed the session; between two frames the counter is past the last one on the air |
| `ModemEventsProofs` | `EventsInv` | where the main thread may be with which type, how high the stack is at each place, which types are stacked while `smtc_modem_get_event` is half done |
| `SupervisorProofs` | `SupervisorInv` | what the place of the engine says of the task elected, of the join under way and of the exchange; which service owes which task, also while its own task is in hand |
| `ClassCProofs` | `ClassCInv` | what the planner holds at each step of a launch, of a stop and of a leave; the sessions enabled agree on their parameters and the hook has these; the counter bounds what was taken |
| `FixedPlanProofs` | `PlanInv` | what the phase, the snapshot and the block last used say of the channels enabled, and which channels were used: of a bandwidth, those that have left the snapshot were used once more than the others (`HoppedOn`), so that none that is still to be chosen is ahead |
| | `Recovering` | no invariant but the measure of the back-off: every back-off but the one at the lowest rate leaves fewer rates below, and the one at the lowest rate enables all the channels |
| `FifoProofs` | `FifoInv` | reading the messages one after the other from the read offset arrives at the write offset and leaves the whole buffer free; the refinement alone does not say where the next write may go |
| `ServicesProofs` | `UploadInv` | a FILEDONE that the network may still deliver is of a session fewer than `Counters` back |
| | `DutyInv` | for each band (`BandInv`): nothing was sent since the time stamp, and the newest slots, however many, count at least what they tell of (`Told`). The property is about the whole ring; a step drops its oldest slots and keeps the newest |
| | `AgreeInv` | at each phase of an exchange, the answers that wait, those on the air or those that stick, applied to what the network believes, give what the device has set; and whether the network has heard them |
| | `RoseInv` | the window before the pending octets, the records and the last frame are runs of consecutive offsets, of the lengths that the buffer leaves room for |
| | `ClockInv` | `RightInv`: what an answer in flight would correct is what is wrong with the clock, if its token is the one asked with; `LapseInv`: the next request is planned within what is left of the time |
| | `CmdInv` | the answers of a downlink under way, and those already parsed, tell the time of the transmission that the request went with |

The theorems, with the property of the runs each states, are listed under `theorems` in
PROJECT.json. Besides the invariants there are the refinements, where initial states map
to initial states and every step to a step of the abstract specification or a stutter:
`PlannerImplementsGrant` (`Spec => Grant!Spec`), with `GrantExclusive`, what a client may
conclude without reading the planner, and `FifoImplementsQueue`, with `FifoRoomIsMade` (the
loop of `fifo_ctrl_set` that drops the oldest messages ends), carried over by
`ServicesImplementsQueue`. And there are the action properties:
`PlannerResultBelongsToTask`, `PlannerTopTaskNeverLost`, `HalResultsUnlessCrossed`,
`MacAnsweredNotRepeated`, `MacHandedUpOnce`, `MacDownlinkNewer`, `MacNonceUsedOnce`,
`MacCounterNamesOneFrame`, `SupervisorDebtsKept` and `ServicesBandWithinLimit`.

`ServicesProofs` carries the components' theorems to the composition that the run
checks: a step of `Services` is a step of the component that runs or leaves its
variables alone (`StepsOfOne`), and the component of `Services` is the one that its
proofs are about (`SameClassC`, `SamePlan`, `SameRing`).

Loops of the code are recursive functions over a range of numbers (the slots of the ring,
the ranks of the tasks, the back-offs, the messages read), never RECURSIVE operators.
What is shown of each value of such a function is shown for the least number at which it
would fail: a set of naturals that is not empty has a least element
(`WellFoundedInduction`), so that no induction over data is needed.

### What is assumed

* `PlannerNoLostWakeup` has a hypothesis, `MaxLag <= Margin`: the callbacks of one
  activation last no longer than `RP_MARGIN_DELAY`, which is what the margin is for. It
  is false without it, and the code does not check it.
* `EventsAssumption`: there are no more types of events than entries in the array
  (`modem_context.h:72` has 0x19, for fewer types), and the work queue does not raise
  DOWNDATA nor the alarm. `EventsNoPanic` is about uses in which the two threads raise
  different types; with user radio accesses they do not (`events_preempted`).
* `UploadAssumption` and the guard on FILEDONEs: the network does not hold a FILEDONE
  back for as many sessions as there are values of its counter (16).
* `StreamAssumption`: a longer window has a vector at least as long (the code's is
  `MAX(16, (wl + 7) / 8)`), windows are finitely many, and the buffer is smaller than the
range of `unsent` (2^16).
* `ClockAssumption`: the first request after a join comes no sooner than a second (the
  code draws 5 to 10).
* `CommandsAssumption`: a command of the network is one of the records that the parser
  tells apart.
* `PlannerTopTaskNeverLost` has the hypothesis `TopAssumption`: the timer is served on time
  and callbacks take no time (`Latency = MaxLag = 0`), the tasks are radio operations that
  end by themselves or are preempted (`RX`, `TX`) or the suspension (`USER`), and those of
  the first hook are of normal priority. A late timer, or a task of low priority, is given
  up for other reasons.
* `FifoAssumption`: messages are sequences of octets, short enough for the 16 bits of
  `total_write_len`.
* `FixedPlanAssumption`: rates are 0 to 14 (15 is "keep"), the wide ones above the narrow
  ones; the only wide rate that is not LR-FHSS is the lowest, as DR4 of US915 and DR6 of
  AU915 are; and the wide channels begin less than the width of a bank above the narrow
  ones, so that the block computed from a frequency is a block of the plan.
* `DutyAssumption`: at least one band and two slots, and the clock's turn is longer than
  the ring and a slot (49 days against an hour).

### Only model-checked

Liveness (`EveryTaskResolved`, `EventReported`, `DownlinkReported`, `MacReturnsIdle`,
`UplinkReported`, `JoinAnswered`): temporal reasoning under fairness is beyond the prover.
Every safety property and every refinement that a passing run checks is a theorem.

## 5. Not modelled, and the plan

PROJECT.json lists every component with its status. Not modelled on purpose: radio
drivers, crypto and board support (register access, arithmetic on bytes, tables),
certification and test mode (not part of a deployed device), fragmentation (not in
the Zephyr build), the almanac (a parser of one message), the wrappers of
`lorawan_api`. These are most of the repository's lines: what the modem does of its own
is a small part of them.

The plan, in this order:

| step | module | what it adds |
|---|---|---|
| 1 | `Lr1Mac`, extended | listen before talk: its hook, its free, busy and aborted reports, the enqueue whose failure is only traced |
| 2 | `ClassB` | the beacon's acquisition and the ping slots beside `ClassC`, whose table of sessions they share |
| 3 | `DynamicPlan` | the channels that NewChannelReq and DlChannelReq create (EU868 and its like) |

Bounds stay of the size used here: two or three actors, one full turn of each counter.
Questions about one module share a run rather than each having its own.
