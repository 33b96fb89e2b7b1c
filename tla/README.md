# Hexabus: a verification project

Hexabus is a home automation network: sockets, sensors and displays with an
802.15.4 radio (firmware on Contiki 2.x), and host programs on top of
`libhexabus` that talk to them in small UDP packets. A device can run a *state
machine program*, a table of conditions and transitions that the host compiles
and uploads into its EEPROM.

This directory holds TLA+ models of the parts where the order of events
matters, the TLC runs that check them on small instances, and TLAPS proofs of
the main results for every instance. Paths are relative to the repository's
root; `apps/` is `firmware/contiki-2.x/platform/Hexabus-Socket/apps/`.

## The system and its parts

| part | state | operations | talks to |
|---|---|---|---|
| `hexaupload` (host) | two packet senders with result, failure count, timer; chunk number | stop, send chunk, start; timeout, reply, error handlers | device, by UDP; boost::asio event loop shared by both senders |
| `sm_upload` (device) | EEPROM table | write chunk and answer ACK/NAK, read and write machine control | state machine, udp_handler |
| state machine (device) | `curState`, `inStateSince`, five second timer | input, UP event, timer; start, stop, restart | endpoint registry, relay, meter, value broadcast, event queue |
| relay, value broadcast | relay state, its default | switch, broadcast a value to the network and to the own machine | meter, state machine (by a synchronous call) |
| metering, button | last pulse, power, calibration count and stop timer; reference value and lock in the EEPROM | pulse interrupt; read, reset, start and stop a calibration | relay, value broadcast |
| event kernel | bounded queue, process list, timer list | post, poll, deliver one event, nested synchronous calls | all firmware processes |
| udp_handler | UP/DOWN, link timer, protothread position | check the link every two seconds, handle a packet, pause | kernel, all listeners |
| datetime service | date and time, validity, one second timer | count a second, take the time from a packet | udp_handler (runs its update), state machine (reads it) |
| health | status bits | set or clear a bit, broadcast a change | displays |
| shutter (device) | direction, goal, position, measured length; encoder timer | write, calibrate, count an edge, take a silent encoder for an end stop | registry, event queue, encoder interrupt |
| presence, push, sensors | local | timers | registry, broadcast |
| DeviceInterrogator (host) | heap of running queries, one timer for all | ask, ask again, answer, give up | socket, callbacks of its user |
| Logger, hexalog (host) | backlog, sensor cache, klio store | take a reading, learn a sensor's name, drop a backlog | DeviceInterrogator, store |
| Device, liveness (host) | emulated endpoints | answer, broadcast | socket, user callbacks |
| compilers, hexanode, hexadaemon, web, Java library, boot loaders | - | - | - |

What is hard here:

* **Retries over UDP without sequence numbers.** An ACK does not say which chunk
  it answers, a state reply does not say which query; both senders of
  `hexaupload` stop the same event loop, and a cancelled timer's handler may
  already be queued.
* **One stack, synchronous calls.** A transition of the state machine that
  switches the relay resets the meter, which broadcasts its readings, which are
  input of the state machine: the process is called while it is being called.
  Only the process state (RUNNING or CALLED) stops it, and a restart resets that.
* **A bounded event queue whose posts nobody checks**, events whose data is a
  pointer to a variable that may change before delivery, and timers that belong
  to "the current process".
* **A protothread that ignores events while it pauses.**
* **An interrupt nobody disables.** The meter's pulse interrupt shares 16-bit
  variables with handlers of the main loop, and times are differences of a clock
  that wraps.
* **One timer for many queries.** Setting it again does not recall a handler that
  is already queued, and the handler takes whichever query comes first.
* **A position that is only guessed**, from encoder edges that are polls (a second
  one before the first is handled is lost) and from timeouts that may belong to
  the movement before.
* **Power failures** while the table or the calibration in the EEPROM is being
  replaced; restarts of the logger while its store stays.

`PROJECT.json` lists these hazards line by line.

## Modules

| module | models | composed with / checked by |
|---|---|---|
| `Upload` | `hexaupload.cpp`, `sm_upload.c`, `state_machine_eeprom.c`, a UDP network | `MCUpload`, proofs in `UploadProofs` |
| `StateMachine` | `state_machine.c` and the code it calls and is called by | `MCStateMachine`, proofs in `StateMachineProofs` |
| `Machine` | the abstract machine: a state, a set of transitions | instantiated by `StateMachine` (refinement) |
| `Node` | event kernel, `udp_handler.c`, `health.c`, the timer of `datetime_service.c` | `MCNode`, proofs in `NodeProofs` |
| `Meter` | `metering.c`, `relay.c`, `button_pressed` of `button_handlers.c`, the pulse interrupt, the clock | `MCMeter`, proofs in `MeterProofs` |
| `Shutter` | `shutter.c`, its event queue, encoder and motor | `MCShutter`, proofs in `ShutterProofs` |
| `Interrogator` | `device_interrogator.cpp` with its asio timer | extended by `Logger`, lemmas in `InterrogatorProofs` |
| `Logger` | `logger.cpp` and `hexalog.cpp` on an interrogator and a store | `MCLogger`, proofs in `LoggerProofs` |
| `SensorLog` | the abstract logger | instantiated by `Logger` (refinement) |

Operators named "Mutant" in the modules are deliberately wrong variants of the
definition that follows them; each shows that a property notices that mistake.

### Upload

State: `pc` is the `send()` that `main` is in (stop, chunk, start) or how it
ended; `result`, `failCount`, `armed` are the fields of each
`RetryingPacketSender`; `ready` counts `onTimeout` handlers that the event loop
has queued; `net` is a bag of packets; `stored` says for every chunk whether its
place in the EEPROM holds the old, a torn or the new chunk.

Actions: `Main` (up to the first `send`), `Expire`, `onTimeout`, `onAck`,
`onState`, `onError` for the host, `WriteChunk`, `WriteControl`, `ReadControl`,
`Reboot`, `RebootInWrite` for the device, `Lose` and `Duplicate` for the
network. `Return` is what happens once a handler has called `finish()`: the
event loop ends, the *active* `send` returns *its own* sender's result, and
`main` transmits the next packet or ends. A result that was never assigned is
uninitialised memory and may be taken for success or failure. `Resend` from a
handler of the sender that is not active follows a dangling `packet` pointer.

Chunk contents are abstracted to old, torn and new; a chunk fits if its number is
at most `Slots`.

### StateMachine and Machine

State: `proc` is the Contiki process state; `frames` is the call stack, each
frame a scan of the value or the date/time table (`tab`), the transition it is
at (`i`), the broadcasts that the endpoint write it is in still has to make
(`todo`) and whether that write went well (`wrote`); `timer` and `queue` are the
five second timer and the kernel's queue as far as this process is concerned.

One step of a call is an action (`Skip`, `Move`, `Act`, `Broadcast`, `Commit`,
`Exhausted`, `Switched`); what starts a call (`Input`, `Deliver`, `WriteControl`,
`WriteSwitch`, ...) happens only on an empty stack, as the firmware has no
threads. Interrupts are not modelled (see below). The tables, the readings that
a meter reset broadcasts and the inputs are constants; conditions (`eval`) are
translated for all data types, with the date/time condition that looks at only
the first field that is set.

`Machine` is what the author of a table relies on: the machine starts in state 0,
may be started or stopped at any time, and otherwise moves along a transition
that leaves its current state, to the good or bad state as the action's outcome
says. `StateMachine` maps `running` to `proc # "NONE"` and `state` to `curState`.

### Node

State: the queue with receiver and event, the process each timer belongs to
(`owner`, `NONE` once it has expired), the position of udp_handler's protothread
(`boot`, `wait`, `pause`), its `state`, and what the listeners last read of it
(`heard`) and of health (`shown`). `lost` and `rushed` record history: a post was
refused because the queue was full; something happened before the queue was
worked off.

A broadcast reaches the listeners first (they are started later and so stand
earlier in the list) and udp_handler in a second step, with polls in between,
as `do_event` does. Every event that udp_handler handles, the ones it has no
use for included, ends in a pause.

### Meter

State: `ram` and `rom` are the variables of `metering.c` and `relay.c` in memory
and in the EEPROM; `todo` are the steps that the handler of the main loop which
is running still has to take, `tmp` the local variable of `metering_get_power`;
`clock` is the 16-bit clock, here modulo `W`. `age`, `pulse`, `torn`, `counted`,
`raced`, `found` are history.

Handlers (`Read`, `Write`, `button_pressed`, `StopTimer`) put their steps into
`todo`; the actions under `Step` take them one by one, cut where the interrupt
can tell the difference. A pulse (`CalibrationPulse`, `CalibrationResult`,
`MeasurementPulse`) may come between any two, at most `MaxHits` times in one
handler. A pulse while `metering_get_power` is between its reads of the two
bytes of `clock_old` and its decision leaves any value in `tmp` (`Tear`). The
relay opens the circuit when it is on: no pulses then. `CalibrationCut` is a power
failure between the two EEPROM writes of a result, `PowerFail` one anywhere else.
The AVR's division by zero returns all ones.

### Shutter

State: the variables of `shutter.c`; `queue` holds the events for
`shutter_process`; `timer` is the encoder timer, with `"renewed"` for one that
was set since the movement began and so cannot expire while edges come; `at` is
where the shutter really is, which the device does not know. `homed`, `measured`,
`refused` are history: the count has been right since the shutter was closed, the
length was measured by such a count, an event was refused by a full queue.

Actions: `Write` (endpoint write), `Setup` and `PauseRefused`
(`shutter_setup_process`), `Poll`, `Timer`, `Poked` (`shutter_process`), `Edge`
(motor and interrupt), `Expire`. The shared events of the queue, of which
`Shutter` holds only its own, appear as the freedom to refuse a poke or a
CONTINUE at any time.

### Interrogator, Logger and SensorLog

State of `Interrogator`: `running_queries` (retries and deadline, counted from
now), `wait` (the expiry of the timer's outstanding wait), `ready` (handlers the
event loop has queued and not yet called), `overtaken` (history: the timer was
set while a handler was queued). Its operations are relations that `Logger`
combines with what the callbacks do: `accept_packet` (a reading arrives),
`Packet` (an endpoint info, on time, late or twice), `Timeout` (a queued handler:
nothing to do, ask again, give up, or fail to send), `Clock`, `Restart`.

`SensorLog` is what a user relies on: readings of a known sensor are saved at
once; those of an unknown one wait, and are then saved in the order of their
time or dropped together. `Logger` maps `known` to the sensors of the store and
`waiting` to the backlog. The abstract `Appended` says what a saved sequence has to
be (the old one, then the readings in increasing order); the concrete `InOrder` is
the order in which the backlog, a map from time to value, is walked.

## Runs

| run | instance | result |
|---|---|---|
| `upload_prompt` | 3 chunks, 2 retries, 3 losses, 1 power failure, queries overtake writes; the timer fires only when nothing is under way | holds: `TypeOK`, `Installed`, `LeftBehindStored`, `OnlyAckAdvances`, `Terminates` |
| `upload_ordered` | the same with packets in order and no power failure | holds: `RunsAfterUpload`, `NoMixedTable` |
| `upload_hostile` | 2 chunks of which the device refuses one, late answers to stop, 1 loss, 1 duplicate | holds: `Terminates` |
| `upload_late_ack` | late answers to chunks, 1 loss | `Installed` violated |
| `sm_lamp` | a table of 6 + 3 transitions with all kinds of conditions, stops, starts, link changes, a one-place queue | holds: `TypeOK`, `NotReentered`, `TimerAlive`, `Implements`, `ReturnsToIdle`, `DatetimeChecked` |
| `sm_control` | a machine that stops and restarts itself, and Reset-IDs | holds: `StackBounded`, `ReturnsToIdle` |
| `sm_since` | an UP event | `SinceOfState` violated |
| `node_events` | a queue of 4, sensors and other processes post too | holds: `TypeOK`, `HealthShown`, `ChangesHeard`, `PauseEndsUnlessFull`, `LinkReported`, `TimeExpiresCalm` |
| `logger_names` | three sensors on two devices, a second of 2 ticks, 2 tries, a loop up to 1 tick late, 2 queued handlers | holds: `TypeOK`, `AskedWhileWaiting`, `TimerSet`, `NeverForgotten`, `AddedOnce`, `LogSpec`, `GivesUpInTime`, `ResolvedIfSent` |
| `meter_power` | a clock that wraps at 5, out of date after 3 ticks, calibrations of 2 pulses, 1 pulse in each handler, power failures | holds: `TypeOK`, `PowerKept`, `LockedCorrect`, `ReadPlausible`, `CalibrationEnds` |
| `meter_calibration` | the same | `StopsWithoutPulse` violated |
| `shutter_moves` | 2 edges between the end stops, a bound of 5, values stop, close, half, open, a queue of 2 | holds: `TypeOK`, `Toward`, `PositionKnown`, `MotorStops`, `SetupEnds` |

Why the bounds are enough. *Upload*: with 3 chunks there is a first, a middle
and a last one; 3 losses exhaust 2 retries; a table of 2 program chunks can be
mixed. *StateMachine*: calls nest at most two deep (proved), tables contain each
kind of action, and a one-place queue is full as soon as anything is in it.
*Node*: four places hold a timer event and the three posts of one link change;
one second of validity has a second in which the time is valid and one in which
it expires. *Logger*: two sensors on one device share an answer, the third has
another deadline; one tick late and two queued handlers are enough for a handler
to be overtaken. *Meter*: with a reference value of 4 and a clock of 5 ticks every
branch of `metering_get_power` occurs (out of date, older than two periods, both
not), the clock wraps between pulses, and with two pulses a calibration has a
first, a middle and a last one; the invariants and `ReadPlausible` also hold with
two pulses in one handler (1.3 million states). *Shutter*: with two edges there is a position between the end
stops and a second edge to lose; a bound above twice the length is what
`SHUTTER_MAX_BOUND` is to a real shutter. `StateMachine`'s and `Node`'s queues
stand for the 32 places of the build.

### What the violations show

* **A chunk can be missing after "Program uploaded successfully."** The late ACK
  of a repeated chunk is counted for the next one, whose packet was lost.
* **`inStateSince` is not the time of the state** after a start or an UP event.
* **A calibration can be stopped although there were pulses.** The button sets
  `metering_calibration` and switches the relay before it sets the stop timer. A
  pulse in between finds no timer to stop; after a minute the timer's callback
  writes reference value 0 over what the calibration may have found, and locks it.

Seen while modelling, from traces of runs that earlier versions of the models
failed, and now hypotheses or exceptions of the properties above:

* A second reply to stop ends the wait for a chunk's ACK, because both senders of
  `hexaupload` stop the same event loop, and `send()` returns a result nobody
  assigned. `OnlyAckAdvances` is claimed on a prompt network.
* After a Reset-ID `sm_restart` leaves the process RUNNING inside its own call;
  the meter's reading is then handled inside the transition that caused it, and
  both change the state. `NotReentered` and `Implements` are claimed without
  Reset-IDs.
* `updateDatetime` runs inside udp_handler; if the timer's event is queued at that
  moment, `etimer_restart` gives the timer to udp_handler, the datetime process is
  never called again and the time stays valid. `TimeExpiresCalm` is claimed for a
  device that works off its queue before the next thing happens.
* udp_handler hangs if the queue is full when it pauses (`PauseEndsUnlessFull`).
* A TIMER of `udp_unreachable_timer` that is queued when a packet makes
  udp_handler pause is ignored during the pause, and nobody sets the timer again:
  the link is no longer watched. `LinkReported` is claimed for the same calm
  device.
* If the first query for a sensor cannot be sent, `send_request` calls
  `on_sensor_error`, which erases the backlog, before it returns; `accept_packet`
  then enters the reading all the same, and as the sensor now has a backlog it is
  never asked for again until the program restarts (`ResolvedIfSent`,
  `AskedWhileWaiting` except such sensors).
* A TIMER that is in the queue when a movement of the shutter begins stops it and
  takes its place for an end stop; a poke that is refused leaves a motor running
  against the end stop (`PositionKnown`, `MotorStops` except these).

No schedule is needed to meet the following: `--rename` ("don't touch the state
machine") stops and starts the machine like every other action; `--clear` reads
the absent `--rename` option and dies with an uncaught exception before it
contacts the device; a machine that restarts itself through `EP_SM_CONTROL` ends
in `goodState` and not in state 0; every start of the process takes another event
number, so that after 115 restarts the input event has number 0, which is
`health_event`'s (`StateMachine` tells events apart by kind and stands for the
code up to there); the day after the last of a month is day 0, and month 0 has no
last day; `shutter_get_state` scales by the length over 255, as `shutter_set` does,
where the way back is 255 over the length; two readings of one sensor in one second are one entry of the
backlog (`Logger`'s readings have different times); after a receive error the
host's socket never receives again.

### Fairness

* `Upload`: weak fairness of `main`, of the event loop's handlers and timers, and
  of the device's handling of a packet that was not lost. `io_service::run`
  serves what is queued; deadlines pass. No fairness for errors, losses or
  power failures.
* `StateMachine`: weak fairness of a step of a call; strong fairness of the timer
  and of delivery: the main loop (`process_run`) polls the timers and delivers
  one event in every round, however many packets come between, so neither is
  postponed for ever by being interrupted.
* `Node`: weak fairness of delivery, strong fairness of the timers (the etimer
  process is polled again in every round until its post succeeds; this assumes
  that others do not keep the queue full at every single poll).
* `Logger`: weak fairness of the event loop's handlers, of the timer's expiry and
  of time. Nothing makes a device answer or a packet arrive.
* `Meter`: weak fairness of a handler's steps (the bounded number of pulses in a
  handler does not stop it), strong fairness of the stop timer, which the main
  loop looks at in every round. Pulses are not fair: that they keep coming is a
  hypothesis of `CalibrationEnds`.
* `Shutter`: weak fairness of setup, polls, delivery, the timer, and of the motor,
  which is not blocked. That nobody writes for ever is a hypothesis of `SetupEnds`.

## Proofs

`UploadProofs` (for every number of chunks and slots, every retry limit, every
number of losses and power failures):

* `TypeCorrect`: types; no packet is taken that is not there.
* `PromptInstalled`: on a *prompt* network (an answer comes within the second or
  never, no duplicates), `Installed` and `LeftBehindStored`. The inductive
  invariant is `PromptInv`: only the active sender has a timer, it runs or has
  expired on a silent network (`OneTimer`), and at most one exchange is under
  way, the active one's, so that an ACK under way stands for the current chunk
  (`OneExchange`). Neither property is inductive without this.
* `OrderedUpload`: with packets in order and no power failure also
  `RunsAfterUpload` and `NoMixedTable`. `OrderedInv` adds that a reply under way
  tells the truth (`TrueReply`) and that no start command is under way while the
  table is being replaced (`TableSafe`).

`LeavesNoneBehind` and `SuccessRuns` state one property of each on its own.
`OnlyAcksAdvance` is the action property `OnlyAckAdvances` on a prompt network:
`PromptInv` excludes the late state reply and the second sender's timeout, which
would end the chunk's `send()` with a result nobody assigned. That promptness is
needed is what `upload_late_ack` shows.

`NeverWaitsInVain` holds on any network, prompt or not: the `send()` main is in has
its timer running or its timeout in the event loop, and its failures are within
`--retry`. `TimeoutPending` is inductive as it stands, although a handler of either
sender may end the loop: whoever ends it, the next `send()` arms its own timer and
clears its own count.

`StateMachineProofs` (for every table, input, clock, queue size):

* `MachineTypes`, `StackIsBounded`, `TimerStaysAlive` from `IInv`: types; only
  the two frames' shapes that occur (`Indexed`); at most two frames, and with two
  the process cannot be called (`Bounded`); the timer is armed, queued or will be
  set by a frame that is on the stack (`Woken`).
* `OneCallAtATime` and `FollowsTable`, under `Undisturbed`: no transition starts
  the machine and no Reset-ID arrives. `Single`: at most one frame is a call of
  the machine, the process is not RUNNING during it, and a transition about to be
  committed still leaves the current state. `FollowsTable` is the refinement of
  `Machine`.

`ShutterProofs` (for every length, bound, set of values and queue size), from
`Inv`, the conjunction of `TypeOK`, `Toward` and `PositionKnown`:

* `PositionInRange`: position, goal and length stay within `SHUTTER_MAX_BOUND`.
  The range alone is not inductive: a position at the bound could be counted on.
  `Toward` excludes it, as a moving shutter has not reached its goal, which is in
  range (`GoalInRange`, with the division by 255).
* `MovesToGoal`: `Toward` on its own.
* `KnowsPosition`: `PositionKnown`, with the edge that is not yet counted.
* `MotorWatched`: while the motor runs, the encoder timer is set or the process has
  an event in the queue (`StopComes`), unless the queue has refused one.

`NodeProofs` (for every size of the event queue, every time of validity and
whatever other processes post):

* `NodeTypes`: the queue stays within its size, with posts to it anywhere.
* `HealthIsShown` (`HealthShown`) and `PausesEnd` (udp_handler never pauses without
  the CONTINUE that ends the pause in the queue), from `PostInv`: every post either
  finds room, and what it posts is there until it is delivered, or sets `lost`.
* `ChangesAreHeard` (`ChangesHeard`). A listener is called with a pointer to
  `state`, so the property needs to know what cannot happen between post and
  delivery. `LinkInv` is about the order of the queue: there is one link event if
  the state is not the one heard of, none otherwise, and it stands before every
  event that could make udp_handler change the state again, the TIMERs it will look
  at and, while it pauses, the CONTINUE. (Without the pause the property is false
  with six places.)

`MeterProofs` (for every width of the clock, every number of pulses of a
calibration and every reference value; assumed: a handler does not last longer
than a calibration, `HitsAssumption`, and the meter is read at least once while
the clock goes round, `ClockAssumption`). The interrupt may come between any two
steps of a handler, so the invariants relate the steps a handler has left (`todo`)
to the variables the interrupt writes:

* `MeterTypes`: readings, times and reference values stay in their words.
* `CalibrationLocked` (`LockedCorrect`) and `StopsInTime` (the stop timer's
  callback ends only a calibration without pulses), from `CalInv`: the order of a
  handler's steps (`Tasks`), a calibration begins with nothing counted or locked and
  does not end while its handler runs (`Starting`), and the stop timer runs only for
  a calibration without a pulse, unless the first pulse beat it (`Stopping`).
  `meter_calibration` shows what happens if it did.
* `CalibrationWatched`: a calibration that has counted no pulse has its stop timer
  set, or a handler is about to set it or to end the calibration (`Watched`). It
  needs the order of the handlers' steps from `CalInv`: the callback ends the
  calibration before it stops the timer.
* `MeasurementKept` (`PowerKept`) and `ReadingsPlausible` (`ReadPlausible`), from
  `Clocked`: the difference of the clocks is the age of the measurement until it
  has wrapped, and by then an old power has been read and cleared; a handler that
  decides holds the difference it read, or was torn by a pulse.

`InterrogatorProofs` and `LoggerProofs` (for any number of sensors, devices,
readings and tries, every number of ticks in a second, every lateness of the loop
and any number of queued handlers). The first has one lemma for each operation of
the interrogator, "the invariant and the operation imply the invariant
afterwards", the second adds what the client does in the same step:

* `TimerInv` says of the interrogator that somebody will look at a running query
  (`Watched`); that, until a handler is overtaken, wait and handler are never both
  outstanding and no query has more than a second to go (`Single`), which is why
  `queue_query` need not set the timer for a second query; that the wait is for the
  first deadline (`OnTime`); and that deadline, retries and age agree (`Dated`).
  From it `TimerIsSet` (`TimerSet`), `NoQueryForgotten` (`NeverForgotten`) and the
  action property `GivenUpNoSooner` (`GivesUpInTime`).
* `Inv` adds that a query that was refused leaves a backlog (`Asked`), that a sensor
  with a backlog is not in the store and one in the cache is (`Once`), and that only
  readings that were received wait or are saved (`Received`). From it `LoggerTypes`,
  `LoggerAndInterrogatorAgree` (`AskedWhileWaiting`) and `SensorsAddedOnce`
  (`AddedOnce`).
* `ImplementsLog` is the refinement `LogSpec`: a reading is an `Accept`, an answer a
  `Learn` of all queries it answers, a query that fails and a restart a `Drop`, and
  everything the timer and the clock do otherwise is not seen.

Two facts in these modules need induction, that finitely many queries have a
first one (`FirstExists`) and that finitely many readings can be put in order
(`ListExists`); both are proved by a smallest counterexample, which the library's
`WFMin` provides without an operator parameter (`LeastNumber`).

Every invariant and every action property of a passing run is proved. Only
model-checked is all liveness, as fairness and ENABLED are beyond the prover:
`Terminates`, `ReturnsToIdle`, `DatetimeChecked`, `PauseEndsUnlessFull`,
`LinkReported`, `TimeExpiresCalm`, `ResolvedIfSent`, `CalibrationEnds`,
`MotorStops`, `SetupEnds`. `NeverWaitsInVain`, `TimerStaysAlive`, `PausesEnd`,
`NoQueryForgotten`, `CalibrationWatched` and `MotorWatched` are the safety half of
six of them: what has to happen is still scheduled.

## Not modelled

* The pulse interrupt inside the state machine's calls: it broadcasts the power
  and so calls the machine at any instruction (`Meter` has the interrupt,
  `StateMachine` the calls, no module both). The process list as it changes under
  a broadcast.
* Packet formats, checksums and the answers to QUERY and EPQUERY; the calendar.
* The energy counters, on which no decision depends; the S0 meter, which the build
  leaves out; the button driver's debouncing and provisioning; LEDs.
* Reading the shutter's position; rounding errors of its float arithmetic.
* Presence detector, push buttons and on/off sensor (a few lines on one timer,
  switched off in the build), sensors' bus protocols, displays, the web server.
* The rotation of hexalog's store files (klio's), Device and liveness, command
  line tools, compilers, web front ends, the Java library, boot loaders.
* Contiki's network stack and the other vendored code, which is most of the
  repository: only the event kernel and its timers, on which the firmware's own
  processes depend, are modelled.

## Plan

Done: `Upload`, `StateMachine`/`Machine`, `Node`, `Interrogator`/`Logger`/
`SensorLog`, `Meter`, `Shutter`, and the proofs above. Next, in this order:

1. `Calendar`: the roll-over as an operator, against a reference of the calendar.
2. The packet handlers of udp_handler (WRITE, QUERY, EPQUERY, INFO and the errors
   they return); Device and liveness on the host.
3. The meter's interrupt as a step that may happen inside a call of
   `StateMachine`.
