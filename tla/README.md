# A verification of nuedc_control_freertos

TLA+ modules for the FreeRTOS firmware of an MSPM0G3507 contest car, checked by
TLC on small instances and, in part, proved by TLAPS for every instance.  Every
definition is written from the C code; `PROJECT.json` ("map") names the lines it
stands for.

    tlc -workers 2 -config MCAppControl.cfg MCAppControl     # one run
    tlapm AppControlProofs.tla                               # one set of proofs

## 1. The system

### Contexts of execution

| context | priority | runs | where |
| --- | ---: | --- | --- |
| UART RX interrupt | interrupt | parses command lines, sets request flags | `modules/telemetry/telemetry.c` |
| GROUP1 interrupt | interrupt | decodes encoder edges | `modules/encoder/bsp_encoder.c` |
| health task | 5 | every 20 ms: check the heartbeats, feed WWDT0 or raise a fault | `app/app_tasks.c`, `system/` |
| IMU task | 4 | data-ready pin of the sensor, finite wait of 50 ms | `modules/imu/imu_service.c` |
| fast task | 4 | every 5 ms: encoders, motor timeout, copy of the IMU snapshot | `app/app_tasks.c` |
| control task | 3 | every 10 ms: requests, state machine, mission, chassis | `app/`, `control/` |
| telemetry task | 2 | every 10 ms: yaw calibration requests, reports | `app/app_tasks.c` |

Scheduling is preemptive with a 1 ms tick held in 32 bits.  Apart from the IMU
snapshot and the encoder counts, which critical sections protect, contexts share
plain variables: request flags, `g_tick_ms`, `s_last_beat_ms`, `motor->duty`, the
PWM registers, `s_code`.  Nearly everything that is hard about this firmware
comes from there.

### Components

| component | state | operations | talks to |
| --- | --- | --- | --- |
| health monitor, fault latch, watchdog | last beats, fault code and detail, WWDT0 | beat, check, raise, feed, reset | every task; stops the motors |
| motor module | `duty`, direction pins, PWM, time of the last command, `g_tick_ms` | set duty, stop, safety tick | control, fast, health and IMU tasks |
| application state and commands | request flags, IDLE/RUN, direct test and its deadline | receive, consume, App_State_Tick, Control_Chassis_Tick | UART interrupt, control task, IMU snapshot, faults |
| yaw calibration | calibration record, gyro scale, two layers of request flags | start, cancel, one step per sample | UART interrupt, telemetry and IMU tasks |
| IMU service | attempt, device handle, gyro bias, snapshot | initialise, calibrate, update, publish | fast task, App_State_Tick, fault latch |
| wheel encoders | totals, last states, reported counts, interrupt status | edge interrupt, delta, reset | control task |
| ICM45688 device code | configuration, filters, attitude, detection of rest, bias learning, yaw lock | begin, update, set bias | IMU service, SPI |
| SPI transport | FIFOs and BUSY of the controller, chip select | read and write a register | ICM45688 device code |
| line sensor and tracker | filtered bias, last bias, controller | sample, track | mission |
| command line, reports, log | line buffer, report settings, ring buffer, transmitter | byte received, periodic reports, print | UART interrupt, telemetry task, probe |
| vision link | parser state, last target | byte received, take target | nothing in the application yet |
| chassis control and odometry | PID state, pose | speed loop, dead reckoning | encoders, motors |
| OLED, I2C, GPIO drivers | registers, frame buffer | transfers | modules |
| test programs | state machines of bench firmwares | | modules |

### What makes each part correct, and what is hard about it

* **Health monitor.**  No silence of a task lasts longer than a bound without a
  reset; the reset follows every fault; no task that meets its deadline is
  accused.  Hard: beats carry an old time, checks are delayed, the IMU task's
  call of `System_Fault_Raise` can be preempted by the health task's, ages wrap.
* **Motor module.**  When commands stop, the motors stop; while they are fresh,
  the timeout does not fire.  Hard: each call is a sequence of writes that a
  higher priority may split, and the clock it stamps with is written by three
  tasks from locals of different age.
* **Application state.**  The motors run only for a reason, a direct test lasts
  as long as asked, a START gives at most one RUN, a STOP stops.  Hard: flags are
  read and cleared without a lock against the interrupt that sets them; a fault
  stops the motors under the control task.
* **Yaw calibration.**  It measures with the factor 1 and leaves the new factor
  or the old one, whatever fails, is cancelled or restarted.  Hard: eight states,
  requests that arrive between any two samples, lost samples.
* **IMU service.**  The car runs only on a sensor calibrated at rest; start-up
  ends; errors reach the car.  Hard: many exits of one loop, and a snapshot that
  is copied late.
* **IMU device code.**  A device is ready only when every register access of its
  start went well; the bias is learned only from a car at rest, and a car at
  rest stops turning in its own eyes.  Hard: twelve configuration calls judged by
  one accumulated status, three counters that motion must set back.
* **SPI transport.**  An access returns, with its own bytes or with an error.
  Hard: a wait that runs out leaves a byte on its way into a later access.
* **Encoders.**  A total is the true distance as long as no edge is skipped.
  Hard: edges between the handler's reads and its clear, resets between an edge
  and its interrupt.
* **Line sensor and tracker.**  The car turns to the side of the line, and never
  kicks.  Hard: the bias is filtered, and neither it nor the derivative is reset
  when the line is lost or the car stopped.
* **Command line, reports, log.**  A command is what was sent as a line; a report
  that is on keeps coming; a message reaches the probe whole or not at all.
  Hard: over-long lines, settings that change between the tests of one
  iteration, a wrapping clock, an interrupt that prints inside a print.
* **Vision link.**  No target is announced that was not sent; a parser in step
  takes every frame for what it is, and one that is not gets in step again.  Hard: lost, added and altered bytes; a copy made while the
  interrupt replaces its source.

`PROJECT.json` ("hazards") lists these at their lines, with the properties that
cover them.

## 2. The modules

| module | models | extends |
| --- | --- | --- |
| `TickMath` | the 32-bit millisecond counter and its differences | |
| `HealthMonitor` | health monitor, fault latch, watchdog, fatal hooks | `TickMath` |
| `HealthMonitorProofs` | its theorems | `HealthMonitor` |
| `MotorOutput` | motor module under preemption | |
| `MotorOutputProofs` | its theorems | `MotorOutput` |
| `AppControl` | commands, car state, what the motors are told | `TickMath` |
| `AppControlProofs` | its theorems | `AppControl` |
| `YawCalibration` | yaw calibration and its requests | |
| `YawCalibrationProofs` | its theorems | `YawCalibration` |
| `ImuService` | life of the IMU task, snapshot, gate of RUN | |
| `ImuStack` | the IMU service with the device code; implements `ImuService` | `ImuService` |
| `ImuStackProofs` | theorems about both | `ImuStack` |
| `RegisterBus` | what the device code takes its bus to be (abstract) | |
| `SpiBus` | SPI transport and controller; implements `RegisterBus` | |
| `SpiBusProofs` | its theorems | `SpiBus` |
| `Encoder` | edge interrupt, deltas, resets | |
| `LineFollow` | from the active channels to the turn of the car | |
| `Sensors` | the encoders and the line in one specification | both |
| `SensorProofs` | theorems about both | `Sensors` |
| `CommandLine` | bytes of the UART to requests and settings | |
| `ReportStream` | periodic reports under changing settings | `TickMath` |
| `LogOutput` | a message through RTT ring and UART | |
| `VisionParser` | frames of the camera, hand-over of a target | |
| `SerialLinks` | the five byte links in one specification | `SpiBus`; the others by INSTANCE |
| `SerialProofs` | theorems about all five | `SerialLinks`, `SpiBusProofs` |
| `MC*` | constants of the TLC runs | the module named |

Variables keep the names of the code where TLA+ allows it; a comment at each
declaration gives the C name where it differs.  Variables marked *(ghost)* exist
for properties only and guard no action.

**HealthMonitor.**  A loop of a task is two actions, `BeginLoop` (reads the tick)
and `Beat` (stores what was read), with anything in between, so late and
preempted beats are covered.  `Hang` ends a task's beats for ever.
`HealthCheck` is one iteration of `health_task`: it has the highest priority, so
nothing interrupts it; it may be late by `Jitter`.  `System_Fault_Raise` in the
IMU task is three actions, between which `HealthCheck` can run.  `FatalHook` and
`Wedge` halt the core, after which only WWDT0 counts (`HaltedTick`).

**MotorOutput.**  A job of a task is the sequence of memory and register accesses
it will make; every step of a task makes the first of them, if no task of higher
priority is busy.  The time stamp of a command is a load of `g_tick_ms` and a
store, and a job of the control task stops the motors up to twice before it
commands them.  The stop of a fault is the health task's job; the one of the
IMU task, at a lower priority, interleaves no more than that.

**AppControl.**  A job of the control task is nine actions, one per access to a
flag shared with the interrupt; `Receive` can come between any two, and so can a
fault.  A STOP, START or DUTY stands for its line; the duties of a test are left
out.  The watch over a control task that misses its window is the subject of the
two modules above, so this one assumes `CtrlWindow`.

**YawCalibration.**  A sample is one action (`Sample`), a pass of
`service_yaw_requests` another; the read and the clear in
`Telemetry_ConsumeImuCalRequest` are two.  A stationary sample may turn the yaw,
as the code's limit for rest is wider than that of the lock.  Angles are integers; factors are
fractions and the float comparisons are made on products, so there is no
rounding in the model.  What float rounding does at a limit (factors within 1e-6
of 0.85, 1.15 or a mismatch of 1 %) is outside it.

**ImuService.**  Each bus transaction may fail; the identity may be misread
without an error.  `Operate` is one iteration of the endless loop.

**ImuStack.**  `Begin`, one action in `ImuService`, is made of its register
accesses: two that end it at once when they fail, the configuration, whose
failures are accumulated and judged once, and a last one.  A sample runs
`Sample`: detection of rest, learning of the bias, yaw lock, as counters over
the angular rate of one axis in units of 0.1 dps.  `World` moves the car and
warms the gyro.  The attitude that the samples are for is left out.

**RegisterBus, SpiBus.**  `RegisterBus` is a call, a refusal, and a return with
the bytes of this access or with an error.  `SpiBus` sends and receives byte by
byte; each wait may run out, and the controller (`Exchange`, `Rest`) works
whenever it likes.  A byte is its place in the access it was sent in, and
`Stale` when that access is over, so that a byte taken from another access shows.

**Encoder.**  Edges set status bits per pin.  `EnterIrq`, two `HandlePins` and
`LeaveIrq` are the reads and the clear of `GROUP1_IRQHandler`; wheels turn at any
moment.  `GetDelta` and `Reset` run with interrupts disabled.

**LineFollow.**  A step is one iteration of the control task: channels to bias,
filter, controller, turn, in RUN or not.  The floats are integers in units of
1/180, and a filtered bias is rounded away from zero, so it keeps its sign as the
float does.

**CommandLine.**  A keyword or a number is one byte; `HandleLine` is `handle_line`
in its order of tests.  A zero byte ends the text but not the line.

**ReportStream.**  `Telemetry_Tick` is six actions, one for each test of a
setting, and the commands of the interrupt fall between them.

**LogOutput.**  The task's print is seven actions; the interrupt's, which nothing
interrupts, is one.  The probe reads at any time.

**VisionParser.**  `OnRxByte` is the parser with its eight states; a camera sends
whole frames, the line loses, adds or alters one byte (`Hit`) and lets the next
`Spacing` frames arrive whole.  A task tests, clears and copies a target piece by
piece meanwhile.  Bytes have five bits, wide enough for the marks, the lengths
and the checksums to be told apart as in the code.  `InStep` says that the parser
waits for the byte that is sent next and has the frame so far; `Checksum` is what
the camera computes, and the parser computes it anew byte by byte.

**Sensors, SerialLinks.**  Components that share nothing, put together for one
run and one set of proofs: a variable that never changes says which of them a
behaviour is about, and the others stand still.

How the modules fit together:

* `ImuStack` implements `ImuService`, liveness included, so what the car is
  promised there holds with the device underneath.
* `SpiBus` implements `RegisterBus`.  An `Access` of `ImuStack`, and a sample,
  has the two outcomes that `RegisterBus` allows.
* What `CommandLine` raises is what `AppControl.Receive`, the requests of
  `YawCalibration` and `ReportStream.Command` begin with.
* `AppControl.RaiseFault` is what `HealthMonitor` and `ImuService` do,
  `AppControl.CopySnapshot` allows any change that `ImuService` makes, and
  `MotorOutput.CtrlJobs` contains the commands of `AppControl`.

The first two are checked and proved as refinements; the others are assumptions
that one module makes of another, compared by hand.

Where the models are coarser than the code:

* `ImuStack.Corrected` leaves out the factor on the corrected rate
  (`dev_icm45688.c:842-844`), which `YawCalibration` keeps: all limits of
  `ImuStack` are those of a factor of 1.
* `ImuStack.Learning` moves the bias by one unit; the code moves it by 0.2 % of
  what is left (`dev_icm45688.c:458`).  How long `AtRestYawLocks` takes depends on
  it, that it comes about does not.
* `SpiBus.Send` has no timeout for a full transmit FIFO (`drv_spi.c:59-63`):
  `transfer8` waits for each byte's answer, so at most one byte is in the
  controller and the FIFO is never full.
* `LogOutput.Printf` is a message of fewer than 256 bytes.  `BSP_Uart_Printf`
  would send as many bytes as `vsnprintf` wished to write (`bsp_uart.c:29-37`), so
  a longer message would go beyond its buffer; every message of the firmware is
  shorter.

## 3. The runs

| run | configuration | asks |
| --- | --- | --- |
| `health` | `MCHealthMonitor.cfg` | Is silence found in time, and does it end in a reset? |
| `motor` | `MCMotorOutput.cfg` | Do the software's view of the motors and the timeout hold under preemption? |
| `control` | `MCAppControl.cfg` | Has motion a cause, and does a test last as asked? |
| `yaw` | `MCYawCalibration.cfg` | Is the factor in force always the right one? |
| `imu` | `MCImuService.cfg` | Does start-up end, does the car run only on a calibrated and configured IMU, is its bias learned at rest only, and is the service implemented? |
| `sensors` | `MCSensors.cfg` | Is a total the true distance?  Does the turn follow the line? |
| `serial` | `MCSerial.cfg` | Do the byte links hand out what was sent, whole, in time, and recover? |
| `motor_torn` | `MCMotorOutputTorn.cfg` | *violated*: does the output stop when commands do? |
| `control_fault` | `MCAppControlFault.cfg` | *violated*: do the motors stay off after a fault? |
| `control_stop` | `MCAppControlStop.cfg` | *violated*: does a STOP end a direct test? |
| `yaw_restore` | `MCYawCalibrationRestore.cfg` | *violated*: does the factor from before come back? |
| `line_lost` | `MCLineFollowLost.cfg` | *violated*: does a car that has lost the line turn to where it was? |

`sensors` and `serial` hold several components that share nothing (`Sensors`,
`SerialLinks`).

### Bounds, and why they are enough

* `health`: two tasks, one that also raises faults, with different deadlines;
  every time is one or two units, the health task is on time or late by a whole
  period, and the counter has 11 values, the least that `WrapIsFar` allows.  All orders of beats, checks, hangs, faults, halts and
  resets occur, around the wrap too.  No bound cuts a behaviour off: the state
  space is finite because the watchdog resets.
* `motor`: four milliseconds with a timeout and a fast task's window of one: a
  command, its expiry and the SafetyTick that follows fit once, with another
  command before or after them.  A PWM of one step tells driving from not driving; one command clips both ways.
* `control`: seven ticks and then the wrap, after which the model goes round for
  ever; hold times of 0 (the default, 1) and 2 against a window of 1.
* `yaw`: two settle samples; turns can end on both sides of each limit (capture
  ratio, scale range, mismatch).
* `imu`: the five attempts of the code, three calibration samples for 2200, two
  successive errors for "persistent", three configuration accesses for twelve,
  two samples of holding still and two of learning for 5 and 600.  Offsets of
  the gyro of 0 and 0.3 dps and turns of 0.3 and 2 dps lie on both sides of the
  limits for the lock (0.25), for learning (0.35) and for rest (1.5).
* `sensors`: five positions of the left wheel use every entry of the decode
  table (in each direction and for each jump); the right wheel moves on one edge.
  A wheel stops skipping edges once its total has left the range of positions.
  The line has the seven channels of the board: every run of active channels,
  and every single gap.  `LagFrames` = 7 is tight: with 6, `SteersBack` fails.
* `serial`: SPI accesses of no byte, one and three, so that a late byte can fall
  into each place of the next one.  Vision payloads of up to twelve bytes, so that
  a wrong length can swallow a whole frame and the head of the next; one frame
  arrives whole after a disturbed one (`Spacing` = 1).  Both are tight: a bound of
  one less than `ResyncBound`, which is 2 for these, fails in `Resynchronises`, and so does `TargetWasSent` with
  `Spacing` = 0 (see section 5).  The noise has both sync bytes, the largest
  length and two smaller ones.  Lines of
  five bytes for a buffer of four: the overflow and what comes after.  A clock
  of eight values with periods of one and three: every wrap.  The bound
  of `StreamIsAlive` is tight: with one tick less it fails.  A ring of three
  with messages of one byte and two: full, nearly full, wrapped.  A transmitter
  of two places for the four of the chip, which makes `TxFits` sharper.

### Fairness

`health` assumes that time passes, that WWDT0 works with the core halted, and
that the scheduler runs the task of highest priority when it is due.  It assumes
nothing of the monitored tasks, which may hang.  `imu` assumes that the IMU task
and the fast task keep being scheduled (between them and above them only the
health task runs, which sleeps) and that, of the calibrations that are tried,
infinitely many see the car at rest; without this last assumption
`calibrate_gyro_bias` repeats for ever by design, while the car stays in IDLE.
An iteration of the service changes the snapshot's sequence number, so it is
always a step, and its fairness does say that samples keep coming.  `serial`
assumes that the IMU task, which runs the SPI driver, is scheduled; of the
controller it assumes nothing, since every wait for it is bounded.

## 4. The proofs

All are for arbitrary constants, from the assumptions stated in the modules:
`WrapAssumption`, `TimingAssumption` and `WrapIsFar` (no age that can occur comes
near the width of the counter: 3.04 s against 49.7 days),
`ControlAssumption`, `YawAssumption` and `ProfileAssumption` (the factor of the
profile is itself within the limits), `MotorAssumption`, `ServiceAssumption`,
`StackAssumption`, `LengthsAssumption`, `LineAssumption` and `CommandAssumption`
(types and order of the constants).  Five say more about the code:

* `VisionAssumption`: the bound on a payload is one that a length byte can say,
  and what the camera and the noise put on the line are bytes (of five bits
  here).
  Two theorems assume more of the frames, named in their statements.
  `KnownFrames`: every frame is one the parser dispatches, a command or a target
  with its seven bytes, and no longer than its buffer; this is the camera's side of
  the protocol.  `PlainFrames`: AA 55 is nowhere inside a frame; the protocol does
  not promise it (section 5).  Both are evaluated for the frames of the run
  (`MCFramesAssumption`).
* `ReportAssumption`: the longest period and two windows of the task fit into the
  width of the counter; in the code a second and some ticks against 49.7 days.
* `LogAssumption`: the ring and every message have at least one byte, and the
  transmitter holds two (the chip's holds four).
* `LagAssumption`: frames that see the line beside the middle have it at least
  some distance from there, and the filter, fed with that distance from the far
  edge (`Behind`), crosses the middle within `LagFrames` frames.  This is a
  statement about the sums of weights of `dev_line_sensor.c` and its factor 0.35
  alone, no state occurs in it; TLC evaluates it for the board, where it holds for
  seven frames and not for six.
* `WheelAssumption`: the deltas are taken of wheels that there are.


* **HealthMonitor.**  `SilenceTheorem`, `OutageTheorem`, `LatencyTheorem`,
  `AgesTheorem`, `NoFalseAlarmTheorem`, `FaultHoldsTheorem`.  None of the bounds
  is inductive: the age of a beat is bounded by the detection latency outside
  the grace interval, by what it had reached when the interval began inside it,
  and by the length of the outage after a fault; the computed ages are the true
  ones because, by that bound, none comes near the wrap.  `IInv` is the
  conjunction of these, and each depends on the others.
* **AppControl.**  `HoldTheorem`, `HoldKeptTheorem`, `CauseTheorem`,
  `OneRunTheorem`.  The bound on a test follows from what the last job that drove
  the motors saw: its `now` was before the deadline, and a deadline that is ahead
  of the clock cannot have wrapped.  `IInv` says this in terms of the job's
  progress, and that a START in its flag or in the hands of the task has not been
  used yet.
* **YawCalibration.**  `UnityTheorem`, `GoodTheorem`, `PlausibleTheorem`,
  `BetweenTheorem`, `SettleTheorem`.  What a cancel or a failure leaves depends
  on what was saved when the calibration began; `IInv` relates the saved factor
  to the last good one in every state, the failed one included.  Samples are
  reduced to four kinds (a calibration goes on, fails, completes, stands still).
* **ImuStack.**  `ServiceInvariant` says that operation is reached only with a
  device that is ready and calibrated and is never left, and that a service that
  has stopped has a cause.  `StackImplementsService` shows that every step of the
  stack is a step of the service or none of its variables change: an access of
  `Begin` that does not end it is a stutter, and one that does is `Begin` with
  the accumulated status.  What is proved of the service then holds of the stack
  (`StackRunsCalibrated`).  `StackReadyConfigured` needs that the accumulated
  status is 1 exactly when an access has failed; `StackLearnsOnlyWhenStill` that
  the counter of learning never runs ahead of the still samples.  `StackTypes`
  bounds the bias, which is learned in steps without a limit of its own: a step
  goes towards what the gyro senses and never past it, and a calibration takes
  what it senses at rest, so the bias stays between rates that can be sensed.
* **Encoder.**  The decode table by places in the quadrature cycle: a step of one
  is counted with its sign, any other changes the error by an even number
  (`EncoderErrorEven`), and none by anything as long as no edge is skipped
  (`EncoderTotalExact`).  `EncoderEdgesSeen` and `EncoderDeltasAddUp` follow from
  where the handler is between its reads and its clear.  Positions are any set of
  integers, so this holds for wheels that turn for ever.
* **LineFollow.**  The invariant (`LineInv`) compares the filtered bias after a
  number of frames that saw the line on one side with the worst case after as
  many (`Behind`): the filter keeps the order of its inputs (`FilterMonotone`),
  treats both sides alike (`FilterOdd`), and no frame is nearer than the one the
  worst case is fed with.  After `LagFrames` of them the worst case is across; then
  the new bias outweighs the derivative's memory of the old one, whatever it was,
  and the turn has its sign (`LineSteersBack`).  `LineTypes` needs that a mean of
  weights is a weight: the sum over a set of channels is bounded by induction on
  its size.  `LineKickIsFiltered` is arithmetic on the bounds of the filter
  (`FilterForm`).  `Sensors` implements each of its parts, so what is proved of
  one holds in it (`SensorsTypes`).
* **SerialLinks.**  Each link has an invariant of its own, and a step of one
  leaves the others alone (`SerialStep`).
  *Vision*: while a task copies and no newer target has come, the part that is
  copied is the target's; a frame that comes in marks its target as new, and the
  task that then looks for new ones starts again (`SerialTargetCurrent`).  The types need that the length and the
  index of the parser stay within the payload.
  What is left on the line is the end of the frame (`LineIsRest`), and the bytes of
  a frame are known by their places (`BytesForm`); so a parser in step sees the
  length, the type, the payload and the checksum it waits for (`StepTaken`, where
  the checksum that the parser adds up is the recursive one of the camera,
  `ChecksumIsDefined`), and `StaysInStep` follows, whatever the payload
  (`SerialStaysInStep`).  A parser out of step (`CatchesUp`) either swallows what it
  takes for a frame, and then the frames missed so far, at eight bytes or more
  each, together with what it still swallows are no more than the longest frame;
  or it has dropped out in the middle of one and looks for the next header, which
  it finds, since no header inside the frame and no byte at its end can lead it
  astray (`EndsClean`).  So `ResyncBound` holds for every longest payload and
  for disturbances however close (`SerialResynchronises`).
  *Command line*: the buffer holds the last `Len(line) % CmdBufLen` bytes of the
  line, since a byte that does not fit starts it anew (`SerialLineIsTail`).
  *Reports*: at every place of an iteration the time for which a report has been
  waiting is bounded by the age of the last emission, of the iteration, or of its
  being switched on (`StreamInv`); the computed ages add up as long as none goes
  round (`SerialStreamIsAlive`).
  *Log*: from the probe's offset to the writer's the ring holds bytes that follow
  each other and end with a message, and behind it the draft of the message being
  written; offsets are compared by their distance round the ring, and the space
  that the task found can only grow while it writes (`SerialMessagesWhole`).  The
  transmitter never holds more than two bytes, one of the task and one of the
  interrupt (`SerialTxFits`).
* **SpiBus.**  `Start` lets an access begin only with the controller at rest, and
  `Drain` goes on until nothing is left to receive; from then on there is one
  byte in the controller while the driver waits for it, and none otherwise.  So
  the bytes collected are 1, 2, ... in order (`SpiImplementsBus`,
  `SpiSelected`), for accesses of any length.
* **MotorOutput.**  The inductive invariant has three parts.  `Base` describes
  which writes every job still has to make and how old the times in them are.
  `Stops` says that, while the control task is silent, its last command ages or a
  stop is on its way.  `AgreesInTheEnd` says that what remains to be executed, in
  the order the priorities give it, leaves duty, pins and PWM alike unless a stop
  tears a command.  From them `MotorNoSpuriousStop`, `MotorStaleDutyCleared`,
  `MotorOutputsMatchDuty` and `MotorStampNotAhead`.

Each of these modules also has a theorem for its types and one for its inductive
invariant.

Some invariants are proved and no longer repeated in a run: the types of
`HealthMonitor`, `AppControl` and `YawCalibration`, `AgesAreExact`,
`FaultHoldsUntilReset`, `MeasuresAtUnity`, `ScaleIsPlausible`, `ErrorIsEven`,
`ReadyMeansCalibrated`, `GivesUpLate`, `StampNotAhead`, `KickIsFiltered`.

A scheme of induction cannot be used as such, since the prover does not
instantiate operators; where a proof needs one (sums over sets of channels, the
recursive worst case of the filter, the checksum) the induction is over the *set* of numbers for
which the statement holds (`Induction` in `SensorProofs` and `SerialProofs`, from the fact that a set
of natural numbers has a least element).

Only model-checked: liveness (`OutageEnds`, `StartUpEnds`, `ErrorsReachTheCar`,
`AtRestYawLocks`, and the parts of `ImplementsService` and `ImplementsBus` that
say that something happens; fairness and ENABLED are beyond the prover), and
`TargetWasSent`.  What is announced in step is proved to be what was sent; that
nothing else is announced out of step depends on which bytes the frames and the
noise have and on how far apart the disturbances are: a payload that contains a
whole frame refutes it, and so do two disturbed frames in a row.  So it is no
theorem of the specification; the run shows it for the frames, the noise and
the `Spacing` it names.

## 5. Where the code and its documents differ

Five runs end in a violation; `PROJECT.json` ("findings") quotes the documents.

1. A stop that preempts `Dev_Motor_SetSignedDuty` between its two writes leaves
   the duty at 0 and the wheel driven; the timeout looks at the duty only.
2. The control task drives again after `System_Fault_Raise` has stopped the
   motors, until the reset.
3. A STOP does not end a direct motor test: the chassis drives on to its
   deadline.
4. A calibration started inside another one saves 1.0 as the previous factor.
5. A car that has lost the line turns with the sign of the remembered bias; on
   the line it turns with the opposite one.  So it turns away from the side on
   which the line was.

Seen while modelling, in the models, and not the subject of a run:

* A request that arrives between the read and the clear of its flag is
  acknowledged and lost (`ClearFlag`).
* A START or a DUTY just before a STOP, in the same 10 ms, survives it: requests
  are consumed in the order stop, start, duty.  In the same way a cancel of the
  yaw calibration is served before a start that preceded it (`Service`).
* `now_ms >= deadline` does not survive a wrap: a test whose deadline is just
  below 2^32 can outlast its hold time.  `HoldIsBounded` is stated until the
  first wrap.
* The grace interval of the health check comes back at every wrap, because its
  age is a wrapping difference too; the bounds of section 4 include it.
* A WHO_AM_I that is misread without a bus error leaves the retry loop at once,
  and a fault follows (`imu_service.c:412`).  Errors in normal operation, however
  many, raise no fault (`imu_service.c:438`): a car in RUN drives on, and a new
  START is refused.
* Start-up tests for rest by the scatter of the samples, so a perfectly even
  rotation would pass.  In operation a rotation slower than 0.35 dps is rest: it
  is learned as bias, and by such steps the bias can creep; a drift beyond
  0.35 dps is never learned.  The lock swallows rotations up to 0.25 dps.  Failing
  samples leave the counters as they are.
* `Begin` sets one field of a local DRIVE_CONFIG0 that is not initialised and
  writes all of it (`dev_icm45688.c:735`); the soft reset follows.
* A line lost has no time limit; all channels active count as lost, too.  Nothing
  is reset at START.  The turn stays below 0.21, so its limit of 40 is never
  reached, and beside a base speed of 80 it is small.
* 's' and 'x' are commands inside any line, also inside the digits of another.
  A line that is too long loses the byte that did not fit and starts anew.
* A reply printed by the interrupt while the task is in `RTT_Log_Write` writes
  from the same offset; the probe reads a mix (`MessagesWhole` says: only then).
* In the vision parser a stray AA in front of a header loses that frame.  A
  payload that repeats AA 55 can keep the parser out of step for as long as it is
  sent; the payloads of the run do not.  Two disturbed frames in a row can make
  up a target that was never sent: a byte too many in front of the length of a
  command makes its length (1) the type of a target, and when the checksum of
  the next frame is lost, a byte of that frame may fit (`Spacing` = 0 shows it).
  The firmware does not call the parser yet.

## 6. Not modelled, and why

* The numbers of the speed loop, odometry, attitude and filters: floating-point
  arithmetic, out of TLC's reach.  The speed loop takes the magnitude of a
  wheel's speed (`chassis.c:181`); missed samples of the IMU are integrated with
  the time of one (`imu_service.c:127`).
* The contents of reports, which are put together from fields that other tasks
  change meanwhile (`telemetry.c:190`), and formats in general.
* The OLED, the I2C driver it uses and the GPIO driver: sequences of register
  accesses without a decision.
* `BSP_Motor_Brake` and the signed commands, which only the test programs use;
  the reset and ready pins of the camera.
* `BSP_Encoder_Poll`, which the fast task calls through
  `Control_Chassis_PollFastInputs` (`chassis.c:107`): it fills diagnostic counters
  that nothing of the firmware decides on.
* The test programs: sequential firmwares for the bench.
* Generated code and the vendored TDK driver, but for the watchdog's period.

## 7. Plan

1. Core: health monitor, motors, commands, yaw calibration, IMU service,
   encoders (done), with proofs (done).
2. Links and devices: SPI, device code of the IMU, line, command line, reports,
   log, vision (done); refinements of `RegisterBus` and `ImuService` (done).
3. Proofs for the sensors and the serial links (done): no safety property of a
   run is without a theorem, but for `TargetWasSent` (section 4).  What could
   follow: a condition on frames and noise under which it holds for any of them.
4. Abstract specifications: a watchdog timer ("a task beats or the car resets"),
   implemented by `HealthMonitor`; a dead-man switch ("no command, no motion"),
   implemented by `MotorOutput` when no stop preempts a command.
5. A composition of `AppControl` and `ImuStack` on one snapshot.
6. `TurnTest` and `StraightTest`, the state machines of the bench programs.
