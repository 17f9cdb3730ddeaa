---------------------------- MODULE HealthMonitor ----------------------------
(***************************************************************************)
(* Task liveness, the fault latch and the window watchdog:                 *)
(* system/health_monitor.c, system/fault_manager.c, system/watchdog.c, the *)
(* health task and the heartbeats of app/app_tasks.c, the fatal hooks of   *)
(* main.c and the fault exits of modules/imu/imu_service.c.                *)
(*                                                                         *)
(* Every monitored task reads the tick at the top of its loop and stores   *)
(* that (by then possibly old) value in s_last_beat_ms at the bottom, so a *)
(* loop is two actions with any amount of preemption between them.  The    *)
(* health task has the highest priority of all tasks: its check, the feed  *)
(* and its System_Fault_Raise are one action.  System_Fault_Raise called   *)
(* by the IMU task can be preempted between its test and its two writes.   *)
(*                                                                         *)
(* What the tasks do between reading the tick and beating is left out, and *)
(* so are the motors that System_Fault_Raise stops (see MotorOutput).      *)
(***************************************************************************)
EXTENDS TickMath

CONSTANTS
  Task,             (* The monitored tasks (HealthTaskId_t).                *)
  Raisers,          (* The tasks that call System_Fault_Raise themselves.   *)
  Deadline,         (* s_deadline_ms, a function on Task.                   *)
  Grace,            (* HEALTH_STARTUP_GRACE_MS.                             *)
  Period,           (* The period of the health task.                       *)
  Jitter,           (* How late after its release the health task can run.  *)
  WatchdogPeriod    (* The period of WWDT0.                                 *)

ASSUME TimingAssumption ==
  /\ Raisers \subseteq Task
  /\ Deadline \in [Task -> Nat]
  /\ Grace \in Nat
  /\ Period \in Nat \ {0}
  /\ Jitter \in Nat

\* The longest silence that can pass before the monitor reports a task.
Reach(t) == Deadline[t] + 2 * (Period + Jitter) + Grace

\* Ages never come near 2^32 ms: the longest one is 3.04 s.
ASSUME WrapIsFar ==
  /\ WatchdogPeriod \in Nat \ {0}
  /\ \A t \in Task : Reach(t) + WatchdogPeriod + 1 < Wrap

None == "NONE"
Codes == {None, "TASK_STALE", "IMU", "STACK", "HEAP"}

VARIABLES
  tick,       \* xTaskGetTickCount()
  due,        \* milliseconds since the release of the health task's next job
  beat,       \* s_last_beat_ms
  stamp,      \* the local `now` of each task; 0 between two loops
  pc,         \* "delay" between loops, "loop" inside; a raiser: its progress
  code,       \* s_code
  detail,     \* s_detail, as the set of tasks of a stale mask
  wdt,        \* milliseconds since WWDT0 was restarted
  core,       \* "halted": interrupts are disabled for good, nothing runs
  age,        \* (ghost) true age of the instant in beat
  stampAge,   \* (ghost) true age of the instant in stamp
  outage      \* (ghost) milliseconds since the fault was raised or the core halted

taskVars  == <<beat, stamp, pc, age, stampAge>>
faultVars == <<code, detail>>
vars == <<tick, due, taskVars, faultVars, wdt, core, outage>>

TypeOK ==
  /\ tick \in Ticks
  /\ due \in 0 .. Period + Jitter
  /\ beat \in [Task -> Ticks]
  /\ stamp \in [Task -> Ticks]
  /\ pc \in [Task -> {"delay", "loop", "raise", "write", "set", "stopped"}]
  /\ code \in Codes
  /\ detail \in SUBSET Task
  /\ wdt \in 0 .. WatchdogPeriod
  /\ core \in {"running", "halted"}
  /\ age \in [Task -> Nat]
  /\ stampAge \in [Task -> Nat]
  /\ outage \in Nat

-----------------------------------------------------------------------------

\* SYSCFG_DL_init, App_Init and the start of the scheduler at tick 0.  The
\* health task runs its first check at once.
Init ==
  /\ tick = 0 /\ due = Period
  /\ beat = [t \in Task |-> 0]
  /\ stamp = [t \in Task |-> 0]
  /\ pc = [t \in Task |-> "delay"]
  /\ code = None /\ detail = {}
  /\ wdt = 0 /\ core = "running"
  /\ age = [t \in Task |-> 0]
  /\ stampAge = [t \in Task |-> 0]
  /\ outage = 0

\* The core still executes instructions.
Running == core = "running" /\ wdt < WatchdogPeriod

-----------------------------------------------------------------------------
(* The monitored tasks.                                                    *)

\* A loop starts: now = xTaskGetTickCount().
BeginLoop(t) ==
  /\ Running /\ pc[t] = "delay"
  /\ pc' = [pc EXCEPT ![t] = "loop"]
  /\ stamp' = [stamp EXCEPT ![t] = tick]
  /\ stampAge' = [stampAge EXCEPT ![t] = 0]
  /\ UNCHANGED <<tick, due, beat, age, faultVars, wdt, core, outage>>

\* System_Health_Beat(t, now) with the `now` of the top of the loop.
Beat(t) ==
  /\ Running /\ pc[t] = "loop"
  /\ pc' = [pc EXCEPT ![t] = "delay"]
  /\ beat' = [beat EXCEPT ![t] = stamp[t]]
  /\ age' = [age EXCEPT ![t] = stampAge[t]]
  /\ stamp' = [stamp EXCEPT ![t] = 0]
  /\ stampAge' = [stampAge EXCEPT ![t] = 0]
  /\ UNCHANGED <<tick, due, faultVars, wdt, core, outage>>

\* A task stops beating: it blocks or loops for ever in a driver.
Hang(t) ==
  /\ Running /\ pc[t] \in {"delay", "loop"}
  /\ pc' = [pc EXCEPT ![t] = "stopped"]
  /\ stamp' = [stamp EXCEPT ![t] = 0]
  /\ stampAge' = [stampAge EXCEPT ![t] = 0]
  /\ UNCHANGED <<tick, due, beat, age, faultVars, wdt, core, outage>>

-----------------------------------------------------------------------------
(* System_Fault_Raise(SYSTEM_FAULT_IMU, status) in the IMU task, which     *)
(* then idles for ever without beating.                                    *)

GiveUp(t) ==
  /\ Running /\ t \in Raisers /\ pc[t] = "delay"
  /\ pc' = [pc EXCEPT ![t] = "raise"]
  /\ UNCHANGED <<tick, due, beat, stamp, age, stampAge, faultVars, wdt, core,
                 outage>>

\* if (s_code == SYSTEM_FAULT_NONE)
RaiseTest(t) ==
  /\ Running /\ pc[t] = "raise"
  /\ pc' = [pc EXCEPT ![t] = IF code = None THEN "write" ELSE "stopped"]
  /\ UNCHANGED <<tick, due, beat, stamp, age, stampAge, faultVars, wdt, core,
                 outage>>

\* s_detail = detail
RaiseDetail(t) ==
  /\ Running /\ pc[t] = "write"
  /\ pc' = [pc EXCEPT ![t] = "set"]
  /\ detail' = {}
  /\ UNCHANGED <<tick, due, beat, stamp, age, stampAge, code, wdt, core,
                 outage>>

\* s_code = code
RaiseCode(t) ==
  /\ Running /\ pc[t] = "set"
  /\ pc' = [pc EXCEPT ![t] = "stopped"]
  /\ code' = "IMU"
  /\ UNCHANGED <<tick, due, beat, stamp, age, stampAge, detail, wdt, core,
                 outage>>

-----------------------------------------------------------------------------
(* The health task.                                                        *)

\* s_started_ms, the argument of System_Health_Init in App_Init
StartedMs == 0

\* Mutants: a task is stale at its deadline, a period late, or never if it
\* raises faults itself.
StaleAtDeadline ==
  IF Sub(tick, StartedMs) >= Grace
    THEN {t \in Task : Sub(tick, beat[t]) >= Deadline[t]}
    ELSE {}
StaleLate ==
  IF Sub(tick, StartedMs) >= Grace
    THEN {t \in Task : Sub(tick, beat[t]) > Deadline[t] + Period}
    ELSE {}
StaleSkipsRaisers ==
  IF Sub(tick, StartedMs) >= Grace
    THEN {t \in Task \ Raisers : Sub(tick, beat[t]) > Deadline[t]}
    ELSE {}

\* The mask System_Health_Check computes.
StaleMask ==
  IF Sub(tick, StartedMs) >= Grace
    THEN {t \in Task : Sub(tick, beat[t]) > Deadline[t]}
    ELSE {}

\* System_Fault_Raise when nothing can preempt it: the first fault is kept.
RaiseAtomically(newCode, newDetail) ==
  /\ code' = IF code = None THEN newCode ELSE code
  /\ detail' = IF code = None THEN newDetail ELSE detail

\* Mutant: the watchdog is fed in spite of a fault.
FeedsInFault ==
  /\ Running /\ due >= Period
  /\ due' = due - Period
  /\ IF StaleMask = {}
       THEN wdt' = 0 /\ UNCHANGED faultVars
       ELSE UNCHANGED wdt /\ RaiseAtomically("TASK_STALE", StaleMask)
  /\ UNCHANGED <<tick, taskVars, core, outage>>

\* One iteration of health_task.  vTaskDelayUntil keeps the releases Period
\* apart however late a job ran.
HealthCheck ==
  /\ Running /\ due >= Period
  /\ due' = due - Period
  /\ IF StaleMask = {} /\ code = None
       THEN wdt' = 0 /\ UNCHANGED faultVars      \* System_Watchdog_Feed
       ELSE /\ UNCHANGED wdt
            /\ IF StaleMask # {}
                 THEN RaiseAtomically("TASK_STALE", StaleMask)
                 ELSE UNCHANGED faultVars
  /\ UNCHANGED <<tick, taskVars, core, outage>>

-----------------------------------------------------------------------------
(* Fatal errors.                                                           *)

\* vApplicationStackOverflowHook, vApplicationMallocFailedHook and
\* vApplicationAssertHook: raise, disable interrupts, loop.
FatalHook(newCode) ==
  /\ Running /\ newCode \in {"STACK", "HEAP"}
  /\ RaiseAtomically(newCode, {})
  /\ core' = "halted"
  /\ UNCHANGED <<tick, due, taskVars, wdt, outage>>

\* Scheduling or interrupts stop without a fault being raised: the scheduler
\* returned to main, or a CPU exception.
Wedge ==
  /\ Running
  /\ core' = "halted"
  /\ UNCHANGED <<tick, due, taskVars, faultVars, wdt, outage>>

-----------------------------------------------------------------------------
(* Time and reset.                                                         *)

Older(f) == [t \in Task |-> f[t] + 1]

\* A loop that has not started keeps no stamp to grow old.
OlderStamps == [t \in Task |-> IF pc[t] = "loop" THEN stampAge[t] + 1 ELSE 0]

\* One millisecond.  The health task is never held up longer than Jitter.
Tick ==
  /\ Running /\ due < Period + Jitter
  /\ tick' = Inc(tick)
  /\ due' = due + 1
  /\ wdt' = wdt + 1
  /\ age' = Older(age)
  /\ stampAge' = OlderStamps
  /\ outage' = IF code = None THEN 0 ELSE outage + 1
  /\ UNCHANGED <<beat, stamp, pc, faultVars, core>>

\* One millisecond with the core halted: only the watchdog, on its own
\* clock, counts.
HaltedTick ==
  /\ core = "halted" /\ wdt < WatchdogPeriod
  /\ wdt' = wdt + 1
  /\ age' = Older(age)
  /\ stampAge' = OlderStamps
  /\ outage' = outage + 1
  /\ UNCHANGED <<tick, due, beat, stamp, pc, faultVars, core>>

\* Mutant: the fault latch survives the reset, and the next boot finds it.
ResetKeepsFault ==
  /\ wdt = WatchdogPeriod
  /\ tick' = 0 /\ due' = Period
  /\ beat' = [t \in Task |-> 0]
  /\ stamp' = [t \in Task |-> 0]
  /\ pc' = [t \in Task |-> "delay"]
  /\ UNCHANGED faultVars
  /\ wdt' = 0 /\ core' = "running"
  /\ age' = [t \in Task |-> 0]
  /\ stampAge' = [t \in Task |-> 0]
  /\ outage' = 0

\* WWDT0 expires and resets the MCU.
Reset ==
  /\ wdt = WatchdogPeriod
  /\ tick' = 0 /\ due' = Period
  /\ beat' = [t \in Task |-> 0]
  /\ stamp' = [t \in Task |-> 0]
  /\ pc' = [t \in Task |-> "delay"]
  /\ code' = None /\ detail' = {}
  /\ wdt' = 0 /\ core' = "running"
  /\ age' = [t \in Task |-> 0]
  /\ stampAge' = [t \in Task |-> 0]
  /\ outage' = 0

-----------------------------------------------------------------------------

TaskStep(t) ==
  \/ BeginLoop(t) \/ Beat(t) \/ Hang(t)
  \/ GiveUp(t) \/ RaiseTest(t) \/ RaiseDetail(t) \/ RaiseCode(t)

Next ==
  \/ \E t \in Task : TaskStep(t)
  \/ HealthCheck
  \/ \E c \in {"STACK", "HEAP"} : FatalHook(c)
  \/ Wedge
  \/ Tick \/ HaltedTick \/ Reset

Spec == Init /\ [][Next]_vars

\* Time passes, the hardware watchdog works, and the scheduler runs the
\* highest-priority task when it is due.  No fairness on the monitored tasks.
Fairness ==
  /\ WF_vars(HealthCheck)
  /\ WF_vars(Tick) /\ WF_vars(HaltedTick)
  /\ WF_vars(Reset)

FairSpec == Spec /\ Fairness

-----------------------------------------------------------------------------
(* Properties.                                                             *)

\* Detection latency.  Outside the two-second grace interval, as long as no
\* fault is raised and the core runs, no heartbeat is older than its deadline
\* by more than one period of the health task (plus its jitter).
DetectionLatency ==
  (code = None /\ core = "running" /\ tick >= Grace + due)
    => \A t \in Task : age[t] <= Deadline[t] + due

\* No task is silent longer than Reach(t) + WatchdogPeriod without the MCU
\* being reset, whatever hangs, halts or wraps.
SilenceIsBounded ==
  \A t \in Task : age[t] <= Reach(t) + WatchdogPeriod

\* Once a fault is raised or the core halts, the reset comes within one
\* watchdog period.
OutageIsBounded == outage <= WatchdogPeriod

\* The ages the monitor computes from wrapping 32-bit values are the true
\* ones, so modular subtraction never makes a stale task look fresh.
AgesAreExact ==
  core = "running" => \A t \in Task : Sub(tick, beat[t]) = age[t]

\* The monitor never accuses a task that met its deadline.
NoFalseAlarm ==
  [][ (code = None /\ code' = "TASK_STALE")
        => /\ detail' # {}
           /\ \A t \in detail' : age[t] > Deadline[t] ]_vars

\* A fault code, once set, is neither cleared nor followed by a feed of the
\* watchdog; only the reset ends it.
FaultHoldsUntilReset ==
  [][ code # None => \/ wdt = WatchdogPeriod
                     \/ code' # None /\ wdt' >= wdt ]_vars

\* Every outage ends in a reset: a task that stopped, a fault, a halted core.
OutageEnds ==
  /\ \A t \in Task : pc[t] = "stopped" ~> pc[t] # "stopped"
  /\ code # None ~> code = None
  /\ core = "halted" ~> core = "running"

=============================================================================
