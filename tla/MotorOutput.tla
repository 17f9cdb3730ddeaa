----------------------------- MODULE MotorOutput -----------------------------
(***************************************************************************)
(* The motor module under preemption: modules/motor/bsp_motor.c,           *)
(* modules/motor/dev_motor.c, platform/mspm0g3507/drivers/                 *)
(* drv_hbridge_motor.c and drv_pwm.c, called by the control task (commands *)
(* and stops), by the fast task (BSP_Motor_SafetyTick) and by the health   *)
(* task (System_Fault_Raise), with the global clock g_tick_ms that three   *)
(* tasks write.                                                            *)
(*                                                                         *)
(* A motor is known twice: motor->duty, which the software reads back, and *)
(* the registers of the H-bridge (direction pin, PWM compare), which move  *)
(* the wheel.  No lock covers the two, so a call is a sequence of single   *)
(* memory or register writes, and a task of higher priority can run        *)
(* between any two of them.                                                *)
(*                                                                         *)
(* A task's job is the sequence of the accesses it has still to make, with *)
(* the values of its locals in them.                                       *)
(* BSP_Motor_SetDuty clips negative duties to 0 and the direction of both  *)
(* motors is -1, so IN2 stays low in the application: in1 alone tells      *)
(* coasting from driving.  The IMU task raises faults too, at the priority *)
(* of the fast task; its stops are those of the health task here, which    *)
(* preempts at least as much.  Instants are kept as true times; the code   *)
(* sees their differences modulo Wrap.                                     *)
(***************************************************************************)
EXTENDS Integers, Sequences

CONSTANTS
  PwmMax,           (* PWM_MAX.                                             *)
  Commands,         (* The pairs of duties the control task can command.    *)
  Timeout,          (* MOTOR_COMMAND_TIMEOUT_MS.                            *)
  FastWindow,       (* Longest time between two SafetyTicks.                *)
  Wrap,             (* Number of values of the 32-bit millisecond counter.  *)
  MaxTick           (* Bound of the model on elapsed time.                  *)

ASSUME MotorAssumption ==
  /\ PwmMax \in Nat \ {0}
  /\ Commands \subseteq Int \X Int
  /\ Timeout \in Nat /\ FastWindow \in Nat \ {0}
  /\ MaxTick \in Nat /\ Wrap \in Nat /\ Wrap > MaxTick

Channel == {1, 2}   \* channels 0 and 1 of the code: left and right
Duty == 0 .. PwmMax

VARIABLES
  tick,       \* the true time
  gTick,      \* g_tick_ms
  duty,       \* motor->duty
  in1, pwm,   \* direction pin and PWM compare of each H-bridge
  lastCmd,    \* s_last_command_ms
  todo,       \* the accesses each task has still to make in its job
  fault,      \* a fault has been raised
  fastWait,   \* (ghost) time since the last SafetyTick
  idle,       \* (ghost) time since the control task last ran
  cmdAge,     \* (ghost) age of the `now` of the control job of the last command
  torn        \* (ghost) a stop has preempted the control task in its job

\* The ghost ages stop at the largest value a property compares them with.
Capped(n, cap) == IF n > cap THEN cap ELSE n
IdleCap == Timeout + 2 * FastWindow + 1
CmdCap == Timeout + FastWindow + 1

hardware == <<in1, pwm>>
vars == <<tick, gTick, duty, hardware, lastCmd, todo, fault, fastWait, idle,
          cmdAge, torn>>

TaskName == {"telem", "ctrl", "fast", "health"}

\* Priorities in create_tasks.
Priority == [telem |-> 2, ctrl |-> 3, fast |-> 4, health |-> 5]

-----------------------------------------------------------------------------
(* The calls, as sequences of accesses.  An access that uses the local     *)
(* `now` of the job carries it, and so do those of a command, whose age    *)
(* the ghost cmdAge takes from it.                                         *)

SetDutyField(c, d) == [op |-> "duty", ch |-> c, val |-> d]
SetPin(c, b)       == [op |-> "in1", ch |-> c, val |-> b]
SetPwm(c, d)       == [op |-> "pwm", ch |-> c, val |-> d]
SetGlobalTick(now) == [op |-> "gtick", at |-> now]
LoadTick(now)      == [op |-> "load", at |-> now]
Stamp(now, v)      == [op |-> "stamp", at |-> now, val |-> v]
Safety(now)        == [op |-> "safety", at |-> now]

\* The clipping of BSP_Motor_SetDuty.
ClipOnlyAbove(d) == IF d > PwmMax THEN PwmMax ELSE d   \* mutant
Clip(d) == IF d > PwmMax THEN PwmMax ELSE IF d < 0 THEN 0 ELSE d

\* Drv_HBridgeMotor_Coast and Drv_HBridgeMotor_SetSignedDuty
CoastKeepsPwm(c) == <<SetPin(c, 0)>>   \* mutant
Coast(c)    == <<SetPwm(c, 0), SetPin(c, 0)>>
Drive(c, d) == <<SetPin(c, 1), SetPwm(c, d)>>

\* Dev_Motor_SetSignedDuty
DevSet(c, d) == <<SetDutyField(c, d)>> \o (IF d = 0 THEN Coast(c) ELSE Drive(c, d))

\* BSP_Motor_SetDuty: the command, then the load of g_tick_ms that becomes
\* the store to s_last_command_ms.
BspSet(c, d, now) == DevSet(c, Clip(d)) \o <<LoadTick(now)>>
BspSetBoth(d, now) == BspSet(1, d[1], now) \o BspSet(2, d[2], now)
StopBoth(now) == BspSetBoth(<<0, 0>>, now)

\* App_State_Tick stops the motors for a stop request and for a duty request.
StateStops(now) == {<<>>, StopBoth(now), StopBoth(now) \o StopBoth(now)}

\* The control task: App_State_Tick, then Control_Chassis_Tick commands both.
CtrlJobs(now) ==
  {<<SetGlobalTick(now)>> \o stops \o BspSetBoth(d, now) :
     stops \in StateStops(now), d \in Commands}

\* What a task that reads the tick `now` has to do in its job.  Nothing in
\* System_Fault_Raise depends on the time; 0 stands for it.
Jobs(t, now) ==
  CASE t = "telem"  -> {<<SetGlobalTick(now)>>}
    [] t = "ctrl"   -> CtrlJobs(now)
    [] t = "fast"   -> {<<SetGlobalTick(now), Safety(now)>>}
    [] t = "health" -> {StopBoth(0)}

-----------------------------------------------------------------------------

TypeOK ==
  /\ tick \in 0 .. MaxTick /\ gTick \in 0 .. MaxTick
  /\ duty \in [Channel -> Duty] /\ pwm \in [Channel -> Duty]
  /\ in1 \in [Channel -> {0, 1}]
  /\ lastCmd \in 0 .. MaxTick
  /\ \A t \in TaskName : Len(todo[t]) <= 25
  /\ fault \in BOOLEAN /\ torn \in BOOLEAN
  /\ fastWait \in 0 .. FastWindow
  /\ idle \in 0 .. IdleCap /\ cmdAge \in 0 .. CmdCap

\* BSP_Motor_Init, before the scheduler starts.
Init ==
  /\ tick = 0 /\ gTick = 0
  /\ duty = [c \in Channel |-> 0]
  /\ in1 = [c \in Channel |-> 0]
  /\ pwm = [c \in Channel |-> 0]
  /\ lastCmd = 0
  /\ todo = [t \in TaskName |-> <<>>]
  /\ fault = FALSE
  /\ fastWait = 0 /\ idle = 0 /\ cmdAge = 0 /\ torn = FALSE

-----------------------------------------------------------------------------
(* The scheduler.                                                          *)

\* No task of a higher priority is ready: t has the processor.
HasProcessor(t) ==
  \A u \in TaskName : Priority[u] > Priority[t] => todo[u] = <<>>

\* t has the processor, and its next access is an `op`.
Executes(t, op) ==
  HasProcessor(t) /\ todo[t] # <<>> /\ Head(todo[t]).op = op

\* The access is made; the control task is busy while it has others.
Continue(t) ==
  /\ todo' = [todo EXCEPT ![t] = Tail(@)]
  /\ idle' = IF t = "ctrl" THEN 0 ELSE idle

\* A stop by another task while the control task is inside its job.
Tears(t) == torn \/ (t # "ctrl" /\ todo["ctrl"] # <<>>)

\* A periodic task (or health, when it has found a fault) starts its job,
\* which begins with now = xTaskGetTickCount().
Start(t) ==
  /\ HasProcessor(t) /\ todo[t] = <<>>
  /\ \E job \in Jobs(t, tick) : todo' = [todo EXCEPT ![t] = job]
  /\ torn' = IF t = "ctrl" THEN FALSE ELSE torn
  /\ idle' = IF t = "ctrl" THEN 0 ELSE idle
  /\ fault' = (fault \/ t = "health")
  /\ UNCHANGED <<tick, gTick, duty, hardware, lastCmd, fastWait, cmdAge>>

\* g_tick_ms = now
WriteGlobalTick(t) ==
  /\ Executes(t, "gtick") /\ Continue(t)
  /\ gTick' = Head(todo[t]).at
  /\ UNCHANGED <<tick, duty, hardware, lastCmd, fault, fastWait, cmdAge, torn>>

\* motor->duty = duty
WriteDuty(t) ==
  /\ Executes(t, "duty") /\ Continue(t)
  /\ LET a == Head(todo[t]) IN duty' = [duty EXCEPT ![a.ch] = a.val]
  /\ torn' = Tears(t)
  /\ UNCHANGED <<tick, gTick, hardware, lastCmd, fault, fastWait, cmdAge>>

\* Drv_Gpio_WriteRaw
WritePin(t) ==
  /\ Executes(t, "in1") /\ Continue(t)
  /\ LET a == Head(todo[t]) IN in1' = [in1 EXCEPT ![a.ch] = a.val]
  /\ UNCHANGED <<tick, gTick, duty, pwm, lastCmd, fault, fastWait, cmdAge, torn>>

\* Drv_Pwm_SetDutyPermille
WritePwm(t) ==
  /\ Executes(t, "pwm") /\ Continue(t)
  /\ LET a == Head(todo[t]) IN pwm' = [pwm EXCEPT ![a.ch] = a.val]
  /\ UNCHANGED <<tick, gTick, duty, in1, lastCmd, fault, fastWait, cmdAge, torn>>

\* Drv_Time_Millis: what is loaded has still to be stored.
LoadGlobalTick(t) ==
  /\ Executes(t, "load")
  /\ todo' = [todo EXCEPT ![t] = <<Stamp(Head(@).at, gTick)>> \o Tail(@)]
  /\ UNCHANGED <<tick, gTick, duty, hardware, lastCmd, fault, fastWait, idle,
                 cmdAge, torn>>

\* s_last_command_ms = what was loaded
StampCommand(t) ==
  /\ Executes(t, "stamp") /\ Continue(t)
  /\ lastCmd' = Head(todo[t]).val
  /\ cmdAge' = IF t = "ctrl" THEN Capped(tick - Head(todo[t]).at, CmdCap)
                             ELSE cmdAge
  /\ UNCHANGED <<tick, gTick, duty, hardware, fault, fastWait, torn>>

\* Mutants: both motors have to be driven; the timeout comes a tick early.
StaleWhenBothDriven(now) ==
  /\ \A c \in Channel : duty[c] # 0
  /\ (now - lastCmd) % Wrap > Timeout
StaleAtTimeout(now) ==
  /\ \E c \in Channel : duty[c] # 0
  /\ (now - lastCmd) % Wrap >= Timeout

\* The test of BSP_Motor_SafetyTick, at the time `now` of its caller.
CommandIsStale(now) ==
  /\ \E c \in Channel : duty[c] # 0
  /\ (now - lastCmd) % Wrap > Timeout

\* BSP_Motor_SafetyTick: its stops are not stamped.
SafetyTick ==
  /\ Executes("fast", "safety")
  /\ todo' = [todo EXCEPT !["fast"] =
                IF CommandIsStale(Head(@).at) THEN DevSet(1, 0) \o DevSet(2, 0)
                                              ELSE <<>>]
  /\ fastWait' = 0
  /\ UNCHANGED <<tick, gTick, duty, hardware, lastCmd, fault, idle, cmdAge, torn>>

\* One millisecond.  The fast task keeps its window; nothing else is bounded.
Tick ==
  /\ tick < MaxTick /\ fastWait < FastWindow
  /\ tick' = tick + 1
  /\ fastWait' = fastWait + 1
  /\ idle' = IF todo["ctrl"] = <<>> THEN Capped(idle + 1, IdleCap) ELSE 0
  /\ cmdAge' = Capped(cmdAge + 1, CmdCap)
  /\ UNCHANGED <<gTick, duty, hardware, lastCmd, todo, fault, torn>>

TaskStep(t) ==
  \/ Start(t) \/ WriteGlobalTick(t) \/ WriteDuty(t)
  \/ WritePin(t) \/ WritePwm(t) \/ LoadGlobalTick(t) \/ StampCommand(t)

Next ==
  \/ \E t \in TaskName : TaskStep(t)
  \/ SafetyTick \/ Tick

Spec == Init /\ [][Next]_vars

-----------------------------------------------------------------------------
(* Properties.                                                             *)

\* The wheel is driven: one input high and a nonzero duty cycle.
Driven(c) == in1[c] = 1 /\ pwm[c] # 0

\* The command timeout never fires on a command that is fresh: SafetyTick
\* stops the motors only if the control job of the last command began more
\* than Timeout ago, whatever g_tick_ms went through meanwhile.  (After a
\* fault a stale stamp can only repeat a stop.)
NoSpuriousStop ==
  [][ (/\ Executes("fast", "safety") /\ ~fault
       /\ todo'["fast"] \notin {todo["fast"], <<>>})
        => cmdAge - (tick - Head(todo["fast"]).at) > Timeout ]_vars

\* The timeout's age is never negative, hence never wraps to 49 days: the
\* stamp is not newer than the clock it is compared with.
StampNotAhead ==
  (todo["fast"] # <<>> /\ Head(todo["fast"]).op = "safety")
    => lastCmd <= Head(todo["fast"]).at

\* The control task has been silent for the timeout and the time of the
\* SafetyTick that follows.
CommandsStopped == idle = IdleCap /\ todo["fast"] = <<>>

\* What the software believes: when the commands have stopped, both duty
\* fields are 0.
StaleDutyCleared == CommandsStopped => \A c \in Channel : duty[c] = 0

\* Software and hardware agree between jobs, unless a stop by another task
\* fell inside the last control job.
OutputsMatchDuty ==
  (\A t \in TaskName : todo[t] = <<>>) /\ ~torn
    => \A c \in Channel : pwm[c] = duty[c] /\ (duty[c] # 0 <=> in1[c] = 1)

\* README.md: "The motor module also stops non-zero output when commands have
\* not been refreshed for 100 ms."  Here of the real output.
StaleOutputStops == CommandsStopped => \A c \in Channel : ~Driven(c)

=============================================================================
