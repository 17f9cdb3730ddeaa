----------------------------- MODULE AppControl -----------------------------
(***************************************************************************)
(* The commands and the state machine of the car: app/app_state.c,         *)
(* app/app_mission.c, control/chassis.c, the request flags of              *)
(* modules/telemetry/telemetry.c and the control task of app/app_tasks.c.  *)
(*                                                                         *)
(* The UART interrupt parses a line and sets a request flag; the control   *)
(* task consumes the flags every 10 ms, in the order stop, start, duty.    *)
(* No critical section covers a flag: the control task reads it and then   *)
(* clears it, and the interrupt can run in between.  A job of the control  *)
(* task is therefore one action per access to a flag, and everything else  *)
(* it does, which no other context touches, goes with the access before it.*)
(*                                                                         *)
(* What is commanded is abstracted to where it comes from: "off", "run"    *)
(* (the speed loop of a mission) or "debug" ($DUTY).  A fault raised by    *)
(* another task stops the motors under the control task (System_Fault_     *)
(* Raise).  MotorOutput refines the commands to registers, HealthMonitor   *)
(* the faults.                                                             *)
(***************************************************************************)
EXTENDS TickMath

CONSTANTS
  Commands,         (* The kinds of command the operator sends.             *)
  Holds,            (* The hold_ms fields of $DUTY commands.                *)
  DefaultHold,      (* 800u in Control_Chassis_SetDebugDuty.                *)
  CtrlWindow        (* Longest time between two jobs of the control task,   *)
                    (* and longest duration of one.                         *)

ASSUME ControlAssumption ==
  /\ Commands \subseteq {"START", "STOP", "DUTY"}
  /\ Holds \subseteq Ticks /\ Holds # {}
  /\ DefaultHold \in Ticks
  /\ CtrlWindow \in Nat \ {0}

VARIABLES
  tick,       \* xTaskGetTickCount()
  request,    \* s_stop_request, s_start_request and s_duty_request_pending
  dutyHold,   \* s_duty_request.hold_ms
  pc,         \* where the control task is in its job
  now,        \* the local `now` of the job
  seen,       \* consume_flag's value, or Telemetry_ConsumeDutyRequest's copy
  state,      \* ctx->state
  imuReady,   \* ctx->imu_ready, as the fast task last copied it
  debug,      \* debug_pwm_active
  deadline,   \* debug_pwm_deadline_ms
  output,     \* what the motors were last told to do
  fault,      \* "raised" once System_Fault_Raise has been called
  wait,       \* (ghost) time since the job began
  laps,       \* (ghost) 1 once the tick counter has wrapped
  accepted,   \* (ghost) the `now` of the last SetDebugDuty
  hold,       \* (ghost) the hold time it asked for
  fresh,      \* (ghost) 1: a START came after the last look at its flag
  credit,     \* (ghost) 1: a START has come that entered no RUN and was
              \*         not refused
  stopLast    \* (ghost) 1: the last command was a STOP, received when all
              \*         others had been served

ctrlVars  == <<pc, now, seen>>
driveVars == <<state, debug, deadline, output>>
ghosts    == <<accepted, hold, fresh, credit, stopLast>>
vars == <<tick, request, dutyHold, ctrlVars, driveVars, imuReady, fault, wait,
          laps, ghosts>>

Request == {"STOP", "START", "DUTY"}
Flag == {0, 1}

TypeOK ==
  /\ tick \in Ticks
  /\ request \in [Request -> Flag]
  /\ dutyHold \in Holds \cup {0}
  /\ pc \in {"delay", "stopRead", "stopClear", "startRead", "startClear",
             "dutyTest", "dutyCopy", "dutyClear", "drive"}
  /\ now \in Ticks
  /\ seen \in Ticks
  /\ state \in {"IDLE", "RUN"}
  /\ imuReady \in Flag
  /\ debug \in Flag
  /\ deadline \in Ticks
  /\ output \in {"off", "run", "debug"}
  /\ fault \in {"none", "raised"}
  /\ wait \in 0 .. CtrlWindow
  /\ laps \in Flag
  /\ accepted \in Ticks /\ hold \in Ticks
  /\ fresh \in Flag /\ credit \in Flag /\ stopLast \in Flag

-----------------------------------------------------------------------------

\* App_Init: App_State_Init sets IDLE, which stops the motors.
Init ==
  /\ tick = 0
  /\ request = [r \in Request |-> 0]
  /\ dutyHold = 0
  /\ pc = "delay" /\ now = 0 /\ seen = 0
  /\ state = "IDLE" /\ imuReady = 0
  /\ debug = 0 /\ deadline = 0 /\ output = "off"
  /\ fault = "none"
  /\ wait = 0 /\ laps = 0
  /\ accepted = 0 /\ hold = 0
  /\ fresh = 0 /\ credit = 0 /\ stopLast = 0

-----------------------------------------------------------------------------
(* The UART interrupt: Telemetry_OnRxByte at the end of a line.            *)

\* 's', $START or $RUN; 'x' or $STOP
Receive(r) ==
  /\ r \in Commands \ {"DUTY"}
  /\ request' = [request EXCEPT ![r] = 1]
  /\ IF r = "START" THEN fresh' = 1 /\ credit' = 1 ELSE UNCHANGED <<fresh, credit>>
  /\ stopLast' = IF r = "STOP" /\ pc = "delay"
                      /\ request["START"] = 0 /\ request["DUTY"] = 0
                   THEN 1 ELSE 0
  /\ UNCHANGED <<tick, dutyHold, ctrlVars, driveVars, imuReady, fault, wait,
                 laps, accepted, hold>>

\* $DUTY,left,right,hold (handle_duty)
ReceiveDuty(h) ==
  /\ "DUTY" \in Commands /\ h \in Holds
  /\ dutyHold' = h
  /\ request' = [request EXCEPT !["DUTY"] = 1]
  /\ stopLast' = 0
  /\ UNCHANGED <<tick, ctrlVars, driveVars, imuReady, fault, wait, laps,
                 accepted, hold, fresh, credit>>

-----------------------------------------------------------------------------
(* The control task.                                                       *)

\* now = xTaskGetTickCount()
BeginJob ==
  /\ pc = "delay"
  /\ pc' = "stopRead" /\ now' = tick /\ wait' = 0
  /\ UNCHANGED <<tick, request, dutyHold, seen, driveVars, imuReady, fault,
                 laps, ghosts>>

\* App_State_Set(s): a state other than RUN stops the motors.
SetState(s) ==
  /\ state' = s
  /\ output' = IF s = "RUN" THEN output ELSE "off"

\* value = *flag in consume_flag
ReadFlag(r, from, to) ==
  /\ pc = from /\ pc' = to
  /\ seen' = request[r]
  /\ fresh' = IF r = "START" THEN 0 ELSE fresh
  /\ UNCHANGED <<tick, request, dutyHold, now, driveVars, imuReady, fault,
                 wait, laps, accepted, hold, credit, stopLast>>

ReadStop  == ReadFlag("STOP", "stopRead", "stopClear")
ReadStart == ReadFlag("START", "startRead", "startClear")

\* Mutant: a refused START is remembered.
ClearUnlessRefused(r) ==
  request' = [request EXCEPT ![r] = IF r = "START" /\ imuReady = 0 THEN @ ELSE 0]

\* *flag = 0 in consume_flag
ClearFlag(r) == request' = [request EXCEPT ![r] = 0]

ClearStop ==
  /\ pc = "stopClear" /\ pc' = "startRead"
  /\ ClearFlag("STOP")
  /\ IF seen = 1 THEN SetState("IDLE") ELSE UNCHANGED <<state, output>>
  /\ UNCHANGED <<tick, dutyHold, now, seen, debug, deadline, imuReady, fault,
                 wait, laps, ghosts>>

\* The condition under which App_State_Tick enters RUN.
StartGranted == seen = 1 /\ imuReady = 1

\* Control_Chassis_ResetOdometry is left out with the pose.
ClearStart ==
  /\ pc = "startClear" /\ pc' = "dutyTest"
  /\ ClearFlag("START")
  /\ IF StartGranted THEN SetState("RUN") ELSE UNCHANGED <<state, output>>
  /\ credit' = IF seen = 1 /\ fresh = 0 THEN 0 ELSE credit
  /\ UNCHANGED <<tick, dutyHold, now, seen, debug, deadline, imuReady, fault,
                 wait, laps, accepted, hold, fresh, stopLast>>

\* if (!s_duty_request_pending) return 0
TestDuty ==
  /\ pc = "dutyTest"
  /\ pc' = IF request["DUTY"] = 1 THEN "dutyCopy" ELSE "drive"
  /\ UNCHANGED <<tick, request, dutyHold, now, seen, driveVars, imuReady, fault,
                 wait, laps, ghosts>>

\* *request = s_duty_request
CopyDuty ==
  /\ pc = "dutyCopy" /\ pc' = "dutyClear"
  /\ seen' = dutyHold
  /\ UNCHANGED <<tick, request, dutyHold, now, driveVars, imuReady, fault,
                 wait, laps, ghosts>>

\* Mutant: the default is not used in the deadline.
DeadlineWithoutDefault(h) ==
  /\ hold' = (IF h = 0 THEN DefaultHold ELSE h)
  /\ deadline' = Add(now, h)

\* Control_Chassis_SetDebugDuty(.., now_ms, hold_ms)
DeadlineOf(h) ==
  /\ hold' = (IF h = 0 THEN DefaultHold ELSE h)
  /\ deadline' = Add(now, hold')

\* s_duty_request_pending = 0, then App_State_Set and SetDebugDuty
ClearDuty ==
  /\ pc = "dutyClear" /\ pc' = "drive"
  /\ ClearFlag("DUTY")
  /\ SetState("IDLE")
  /\ debug' = 1 /\ DeadlineOf(seen)
  /\ accepted' = now
  /\ UNCHANGED <<tick, dutyHold, now, seen, imuReady, fault, wait, laps,
                 fresh, credit, stopLast>>

HoldElapsedLate == now > deadline   \* mutant

\* The test of Control_Chassis_Tick: a plain comparison of two ticks.
HoldElapsed == now >= deadline

\* Mutant: the test that expires does not stop the motors.
DriveOnAfterTest ==
  /\ pc = "drive" /\ pc' = "delay"
  /\ IF state # "RUN" /\ debug = 1 /\ HoldElapsed
       THEN debug' = 0 /\ deadline' = 0 /\ UNCHANGED output
       ELSE /\ UNCHANGED <<debug, deadline>>
            /\ output' = IF state = "RUN" THEN "run"
                         ELSE IF debug = 1 THEN "debug" ELSE "off"
  /\ UNCHANGED <<tick, request, dutyHold, now, seen, state, imuReady, fault,
                 wait, laps, ghosts>>

\* App_Mission_Tick and Control_Chassis_Tick, after which the job ends.
Drive ==
  /\ pc = "drive" /\ pc' = "delay"
  /\ IF state # "RUN" /\ debug = 1 /\ HoldElapsed
       THEN debug' = 0 /\ deadline' = 0        \* Control_Chassis_ClearDebugDuty
       ELSE UNCHANGED <<debug, deadline>>
  /\ output' = IF state = "RUN" THEN "run"
               ELSE IF debug' = 1 THEN "debug" ELSE "off"
  /\ UNCHANGED <<tick, request, dutyHold, now, seen, state, imuReady, fault,
                 wait, laps, ghosts>>

-----------------------------------------------------------------------------
(* The other tasks and time.                                               *)

\* The fast task's copy_imu_snapshot sees the IMU become ready, or an error.
CopySnapshot ==
  /\ imuReady' \in Flag \ {imuReady}
  /\ UNCHANGED <<tick, request, dutyHold, ctrlVars, driveVars, fault, wait,
                 laps, ghosts>>

\* System_Fault_Raise in the health or the IMU task, at any point of a job.
RaiseFault ==
  /\ output' = "off" /\ fault' = "raised"
  /\ UNCHANGED <<tick, request, dutyHold, ctrlVars, state, debug, deadline,
                 imuReady, wait, laps, ghosts>>

\* One millisecond.  The control task keeps its window: when it does not, the
\* motor timeout and the health monitor act (MotorOutput, HealthMonitor).
Tick ==
  /\ wait < CtrlWindow
  /\ tick' = Inc(tick)
  /\ laps' = IF tick + 1 = Wrap THEN 1 ELSE laps
  /\ wait' = wait + 1
  /\ UNCHANGED <<request, dutyHold, ctrlVars, driveVars, imuReady, fault,
                 ghosts>>

CtrlStep ==
  \/ BeginJob \/ ReadStop \/ ClearStop \/ ReadStart \/ ClearStart
  \/ TestDuty \/ CopyDuty \/ ClearDuty \/ Drive

Next ==
  \/ \E r \in Request : Receive(r)
  \/ \E h \in Holds : ReceiveDuty(h)
  \/ CtrlStep
  \/ CopySnapshot \/ RaiseFault \/ Tick

Spec == Init /\ [][Next]_vars

-----------------------------------------------------------------------------
(* Properties.                                                             *)

\* The longest time the motors can be driven for a $DUTY command.
HoldLimit == hold + 2 * CtrlWindow - 1

\* A direct motor test ends: its duty is not driven longer than the time
\* asked for (800 ms by default) and the two jobs it takes to notice, as long
\* as the tick counter has not wrapped, whatever commands, faults and RUNs
\* come in between.
HoldIsBounded ==
  (laps = 0 /\ output = "debug") => tick - accepted <= HoldLimit

\* A direct motor test is not cut short by the clock: its timer ends it only
\* when the hold time has passed, if the deadline does not wrap.
HoldIsKept ==
  [][ (/\ debug = 1 /\ debug' = 0
       /\ laps = 0 /\ accepted + hold < Wrap)
        => tick - accepted >= hold ]_vars

\* Between two jobs the motors are driven only for a reason that still holds:
\* a test that has expired, or a RUN that was stopped, leaves nothing on.
OutputHasCause ==
  pc = "delay" => /\ output = "run" => state = "RUN"
                  /\ output = "debug" => state = "IDLE" /\ debug = 1

\* Every START starts at most one RUN: not two, and not one that comes back
\* when the IMU becomes ready long after the command was refused.
OneRunPerStart ==
  [][ (state # "RUN" /\ state' = "RUN") => credit = 1 ]_vars

(* What the documents say, and the code does not do.                       *)

\* docs/FREERTOS_PLAN.md: "A persistent module error raises a system fault and
\* stops motors"; README.md: "A stale task immediately stops both motors".
FaultStopsMotors == fault = "raised" => output = "off"

\* README.md: "x or $STOP  stop the car".  When the last command was a stop,
\* received after all others had been served, and has been served itself,
\* the motors are off.
StopStops ==
  (pc = "delay" /\ stopLast = 1 /\ request["STOP"] = 0) => output = "off"

=============================================================================
