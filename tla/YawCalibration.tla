--------------------------- MODULE YawCalibration ---------------------------
(***************************************************************************)
(* The +4/-4 turn yaw calibration of modules/imu/imu_service.c and the way *)
(* of its requests, from the UART interrupt (s_imu_cal_request of          *)
(* modules/telemetry/telemetry.c) through the telemetry task               *)
(* (app/app_tasks.c) to the IMU task.                                      *)
(*                                                                         *)
(* The IMU task preempts the telemetry task and does not block while it    *)
(* services requests, so service_yaw_requests is one action; the telemetry *)
(* task's read of the request and its clear are two, because the interrupt *)
(* can run in between.                                                     *)
(*                                                                         *)
(* Angles are integers in units of FourLap / 1440 degrees.  A scale factor *)
(* is a pair <<numerator, denominator>>, and the float comparisons of the  *)
(* code are done on exact fractions.  A sample changes the unwrapped yaw   *)
(* of the device to any value of Yaws or not at all, a stationary one too: *)
(* its rotation is below 1.5 dps, but the yaw is locked below 0.25 only.   *)
(***************************************************************************)
EXTENDS Integers

CONSTANTS
  FourLap,          (* YAW_CAL_FOUR_LAP_DEG.                                *)
  SettleSamples,    (* YAW_CAL_SETTLE_SAMPLES.                              *)
  Yaws,             (* The angles a turn can end at.                        *)
  ProfileScale      (* gyro_z_scale of the calibrated profile.              *)

ASSUME YawAssumption ==
  /\ FourLap \in Nat \ {0}
  /\ SettleSamples \in Nat \ {0}
  /\ Yaws \subseteq Int
  /\ ProfileScale \in (Nat \ {0}) \X (Nat \ {0})

VARIABLES
  slot,       \* s_imu_cal_request
  taken,      \* the telemetry task's copy of it; "none" when it has no job
  telemPc,    \* "read" before the copy, "clear" before the clear
  startReq,   \* s_yaw_cal_start_requested
  cancelReq,  \* s_yaw_cal_cancel_requested
  imuPc,      \* the IMU task: "startup", then "service" and "sample" in turn
  scale,      \* s_imu.gyro_scale_z
  yaw,        \* s_imu.yaw_deg
  cal,        \* s_yaw_cal
  good,       \* (ghost) the scale in force outside calibrations
  restarted,  \* (ghost) 1: a calibration was started inside another one
  stillRun    \* (ghost) successive stationary samples, up to SettleSamples

requestVars == <<slot, taken, telemPc>>
imuVars == <<scale, yaw, cal, good, restarted, stillRun>>
vars == <<requestVars, startReq, cancelReq, imuPc, imuVars>>

Unity == <<1, 1>>
Active == {"WAIT_STILL", "WAIT_POSITIVE", "POSITIVE_ACTIVE", "WAIT_NEGATIVE",
           "NEGATIVE_ACTIVE"}
CalState == Active \cup {"IDLE", "COMPLETE", "FAILED"}
Command == {"START", "CANCEL"}
Scale == Nat \X Nat

\* memset(&s_yaw_cal, 0, sizeof(s_yaw_cal))
NoCalibration == [state |-> "IDLE", settle |-> 0, origin |-> 0,
                  positive |-> 0, negative |-> 0,
                  result |-> <<0, 1>>, previous |-> <<0, 1>>]

TypeOK ==
  /\ slot \in Command \cup {"none"}
  /\ taken \in Command \cup {"none"}
  /\ telemPc \in {"read", "clear"}
  /\ startReq \in {0, 1} /\ cancelReq \in {0, 1}
  /\ imuPc \in {"startup", "service", "sample"}
  /\ scale \in Scale
  /\ yaw \in Int
  /\ cal \in [state : CalState, settle : 0 .. SettleSamples, origin : Int,
              positive : Int, negative : Int, result : Scale, previous : Scale]
  /\ good \in Scale
  /\ restarted \in {0, 1}
  /\ stillRun \in 0 .. SettleSamples

Init ==
  /\ slot = "none" /\ taken = "none" /\ telemPc = "read"
  /\ startReq = 0 /\ cancelReq = 0
  /\ imuPc = "startup"
  /\ scale = Unity /\ yaw = 0 /\ cal = NoCalibration
  /\ good = Unity /\ restarted = 0 /\ stillRun = 0

-----------------------------------------------------------------------------
(* Requests.                                                               *)

\* $IMUCAL,START or $IMUCAL,CANCEL in the UART interrupt
Receive(c) ==
  /\ slot' = c
  /\ UNCHANGED <<taken, telemPc, startReq, cancelReq, imuPc, imuVars>>

\* request = s_imu_cal_request
TelemetryRead ==
  /\ telemPc = "read" /\ telemPc' = "clear"
  /\ taken' = slot
  /\ UNCHANGED <<slot, startReq, cancelReq, imuPc, imuVars>>

\* s_imu_cal_request = NONE, then IMU_RequestYawCalibration or
\* IMU_CancelYawCalibration
TelemetryForward ==
  /\ telemPc = "clear" /\ telemPc' = "read"
  /\ slot' = "none" /\ taken' = "none"
  /\ startReq'  = IF taken = "START" THEN 1 ELSE startReq
  /\ cancelReq' = IF taken = "CANCEL" THEN 1 ELSE cancelReq
  /\ UNCHANGED <<imuPc, imuVars>>

-----------------------------------------------------------------------------
(* The IMU task outside a calibration.                                     *)

\* calibrate_gyro_bias succeeds and sets the scale of the profile.
FinishStartup ==
  /\ imuPc = "startup" /\ imuPc' = "service"
  /\ scale' = ProfileScale /\ good' = ProfileScale
  /\ yaw' = 0 /\ cal' = NoCalibration
  /\ UNCHANGED <<requestVars, startReq, cancelReq, restarted, stillRun>>

\* What a cancel leaves in gyro_scale_z.
ScaleNotRestored == scale           \* mutant
ScaleAfterCancel ==
  IF cal.state \notin {"IDLE", "COMPLETE"} /\ cal.previous[1] > 0
    THEN cal.previous ELSE scale

\* start_yaw_calibration, when the scale in force is s
StartCalibration(s) ==
  /\ cal' = [NoCalibration EXCEPT !.state = "WAIT_STILL", !.result = Unity,
                                  !.previous = s]
  /\ scale' = Unity

\* service_yaw_requests: the cancel first, then the start.
Service ==
  /\ imuPc = "service" /\ imuPc' = "sample"
  /\ startReq' = 0 /\ cancelReq' = 0
  /\ LET inForce == IF cancelReq = 1 THEN ScaleAfterCancel ELSE scale IN
     IF startReq = 1
       THEN /\ StartCalibration(inForce)
            /\ restarted' = IF cal.state \in Active /\ cancelReq = 0
                              THEN 1 ELSE restarted
       ELSE /\ scale' = inForce
            /\ cal' = IF cancelReq = 1 THEN NoCalibration ELSE cal
            /\ UNCHANGED restarted
  /\ yaw' = IF cancelReq = 1 \/ startReq = 1 THEN 0 ELSE yaw   \* ResetAttitude
  /\ UNCHANGED <<requestVars, good, stillRun>>

-----------------------------------------------------------------------------
(* One sample of a calibration: update_yaw_calibration.  `still` is        *)
(* ICM45688_MSPM0_IsStationary, y the new yaw, and rate the side on which  *)
(* gz_dps is beyond YAW_CAL_MOTION_START_DPS.                              *)

\* YAW_CAL_SCALE_MIN and _MAX, in hundredths.
ValidScale(s) == 85 * s[2] <= 100 * s[1] /\ 100 * s[1] <= 115 * s[2]

\* The profile in the repository has a factor close to 1.
ASSUME ProfileAssumption == ValidScale(ProfileScale)

\* At least YAW_CAL_CAPTURE_MIN_RATIO of four turns.
Captured(turned) == 100 * turned >= 90 * FourLap

AbsDiff(a, b) == IF a >= b THEN a - b ELSE b - a

\* The direction mismatch of two scales FourLap / p and FourLap / n is within
\* YAW_CAL_DIRECTION_MISMATCH_MAX.
Matching(p, n) == 200 * AbsDiff(p, n) <= 2 * (p + n)

\* fail_yaw_calibration, when s_yaw_cal is c
Fail(c) ==
  /\ cal' = [c EXCEPT !.state = "FAILED", !.result = c.previous]
  /\ scale' = IF cal.previous[1] > 0 THEN cal.previous ELSE scale
  /\ yaw' = 0

\* The settle counter of a state that waits for a stationary sample.
SettleOn == [cal EXCEPT !.settle = @ + 1]
StaySettled == cal   \* mutant
Unsettled == [cal EXCEPT !.settle = 0]

\* The condition has held for SettleSamples samples, or not yet.
Settled(condition) == condition /\ cal.settle + 1 >= SettleSamples
NotYet(condition) ==
  /\ ~Settled(condition)
  /\ cal' = IF condition THEN SettleOn ELSE Unsettled

WaitStill(still, y) ==
  /\ cal.state = "WAIT_STILL"
  /\ UNCHANGED scale
  /\ \/ NotYet(still) /\ yaw' = y
     \/ /\ Settled(still)
        /\ yaw' = 0
        /\ cal' = [cal EXCEPT !.origin = 0, !.settle = 0,
                              !.state = "WAIT_POSITIVE"]

\* WAIT_POSITIVE and WAIT_NEGATIVE
WaitTurn(waiting, rate, side, next, y) ==
  /\ cal.state = waiting
  /\ cal' = IF rate = side THEN [cal EXCEPT !.state = next] ELSE cal
  /\ yaw' = y /\ UNCHANGED scale

PositiveActive(still, y) ==
  LET turned == y - cal.origin
      valid == ValidScale(<<FourLap, turned>>) IN
  /\ cal.state = "POSITIVE_ACTIVE"
  /\ \/ NotYet(still /\ Captured(turned)) /\ yaw' = y /\ UNCHANGED scale
     \/ /\ Settled(still /\ Captured(turned)) /\ ~valid
        /\ Fail([SettleOn EXCEPT !.positive = turned])
     \/ /\ Settled(still /\ Captured(turned)) /\ valid
        /\ cal' = [cal EXCEPT !.positive = turned, !.origin = y, !.settle = 0,
                              !.state = "WAIT_NEGATIVE"]
        /\ yaw' = y /\ UNCHANGED scale

\* The result of turns of p and of -n.
MeanNotComputed(p, n) == Unity   \* mutant
MeanScale(p, n) == <<2 * FourLap, p + n>>

\* complete_yaw_calibration, when s_yaw_cal is c
Complete(c) ==
  LET p == c.positive
      n == -c.negative
      accepted == /\ ValidScale(<<FourLap, p>>) /\ ValidScale(<<FourLap, n>>)
                  /\ Matching(p, n) /\ ValidScale(MeanScale(p, n))
  IN \/ ~accepted /\ Fail(c)
     \/ /\ accepted
        /\ cal' = [c EXCEPT !.state = "COMPLETE", !.origin = 0,
                            !.result = MeanScale(p, n)]
        /\ scale' = MeanScale(p, n)
        /\ yaw' = 0

NegativeActive(still, y) ==
  LET turned == cal.origin - y IN
  /\ cal.state = "NEGATIVE_ACTIVE"
  /\ \/ NotYet(still /\ Captured(turned)) /\ yaw' = y /\ UNCHANGED scale
     \/ /\ Settled(still /\ Captured(turned))
        /\ Complete([SettleOn EXCEPT !.negative = -turned])

UpdateCalibration(still, rate, y) ==
  \/ WaitStill(still, y)
  \/ WaitTurn("WAIT_POSITIVE", rate, "positive", "POSITIVE_ACTIVE", y)
  \/ PositiveActive(still, y)
  \/ WaitTurn("WAIT_NEGATIVE", rate, "negative", "NEGATIVE_ACTIVE", y)
  \/ NegativeActive(still, y)
  \/ cal.state \notin Active /\ yaw' = y /\ UNCHANGED <<cal, scale>>

\* wait_and_update_imu succeeds: a sample at rest, or one in motion.
Sample(still, rate, y) ==
  /\ imuPc = "sample" /\ imuPc' = "service"
  /\ still => rate = "slow"
  /\ UpdateCalibration(still, rate, y)
  /\ stillRun' = IF ~still THEN 0
                 ELSE IF stillRun < SettleSamples THEN stillRun + 1 ELSE stillRun
  /\ IF cal'.state = "COMPLETE" /\ cal.state # "COMPLETE"
       THEN good' = cal'.result /\ restarted' = 0
       ELSE UNCHANGED <<good, restarted>>
  /\ UNCHANGED <<requestVars, startReq, cancelReq>>

\* It times out or the bus fails: the calibration waits for the next sample.
SampleError ==
  /\ imuPc = "sample" /\ imuPc' = "service"
  /\ UNCHANGED <<requestVars, startReq, cancelReq, imuVars>>

Next ==
  \/ \E c \in Command : Receive(c)
  \/ TelemetryRead \/ TelemetryForward
  \/ FinishStartup \/ Service \/ SampleError
  \/ \E still \in BOOLEAN, rate \in {"slow", "positive", "negative"},
        y \in Yaws \cup {yaw} : Sample(still, rate, y)

Spec == Init /\ [][Next]_vars

-----------------------------------------------------------------------------
(* Properties.                                                             *)

\* A calibration measures with the factor 1, whatever was in force before and
\* however often it is restarted.
MeasuresAtUnity == cal.state \in Active => scale = Unity

\* Outside calibrations the last good factor is in force: a failed, cancelled
\* or timed-out calibration leaves no trace, unless it was started while
\* another one was running.
ScaleIsGoodUnlessRestarted ==
  (cal.state \notin Active /\ restarted = 0) => scale = good

\* A factor that is in force outside the restarts is a plausible one.
ScaleIsPlausible == ValidScale(scale)

\* The result lies between the factors of the two directions.
ResultIsBetween ==
  cal.state = "COMPLETE" =>
    LET p == cal.positive
        n == -cal.negative
        between(lo, hi) == /\ cal.result[1] * hi >= FourLap * cal.result[2]
                           /\ cal.result[1] * lo <= FourLap * cal.result[2]
    IN  scale = cal.result /\ IF p <= n THEN between(p, n) ELSE between(n, p)

\* The settle counter counts successive stationary samples only, across state
\* changes, errors, cancels and restarts: no angle is captured in motion.
SettlesAtRest == cal.state \in Active => cal.settle <= stillRun

(* README.md: "$IMUCAL,CANCEL  cancel calibration and restore the previous *)
(* scale".                                                                 *)

\* When no calibration runs, the scale from before it is in force.
CancelRestoresScale == cal.state \notin Active => scale = good

=============================================================================
