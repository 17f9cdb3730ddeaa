----------------------------- MODULE ImuService -----------------------------
(***************************************************************************)
(* The life of the IMU task (modules/imu/imu_service.c): start-up with     *)
(* retries, static gyro calibration, normal operation and the fault exits; *)
(* what of it reaches the car through the snapshot and the fast task's     *)
(* copy of it (app/app_tasks.c), and the gate of App_State_Tick.           *)
(*                                                                         *)
(* Every bus access can fail, and the chip's identity can be misread       *)
(* without the bus reporting an error.  The measurements are left out but  *)
(* for what decides the calibration: whether the car moved.  ImuStack adds *)
(* the device under the service; the yaw calibration in normal operation   *)
(* is in YawCalibration.                                                   *)
(***************************************************************************)
EXTENDS Integers

CONSTANTS
  Retries,          (* ICM45688_INIT_RETRIES.                               *)
  CalSamples,       (* Warm-up and calibration samples (200 + 2000).        *)
  Persistent        (* Successive errors that count as a persistent error.  *)

ASSUME ServiceAssumption ==
  /\ Retries \in Nat \ {0}
  /\ CalSamples \in Nat \ {0}
  /\ Persistent \in Nat \ {0}

VARIABLES
  pc,         \* where the IMU task is
  attempt,    \* the attempt of the initialisation loop
  devReady,   \* s_imu.ready: Begin has succeeded on the handle
  sample,     \* i, the samples taken in calibrate_gyro_bias
  moved,      \* 1: the car moves while the samples are summed up
  snap,       \* s_snapshot: state, ready and whether status is INV_IMU_OK
  imuReady,   \* ctx->imu_ready
  car,        \* ctx->state
  fault,      \* "raised" once System_Fault_Raise has been called
  biased,     \* (ghost) 1: the bias in force is that of a calibration at rest
  errors,     \* (ghost) successive errors in normal operation
  misread     \* (ghost) 1: a wrong identity has been read

imuVars == <<pc, attempt, devReady, sample, moved, snap, fault, biased, errors,
             misread>>
carVars == <<imuReady, car>>
vars == <<imuVars, carVars>>

Flag == {0, 1}
Ok == 1
Failed == 0

TypeOK ==
  /\ pc \in {"init", "begin", "retry", "reset", "calibrate", "verdict",
             "settle", "operate", "stopped"}
  /\ attempt \in 1 .. Retries
  /\ devReady \in Flag
  /\ sample \in 0 .. CalSamples
  /\ moved \in Flag
  /\ snap \in [state : {"INITIALIZING", "CALIBRATING", "READY", "FAULT"},
               ready : Flag, status : Flag]
  /\ imuReady \in Flag
  /\ car \in {"IDLE", "RUN"}
  /\ fault \in {"none", "raised"}
  /\ biased \in Flag
  /\ errors \in 0 .. Persistent
  /\ misread \in Flag

\* IMU_Service_Init and the first publish_snapshot of the task.
Init ==
  /\ pc = "init" /\ attempt = 1
  /\ devReady = 0 /\ sample = 0 /\ moved = 0
  /\ snap = [state |-> "INITIALIZING", ready |-> 0, status |-> Failed]
  /\ imuReady = 0 /\ car = "IDLE" /\ fault = "none"
  /\ biased = 0 /\ errors = 0 /\ misread = 0

-----------------------------------------------------------------------------
(* Start-up.                                                               *)

\* publish_snapshot in a critical section: all fields change together.
Publish(state, status) ==
  snap' = [state |-> state, ready |-> devReady, status |-> status]

\* publish_snapshot(IMU_STATE_FAULT) and System_Fault_Raise, then an endless
\* loop without heartbeats.
GiveUp ==
  /\ pc' = "stopped"
  /\ Publish("FAULT", Failed)
  /\ fault' = "raised"

\* configure_imu_handle and ICM45688_MSPM0_ReadWhoAmI.  A wrong identity
\* leaves status at INV_IMU_OK, which ends the loop.
ReadWhoAmI(status, right) ==
  /\ pc = "init"
  /\ devReady' = 0
  /\ pc' = IF status = Failed THEN "retry"
           ELSE IF right THEN "begin" ELSE "reset"
  /\ misread' = IF status = Ok /\ ~right THEN 1 ELSE misread
  /\ IF status = Ok /\ ~right THEN Publish("CALIBRATING", Ok) ELSE UNCHANGED snap
  /\ UNCHANGED <<attempt, sample, moved, fault, biased, errors, carVars>>

\* ICM45688_MSPM0_Begin
Begin(status) ==
  /\ pc = "begin"
  /\ devReady' = status
  /\ pc' = IF status = Ok THEN "reset" ELSE "retry"
  /\ snap' = IF status = Ok
               THEN [state |-> "CALIBRATING", ready |-> 1, status |-> Ok] ELSE snap
  /\ UNCHANGED <<attempt, sample, moved, fault, biased, errors, misread, carVars>>

\* Mutant: there is no limit.
RetryForEver ==
  /\ pc = "retry" /\ pc' = "init"
  /\ UNCHANGED <<attempt, devReady, sample, moved, snap, fault, biased, errors,
                 misread, carVars>>

\* delay_with_heartbeat(200u), then the next attempt or the end of the loop.
Retry ==
  /\ pc = "retry"
  /\ IF attempt < Retries
       THEN attempt' = attempt + 1 /\ pc' = "init" /\ UNCHANGED <<snap, fault>>
       ELSE GiveUp /\ UNCHANGED attempt
  /\ UNCHANGED <<devReady, sample, moved, biased, errors, misread, carVars>>

-----------------------------------------------------------------------------
(* calibrate_gyro_bias.                                                    *)

\* Scale and bias are set to neutral, the filters are reset.  Whether the car
\* moves before the calibration is over is decided here.
ResetBias(motion) ==
  /\ pc = "reset" /\ pc' = "calibrate"
  /\ sample' = 0 /\ moved' = motion /\ biased' = 0
  /\ UNCHANGED <<attempt, devReady, snap, fault, errors, misread, carVars>>

\* wait_and_update_imu: a sample, or a timeout or bus error.  On a device that
\* is not ready it is always an error.
TakeSample(status) ==
  /\ pc = "calibrate"
  /\ status = Ok => devReady = 1
  /\ IF status = Ok
       THEN /\ sample' = sample + 1
            /\ pc' = IF sample + 1 = CalSamples THEN "verdict" ELSE "calibrate"
            /\ UNCHANGED <<snap, fault>>
       ELSE GiveUp /\ UNCHANGED sample
  /\ UNCHANGED <<attempt, devReady, moved, biased, errors, misread, carVars>>

\* Mutant: the standard deviation is not looked at.
VerdictIgnored ==
  /\ pc = "verdict" /\ pc' = "operate"
  /\ biased' = 1 - moved
  /\ UNCHANGED <<attempt, devReady, sample, moved, snap, fault, errors, misread,
                 carVars>>

\* The standard deviation is over the limit when the car moved.
Verdict ==
  /\ pc = "verdict"
  /\ pc' = IF moved = 1 THEN "settle" ELSE "operate"
  /\ biased' = 1 - moved
  /\ UNCHANGED <<attempt, devReady, sample, moved, snap, fault, errors, misread,
                 carVars>>

\* delay_with_heartbeat(GYRO_CAL_RETRY_DELAY_MS) and once more.
Settle ==
  /\ pc = "settle" /\ pc' = "reset"
  /\ UNCHANGED <<attempt, devReady, sample, moved, snap, fault, biased, errors,
                 misread, carVars>>

-----------------------------------------------------------------------------
(* Normal operation and the rest of the car.                               *)

\* Mutant: an error does not show in the snapshot.
OperateHidingErrors(status) ==
  /\ pc = "operate"
  /\ Publish("READY", Ok)
  /\ errors' = IF status = Ok THEN 0
               ELSE IF errors < Persistent THEN errors + 1 ELSE errors
  /\ UNCHANGED <<pc, attempt, devReady, sample, moved, fault, biased, misread,
                 carVars>>

\* One iteration of the main loop of IMU_Service_Task.
Operate(status) ==
  /\ pc = "operate"
  /\ Publish("READY", status)
  /\ errors' = IF status = Ok THEN 0
               ELSE IF errors < Persistent THEN errors + 1 ELSE errors
  /\ UNCHANGED <<pc, attempt, devReady, sample, moved, fault, biased, misread,
                 carVars>>

\* The condition of copy_imu_snapshot.
SnapshotReady == snap.ready = 1 /\ snap.state = "READY" /\ snap.status = Ok

\* The fast task: IMU_GetSnapshot and copy_imu_snapshot
CopySnapshot ==
  /\ imuReady' = IF SnapshotReady THEN 1 ELSE 0
  /\ UNCHANGED <<imuVars, car>>

\* App_State_Tick with a start request, and with a stop request.
Start ==
  /\ imuReady = 1 /\ car' = "RUN"
  /\ UNCHANGED <<imuVars, imuReady>>

Stop ==
  /\ car' = "IDLE"
  /\ UNCHANGED <<imuVars, imuReady>>

StartUpStep ==
  \/ \E status \in Flag, right \in BOOLEAN : ReadWhoAmI(status, right)
  \/ \E status \in Flag : Begin(status)
  \/ Retry
  \/ \E motion \in Flag : ResetBias(motion)
  \/ \E status \in Flag : TakeSample(status)
  \/ Verdict \/ Settle

ImuStep == StartUpStep \/ \E status \in Flag : Operate(status)

Next == ImuStep \/ CopySnapshot \/ Start \/ Stop

Spec == Init /\ [][Next]_vars

\* The scheduler runs both tasks.  The operator leaves the car alone again and
\* again: of the calibrations that are tried, infinitely many see no motion.
Fairness == /\ WF_vars(StartUpStep) /\ WF_vars(CopySnapshot)
            /\ SF_vars(ResetBias(0))
FairSpec == Spec /\ Fairness

-----------------------------------------------------------------------------
(* Properties.                                                             *)

\* README.md: "During startup calibration the car stays in IDLE".  It runs
\* only on a gyro bias that was measured at rest, however often calibration or
\* initialisation were repeated.
RunsOnlyCalibrated == car = "RUN" => biased = 1

\* The IMU is reported ready to the car only with a device that has been
\* begun and calibrated, even though the copy is older than the device.
ReadyMeansCalibrated == imuReady = 1 => devReady = 1 /\ biased = 1 /\ pc = "operate"

\* A device that identifies itself is not given up before the last attempt.
GivesUpLate ==
  (fault = "raised" /\ misread = 0) => attempt = Retries \/ devReady = 1

\* A start-up ends: with a fault, or in normal operation.
StartUpEnds == <>(pc \in {"operate", "stopped"})

\* An error in normal operation reaches the car: either the IMU recovers or
\* the car is told.
ErrorsReachTheCar == (errors > 0) ~> (errors = 0 \/ imuReady = 0)

=============================================================================
