------------------------------ MODULE ImuStack ------------------------------
(***************************************************************************)
(* The IMU service with the device code under it (dev_icm45688.c): the     *)
(* register accesses of Begin one by one, and what every sample does to    *)
(* the gyro bias, the detection of rest and the yaw lock.  Each step of    *)
(* ImuService is refined; its specification is a property of this one.     *)
(*                                                                         *)
(* Of the three axes there is z.  Angular rates are integers in units of   *)
(* 0.1 dps; the learning step of 0.2 % is one unit towards the sample.     *)
(***************************************************************************)
EXTENDS ImuService

CONSTANTS
  Configs,          (* The accesses of Begin between WHO_AM_I and the last. *)
  Hold,             (* stationary_hold_samples                              *)
  LearnAfter,       (* ICM45688_BIAS_LEARN_STATIONARY_SAMPLES               *)
  StillRate,        (* stationary_gyro_dps                                  *)
  LearnRate,        (* ICM45688_BIAS_LEARN_GYRO_DPS                         *)
  LockRate,         (* ICM45688_YAW_LOCK_GYRO_DPS                           *)
  Offsets,          (* Bound: the offsets of the gyro, as it gets warm.     *)
  RateOf            (* Bound: the rate of each motion; "rest" and "jolt",   *)
                    (* which only the accelerometer feels, have 0.          *)

ASSUME StackAssumption ==
  /\ Configs \in Nat \ {0} /\ Hold \in Nat \ {0} /\ LearnAfter \in Nat
  /\ Offsets \subseteq Int /\ RateOf \in [DOMAIN RateOf -> Int]
  /\ {"rest", "jolt"} \subseteq DOMAIN RateOf
  /\ RateOf["rest"] = 0 /\ RateOf["jolt"] = 0

VARIABLES
  access,     \* the accesses of Begin that are over
  bad,        \* the status that Begin accumulates: 1 once one has failed
  motion,     \* what the car does: a motion of RateOf
  offset,     \* the offset of the gyro
  dev,        \* of s_imu: gyro_bias_z_dps, stationary_sample_count,
              \* stationary, gyro_bias_stationary_samples, and whether the
              \* last sample kept the yaw
  sequence,   \* s_snapshot.sequence, modulo 2
  anyFailed,  \* (ghost) an access of this Begin has failed
  quiet       \* (ghost) samples in a row that show a car at rest

beginVars == <<access, bad, anyFailed>>
worldVars == <<motion, offset>>
devVars == <<dev, quiet>>
stackVars == <<vars, beginVars, worldVars, devVars, sequence>>

Abs(n) == IF n < 0 THEN -n ELSE n
Motions == DOMAIN RateOf
Sensed == {o + RateOf[m] : o \in Offsets, m \in Motions}

\* The bias is never beyond the rates that the gyro can sense.
BiasIsSensible == \E l, h \in Sensed \cup {0} : l <= dev.bias /\ dev.bias <= h

NoSamples == [bias |-> 0, count |-> 0, stationary |-> FALSE, learn |-> 0,
              locked |-> FALSE]

StackTypeOK ==
  /\ TypeOK
  /\ access \in 0 .. Configs + 2 /\ bad \in Flag /\ anyFailed \in BOOLEAN
  /\ motion \in Motions /\ offset \in Offsets
  /\ dev \in [bias : Int, count : 0 .. Hold, stationary : BOOLEAN,
              learn : 0 .. LearnAfter, locked : BOOLEAN]
  /\ BiasIsSensible
  /\ quiet \in 0 .. LearnAfter + 1 /\ sequence \in Flag

StackInit ==
  /\ Init
  /\ access = 0 /\ bad = 0 /\ anyFailed = FALSE
  /\ motion \in Motions /\ offset \in Offsets
  /\ dev = NoSamples /\ quiet = 0 /\ sequence = 0

-----------------------------------------------------------------------------
(* Begin.                                                                  *)

\* configure_imu_handle clears the handle.
StackReadWhoAmI(status, right) ==
  /\ ReadWhoAmI(status, right)
  /\ dev' = NoSamples /\ quiet' = 0
  /\ access' = 0 /\ bad' = 0 /\ anyFailed' = FALSE
  /\ UNCHANGED <<worldVars, sequence>>

\* Mutant: the status of an access replaces those before.
AccumulateLast(status) == bad' = 1 - status

\* status |= ...
Accumulate(status) == bad' = IF status = Failed THEN 1 ELSE bad

\* Mutant: the device is marked ready before the last access.
AccessReadyEarly(status) ==
  /\ pc = "begin"
  /\ Accumulate(status)
  /\ anyFailed' = (anyFailed \/ status = Failed)
  /\ IF \/ access \in {0, 1} /\ status = Failed
        \/ access = Configs + 1 /\ bad' = 1
        \/ access = Configs + 2
       THEN Begin(1 - bad') /\ access' = 0
       ELSE /\ access' = access + 1
            /\ devReady' = IF access = Configs + 1 THEN 1 ELSE devReady
            /\ UNCHANGED <<pc, attempt, sample, moved, snap, fault, biased, errors,
                           misread, carVars>>
  /\ UNCHANGED <<worldVars, devVars, sequence>>

\* An access: those to DRIVE_CONFIG0 and WHO_AM_I (0 and 1) and the last one,
\* to the interrupt status, end Begin when they fail; the configuration goes
\* on to its last register and is judged then.
Access(status) ==
  /\ pc = "begin"
  /\ Accumulate(status)
  /\ anyFailed' = (anyFailed \/ status = Failed)
  /\ IF \/ access \in {0, 1} /\ status = Failed
        \/ access = Configs + 1 /\ bad' = 1
        \/ access = Configs + 2
       THEN Begin(1 - bad') /\ access' = 0
       ELSE access' = access + 1 /\ UNCHANGED vars
  /\ UNCHANGED <<worldVars, devVars, sequence>>

-----------------------------------------------------------------------------
(* ICM45688_MSPM0_Update.                                                  *)

\* Mutant: motion halts the count but does not end it.
CountGoesOn(instant) ==
  IF instant /\ dev.count <= Hold THEN dev.count + 1 ELSE dev.count

\* update_stationary_state
Count(instant) ==
  IF ~instant THEN 0 ELSE IF dev.count < Hold THEN dev.count + 1 ELSE dev.count

\* Mutant: the count must be over the limit it is held at.
StationaryAbove(count) == count > Hold
Stationary(count) == count >= Hold

\* Mutant: motion does not set the count back.
LearningGoesOn(gz, stationary) ==
  IF ~stationary \/ Abs(gz) > LearnRate THEN [learn |-> dev.learn, by |-> 0]
  ELSE IF dev.learn < LearnAfter THEN [learn |-> dev.learn + 1, by |-> 0]
  ELSE [learn |-> dev.learn, by |-> IF gz > 0 THEN 1 ELSE IF gz < 0 THEN -1 ELSE 0]

\* update_auto_gyro_bias; a step of learning is one unit here, 0.2 % of the
\* rest in the code.
Learning(gz, stationary) ==
  IF ~stationary \/ Abs(gz) > LearnRate THEN [learn |-> 0, by |-> 0]
  ELSE IF dev.learn < LearnAfter THEN [learn |-> dev.learn + 1, by |-> 0]
  ELSE [learn |-> dev.learn, by |-> IF gz > 0 THEN 1 ELSE IF gz < 0 THEN -1 ELSE 0]

\* apply_sample_lowpass, which does not filter the gyro (gyro_lpf_hz is 0); the
\* factor gyro_scale_z, which YawCalibration is about, is 1 here.
Corrected == offset + RateOf[motion] - dev.bias

YawShouldLock(gz, stationary) == stationary /\ Abs(gz) <= LockRate

\* The whole of Update; auto is gyro_bias_auto_update.
Sample(auto) ==
  LET gz == Corrected
      count == Count(motion # "jolt" /\ Abs(gz) <= StillRate)
      still == Stationary(count)
      l == IF auto THEN Learning(gz, still) ELSE [learn |-> dev.learn, by |-> 0]
  IN  /\ dev' = [bias |-> dev.bias + l.by, count |-> count, stationary |-> still,
                 learn |-> l.learn,
                 locked |-> YawShouldLock(gz - l.by, still)]
      /\ quiet' = IF motion = "jolt" \/ Abs(gz) > LearnRate THEN 0
                  ELSE IF quiet <= LearnAfter THEN quiet + 1 ELSE quiet

-----------------------------------------------------------------------------
(* The service.                                                            *)

StackRetry ==
  Retry /\ UNCHANGED <<beginVars, worldVars, devVars, sequence>>

\* SetGyroBias, and SetGyroBiasAutoUpdate, which clears the count as well.
SetGyroBias(bias) == dev' = [dev EXCEPT !.bias = bias, !.learn = 0] /\ quiet' = 0

\* The car is at rest during a calibration that sees no motion: a turn so
\* even that its samples do not scatter, which the code takes for rest, is
\* left out.
StackResetBias(m) ==
  /\ ResetBias(m)
  /\ motion' = IF m = 0 THEN "rest" ELSE motion
  /\ SetGyroBias(0)
  /\ UNCHANGED <<beginVars, offset, sequence>>

StackTakeSample(status) ==
  /\ TakeSample(status)
  /\ IF status = Ok THEN Sample(FALSE) ELSE UNCHANGED devVars
  /\ UNCHANGED <<beginVars, worldVars, sequence>>

\* The mean of the samples becomes the bias.
StackVerdict ==
  /\ Verdict
  /\ IF moved = 0
       THEN SetGyroBias(offset)
       ELSE UNCHANGED devVars
  /\ UNCHANGED <<beginVars, worldVars, sequence>>

StackSettle ==
  Settle /\ UNCHANGED <<beginVars, worldVars, devVars, sequence>>

StackOperate(status) ==
  /\ Operate(status)
  /\ IF status = Ok THEN Sample(TRUE) ELSE UNCHANGED devVars
  /\ sequence' = 1 - sequence
  /\ UNCHANGED <<beginVars, worldVars>>

RestOfCar ==
  /\ CopySnapshot \/ Start \/ Stop
  /\ UNCHANGED <<beginVars, worldVars, devVars, sequence>>

\* The car moves otherwise, or the gyro gets warmer, but not while a
\* calibration at rest takes its samples.
World ==
  /\ pc \in {"calibrate", "verdict"} => moved = 1
  /\ motion' \in Motions /\ offset' \in Offsets
  /\ UNCHANGED <<vars, beginVars, devVars, sequence>>

StackStartUp ==
  \/ \E status \in Flag, right \in BOOLEAN : StackReadWhoAmI(status, right)
  \/ \E status \in Flag : Access(status)
  \/ StackRetry
  \/ \E m \in Flag : StackResetBias(m)
  \/ \E status \in Flag : StackTakeSample(status)
  \/ StackVerdict \/ StackSettle

StackNext ==
  \/ StackStartUp
  \/ \E status \in Flag : StackOperate(status)
  \/ RestOfCar
  \/ World

StackSpec == StackInit /\ [][StackNext]_stackVars

\* As in ImuService, and the IMU task goes on in normal operation: with its
\* number in the snapshot, an iteration is a step also when nothing else changes.
StackFairness ==
  /\ WF_stackVars(StackStartUp)
  /\ WF_stackVars(\E status \in Flag : StackOperate(status))
  /\ WF_vars(CopySnapshot /\ UNCHANGED <<beginVars, worldVars, devVars, sequence>>)
  /\ SF_stackVars(StackResetBias(0))

StackFairSpec == StackSpec /\ StackFairness

-----------------------------------------------------------------------------
(* Properties.                                                             *)

\* The service with its device is a service as ImuService describes it, with
\* its liveness: all that holds there holds here.
ImplementsService == FairSpec

\* A device is ready only when every single access of its last Begin went
\* well, though most of them are not looked at one by one.
ReadyMeansConfigured == devReady = 1 => ~anyFailed

\* The bias in operation is only ever moved by a sample at the end of
\* LearnAfter + 1 in a row that show a car at rest, whatever motions, failing
\* samples and calibrations there were before.
LearnsOnlyWhenStill ==
  [][(pc = "operate" /\ dev'.bias # dev.bias) => quiet' = LearnAfter + 1]_stackVars

\* A car that is left alone, with samples coming and a gyro that has not
\* drifted further than can be learned, gets its yaw locked for good: the
\* heading of a car at rest stops drifting.
AtRest == /\ pc = "operate" /\ motion = "rest" /\ errors = 0
          /\ Abs(offset - dev.bias) <= LearnRate
AtRestYawLocks == <>[]AtRest => <>[]dev.locked

=============================================================================
