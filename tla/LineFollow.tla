----------------------------- MODULE LineFollow -----------------------------
(***************************************************************************)
(* Following the line: the digital sensor array (drv_line_sensor.c), the   *)
(* bias it yields (dev_line_sensor.c), the line tracker (line_tracker.c),  *)
(* its controller (pid.c) and what App_Mission_Tick makes of it.  One step *)
(* is one iteration of the control task.                                   *)
(*                                                                         *)
(* The bias is a float in the code; here it is an integer in units of      *)
(* 1 / Unit.  A filtered bias is rounded away from zero: like the float,   *)
(* it keeps its side however small it gets.  A turn is in units of         *)
(* 1 / (100 * Unit).                                                       *)
(***************************************************************************)
EXTENDS Integers, FiniteSets, FiniteSetsExt

CONSTANTS
  Count,            (* BSP_ADC_CCD_COUNT: the channels of the array.        *)
  Views,            (* The sets of channels that can be active together.    *)
  Unit,             (* Scale of a bias.                                     *)
  LagFrames         (* Frames the filter may lag, see LagAssumption.        *)

Channels == 0 .. Count - 1

ASSUME LineAssumption ==
  /\ Count \in Nat \ {0, 1} /\ Views \subseteq SUBSET Channels
  /\ Unit \in Nat \ {0} /\ LagFrames \in Nat \ {0}

VARIABLES
  running,    \* ctx->state == APP_STATE_RUN in this iteration
  frame,      \* s_line_sensor.frame: bias, last_bias, on_line
  primed,     \* s_line_sensor.bias_primed
  prevErr,    \* s_pid->prev_err
  turn,       \* ctx->line_turn
  side,       \* (ghost) the side of the line in the last frames that saw it
  streak      \* (ghost) how many of them in a row, up to LagFrames

lineVars == <<running, frame, primed, prevErr, turn, side, streak>>

Sign(n) == IF n > 0 THEN 1 ELSE IF n < 0 THEN -1 ELSE 0
AwayFromZero(n, d) == IF n >= 0 THEN (n + d - 1) \div d ELSE -((d - 1 - n) \div d)
Clamp(n, limit) == IF n > limit THEN limit ELSE IF n < -limit THEN -limit ELSE n

LineTypeOK ==
  /\ running \in BOOLEAN /\ primed \in BOOLEAN
  /\ frame \in [bias : -Unit .. Unit, lastBias : -Unit .. Unit, onLine : BOOLEAN]
  /\ prevErr \in -Unit .. Unit
  /\ turn \in -40 * 100 * Unit .. 40 * 100 * Unit
  /\ side \in {-1, 0, 1} /\ streak \in 0 .. LagFrames

\* Dev_LineSensor_Reset
EmptyFrame == [bias |-> 0, lastBias |-> 0, onLine |-> FALSE]

\* Control_LineTracker_Init resets the frame, the controller starts at zero.
LineInit ==
  /\ running = FALSE /\ primed = FALSE
  /\ frame = EmptyFrame
  /\ prevErr = 0 /\ turn = 0 /\ side = 0 /\ streak = 0

-----------------------------------------------------------------------------
(* Dev_LineSensor_Update on the channels that are active.                  *)

\* Mutant: the weights are not centred.
WeightUncentred(i) == 2 * i - Count

Weight(i) == 2 * i - (Count - 1)

\* Drv_LineSensor_ReadRaw: the digital channels give one of two values.
ReadRaw(active) == [i \in Channels |-> IF i \in active THEN 4095 ELSE 0]

ContrastThreshold == 120
StrengthThreshold == 260

OnLine == [active \in Views |->
  LET raw == ReadRaw(active)
      lowest == Min({raw[i] : i \in Channels})
      contrast == Max({raw[i] : i \in Channels}) - lowest
      strength == MapThenSumSet(LAMBDA i : raw[i] - lowest, Channels)
  IN  contrast >= ContrastThreshold /\ strength >= StrengthThreshold]

\* The values of the active channels cancel out.
RawBias == [active \in {v \in Views : OnLine[v]} |->
  (Unit * MapThenSumSet(Weight, active)) \div (Cardinality(active) * (Count - 1))]

Alpha == 35   \* percent
Filter(raw, old) == AwayFromZero(Alpha * raw + (100 - Alpha) * old, 100)

\* Where the bias is at worst after k frames of a line on the right that is
\* at least that far from the middle: from the edge on the left.
Behind(least) ==
  LET worst[k \in 0 .. LagFrames] ==
        IF k = 0 THEN -Unit ELSE Filter(least, worst[k - 1])
  IN  worst

\* The frames that see the line beside the middle have it so far from there
\* that the filter crosses the middle within LagFrames.
ASSUME LagAssumption ==
  \E least \in 1 .. Unit :
    /\ \A v \in DOMAIN RawBias :
         RawBias[v] = 0 \/ RawBias[v] >= least \/ RawBias[v] <= -least
    /\ Behind(least)[LagFrames] > 0

Update(active) ==
  IF OnLine[active]
    THEN LET bias == IF primed THEN Filter(RawBias[active], frame.bias)
                               ELSE RawBias[active]
         IN  /\ frame' = [bias |-> bias, lastBias |-> bias, onLine |-> TRUE]
             /\ primed' = TRUE
    ELSE /\ frame' = [frame EXCEPT !.bias = frame.lastBias, !.onLine = FALSE]
         /\ UNCHANGED primed

-----------------------------------------------------------------------------
(* Control_LineTracker_Update: on the line the controller (Kp 0.18, Kd     *)
(* 0.02, Ki 0) turns against the bias, off it the remembered side decides. *)

\* Mutant: setpoint and measurement change places.
PidSwapped(setpoint, measure) ==
  LET err == measure - setpoint
  IN  [out |-> 18 * err + 2 * (err - prevErr), err |-> err]

Pid(setpoint, measure) ==
  LET err == setpoint - measure
  IN  [out |-> 18 * err + 2 * (err - prevErr), err |-> err]

TrackLostDiff == 18 * Unit

Track ==
  IF frame'.onLine
    THEN /\ prevErr' = Pid(0, frame'.bias).err
         /\ turn' = Clamp(Pid(0, frame'.bias).out, 40 * 100 * Unit)
    ELSE /\ turn' = Sign(frame'.lastBias) * TrackLostDiff
         /\ UNCHANGED prevErr

-----------------------------------------------------------------------------
(* App_Mission_Tick.  Nothing here is reset when the car stops or starts.  *)

Mission(active) ==
  /\ running' = TRUE
  /\ Update(active) /\ Track
  /\ IF OnLine[active]
       THEN LET s == Sign(RawBias[active])
            IN  /\ side' = s
                /\ streak' = IF s = side THEN Min({streak + 1, LagFrames}) ELSE 1
       ELSE UNCHANGED <<side, streak>>

MissionIdle ==
  /\ running' = FALSE /\ turn' = 0
  /\ UNCHANGED <<frame, primed, prevErr, side, streak>>

LineNext == MissionIdle \/ \E active \in Views : Mission(active)

LineSpec == LineInit /\ [][LineNext]_lineVars

-----------------------------------------------------------------------------
(* Properties.                                                             *)

\* The left wheel is given base - turn and the right one base + turn: a turn
\* of the sign opposite to the bias brings the line back to the middle.

\* When the last LagFrames frames that saw the line had it on one side, the
\* car turns to that side, whatever the filter and the derivative remember of
\* frames before, of a lost line or of an earlier start.
SteersBack ==
  (running /\ frame.onLine /\ streak = LagFrames /\ side # 0) => Sign(turn) = -side

\* From the second frame on the filter keeps the kick of the derivative in:
\* no sequence of frames, with the line lost between or the car stopped, makes
\* the car turn more sharply than a line at the edge does (0.18), up to the
\* rounding of the bias.  Only the very first frame is not filtered (0.20).
KickIsFiltered ==
  [][primed => turn' \in -(18 * Unit + 20) .. 18 * Unit + 20]_lineVars

\* docs/CALIBRATION_ROADMAP.zh-CN.md, stage 5: a line lost for a short time is
\* recovered along the last valid direction.  The car then turns to the side
\* on which the line was seen last.
SeeksTheLine ==
  (running /\ ~frame.onLine /\ streak = LagFrames /\ side # 0) => Sign(turn) = -side

=============================================================================
