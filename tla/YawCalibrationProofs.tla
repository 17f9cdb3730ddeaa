------------------------ MODULE YawCalibrationProofs ------------------------
(***************************************************************************)
(* Proofs about YawCalibration, for every turn the wheels can make, every  *)
(* settle time and every plausible profile.                                *)
(*                                                                         *)
(* That a factor survives a failed or cancelled calibration depends on     *)
(* what the calibration saved when it started, also while it runs and      *)
(* after it failed: the inductive invariant relates `previous` to the last *)
(* good factor in all those states.                                        *)
(***************************************************************************)
EXTENDS YawCalibration, TLAPS

\* The states in which `previous` holds the factor to go back to.
Saved == Active \cup {"FAILED"}

\* Every factor that is in force, or that can be restored, is usable.
PlausibleInv ==
  /\ scale[1] > 0 /\ ValidScale(scale)
  /\ cal.state \in Saved => cal.previous[1] > 0 /\ ValidScale(cal.previous)

\* What a calibration saved, and what it leaves, is the last good factor.
GoodInv ==
  restarted = 0 => /\ cal.state \in Saved => cal.previous = good
                   /\ cal.state \notin Active => scale = good

\* The settle counter of a calibration in progress has not reached its limit,
\* and is 0 in the states that do not use it.
SettleInv ==
  /\ cal.state \in Active => cal.settle < SettleSamples
  /\ cal.state \in {"WAIT_POSITIVE", "WAIT_NEGATIVE"} => cal.settle = 0
  /\ SettlesAtRest

IInv == /\ TypeOK
        /\ PlausibleInv /\ GoodInv /\ SettleInv
        /\ MeasuresAtUnity /\ ResultIsBetween

-----------------------------------------------------------------------------
(* Facts about factors.                                                    *)

\* The factor a calibration measures with is usable.
LEMMA UnityIsPlausible == Unity[1] > 0 /\ ValidScale(Unity) /\ Unity \in Scale
BY DEF Unity, ValidScale, Scale

\* A turn whose factor is plausible went the right way.
LEMMA ValidTurnIsPositive ==
  ASSUME NEW turned \in Int, ValidScale(<<FourLap, turned>>)
  PROVE  turned \in Nat \ {0}
BY YawAssumption DEF ValidScale

\* The factor computed from two turns lies between the factors of the two.
LEMMA MeanIsBetween ==
  ASSUME NEW p \in Nat \ {0}, NEW n \in Nat \ {0}
  PROVE  /\ MeanScale(p, n) \in Scale /\ MeanScale(p, n)[1] > 0
         /\ p <= n => /\ MeanScale(p, n)[1] * n >= FourLap * MeanScale(p, n)[2]
                      /\ MeanScale(p, n)[1] * p <= FourLap * MeanScale(p, n)[2]
         /\ n <= p => /\ MeanScale(p, n)[1] * p >= FourLap * MeanScale(p, n)[2]
                      /\ MeanScale(p, n)[1] * n <= FourLap * MeanScale(p, n)[2]
<1>1. FourLap \in Nat /\ FourLap > 0
  BY YawAssumption
<1>2. MeanScale(p, n)[1] = 2 * FourLap /\ MeanScale(p, n)[2] = p + n
  BY DEF MeanScale
<1>3. MeanScale(p, n) \in Scale /\ MeanScale(p, n)[1] > 0
  BY <1>1, <1>2 DEF MeanScale, Scale
<1>4. ASSUME NEW a \in Nat, NEW b \in Nat, a <= b
      PROVE  2 * FourLap * b >= FourLap * (a + b) /\ 2 * FourLap * a <= FourLap * (a + b)
  <2>1. FourLap * a <= FourLap * b
    BY <1>1, <1>4
  <2>2. /\ FourLap * (a + b) = FourLap * a + FourLap * b
        /\ 2 * FourLap * b = FourLap * b + FourLap * b
        /\ 2 * FourLap * a = FourLap * a + FourLap * a
    BY <1>1
  <2>3. FourLap * a \in Int /\ FourLap * b \in Int
    BY <1>1
  <2> QED BY <2>1, <2>2, <2>3
<1>5. p + n = n + p
  OBVIOUS
<1> QED BY <1>2, <1>3, <1>4, <1>5

-----------------------------------------------------------------------------

\* The firmware starts in the invariant.
LEMMA InitInv == Init => IInv
<1> SUFFICES ASSUME Init PROVE IInv
  OBVIOUS
<1> USE YawAssumption DEF Init, NoCalibration
<1>1. TypeOK
  <2>1. Unity \in Scale /\ <<0, 1>> \in Scale
    BY DEF Unity, Scale
  <2> QED BY <2>1 DEF TypeOK, CalState, Active
<1>2. PlausibleInv
  BY UnityIsPlausible DEF PlausibleInv, Saved, Active
<1>3. GoodInv /\ SettleInv /\ MeasuresAtUnity /\ ResultIsBetween
  BY DEF GoodInv, SettleInv, SettlesAtRest, MeasuresAtUnity, ResultIsBetween,
     Saved, Active
<1> QED BY <1>1, <1>2, <1>3 DEF IInv

\* A request on its way touches nothing of the calibration.
LEMMA RequestKeeps ==
  ASSUME IInv, (\E c \in Command : Receive(c)) \/ TelemetryRead \/ TelemetryForward
  PROVE  IInv'
<1>1. UNCHANGED imuVars
  BY DEF Receive, TelemetryRead, TelemetryForward
<1>2. TypeOK'
  BY DEF IInv, TypeOK, Receive, TelemetryRead, TelemetryForward, imuVars
<1> QED BY <1>1, <1>2 DEF IInv, imuVars, PlausibleInv, GoodInv, SettleInv,
           SettlesAtRest, MeasuresAtUnity, ResultIsBetween

\* The calibrated profile takes effect when no calibration can run yet.
LEMMA StartupKeeps ==
  ASSUME IInv, FinishStartup
  PROVE  IInv'
<1> USE DEF FinishStartup, NoCalibration
<1>1. TypeOK'
  <2>1. <<0, 1>> \in Scale /\ ProfileScale \in Scale
    BY YawAssumption DEF Scale
  <2> QED BY <2>1, YawAssumption DEF IInv, TypeOK, CalState, Active, requestVars
<1>2. PlausibleInv'
  BY YawAssumption, ProfileAssumption DEF PlausibleInv, Saved, Active
<1>3. GoodInv' /\ SettleInv' /\ MeasuresAtUnity' /\ ResultIsBetween'
  BY YawAssumption DEF GoodInv, SettleInv, SettlesAtRest, MeasuresAtUnity,
     ResultIsBetween, Saved, Active
<1> QED BY <1>1, <1>2, <1>3 DEF IInv

\* What a cancel leaves in force is usable, and good where it should be.
LEMMA CancelRestores ==
  ASSUME IInv
  PROVE  /\ ScaleAfterCancel \in Scale
         /\ ScaleAfterCancel[1] > 0 /\ ValidScale(ScaleAfterCancel)
         /\ restarted = 0 => ScaleAfterCancel = good
<1>1. cal.state \notin {"IDLE", "COMPLETE"} <=> cal.state \in Saved
  BY DEF IInv, TypeOK, CalState, Active, Saved
<1>2. CASE cal.state \in Saved
  <2>1. ScaleAfterCancel = cal.previous
    BY <1>1, <1>2 DEF ScaleAfterCancel, IInv, PlausibleInv
  <2> QED BY <1>2, <2>1 DEF IInv, TypeOK, PlausibleInv, GoodInv
<1>3. CASE cal.state \notin Saved
  <2>1. ScaleAfterCancel = scale
    BY <1>1, <1>3 DEF ScaleAfterCancel
  <2> QED BY <1>3, <2>1 DEF IInv, TypeOK, PlausibleInv, GoodInv, Saved
<1> QED BY <1>2, <1>3

\* Requests served: a calibration saves what the cancel before it, if any,
\* restored.
LEMMA ServiceKeeps ==
  ASSUME IInv, Service
  PROVE  IInv'
<1> DEFINE inForce == IF cancelReq = 1 THEN ScaleAfterCancel ELSE scale
<1>1. inForce \in Scale /\ inForce[1] > 0 /\ ValidScale(inForce)
  BY CancelRestores DEF IInv, TypeOK, PlausibleInv
<1>2. restarted = 0 /\ (cancelReq = 1 \/ cal.state \notin Active) => inForce = good
  BY CancelRestores DEF IInv, GoodInv
<1>3. UNCHANGED <<requestVars, good, stillRun>> /\ yaw' \in Int
  BY DEF Service, IInv, TypeOK
<1>4. CASE startReq = 1
  <2>1. /\ cal' = [NoCalibration EXCEPT !.state = "WAIT_STILL",
                      !.result = Unity, !.previous = inForce]
        /\ scale' = Unity
        /\ restarted' = IF cal.state \in Active /\ cancelReq = 0
                          THEN 1 ELSE restarted
    BY <1>4 DEF Service, StartCalibration
  <2> HIDE DEF inForce
  <2>2. /\ cal'.state = "WAIT_STILL" /\ cal'.settle = 0
        /\ cal'.previous = inForce
    BY <2>1 DEF NoCalibration
  <2>3. cal' \in [state : CalState, settle : 0 .. SettleSamples, origin : Int,
              positive : Int, negative : Int, result : Scale, previous : Scale]
    <3>1. cal' = [state |-> "WAIT_STILL", settle |-> 0, origin |-> 0,
                  positive |-> 0, negative |-> 0,
                  result |-> Unity, previous |-> inForce]
      BY <2>1 DEF NoCalibration
    <3>2. "WAIT_STILL" \in CalState /\ 0 \in 0 .. SettleSamples
      BY YawAssumption DEF CalState, Active
    <3> QED BY <3>1, <3>2, <1>1, UnityIsPlausible
  <2>4. TypeOK'
    <3>1. restarted' \in {0, 1}
      BY <2>1 DEF IInv, TypeOK
    <3>2. imuPc' = "sample" /\ startReq' = 0 /\ cancelReq' = 0
      BY DEF Service
    <3>3. scale' \in Scale
      BY <2>1, UnityIsPlausible
    <3> QED BY <2>3, <3>1, <3>2, <3>3, <1>3 DEF IInv, TypeOK, requestVars
  <2>5. PlausibleInv'
    BY <2>1, <2>2, <1>1, UnityIsPlausible DEF PlausibleInv
  <2>6. GoodInv'
    <3>1. restarted' = 0 => restarted = 0 /\ (cancelReq = 1 \/ cal.state \notin Active)
      BY <2>1 DEF IInv, TypeOK
    <3> QED BY <3>1, <2>2, <1>2, <1>3 DEF GoodInv, Active
  <2>7. SettleInv' /\ MeasuresAtUnity' /\ ResultIsBetween'
    BY <2>1, <2>2, <1>3, YawAssumption DEF SettleInv, SettlesAtRest,
       MeasuresAtUnity, ResultIsBetween, IInv, TypeOK
  <2> QED BY <2>4, <2>5, <2>6, <2>7 DEF IInv
<1>5. CASE startReq # 1
  <2>1. /\ scale' = inForce /\ UNCHANGED restarted
        /\ cal' = IF cancelReq = 1 THEN NoCalibration ELSE cal
    BY <1>5 DEF Service
  <2>2. CASE cancelReq = 1
    <3> HIDE DEF inForce
    <3>1. TypeOK'
      <4>1. <<0, 1>> \in Scale
        BY DEF Scale
      <4> QED BY <2>1, <2>2, <4>1, <1>1, <1>3, YawAssumption
              DEF Service, IInv, TypeOK, NoCalibration, CalState, requestVars
    <3>2. cal'.state = "IDLE"
      BY <2>1, <2>2 DEF NoCalibration
    <3>3. PlausibleInv' /\ GoodInv'
      BY <2>1, <2>2, <3>2, <1>1, <1>2, <1>3 DEF PlausibleInv, GoodInv, Saved, Active
    <3>4. SettleInv' /\ MeasuresAtUnity' /\ ResultIsBetween'
      BY <3>2 DEF SettleInv, SettlesAtRest, MeasuresAtUnity, ResultIsBetween, Active
    <3> QED BY <3>1, <3>3, <3>4 DEF IInv
  <2>3. CASE cancelReq # 1
    <3>1. UNCHANGED imuVars \/ (UNCHANGED <<scale, cal, good, restarted, stillRun>>)
      BY <2>1, <2>3, <1>3
    <3>2. TypeOK'
      BY <2>1, <2>3, <1>3 DEF Service, IInv, TypeOK, requestVars
    <3> QED BY <3>1, <3>2 DEF IInv, imuVars, PlausibleInv, GoodInv, SettleInv,
               SettlesAtRest, MeasuresAtUnity, ResultIsBetween
  <2> QED BY <2>2, <2>3
<1> QED BY <1>4, <1>5

-----------------------------------------------------------------------------
(* One sample.  The facts about cal' in a form that needs no expansion of  *)
(* the record.                                                             *)

CalType ==
  [state : CalState, settle : 0 .. SettleSamples, origin : Int,
   positive : Int, negative : Int, result : Scale, previous : Scale]

\* Updates of the record keep its type.
LEMMA CalMoved ==
  ASSUME NEW c \in CalType, NEW s \in CalState, NEW k \in 0 .. SettleSamples,
         NEW o \in Int
  PROVE  [c EXCEPT !.origin = o, !.settle = k, !.state = s] \in CalType
BY DEF CalType

\* The same for the update of a calibration that ends.
LEMMA CalEnded ==
  ASSUME NEW c \in CalType, NEW s \in CalState, NEW o \in Int, NEW r \in Scale
  PROVE  [c EXCEPT !.state = s, !.origin = o, !.result = r] \in CalType
BY DEF CalType

\* A calibration goes on: nothing but its own progress changes.
GoesOn(still) ==
  /\ cal' \in CalType
  /\ cal.state \in Active /\ cal'.state \in Active
  /\ cal'.previous = cal.previous /\ scale' = scale
  /\ cal'.settle \in {0, IF still THEN cal.settle + 1 ELSE 0}
  /\ cal'.settle < SettleSamples
  /\ cal'.state \in {"WAIT_POSITIVE", "WAIT_NEGATIVE"} => cal'.settle = 0

\* It fails, and the factor it saved comes back.
Fails ==
  /\ cal' \in CalType
  /\ cal.state \in Active /\ cal'.state = "FAILED"
  /\ cal'.previous = cal.previous /\ scale' = cal.previous

\* It completes with a usable factor.
Completes ==
  /\ cal' \in CalType
  /\ cal.state \in Active /\ cal'.state = "COMPLETE"
  /\ cal'.result = scale'
  /\ scale'[1] > 0 /\ ValidScale(scale')
  /\ ResultIsBetween'

\* There is none.
StandsStill == cal.state \notin Active /\ UNCHANGED <<cal, scale>>

\* What fail_yaw_calibration does, in these terms.
LEMMA FailFails ==
  ASSUME IInv, cal.state \in Active, NEW c \in CalType,
         c.previous = cal.previous, Fail(c)
  PROVE  Fails
<1>1. cal' = [c EXCEPT !.state = "FAILED", !.result = c.previous]
  BY DEF Fail
<1>2. cal' \in CalType
  BY <1>1 DEF CalType, CalState
<1>3. cal'.state = "FAILED" /\ cal'.previous = cal.previous
  BY <1>1 DEF CalType
<1>4. scale' = cal.previous
  BY DEF Fail, IInv, PlausibleInv, Saved
<1> QED BY <1>2, <1>3, <1>4 DEF Fails

\* The settle counter, one sample further.
LEMMA SettleOnType ==
  ASSUME IInv, cal.state \in Active
  PROVE  /\ SettleOn \in CalType /\ Unsettled \in CalType
         /\ SettleOn.state = cal.state /\ SettleOn.previous = cal.previous
         /\ SettleOn.settle = cal.settle + 1
         /\ Unsettled.state = cal.state /\ Unsettled.previous = cal.previous
         /\ Unsettled.settle = 0
BY YawAssumption DEF SettleOn, Unsettled, IInv, TypeOK, SettleInv, CalType

\* A calibration whose condition has not held long enough goes on.
LEMMA NotYetGoesOn ==
  ASSUME IInv, NEW still \in BOOLEAN, NEW condition \in BOOLEAN,
         condition => still,
         cal.state \in {"WAIT_STILL", "POSITIVE_ACTIVE", "NEGATIVE_ACTIVE"},
         NotYet(condition), UNCHANGED scale
  PROVE  GoesOn(still)
<1>1. cal.state \in Active /\ cal.settle \in Nat
  BY DEF Active, IInv, TypeOK
<1>2. CASE condition
  <2>1. cal' = SettleOn /\ cal.settle + 1 < SettleSamples
    BY <1>1, <1>2, YawAssumption DEF NotYet, Settled
  <2> QED BY <1>1, <1>2, <2>1, SettleOnType DEF GoesOn
<1>3. CASE ~condition
  <2>1. cal' = Unsettled
    BY <1>3 DEF NotYet
  <2> QED BY <1>1, <2>1, SettleOnType, YawAssumption DEF GoesOn
<1> QED BY <1>2, <1>3

\* Every sample is of one of the four kinds.
LEMMA SampleKinds ==
  ASSUME IInv, NEW still \in BOOLEAN, NEW rate, NEW y \in Int,
         UpdateCalibration(still, rate, y)
  PROVE  GoesOn(still) \/ Fails \/ Completes \/ StandsStill
<1> USE YawAssumption
<1>1. cal \in CalType
  BY DEF IInv, TypeOK, CalType
<1>2. CASE WaitStill(still, y)
  <2>1. cal.state = "WAIT_STILL" /\ UNCHANGED scale
    BY <1>2 DEF WaitStill
  <2>2. CASE NotYet(still)
    BY <2>1, <2>2, NotYetGoesOn
  <2>3. CASE cal' = [cal EXCEPT !.origin = 0, !.settle = 0,
                                !.state = "WAIT_POSITIVE"]
    <3>1. cal'.state = "WAIT_POSITIVE" /\ cal'.settle = 0
          /\ cal'.previous = cal.previous
      BY <2>3, <1>1 DEF CalType
    <3>2. "WAIT_POSITIVE" \in CalState /\ 0 \in 0 .. SettleSamples /\ 0 \in Int
      BY DEF CalState, Active
    <3>3. cal' \in CalType
      BY <2>3, <3>2, <1>1, CalMoved, Zenon
    <3> QED BY <3>1, <3>3, <2>1 DEF GoesOn, Active
  <2> QED BY <1>2, <2>2, <2>3 DEF WaitStill
<1>3. ASSUME NEW waiting \in {"WAIT_POSITIVE", "WAIT_NEGATIVE"},
             NEW side, NEW next \in {"POSITIVE_ACTIVE", "NEGATIVE_ACTIVE"},
             WaitTurn(waiting, rate, side, next, y)
      PROVE  GoesOn(still)
  <2>1. cal.state = waiting /\ cal.settle = 0 /\ UNCHANGED scale
    BY <1>3 DEF WaitTurn, IInv, SettleInv
  <2>2. cal' = cal \/ cal' = [cal EXCEPT !.state = next]
    BY <1>3 DEF WaitTurn
  <2>3. cal' \in CalType /\ cal'.state \in {waiting, next} /\ cal'.settle = 0
        /\ cal'.previous = cal.previous
    BY <2>1, <2>2, <1>1 DEF CalType, CalState, Active
  <2> QED BY <2>1, <2>3 DEF GoesOn, Active
<1>4. CASE PositiveActive(still, y)
  <2> DEFINE turned == y - cal.origin
             done == still /\ Captured(turned)
  <2>1. cal.state = "POSITIVE_ACTIVE" /\ turned \in Int
    BY <1>1, <1>4 DEF PositiveActive, CalType
  <2>2. CASE NotYet(done) /\ UNCHANGED scale
    <3>1. done \in BOOLEAN /\ (done => still)
      BY DEF Captured
    <3> HIDE DEF done
    <3> QED BY <2>1, <2>2, <3>1, NotYetGoesOn
  <2>3. CASE Fail([SettleOn EXCEPT !.positive = turned])
    <3> DEFINE c == [SettleOn EXCEPT !.positive = turned]
    <3>1. cal.state \in Active
      BY <2>1 DEF Active
    <3>2. c \in CalType /\ c.previous = cal.previous
      BY <3>1, <2>1, SettleOnType DEF CalType
    <3>3. Fail(c)
      BY <2>3
    <3> HIDE DEF c
    <3> QED BY <3>1, <3>2, <3>3, FailFails
  <2>4. CASE /\ cal' = [cal EXCEPT !.positive = turned, !.origin = y,
                                   !.settle = 0, !.state = "WAIT_NEGATIVE"]
             /\ UNCHANGED scale
    <3>1. cal'.state = "WAIT_NEGATIVE" /\ cal'.settle = 0
          /\ cal'.previous = cal.previous
      BY <2>4, <1>1 DEF CalType
    <3>2. "WAIT_NEGATIVE" \in CalState /\ 0 \in 0 .. SettleSamples
      BY DEF CalState, Active
    <3> HIDE DEF turned
    <3>3. cal' \in CalType
      BY <2>1, <2>4, <3>2, <1>1 DEF CalType
    <3> QED BY <3>1, <3>3, <2>1, <2>4 DEF GoesOn, Active
  <2> QED BY <1>4, <2>2, <2>3, <2>4 DEF PositiveActive
<1>5. CASE NegativeActive(still, y)
  <2> DEFINE turned == cal.origin - y
             done == still /\ Captured(turned)
             c == [SettleOn EXCEPT !.negative = -turned]
  <2>1. cal.state = "NEGATIVE_ACTIVE" /\ turned \in Int
    BY <1>1, <1>5 DEF NegativeActive, CalType
  <2>2. cal.state \in Active
    BY <2>1 DEF Active
  <2>3. c \in CalType /\ c.previous = cal.previous
    BY <2>1, <2>2, SettleOnType DEF CalType
  <2>4. CASE NotYet(done) /\ UNCHANGED scale
    <3>1. done \in BOOLEAN /\ (done => still)
      BY DEF Captured
    <3> HIDE DEF done
    <3> QED BY <2>1, <2>4, <3>1, NotYetGoesOn
  <2>5. CASE Complete(c)
    <3> HIDE DEF c
    <3>1. CASE Fail(c)
      BY <2>2, <2>3, <3>1, FailFails
    <3>2. CASE ~Fail(c)
      <4> DEFINE p == c.positive
                 n == -c.negative
      <4>1. p \in Int /\ n \in Int
        BY <2>3 DEF CalType
      <4>2. /\ ValidScale(<<FourLap, p>>) /\ ValidScale(<<FourLap, n>>)
            /\ ValidScale(MeanScale(p, n))
            /\ cal' = [c EXCEPT !.state = "COMPLETE", !.origin = 0,
                                !.result = MeanScale(p, n)]
            /\ scale' = MeanScale(p, n)
        BY <2>5, <3>2 DEF Complete
      <4>3. p \in Nat \ {0} /\ n \in Nat \ {0}
        BY <4>1, <4>2, ValidTurnIsPositive
      <4>4. MeanScale(p, n) \in Scale /\ MeanScale(p, n)[1] > 0
        BY <4>3, MeanIsBetween
      <4>5. /\ cal' \in CalType /\ cal'.state = "COMPLETE"
            /\ cal'.result = MeanScale(p, n)
            /\ cal'.positive = p /\ -cal'.negative = n
        <5>1. "COMPLETE" \in CalState /\ 0 \in Int
          BY DEF CalState
        <5>2. cal' \in CalType
          BY <2>3, <4>2, <4>4, <5>1, CalEnded, Zenon
        <5>3. /\ cal'.state = "COMPLETE" /\ cal'.result = MeanScale(p, n)
              /\ cal'.positive = c.positive /\ cal'.negative = c.negative
          BY <2>3, <4>2 DEF CalType
        <5> QED BY <5>2, <5>3
      <4> HIDE DEF p, n
      <4>6. ResultIsBetween'
        <5>1. -cal'.negative = n /\ cal'.positive = p /\ cal'.result = scale'
          BY <4>2, <4>5
        <5>2. p <= n => /\ scale'[1] * n >= FourLap * scale'[2]
                        /\ scale'[1] * p <= FourLap * scale'[2]
          BY <4>2, <4>3, MeanIsBetween
        <5>3. ~(p <= n) => /\ scale'[1] * p >= FourLap * scale'[2]
                           /\ scale'[1] * n <= FourLap * scale'[2]
          BY <4>2, <4>3, MeanIsBetween
        <5> QED BY <5>1, <5>2, <5>3, Zenon DEF ResultIsBetween
      <4> QED BY <2>2, <4>2, <4>4, <4>5, <4>6 DEF Completes
    <3> QED BY <3>1, <3>2
  <2> QED BY <1>5, <2>4, <2>5 DEF NegativeActive
<1>6. CASE cal.state \notin Active /\ UNCHANGED <<cal, scale>>
  BY <1>6 DEF StandsStill
<1> QED BY <1>2, <1>3, <1>4, <1>5, <1>6 DEF UpdateCalibration

\* A sample keeps the invariant, whatever it does to the calibration.
LEMMA SampleKeeps ==
  ASSUME IInv, NEW still \in BOOLEAN, NEW rate, NEW y \in Yaws \cup {yaw},
         Sample(still, rate, y)
  PROVE  IInv'
<1> USE YawAssumption
<1>1. y \in Int /\ UpdateCalibration(still, rate, y)
  BY DEF Sample, IInv, TypeOK
<1>2. GoesOn(still) \/ Fails \/ Completes \/ StandsStill
  BY <1>1, SampleKinds
<1>3. yaw' \in Int
  BY <1>1 DEF UpdateCalibration, WaitStill, WaitTurn, PositiveActive,
     NegativeActive, Complete, Fail
<1>4. /\ imuPc' = "service" /\ UNCHANGED <<requestVars, startReq, cancelReq>>
      /\ stillRun' = IF ~still THEN 0
                     ELSE IF stillRun < SettleSamples THEN stillRun + 1 ELSE stillRun
      /\ IF cal'.state = "COMPLETE" /\ cal.state # "COMPLETE"
           THEN good' = cal'.result /\ restarted' = 0
           ELSE UNCHANGED <<good, restarted>>
  BY DEF Sample
<1>5. cal' \in CalType /\ scale' \in Scale
  BY <1>2 DEF GoesOn, Fails, Completes, StandsStill, IInv, TypeOK, CalType
<1>6. TypeOK'
  <2>1. stillRun' \in 0 .. SettleSamples
    BY <1>4 DEF IInv, TypeOK
  <2>2. good' \in Scale /\ restarted' \in {0, 1}
    BY <1>4, <1>5 DEF IInv, TypeOK, CalType
  <2> QED BY <1>3, <1>4, <1>5, <2>1, <2>2 DEF IInv, TypeOK, requestVars, CalType
<1>7. PlausibleInv'
  BY <1>2 DEF GoesOn, Fails, Completes, StandsStill, IInv, PlausibleInv, Saved,
     Active
<1>8. GoodInv'
  BY <1>2, <1>4 DEF GoesOn, Fails, Completes, StandsStill, IInv, GoodInv, Saved,
     Active
<1>9. SettleInv'
  <2>1. CASE GoesOn(still)
    <3>1. cal'.settle <= stillRun'
      BY <1>4, <1>6, <2>1 DEF GoesOn, IInv, TypeOK, SettleInv, SettlesAtRest
    <3> QED BY <2>1, <3>1 DEF GoesOn, SettleInv, SettlesAtRest
  <2>2. CASE cal'.state \notin Active
    BY <2>2 DEF SettleInv, SettlesAtRest, Active
  <2> QED BY <1>2, <2>1, <2>2 DEF Fails, Completes, StandsStill, Active
<1>10. MeasuresAtUnity' /\ ResultIsBetween'
  BY <1>2 DEF GoesOn, Fails, Completes, StandsStill, IInv, MeasuresAtUnity,
     ResultIsBetween, Active
<1> QED BY <1>6, <1>7, <1>8, <1>9, <1>10 DEF IInv

\* Every step keeps the invariant.
LEMMA NextKeeps == IInv /\ [Next]_vars => IInv'
<1> SUFFICES ASSUME IInv, [Next]_vars PROVE IInv'
  OBVIOUS
<1>1. CASE SampleError \/ UNCHANGED vars
  BY <1>1 DEF SampleError, vars, imuVars, requestVars, IInv, TypeOK,
     PlausibleInv, GoodInv, SettleInv, SettlesAtRest, MeasuresAtUnity,
     ResultIsBetween
<1> QED BY <1>1, RequestKeeps, StartupKeeps, ServiceKeeps, SampleKeeps DEF Next

-----------------------------------------------------------------------------

\* The inductive invariant of the calibration holds in every reachable state.
THEOREM InductiveInvariant == Spec => []IInv
BY InitInv, NextKeeps, PTL DEF Spec

\* Every variable keeps its type, whatever the requests and the turns.
THEOREM TypeCorrect == Spec => []TypeOK
BY InductiveInvariant, PTL DEF IInv

\* A calibration never measures with a factor of its own
\* (start_yaw_calibration).
THEOREM UnityTheorem == Spec => []MeasuresAtUnity
BY InductiveInvariant, PTL DEF IInv

\* A calibration that fails or is cancelled leaves the last good factor, if it
\* was not started inside another one (fail_yaw_calibration and
\* cancel_yaw_calibration).
THEOREM GoodTheorem == Spec => []ScaleIsGoodUnlessRestarted
<1>1. IInv => ScaleIsGoodUnlessRestarted
  BY DEF IInv, GoodInv, ScaleIsGoodUnlessRestarted
<1> QED BY <1>1, InductiveInvariant, PTL

\* The factor in force is always within the limits of the code.
THEOREM PlausibleTheorem == Spec => []ScaleIsPlausible
<1>1. IInv => ScaleIsPlausible
  BY DEF IInv, PlausibleInv, ScaleIsPlausible
<1> QED BY <1>1, InductiveInvariant, PTL

\* The result of a calibration lies between those of its two directions
\* (complete_yaw_calibration).
THEOREM BetweenTheorem == Spec => []ResultIsBetween
BY InductiveInvariant, PTL DEF IInv

\* An angle is captured only after SettleSamples successive stationary samples.
THEOREM SettleTheorem == Spec => []SettlesAtRest
<1>1. IInv => SettlesAtRest
  BY DEF IInv, SettleInv
<1> QED BY <1>1, InductiveInvariant, PTL

=============================================================================
