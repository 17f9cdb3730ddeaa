--------------------------- MODULE ImuStackProofs ---------------------------
(***************************************************************************)
(* The safety of the IMU service for any number of attempts, samples and   *)
(* errors, and that the service with its device (ImuStack) implements it.  *)
(***************************************************************************)
EXTENDS ImuStack, TLAPS

-----------------------------------------------------------------------------
(* The service alone.                                                      *)

\* Operation is reached with a device that is ready and calibrated, and never
\* left; everything the car sees of it comes from there.
OnlyOperateIsReady ==
  /\ pc \in {"verdict", "operate"} => devReady = 1
  /\ pc = "operate" => biased = 1
  /\ snap.state = "READY" => pc = "operate"
  /\ imuReady = 1 => pc = "operate"
  /\ car = "RUN" => pc = "operate"

\* A service that is past Begin without having misread an identity has a
\* device; one that has stopped had, or was at its last attempt.
FaultHasCause ==
  /\ (pc \in {"reset", "calibrate", "settle"} /\ misread = 0) => devReady = 1
  /\ fault = "raised" => pc = "stopped"
  /\ (pc = "stopped" /\ misread = 0) => attempt = Retries \/ devReady = 1

\* A calibration that takes a sample has not got them all.
SamplesLeft == pc = "calibrate" => sample < CalSamples

\* The invariant of the service.
ServiceInv == TypeOK /\ SamplesLeft /\ OnlyOperateIsReady /\ FaultHasCause

\* The states the service starts in satisfy the invariant.
LEMMA ServiceInit == Init => ServiceInv
BY ServiceAssumption DEF Init, ServiceInv, TypeOK, SamplesLeft,
     OnlyOperateIsReady, FaultHasCause, Flag, Failed

\* Every step of the start-up keeps it.
LEMMA ServiceStartUp == ServiceInv /\ StartUpStep => ServiceInv'
<1> SUFFICES ASSUME ServiceInv, StartUpStep PROVE ServiceInv'
  OBVIOUS
<1> USE ServiceAssumption DEF ServiceInv, TypeOK, SamplesLeft, OnlyOperateIsReady,
      FaultHasCause, Flag, Ok, Failed, carVars
<1>1. ASSUME NEW status \in Flag, NEW right \in BOOLEAN, ReadWhoAmI(status, right)
      PROVE  ServiceInv'
  BY <1>1 DEF ReadWhoAmI, Publish
<1>2. ASSUME NEW status \in Flag, Begin(status) PROVE ServiceInv'
  BY <1>2 DEF Begin
<1>3. CASE Retry
  BY <1>3 DEF Retry, GiveUp, Publish
<1>4. ASSUME NEW motion_ \in Flag, ResetBias(motion_) PROVE ServiceInv'
  BY <1>4 DEF ResetBias
<1>5. ASSUME NEW status \in Flag, TakeSample(status) PROVE ServiceInv'
  <2>1. CASE status = Failed
    BY <1>5, <2>1 DEF TakeSample, GiveUp, Publish
  <2>2. CASE status = Ok
    <3>1. sample + 1 \in 0 .. CalSamples
      BY <1>5 DEF TakeSample
    <3>2. sample + 1 # CalSamples => sample + 1 < CalSamples
      BY <3>1
    <3> QED
      BY <1>5, <2>2, <3>1, <3>2 DEF TakeSample
  <2> QED
    BY <2>1, <2>2
<1>6. CASE Verdict
  BY <1>6 DEF Verdict
<1>7. CASE Settle
  BY <1>7 DEF Settle
<1> QED
  BY <1>1, <1>2, <1>3, <1>4, <1>5, <1>6, <1>7 DEF StartUpStep

\* And so does every other step.
LEMMA ServiceNext == ServiceInv /\ [Next]_vars => ServiceInv'
<1> SUFFICES ASSUME ServiceInv, [Next]_vars PROVE ServiceInv'
  OBVIOUS
<1> USE ServiceAssumption DEF ServiceInv, TypeOK, SamplesLeft, OnlyOperateIsReady,
      FaultHasCause, Flag, Ok, Failed, carVars, imuVars
<1>1. CASE StartUpStep
  BY <1>1, ServiceStartUp
<1>2. ASSUME NEW status \in Flag, Operate(status) PROVE ServiceInv'
  BY <1>2 DEF Operate, Publish
<1>3. CASE CopySnapshot
  BY <1>3 DEF CopySnapshot, SnapshotReady
<1>4. CASE Start
  BY <1>4 DEF Start
<1>5. CASE Stop
  BY <1>5 DEF Stop
<1>6. CASE UNCHANGED vars
  BY <1>6 DEF vars
<1> QED
  BY <1>1, <1>2, <1>3, <1>4, <1>5, <1>6 DEF Next, ImuStep

\* The invariant of the service.
THEOREM ServiceInvariant == Spec => []ServiceInv
BY ServiceInit, ServiceNext, PTL DEF Spec

\* The variables of the service keep their types.
THEOREM ServiceTypes == Spec => []TypeOK
BY ServiceInvariant, PTL DEF ServiceInv

\* The car runs only on a bias measured at rest.
THEOREM ServiceRunsCalibrated == Spec => []RunsOnlyCalibrated
<1>1. ServiceInv => RunsOnlyCalibrated
  BY DEF ServiceInv, OnlyOperateIsReady, RunsOnlyCalibrated
<1> QED
  BY <1>1, ServiceInvariant, PTL

\* What the car takes for ready has been begun and calibrated.
THEOREM ServiceReadyCalibrated == Spec => []ReadyMeansCalibrated
<1>1. ServiceInv => ReadyMeansCalibrated
  BY DEF ServiceInv, OnlyOperateIsReady, ReadyMeansCalibrated
<1> QED
  BY <1>1, ServiceInvariant, PTL

\* A device that identifies itself is given up at the last attempt only.
THEOREM ServiceGivesUpLate == Spec => []GivesUpLate
<1>1. ServiceInv => GivesUpLate
  BY DEF ServiceInv, FaultHasCause, GivesUpLate
<1> QED
  BY <1>1, ServiceInvariant, PTL

-----------------------------------------------------------------------------
(* The service with its device.                                            *)

\* Begin accumulates every failure, and a device gets ready from no failure.
BeginInv ==
  /\ bad \in Flag
  /\ pc = "begin" => devReady = 0
  /\ (anyFailed /\ pc = "begin") => bad = 1
  /\ devReady = 1 => ~anyFailed

\* Every step of the stack keeps BeginInv.
LEMMA BeginStep == BeginInv /\ [StackNext]_stackVars => BeginInv'
<1> SUFFICES ASSUME BeginInv, [StackNext]_stackVars PROVE BeginInv'
  OBVIOUS
<1> USE DEF BeginInv, Flag, Ok, Failed
<1>1. ASSUME NEW status \in Flag, NEW right \in BOOLEAN, StackReadWhoAmI(status, right)
      PROVE  BeginInv'
  BY <1>1 DEF StackReadWhoAmI, ReadWhoAmI
<1>2. ASSUME NEW status \in Flag, Access(status) PROVE BeginInv'
  <2>1. ASSUME Begin(1 - bad'), UNCHANGED <<worldVars, devVars, sequence>>
        PROVE  pc' # "begin" /\ devReady' = 1 - bad'
    BY <2>1 DEF Begin
  <2>2. bad' \in Flag /\ (anyFailed' => bad' = 1)
    BY <1>2 DEF Access, Accumulate
  <2>3. \/ pc' # "begin" /\ devReady' = 1 - bad'
        \/ pc' = pc /\ devReady' = devReady
    BY <1>2, <2>1 DEF Access, vars, imuVars
  <2> QED
    BY <1>2, <2>2, <2>3 DEF Access
<1>3. CASE StackRetry
  BY <1>3 DEF StackRetry, Retry, beginVars, GiveUp
<1>4. ASSUME NEW m \in Flag, StackResetBias(m) PROVE BeginInv'
  BY <1>4 DEF StackResetBias, ResetBias, beginVars
<1>5. ASSUME NEW status \in Flag, StackTakeSample(status) PROVE BeginInv'
  BY <1>5 DEF StackTakeSample, TakeSample, GiveUp, beginVars
<1>6. CASE StackVerdict
  BY <1>6 DEF StackVerdict, Verdict, beginVars
<1>7. CASE StackSettle
  BY <1>7 DEF StackSettle, Settle, beginVars
<1>8. ASSUME NEW status \in Flag, StackOperate(status) PROVE BeginInv'
  BY <1>8 DEF StackOperate, Operate, beginVars
<1>9. CASE RestOfCar
  BY <1>9 DEF RestOfCar, CopySnapshot, Start, Stop, beginVars, imuVars
<1>10. CASE World
  BY <1>10 DEF World, beginVars, vars, imuVars
<1>11. CASE UNCHANGED stackVars
  BY <1>11 DEF stackVars, beginVars, vars, imuVars
<1> QED
  BY <1>1, <1>2, <1>3, <1>4, <1>5, <1>6, <1>7, <1>8, <1>9, <1>10, <1>11
  DEF StackNext, StackStartUp

\* The invariant of Begin.
LEMMA BeginInvariant == StackSpec => []BeginInv
<1>1. StackInit => BeginInv
  BY DEF StackInit, Init, BeginInv, Flag
<1> QED
  BY <1>1, BeginStep, PTL DEF StackSpec

\* A device is ready only when every access of its last Begin went well.
THEOREM StackReadyConfigured == StackSpec => []ReadyMeansConfigured
<1>1. BeginInv => ReadyMeansConfigured
  BY DEF BeginInv, ReadyMeansConfigured
<1> QED
  BY <1>1, BeginInvariant, PTL

\* Every step of the stack is one of the service, or leaves it alone: Begin
\* is over at one access, all others belong to a service that waits for it.
LEMMA StackStepIsServiceStep ==
  BeginInv /\ [StackNext]_stackVars => [Next]_vars
<1> SUFFICES ASSUME BeginInv, [StackNext]_stackVars PROVE [Next]_vars
  OBVIOUS
<1>1. ASSUME NEW status \in Flag, NEW right \in BOOLEAN, StackReadWhoAmI(status, right)
      PROVE  Next
  BY <1>1 DEF StackReadWhoAmI, Next, ImuStep, StartUpStep
<1>2. ASSUME NEW status \in Flag, Access(status) PROVE [Next]_vars
  <2>1. ASSUME Begin(1 - bad') PROVE Next
    <3>1. (1 - bad') \in Flag
      BY <1>2 DEF Access, Accumulate, BeginInv, Flag, Failed
    <3> QED
      BY <2>1, <3>1 DEF Next, ImuStep, StartUpStep
  <2> QED
    BY <1>2, <2>1 DEF Access
<1>3. CASE StackRetry
  BY <1>3 DEF StackRetry, Next, ImuStep, StartUpStep
<1>4. ASSUME NEW m \in Flag, StackResetBias(m) PROVE Next
  BY <1>4 DEF StackResetBias, Next, ImuStep, StartUpStep
<1>5. ASSUME NEW status \in Flag, StackTakeSample(status) PROVE Next
  BY <1>5 DEF StackTakeSample, Next, ImuStep, StartUpStep
<1>6. CASE StackVerdict
  BY <1>6 DEF StackVerdict, Next, ImuStep, StartUpStep
<1>7. CASE StackSettle
  BY <1>7 DEF StackSettle, Next, ImuStep, StartUpStep
<1>8. ASSUME NEW status \in Flag, StackOperate(status) PROVE Next
  BY <1>8 DEF StackOperate, Next, ImuStep
<1>9. CASE RestOfCar
  BY <1>9 DEF RestOfCar, Next
<1>10. CASE World
  BY <1>10 DEF World
<1>11. CASE UNCHANGED stackVars
  BY <1>11 DEF stackVars
<1> QED
  BY <1>1, <1>2, <1>3, <1>4, <1>5, <1>6, <1>7, <1>8, <1>9, <1>10, <1>11
  DEF StackNext, StackStartUp

\* The service with its device implements the service: the safety part of
\* ImplementsService.
THEOREM StackImplementsService == StackSpec => Spec
<1>1. StackInit => Init
  BY DEF StackInit
<1> QED
  BY <1>1, BeginInvariant, StackStepIsServiceStep, PTL DEF StackSpec, Spec

\* With it come the theorems of the service, here the most important one.
THEOREM StackRunsCalibrated == StackSpec => []RunsOnlyCalibrated
BY StackImplementsService, ServiceRunsCalibrated, PTL

-----------------------------------------------------------------------------
(* Learning the bias in operation.                                         *)

Devices == [bias : Int, count : 0 .. Hold, stationary : BOOLEAN,
            learn : 0 .. LearnAfter, locked : BOOLEAN]

\* All samples that count towards learning have shown a car at rest.
LearnInv ==
  /\ dev \in Devices
  /\ quiet \in 0 .. LearnAfter + 1
  /\ dev.learn <= quiet
  /\ pc # "operate" => dev.learn = 0
  /\ motion \in Motions /\ offset \in Offsets

\* Two fields of a record of this form can be replaced.
LEMMA ReplaceBias ==
  ASSUME NEW A, NEW B, NEW C, NEW D, NEW E, NEW b \in A, NEW n \in D,
         NEW r \in [bias : A, count : B, stationary : C, learn : D, locked : E]
  PROVE  LET d == [r EXCEPT !.bias = b, !.learn = n] IN
         /\ d \in [bias : A, count : B, stationary : C, learn : D, locked : E]
         /\ d.learn = n
OBVIOUS

\* A device keeps its type when its bias is set.
LEMMA SetBias ==
  ASSUME dev \in Devices, NEW b \in Int
  PROVE  LET d == [dev EXCEPT !.bias = b, !.learn = 0] IN d \in Devices /\ d.learn = 0
<1>1. 0 \in 0 .. LearnAfter
  BY StackAssumption
<1> QED
  BY <1>1, ReplaceBias, Zenon DEF Devices

\* What Learning yields: the bias moves only with the counter at its limit.
LEMMA LearningYields ==
  ASSUME NEW gz \in Int, NEW still \in BOOLEAN, dev.learn \in 0 .. LearnAfter
  PROVE  LET l == Learning(gz, still) IN
         /\ l.learn \in 0 .. LearnAfter /\ l.by \in Int
         /\ (~still \/ Abs(gz) > LearnRate) => l.learn = 0 /\ l.by = 0
         /\ l.learn <= dev.learn + 1
         /\ l.by # 0 => dev.learn = LearnAfter
BY StackAssumption DEF Learning

\* A sample keeps its part of LearnInv, and one that moves the bias ends a row
\* of LearnAfter + 1 that show a car at rest.
LEMMA SampleLearns ==
  ASSUME LearnInv, NEW auto \in BOOLEAN, ~auto => dev.learn = 0, Sample(auto)
  PROVE  /\ dev' \in Devices
         /\ quiet' \in 0 .. LearnAfter + 1
         /\ dev'.learn <= quiet'
         /\ ~auto => dev'.learn = 0
         /\ dev'.bias # dev.bias => quiet' = LearnAfter + 1
<1> DEFINE gz == offset + RateOf[motion] - dev.bias
           count == Count(motion # "jolt" /\ Abs(gz) <= StillRate)
           still == Stationary(count)
           loud == Abs(gz) > LearnRate
           l == IF auto THEN Learning(gz, still) ELSE [learn |-> dev.learn, by |-> 0]
           locked == still /\ Abs(gz - l.by) <= LockRate
<1>1. /\ dev' = [bias |-> dev.bias + l.by, count |-> count, stationary |-> still,
                 learn |-> l.learn, locked |-> locked]
      /\ quiet' = IF motion = "jolt" \/ loud THEN 0
                  ELSE IF quiet <= LearnAfter THEN quiet + 1 ELSE quiet
  BY DEF Sample, Corrected, YawShouldLock
<1>2. /\ gz \in Int /\ dev.bias \in Int /\ dev.learn \in 0 .. LearnAfter
      /\ dev.count \in 0 .. Hold
  <2>1. RateOf[motion] \in Int /\ offset \in Int
    BY StackAssumption DEF LearnInv, Motions
  <2> QED
    BY <2>1 DEF LearnInv, Devices
<1>3. count \in 0 .. Hold /\ still \in BOOLEAN /\ (still => motion # "jolt")
  BY <1>2, StackAssumption DEF Count, Stationary
<1>4. /\ l.learn \in 0 .. LearnAfter /\ l.by \in Int
      /\ l.learn <= dev.learn + 1
      /\ (~still \/ loud) => l.learn = 0 /\ l.by = 0
      /\ l.by # 0 => dev.learn = LearnAfter
      /\ ~auto => l.learn = 0
  <2>1. CASE auto
    BY <2>1, <1>2, <1>3, LearningYields
  <2>2. CASE ~auto
    BY <2>2, <1>2, StackAssumption
  <2> QED
    BY <2>1, <2>2
<1>5. quiet \in 0 .. LearnAfter + 1 /\ dev.learn <= quiet
  BY DEF LearnInv
<1>6. dev'.bias = dev.bias + l.by /\ dev'.learn = l.learn
  BY <1>1
<1> HIDE DEF gz, count, still, l
<1>7. locked \in BOOLEAN
  BY <1>3 DEF locked
<1> HIDE DEF loud, locked
<1>8. dev' \in Devices
  BY <1>1, <1>2, <1>3, <1>4, <1>7 DEF Devices
<1>9. CASE motion = "jolt" \/ loud
  BY <1>9, <1>1, <1>2, <1>3, <1>4, <1>6, <1>8, StackAssumption
<1>10. CASE ~(motion = "jolt" \/ loud)
  BY <1>10, <1>1, <1>2, <1>4, <1>5, <1>6, <1>8, StackAssumption
<1> QED
  BY <1>9, <1>10

\* Every step of the stack keeps LearnInv, and moves the bias in operation only
\* at the end of such a row.
LEMMA LearnStep ==
  LearnInv /\ [StackNext]_stackVars =>
    /\ LearnInv'
    /\ (pc = "operate" /\ dev'.bias # dev.bias) => quiet' = LearnAfter + 1
<1> DEFINE Learns == /\ LearnInv'
                     /\ (pc = "operate" /\ dev'.bias # dev.bias)
                          => quiet' = LearnAfter + 1
<1> SUFFICES ASSUME LearnInv, [StackNext]_stackVars PROVE Learns
  OBVIOUS
<1>1. ASSUME UNCHANGED <<worldVars, devVars>>, pc # "operate" \/ pc' = pc PROVE Learns
  BY <1>1 DEF LearnInv, worldVars, devVars
<1>2. ASSUME NEW status \in Flag, NEW right \in BOOLEAN, StackReadWhoAmI(status, right)
      PROVE  Learns
  <2>1. dev' \in Devices /\ dev'.learn = 0 /\ quiet' = 0
    BY <1>2, StackAssumption DEF StackReadWhoAmI, NoSamples, Devices
  <2> QED
    BY <1>2, <2>1, StackAssumption DEF StackReadWhoAmI, ReadWhoAmI, worldVars, LearnInv
<1>3. ASSUME NEW status \in Flag, Access(status) PROVE Learns
  BY <1>3, <1>1 DEF Access
<1>4. CASE StackRetry
  BY <1>4, <1>1 DEF StackRetry, Retry
<1>5. ASSUME NEW m \in Flag, StackResetBias(m) PROVE Learns
  <2>1. dev' \in Devices /\ dev'.learn = 0 /\ quiet' = 0
    <3>1. 0 \in Int
      OBVIOUS
    <3> QED
      BY <1>5, <3>1, SetBias DEF StackResetBias, SetGyroBias, LearnInv
  <2>2. motion' \in Motions /\ offset' = offset /\ pc = "reset"
    BY <1>5, StackAssumption DEF StackResetBias, SetGyroBias, ResetBias, LearnInv, Motions
  <2> QED
    BY <2>1, <2>2, StackAssumption DEF LearnInv
<1>6. ASSUME NEW status \in Flag, StackTakeSample(status) PROVE Learns
  <2>1. pc = "calibrate" /\ UNCHANGED worldVars /\ dev.learn = 0
    BY <1>6 DEF StackTakeSample, TakeSample, LearnInv
  <2>2. CASE Sample(FALSE)
    BY <2>1, <2>2, SampleLearns DEF LearnInv, worldVars
  <2>3. CASE UNCHANGED devVars
    BY <2>1, <2>3, <1>1
  <2> QED
    BY <1>6, <2>2, <2>3 DEF StackTakeSample
<1>7. CASE StackVerdict
  <2>1. CASE UNCHANGED devVars
    BY <1>7, <2>1, <1>1 DEF StackVerdict, Verdict
  <2>2. CASE dev' = [dev EXCEPT !.bias = offset, !.learn = 0] /\ quiet' = 0
    <3>1. dev' \in Devices /\ dev'.learn = 0
      BY <2>2, SetBias, StackAssumption DEF LearnInv
    <3> QED
      BY <1>7, <2>2, <3>1, StackAssumption
      DEF StackVerdict, Verdict, LearnInv, worldVars
  <2> QED
    BY <1>7, <2>1, <2>2 DEF StackVerdict, SetGyroBias
<1>8. CASE StackSettle
  BY <1>8, <1>1 DEF StackSettle, Settle
<1>9. ASSUME NEW status \in Flag, StackOperate(status) PROVE Learns
  <2>1. pc = "operate" /\ pc' = pc /\ UNCHANGED worldVars
    BY <1>9 DEF StackOperate, Operate
  <2>2. CASE Sample(TRUE)
    BY <2>1, <2>2, SampleLearns DEF LearnInv, worldVars
  <2>3. CASE UNCHANGED devVars
    BY <2>1, <2>3, <1>1
  <2> QED
    BY <1>9, <2>2, <2>3 DEF StackOperate
<1>10. CASE RestOfCar
  BY <1>10, <1>1 DEF RestOfCar, CopySnapshot, Start, Stop, imuVars
<1>11. CASE World
  BY <1>11 DEF World, LearnInv, vars, imuVars, devVars
<1>12. CASE UNCHANGED stackVars
  BY <1>12, <1>1 DEF stackVars, vars, imuVars
<1> QED
  BY <1>2, <1>3, <1>4, <1>5, <1>6, <1>7, <1>8, <1>9, <1>10, <1>11, <1>12
  DEF StackNext, StackStartUp

\* The states the stack starts in satisfy LearnInv.
LEMMA InitLearns == StackInit => LearnInv
<1>1. NoSamples \in Devices
  BY StackAssumption DEF NoSamples, Devices
<1> QED
  BY <1>1, StackAssumption DEF StackInit, Init, LearnInv, NoSamples

\* The bias in operation is moved only at the end of LearnAfter + 1 samples in
\* a row that show a car at rest.
THEOREM StackLearnsOnlyWhenStill == StackSpec => LearnsOnlyWhenStill
BY InitLearns, LearnStep, PTL DEF StackSpec, LearnsOnlyWhenStill

-----------------------------------------------------------------------------
(* The types of the stack.                                                 *)

\* The access that Begin is at, and the numbers of the snapshot and its ghost.
CountersInv ==
  /\ access \in 0 .. Configs + 2 /\ anyFailed \in BOOLEAN /\ sequence \in Flag

\* Every step of the stack keeps them.
LEMMA CountersStep == CountersInv /\ [StackNext]_stackVars => CountersInv'
<1> SUFFICES ASSUME CountersInv, [StackNext]_stackVars PROVE CountersInv'
  OBVIOUS
<1> USE DEF CountersInv, Flag
<1>1. ASSUME UNCHANGED beginVars, UNCHANGED sequence PROVE CountersInv'
  BY <1>1 DEF beginVars
<1>2. ASSUME NEW status \in Flag, NEW right \in BOOLEAN, StackReadWhoAmI(status, right)
      PROVE  CountersInv'
  <2>1. access' = 0 /\ anyFailed' = FALSE /\ sequence' = sequence
    BY <1>2 DEF StackReadWhoAmI
  <2> QED
    <3>1. anyFailed' \in BOOLEAN
      BY <2>1, Zenon
    <3> QED
      BY <2>1, <3>1, StackAssumption
<1>3. ASSUME NEW status \in Flag, Access(status) PROVE CountersInv'
  <2>1. access' = 0 \/ (access # Configs + 2 /\ access' = access + 1)
    BY <1>3 DEF Access
  <2>2. access' \in 0 .. Configs + 2
    BY <2>1, StackAssumption
  <2>3. anyFailed' \in BOOLEAN
    BY <1>3, Zenon DEF Access
  <2>4. sequence' = sequence
    BY <1>3 DEF Access
  <2> QED
    BY <2>2, <2>3, <2>4
<1>4. CASE StackRetry
  BY <1>4, <1>1 DEF StackRetry
<1>5. ASSUME NEW m \in Flag, StackResetBias(m) PROVE CountersInv'
  BY <1>5, <1>1 DEF StackResetBias
<1>6. ASSUME NEW status \in Flag, StackTakeSample(status) PROVE CountersInv'
  BY <1>6, <1>1 DEF StackTakeSample
<1>7. CASE StackVerdict
  BY <1>7, <1>1 DEF StackVerdict
<1>8. CASE StackSettle
  BY <1>8, <1>1 DEF StackSettle
<1>9. ASSUME NEW status \in Flag, StackOperate(status) PROVE CountersInv'
  BY <1>9 DEF StackOperate, beginVars
<1>10. CASE RestOfCar
  BY <1>10, <1>1 DEF RestOfCar
<1>11. CASE World
  BY <1>11, <1>1 DEF World
<1>12. CASE UNCHANGED stackVars
  BY <1>12, <1>1 DEF stackVars
<1> QED
  BY <1>2, <1>3, <1>4, <1>5, <1>6, <1>7, <1>8, <1>9, <1>10, <1>11, <1>12
  DEF StackNext, StackStartUp

\* What the gyro senses at an offset is a rate of the world.
LEMMA RatesAreSensed ==
  ASSUME LearnInv
  PROVE  /\ offset + RateOf[motion] \in Sensed /\ offset \in Sensed
         /\ Sensed \subseteq Int
<1>1. \A o \in Offsets, m \in Motions : o + RateOf[m] \in Int
  BY StackAssumption DEF Motions
<1>2. Sensed \subseteq Int
  BY <1>1 DEF Sensed
<1>3. "rest" \in Motions /\ offset + RateOf["rest"] = offset
  BY StackAssumption DEF LearnInv, Motions
<1>4. offset + RateOf["rest"] \in Sensed
  BY <1>3 DEF LearnInv, Sensed
<1>5. offset + RateOf[motion] \in Sensed
  BY DEF LearnInv, Sensed
<1> QED
  BY <1>2, <1>3, <1>4, <1>5

\* A sample moves the bias by one unit at most, and towards what is sensed.
LEMMA SampleMovesBias ==
  ASSUME LearnInv, NEW auto \in BOOLEAN, Sample(auto)
  PROVE  \/ dev'.bias = dev.bias
         \/ /\ dev'.bias = dev.bias + 1
            /\ dev'.bias <= offset + RateOf[motion]
         \/ /\ dev'.bias = dev.bias - 1
            /\ offset + RateOf[motion] <= dev'.bias
<1> DEFINE gz == offset + RateOf[motion] - dev.bias
           still == Stationary(Count(motion # "jolt" /\ Abs(gz) <= StillRate))
           l == IF auto THEN Learning(gz, still) ELSE [learn |-> dev.learn, by |-> 0]
<1>1. dev'.bias = dev.bias + l.by
  BY DEF Sample, Corrected
<1>2. offset \in Int /\ RateOf[motion] \in Int /\ dev.bias \in Int
  <2>1. offset \in Int /\ RateOf[motion] \in Int
    BY StackAssumption DEF LearnInv, Motions
  <2>2. dev.bias \in Int
    BY DEF LearnInv, Devices
  <2> QED
    BY <2>1, <2>2
<1>3. l.by = 0 \/ (l.by = 1 /\ gz > 0) \/ (l.by = -1 /\ gz < 0)
  BY Zenon DEF Learning
<1>4. gz = offset + RateOf[motion] - dev.bias
  OBVIOUS
<1> HIDE DEF l, gz
<1> QED
  BY <1>1, <1>2, <1>3, <1>4

\* Every step leaves the bias between rates that are sensed.
LEMMA BiasStep ==
  LearnInv /\ BiasIsSensible /\ [StackNext]_stackVars => BiasIsSensible'
<1> SUFFICES ASSUME LearnInv, BiasIsSensible, [StackNext]_stackVars
             PROVE  BiasIsSensible'
  OBVIOUS
<1> DEFINE Rates == Sensed \cup {0}
<1>1. Rates \subseteq Int /\ 0 \in Rates /\ offset \in Rates
      /\ offset + RateOf[motion] \in Rates /\ dev.bias \in Int
  BY RatesAreSensed DEF LearnInv, Devices
<1>2. PICK l \in Rates, h \in Rates : l <= dev.bias /\ dev.bias <= h
  BY DEF BiasIsSensible
<1>3. ASSUME dev'.bias \in Rates PROVE BiasIsSensible'
  <2>1. dev'.bias <= dev'.bias
    BY <1>1, <1>3
  <2> QED
    BY <1>3, <2>1 DEF BiasIsSensible, Sensed, Motions
<1>4. ASSUME NEW low \in Rates, NEW high \in Rates, low <= dev'.bias, dev'.bias <= high
      PROVE  BiasIsSensible'
  BY <1>4 DEF BiasIsSensible, Sensed, Motions
<1>5. ASSUME dev'.bias = dev.bias PROVE BiasIsSensible'
  BY <1>2, <1>4, <1>5
<1>6. ASSUME NEW auto \in BOOLEAN, Sample(auto) PROVE BiasIsSensible'
  <2>1. CASE dev'.bias = dev.bias + 1 /\ dev'.bias <= offset + RateOf[motion]
    <3>1. l <= dev'.bias
      BY <2>1, <1>1, <1>2
    <3> QED
      BY <2>1, <3>1, <1>1, <1>2, <1>4
  <2>2. CASE dev'.bias = dev.bias - 1 /\ offset + RateOf[motion] <= dev'.bias
    <3>1. dev'.bias <= h
      BY <2>2, <1>1, <1>2
    <3> QED
      BY <2>2, <3>1, <1>1, <1>2, <1>4
  <2> QED
    BY <1>5, <1>6, <2>1, <2>2, SampleMovesBias
<1>7. ASSUME NEW b, dev' = [dev EXCEPT !.bias = b, !.learn = 0] PROVE dev'.bias = b
  BY <1>7 DEF LearnInv, Devices
<1>8. ASSUME NEW status \in Flag, NEW right \in BOOLEAN, StackReadWhoAmI(status, right)
      PROVE  BiasIsSensible'
  BY <1>8, <1>1, <1>3 DEF StackReadWhoAmI, NoSamples
<1>9. ASSUME NEW m \in Flag, StackResetBias(m) PROVE BiasIsSensible'
  BY <1>9, <1>1, <1>3, <1>7 DEF StackResetBias, SetGyroBias
<1>10. ASSUME NEW status \in Flag, StackTakeSample(status) PROVE BiasIsSensible'
  BY <1>10, <1>5, <1>6 DEF StackTakeSample, devVars
<1>11. CASE StackVerdict
  BY <1>11, <1>1, <1>3, <1>5, <1>7 DEF StackVerdict, SetGyroBias, devVars
<1>12. ASSUME NEW status \in Flag, StackOperate(status) PROVE BiasIsSensible'
  BY <1>12, <1>5, <1>6 DEF StackOperate, devVars
<1>13. ASSUME UNCHANGED devVars PROVE BiasIsSensible'
  BY <1>13, <1>5 DEF devVars
<1> QED
  BY <1>8, <1>9, <1>10, <1>11, <1>12, <1>13
  DEF StackNext, StackStartUp, Access, StackRetry, StackSettle, RestOfCar, World, stackVars

\* The variables of the stack keep their types, and the bias stays between the
\* rates that the gyro can sense, whatever is learned and calibrated.
THEOREM StackTypes == StackSpec => []StackTypeOK
<1>1. StackInit => LearnInv /\ CountersInv /\ BiasIsSensible
  <2> SUFFICES ASSUME StackInit PROVE LearnInv /\ CountersInv /\ BiasIsSensible
    OBVIOUS
  <2>1. LearnInv
    BY InitLearns
  <2>2. CountersInv
    <3>1. access = 0 /\ anyFailed = FALSE /\ sequence = 0
      BY DEF StackInit
    <3>2. anyFailed \in BOOLEAN
      BY <3>1, Zenon
    <3> QED
      BY <3>1, <3>2, StackAssumption DEF CountersInv, Flag
  <2>3. dev.bias = 0 /\ 0 <= dev.bias /\ dev.bias <= 0
    BY DEF StackInit, NoSamples
  <2> QED
    BY <2>1, <2>2, <2>3 DEF BiasIsSensible
<1>2. TypeOK /\ BeginInv /\ LearnInv /\ CountersInv /\ BiasIsSensible => StackTypeOK
  BY DEF StackTypeOK, BeginInv, LearnInv, Devices, CountersInv
<1>3. StackSpec => []TypeOK
  BY StackImplementsService, ServiceTypes, PTL
<1>4. StackSpec => [](LearnInv /\ CountersInv /\ BiasIsSensible)
  BY <1>1, LearnStep, CountersStep, BiasStep, PTL DEF StackSpec
<1> QED
  BY <1>2, <1>3, <1>4, BeginInvariant, PTL

=============================================================================
