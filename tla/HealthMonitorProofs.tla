------------------------- MODULE HealthMonitorProofs -------------------------
(***************************************************************************)
(* Proofs about HealthMonitor, for every set of tasks, every deadline and  *)
(* every period, with a tick counter of any width that the ages do not     *)
(* reach (assumption WrapIsFar).                                           *)
(*                                                                         *)
(* The safety invariants are not inductive.  The inductive invariant adds  *)
(* the bound that holds inside the grace interval, the fact that a stamp   *)
(* is younger than the beat it will replace, and the bound on outages that *)
(* a silence continues through.                                            *)
(***************************************************************************)
EXTENDS HealthMonitor, TLAPS

\* Inside the grace interval (after boot or after a wrap) a heartbeat may be
\* older by what it had reached when the interval began.
GraceAge ==
  (code = None /\ core = "running" /\ tick < Grace + due)
    => \A t \in Task : age[t] <= Deadline[t] + Period + Jitter + tick

\* An outage is covered by the watchdog: nothing feeds it meanwhile.
OutageInv ==
  /\ outage <= wdt
  /\ (code = None /\ core = "running") => outage = 0

\* The stamp of a running loop is younger than the last beat.
StampInv ==
  \A t \in Task :
    /\ stampAge[t] <= age[t]
    /\ (core = "running" /\ pc[t] = "loop") => Sub(tick, stamp[t]) = stampAge[t]

\* A silence is bounded, and extended only by an outage.
SilenceInv == \A t \in Task : age[t] <= Reach(t) + outage

IInv ==
  /\ TypeOK
  /\ OutageInv
  /\ DetectionLatency
  /\ GraceAge
  /\ SilenceInv
  /\ AgesAreExact
  /\ StampInv

-----------------------------------------------------------------------------

\* The wrapping difference of two ticks is a tick, and it grows by one when
\* the minuend does, as long as it does not itself come to the wrap.
LEMMA SubInc ==
  ASSUME NEW a \in Ticks, NEW b \in Ticks, Sub(a, b) + 1 < Wrap
  PROVE  Inc(a) \in Ticks /\ Sub(Inc(a), b) = Sub(a, b) + 1
BY WrapAssumption DEF Ticks, Sub, Inc

\* Every state of the monitor has its type.
THEOREM TypeCorrect == Spec => []TypeOK
<1>1. Init => TypeOK
  <2> SUFFICES ASSUME Init PROVE TypeOK
    OBVIOUS
  <2>1. 0 \in Ticks
    BY WrapAssumption DEF Ticks
  <2>2. due \in 0 .. Period + Jitter /\ wdt \in 0 .. WatchdogPeriod
    BY TimingAssumption, WrapIsFar DEF Init
  <2>3. QED
    BY <2>1, <2>2 DEF Init, TypeOK, Codes, None
<1>2. TypeOK /\ [Next]_vars => TypeOK'
  <2> SUFFICES ASSUME TypeOK, [Next]_vars PROVE TypeOK'
    OBVIOUS
  <2> USE WrapAssumption, TimingAssumption, WrapIsFar DEF TypeOK
  <2>1. ASSUME NEW t \in Task, TaskStep(t) PROVE TypeOK'
    <3>1. CASE BeginLoop(t)
      BY <3>1 DEF BeginLoop, faultVars
    <3>2. CASE Beat(t)
      <4>1. 0 \in Ticks
        BY DEF Ticks
      <4>2. QED
        BY <3>2, <4>1 DEF Beat, faultVars
    <3>3. CASE Hang(t)
      <4>1. 0 \in Ticks
        BY DEF Ticks
      <4>2. QED
        BY <3>3, <4>1 DEF Hang, faultVars
    <3>4. CASE GiveUp(t)
      BY <3>4 DEF GiveUp, faultVars
    <3>5. CASE RaiseTest(t)
      BY <3>5 DEF RaiseTest, faultVars
    <3>6. CASE RaiseDetail(t)
      BY <3>6 DEF RaiseDetail
    <3>7. CASE RaiseCode(t)
      BY <3>7 DEF RaiseCode, Codes
    <3>8. QED
      BY <2>1, <3>1, <3>2, <3>3, <3>4, <3>5, <3>6, <3>7 DEF TaskStep
  <2>2. CASE HealthCheck
    <3>1. StaleMask \in SUBSET Task
      BY DEF StaleMask
    <3>2. code' \in Codes
      BY <2>2 DEF HealthCheck, faultVars, RaiseAtomically, Codes, None
    <3>3. detail' \in SUBSET Task
      BY <2>2, <3>1, Zenon DEF HealthCheck, faultVars, RaiseAtomically
    <3>4. wdt' \in 0 .. WatchdogPeriod
      BY <2>2 DEF HealthCheck
    <3>5. due' \in 0 .. Period + Jitter
      BY <2>2 DEF HealthCheck
    <3>6. UNCHANGED <<tick, beat, stamp, pc, age, stampAge, core, outage>>
      BY <2>2 DEF HealthCheck, taskVars
    <3>7. QED
      BY <3>2, <3>3, <3>4, <3>5, <3>6
  <2>3. ASSUME NEW c \in {"STACK", "HEAP"}, FatalHook(c) PROVE TypeOK'
    BY <2>3 DEF FatalHook, Running, taskVars, RaiseAtomically, Codes, None
  <2>4. CASE Wedge
    BY <2>4 DEF Wedge, Running, taskVars, faultVars
  <2>5. CASE Tick
    BY <2>5 DEF Tick, Running, faultVars, Older, OlderStamps, Inc, Ticks
  <2>6. CASE HaltedTick
    BY <2>6 DEF HaltedTick, faultVars, Older, OlderStamps
  <2>7. CASE Reset
    BY <2>7 DEF Reset, Ticks, Codes, None
  <2>8. CASE UNCHANGED vars
    BY <2>8 DEF vars, taskVars, faultVars
  <2>9. QED
    BY <2>1, <2>2, <2>3, <2>4, <2>5, <2>6, <2>7, <2>8 DEF Next
<1>3. QED
  BY <1>1, <1>2, PTL DEF Spec

-----------------------------------------------------------------------------

\* What each kind of step does to the inductive invariant.  The steps of the
\* monitored tasks change no clock: only a beat changes an age, to a younger
\* one.
LEMMA TaskStepKeeps ==
  ASSUME IInv, TypeOK', NEW t \in Task, TaskStep(t)
  PROVE  IInv'
<1> USE WrapAssumption, TimingAssumption, WrapIsFar
<1>1. /\ UNCHANGED <<tick, due, wdt, core, outage>>
      /\ core = "running" /\ wdt < WatchdogPeriod
  BY DEF TaskStep, BeginLoop, Beat, Hang, GiveUp, RaiseTest, RaiseDetail,
         RaiseCode, Running, faultVars
<1>2. code' = None => code = None
  BY DEF TaskStep, BeginLoop, Beat, Hang, GiveUp, RaiseTest, RaiseDetail,
         RaiseCode, faultVars, None
<1>3. \A u \in Task : age'[u] <= age[u]
  BY DEF TaskStep, BeginLoop, Beat, Hang, GiveUp, RaiseTest, RaiseDetail,
         RaiseCode, IInv, TypeOK, StampInv
<1>4. AgesAreExact'
  BY <1>1 DEF TaskStep, BeginLoop, Beat, Hang, GiveUp, RaiseTest, RaiseDetail,
         RaiseCode, IInv, TypeOK, StampInv, AgesAreExact
<1>5. StampInv'
  <2>1. Sub(tick, tick) = 0
    BY DEF Sub, IInv, TypeOK, Ticks
  <2>2. QED
    BY <1>1, <2>1 DEF TaskStep, BeginLoop, Beat, Hang, GiveUp, RaiseTest,
         RaiseDetail, RaiseCode, IInv, TypeOK, StampInv
<1>6. OutageInv'
  BY <1>1, <1>2 DEF IInv, OutageInv
<1>7. DetectionLatency' /\ GraceAge'
  BY <1>1, <1>2, <1>3 DEF IInv, DetectionLatency, GraceAge, TypeOK, Ticks
<1>8. SilenceInv'
  BY <1>1, <1>3 DEF IInv, SilenceInv, TypeOK, Reach
<1>9. QED
  BY <1>4, <1>5, <1>6, <1>7, <1>8 DEF IInv

\* The check either finds every age within its deadline, or leaves a fault.
LEMMA HealthCheckKeeps ==
  ASSUME IInv, TypeOK', HealthCheck
  PROVE  IInv'
<1> USE WrapAssumption, TimingAssumption, WrapIsFar
<1>1. /\ UNCHANGED <<tick, beat, stamp, pc, age, stampAge, core, outage>>
      /\ core = "running" /\ due' = due - Period
  BY DEF HealthCheck, Running, taskVars
<1>2. code' = None => code = None /\ StaleMask = {}
  <2>1. HealthCheck => (code' = None => code = None /\ StaleMask = {})
    BY DEF HealthCheck, RaiseAtomically, faultVars, None
  <2>2. QED
    BY <2>1
<1>3. StaleMask = {} /\ tick >= Grace => \A t \in Task : age[t] <= Deadline[t]
  <2> SUFFICES ASSUME StaleMask = {}, tick >= Grace, NEW t \in Task
               PROVE  age[t] <= Deadline[t]
    OBVIOUS
  <2>1. Sub(tick, StartedMs) = tick
    BY DEF IInv, TypeOK, Ticks, Sub, StartedMs
  <2>2. ~ Sub(tick, beat[t]) > Deadline[t]
    BY <2>1 DEF StaleMask
  <2>3. Sub(tick, beat[t]) = age[t]
    BY <1>1 DEF IInv, AgesAreExact
  <2>4. QED
    BY <2>2, <2>3 DEF IInv, TypeOK
<1>4. DetectionLatency' /\ GraceAge'
  <2>1. /\ due \in Nat /\ due' \in Nat /\ tick \in Nat
        /\ age \in [Task -> Nat] /\ Deadline \in [Task -> Nat]
    BY DEF IInv, TypeOK, Ticks
  <2>2. CASE tick >= Grace
    BY <1>1, <1>2, <1>3, <2>1, <2>2 DEF DetectionLatency, GraceAge
  <2>3. CASE tick < Grace
    BY <1>1, <1>2, <2>1, <2>3 DEF IInv, DetectionLatency, GraceAge
  <2>4. QED
    BY <2>1, <2>2, <2>3
<1>5. OutageInv'
  BY <1>1, <1>2 DEF IInv, OutageInv, HealthCheck, TypeOK
<1>6. SilenceInv' /\ AgesAreExact' /\ StampInv'
  BY <1>1 DEF IInv, SilenceInv, AgesAreExact, StampInv
<1>7. QED
  BY <1>4, <1>5, <1>6 DEF IInv

\* A core that halts stops the clock of the monitor but not the watchdog's.
LEMMA HaltKeeps ==
  ASSUME IInv, TypeOK', Wedge \/ \E c \in {"STACK", "HEAP"} : FatalHook(c)
  PROVE  IInv'
<1>1. /\ UNCHANGED <<tick, due, beat, stamp, pc, age, stampAge, wdt, outage>>
      /\ core' = "halted"
  BY DEF Wedge, FatalHook, taskVars
<1>2. QED
  BY <1>1 DEF IInv, OutageInv, DetectionLatency, GraceAge, SilenceInv,
              AgesAreExact, StampInv, TypeOK

\* A millisecond makes every age one longer, the computed ones too: none of
\* them reaches the wrap.
LEMMA TickKeeps ==
  ASSUME IInv, TypeOK', Tick
  PROVE  IInv'
<1> USE WrapAssumption, TimingAssumption, WrapIsFar
<1>1. /\ tick' = Inc(tick) /\ due' = due + 1 /\ wdt' = wdt + 1
      /\ UNCHANGED <<beat, stamp, pc, code, core>>
      /\ core = "running" /\ due < Period + Jitter /\ wdt < WatchdogPeriod
      /\ outage' = IF code = None THEN 0 ELSE outage + 1
  BY DEF Tick, Running, faultVars
<1>2. \A t \in Task : /\ age'[t] = age[t] + 1
                     /\ stampAge'[t] = IF pc[t] = "loop" THEN stampAge[t] + 1 ELSE 0
  BY DEF Tick, Older, OlderStamps
<1>3. \A t \in Task : /\ age[t] \in Nat /\ stampAge[t] \in Nat
                     /\ Deadline[t] \in Nat /\ Reach(t) \in Nat
                     /\ beat[t] \in Ticks /\ stamp[t] \in Ticks
  BY DEF IInv, TypeOK, Reach
<1>4. tick \in Ticks /\ due \in Nat /\ wdt \in Nat /\ outage \in Nat
  BY DEF IInv, TypeOK
<1>5. OutageInv'
  BY <1>1, <1>4 DEF IInv, OutageInv
<1>6. ASSUME NEW t \in Task PROVE age[t] + 1 < Wrap /\ stampAge[t] + 1 < Wrap
  BY <1>3, <1>4, <1>1 DEF IInv, SilenceInv, OutageInv, StampInv
<1>7. AgesAreExact'
  BY <1>1, <1>2, <1>3, <1>4, <1>6, SubInc DEF IInv, AgesAreExact
<1>8. StampInv'
  BY <1>1, <1>2, <1>3, <1>4, <1>6, SubInc DEF IInv, StampInv
<1>9. DetectionLatency' /\ GraceAge'
  <2>1. CASE tick + 1 = Wrap
    <3> SUFFICES ASSUME NEW t \in Task, code = None
                 PROVE  age'[t] <= Deadline[t] + Period + Jitter /\ tick' = 0
      BY <1>1, <1>3, <1>4 DEF DetectionLatency, GraceAge, Inc
    <3>1. tick >= Grace + due
      <4>1. Reach(t) + WatchdogPeriod + 1 < Wrap
        OBVIOUS
      <4>2. Grace + due <= Reach(t)
        BY <1>1, <1>3, <1>4 DEF Reach
      <4>3. QED
        BY <2>1, <4>1, <4>2, <1>3, <1>4 DEF Ticks
    <3>2. age[t] <= Deadline[t] + due
      BY <3>1, <1>1 DEF IInv, DetectionLatency
    <3>3. QED
      BY <2>1, <3>2, <1>1, <1>2, <1>3, <1>4 DEF Inc
  <2>2. CASE tick + 1 # Wrap
    <3>1. tick' = tick + 1 /\ tick \in Nat
      BY <2>2, <1>1, <1>4 DEF Inc, Ticks
    <3>2. QED
      BY <3>1, <1>1, <1>2, <1>3, <1>4 DEF IInv, DetectionLatency, GraceAge
  <2>3. QED
    BY <2>1, <2>2
<1>10. SilenceInv'
  <2> SUFFICES ASSUME NEW t \in Task PROVE age'[t] <= Reach(t) + outage'
    BY DEF SilenceInv, Reach
  <2>1. CASE code = None
    <3>1. tick' \in Nat /\ due' \in Nat /\ due' <= Period + Jitter
      BY <1>1, <1>4, WrapAssumption DEF Inc, Ticks
    <3>2. age'[t] <= Reach(t)
      BY <2>1, <1>1, <1>2, <1>3, <1>9, <3>1 DEF DetectionLatency, GraceAge, Reach
    <3>3. QED
      BY <2>1, <1>1, <1>3, <3>2
  <2>2. CASE code # None
    BY <2>2, <1>1, <1>2, <1>3, <1>4 DEF IInv, SilenceInv
  <2>3. QED
    BY <2>1, <2>2
<1>11. QED
  BY <1>5, <1>7, <1>8, <1>9, <1>10 DEF IInv

\* While the core is halted, an age grows only as fast as the outage.
LEMMA HaltedTickKeeps ==
  ASSUME IInv, TypeOK', HaltedTick
  PROVE  IInv'
<1> USE TimingAssumption
<1>1. /\ core = "halted" /\ core' = "halted"
      /\ wdt' = wdt + 1 /\ outage' = outage + 1
      /\ UNCHANGED pc
  BY DEF HaltedTick
<1>2. \A t \in Task : /\ age'[t] = age[t] + 1
                     /\ stampAge'[t] = IF pc[t] = "loop" THEN stampAge[t] + 1 ELSE 0
  BY DEF HaltedTick, Older, OlderStamps
<1>3. \A t \in Task : age[t] \in Nat /\ stampAge[t] \in Nat /\ Reach(t) \in Nat
  BY DEF IInv, TypeOK, Reach
<1>4. outage \in Nat /\ wdt \in Nat
  BY DEF IInv, TypeOK
<1>5. SilenceInv'
  BY <1>1, <1>2, <1>3, <1>4 DEF IInv, SilenceInv, Reach
<1>6. QED
  BY <1>1, <1>2, <1>3, <1>4, <1>5 DEF IInv, OutageInv, DetectionLatency,
                                      GraceAge, AgesAreExact, StampInv

\* Boot, from power-on or from a reset of the watchdog.
LEMMA BootInv ==
  ASSUME tick = 0, due = Period, outage = 0, wdt = 0, TypeOK,
         \A t \in Task : /\ beat[t] = 0 /\ stamp[t] = 0 /\ pc[t] = "delay"
                        /\ age[t] = 0 /\ stampAge[t] = 0
  PROVE  IInv
BY WrapAssumption, TimingAssumption
   DEF IInv, OutageInv, DetectionLatency, GraceAge, SilenceInv, AgesAreExact,
       StampInv, Sub, Reach, Ticks

\* The inductive invariant holds in every reachable state.
THEOREM InductiveInvariant == Spec => []IInv
<1>1. Init /\ TypeOK => IInv
  BY BootInv DEF Init
<1>2. IInv /\ TypeOK' /\ [Next]_vars => IInv'
  <2> SUFFICES ASSUME IInv, TypeOK', [Next]_vars PROVE IInv'
    OBVIOUS
  <2>1. CASE \E t \in Task : TaskStep(t)
    BY <2>1, TaskStepKeeps
  <2>2. CASE HealthCheck
    BY <2>2, HealthCheckKeeps
  <2>3. CASE Wedge \/ \E c \in {"STACK", "HEAP"} : FatalHook(c)
    BY <2>3, HaltKeeps
  <2>4. CASE Tick
    BY <2>4, TickKeeps
  <2>5. CASE HaltedTick
    BY <2>5, HaltedTickKeeps
  <2>6. CASE Reset
    <3>1. /\ tick' = 0 /\ due' = Period /\ outage' = 0 /\ wdt' = 0
          /\ \A t \in Task : /\ beat'[t] = 0 /\ stamp'[t] = 0
                            /\ pc'[t] = "delay"
                            /\ age'[t] = 0 /\ stampAge'[t] = 0
      BY <2>6 DEF Reset
    <3>2. QED
      BY <3>1, WrapAssumption, TimingAssumption
         DEF IInv, OutageInv, DetectionLatency, GraceAge, SilenceInv,
             AgesAreExact, StampInv, Sub, Reach, Ticks
  <2>7. CASE UNCHANGED vars
    BY <2>7 DEF vars, taskVars, faultVars, IInv, TypeOK, OutageInv,
                DetectionLatency, GraceAge, SilenceInv, AgesAreExact, StampInv
  <2>8. QED
    BY <2>1, <2>2, <2>3, <2>4, <2>5, <2>6, <2>7 DEF Next
<1>3. QED
  BY <1>1, <1>2, TypeCorrect, PTL DEF Spec

-----------------------------------------------------------------------------

\* A task that stops beating, whatever stops with it, is silent for a bounded
\* time only: the reset comes within WatchdogPeriod of its discovery.
THEOREM SilenceTheorem == Spec => []SilenceIsBounded
<1>1. IInv => SilenceIsBounded
  <2> SUFFICES ASSUME IInv, NEW t \in Task
               PROVE  age[t] <= Reach(t) + WatchdogPeriod
    BY DEF SilenceIsBounded
  <2>1. outage \in Nat /\ wdt \in 0 .. WatchdogPeriod /\ outage <= wdt
    BY DEF IInv, TypeOK, OutageInv
  <2>2. age[t] \in Nat /\ Reach(t) \in Nat
    BY TimingAssumption DEF IInv, TypeOK, Reach
  <2>3. age[t] <= Reach(t) + outage
    BY DEF IInv, SilenceInv
  <2>4. QED
    BY <2>1, <2>2, <2>3, WrapIsFar
<1>2. QED
  BY <1>1, InductiveInvariant, PTL

\* After a fault or a halt the watchdog resets the MCU within its period.
THEOREM OutageTheorem == Spec => []OutageIsBounded
<1>1. IInv => OutageIsBounded
  BY WrapIsFar DEF IInv, TypeOK, OutageInv, OutageIsBounded
<1>2. QED
  BY <1>1, InductiveInvariant, PTL

\* Outside the grace interval an overdue heartbeat is discovered within one
\* period of the health task.
THEOREM LatencyTheorem == Spec => []DetectionLatency
<1>1. IInv => DetectionLatency
  BY DEF IInv
<1>2. QED
  BY <1>1, InductiveInvariant, PTL

\* The wrapping differences System_Health_Check computes are true ages.
THEOREM AgesTheorem == Spec => []AgesAreExact
<1>1. IInv => AgesAreExact
  BY DEF IInv
<1>2. QED
  BY <1>1, InductiveInvariant, PTL

\* System_Fault_Raise is called for staleness only with the tasks that really
\* missed their deadlines, also when the tick counter has wrapped.
THEOREM NoFalseAlarmTheorem == Spec => NoFalseAlarm
<1> DEFINE Fair == (code = None /\ code' = "TASK_STALE")
                     => /\ detail' # {}
                        /\ \A t \in detail' : age[t] > Deadline[t]
<1>1. IInv /\ [Next]_vars => [Fair]_vars
  <2> SUFFICES ASSUME IInv, [Next]_vars, code = None, code' = "TASK_STALE"
               PROVE  /\ detail' # {}
                      /\ \A t \in detail' : age[t] > Deadline[t]
    OBVIOUS
  <2>1. HealthCheck
    <3>1. code' # code
      BY DEF None
    <3>2. ~ \E t \in Task : TaskStep(t)
      BY <3>1 DEF TaskStep, BeginLoop, Beat, Hang, GiveUp, RaiseTest,
                  RaiseDetail, RaiseCode, faultVars
    <3>3. ~ \E c \in {"STACK", "HEAP"} : FatalHook(c)
      BY <3>1 DEF FatalHook, RaiseAtomically
    <3>4. ~ (Wedge \/ Tick \/ HaltedTick \/ Reset \/ UNCHANGED vars)
      BY <3>1 DEF Wedge, Tick, HaltedTick, Reset, vars, faultVars
    <3>5. QED
      BY <3>2, <3>3, <3>4 DEF Next
  <2>2. StaleMask # {} /\ detail' = StaleMask
    BY <2>1 DEF HealthCheck, RaiseAtomically, faultVars, None
  <2>3. ASSUME NEW t \in StaleMask PROVE age[t] > Deadline[t]
    <3>1. t \in Task /\ Sub(tick, beat[t]) > Deadline[t]
      BY DEF StaleMask
    <3>2. core = "running"
      BY <2>1 DEF HealthCheck, Running
    <3>3. QED
      BY <3>1, <3>2 DEF IInv, AgesAreExact
  <2>4. QED
    BY <2>2, <2>3
<1>2. QED
  BY <1>1, InductiveInvariant, PTL DEF Spec, NoFalseAlarm

\* A fault is neither cleared nor followed by a feed before the reset.
THEOREM FaultHoldsTheorem == Spec => FaultHoldsUntilReset
<1> DEFINE Holds == code # None => \/ wdt = WatchdogPeriod
                                   \/ code' # None /\ wdt' >= wdt
<1>1. TypeOK /\ [Next]_vars => [Holds]_vars
  <2> SUFFICES ASSUME TypeOK, [Next]_vars, code # None, wdt # WatchdogPeriod
               PROVE  code' # None /\ wdt' >= wdt
    OBVIOUS
  <2>1. wdt \in Nat
    BY DEF TypeOK
  <2>2. CASE \E t \in Task : TaskStep(t)
    BY <2>1, <2>2 DEF TaskStep, BeginLoop, Beat, Hang, GiveUp, RaiseTest,
                      RaiseDetail, RaiseCode, faultVars, None
  <2>3. CASE HealthCheck
    BY <2>1, <2>3 DEF HealthCheck, RaiseAtomically, faultVars
  <2>4. CASE \E c \in {"STACK", "HEAP"} : FatalHook(c)
    BY <2>1, <2>4 DEF FatalHook, RaiseAtomically
  <2>5. CASE Wedge \/ Tick \/ HaltedTick \/ Reset \/ UNCHANGED vars
    BY <2>1, <2>5 DEF Wedge, Tick, HaltedTick, Reset, vars, faultVars
  <2>6. QED
    BY <2>2, <2>3, <2>4, <2>5 DEF Next
<1>2. QED
  BY <1>1, TypeCorrect, PTL DEF Spec, FaultHoldsUntilReset

=============================================================================
