-------------------------- MODULE AppControlProofs --------------------------
(***************************************************************************)
(* Proofs about AppControl, for every set of commands, every hold time and *)
(* a tick counter of any width.                                            *)
(*                                                                         *)
(* The bound on a direct motor test is not inductive: it follows from what *)
(* the job that last drove the motors knew (`now` was before the deadline),*)
(* from how long ago that was (`wait`), and from how the deadline came out *)
(* of an addition that may wrap.                                           *)
(***************************************************************************)
EXTENDS AppControl, TLAPS

\* The clock, seen from the job: exact until the counter wraps.
TimeInv == laps = 0 => tick = now + wait

\* The deadline is the wrapped sum of the time of the request and its hold.
DeadlineInv ==
  (laps = 0 /\ debug = 1) =>
    /\ accepted <= now
    /\ deadline = Add(accepted, hold)

\* The motors are driven for a test only if the last job that looked at the
\* clock, this one or the one before, was in time.
HoldInv ==
  (laps = 0 /\ output = "debug") =>
    now <= accepted + hold - 1 + (IF pc = "delay" THEN 0 ELSE CtrlWindow)

\* Each kind of drive has its reason.
CauseInv ==
  /\ output = "run" => state = "RUN"
  /\ output = "debug" => debug = 1 /\ (pc = "delay" => state = "IDLE")

\* A pending START, in its flag or in the hands of the control task, is one
\* that no RUN has been entered for.
CreditInv ==
  /\ request["START"] = 1 => credit = 1
  /\ (pc = "startClear" /\ seen = 1) => credit = 1

IInv == TypeOK /\ TimeInv /\ DeadlineInv /\ HoldInv /\ CauseInv /\ CreditInv

-----------------------------------------------------------------------------

\* The firmware starts in the invariant.
LEMMA InitInv == Init => IInv
<1> SUFFICES ASSUME Init PROVE IInv
  OBVIOUS
<1> USE DEF Init
<1>1. TypeOK
  BY WrapAssumption, ControlAssumption DEF TypeOK, Ticks, Request, Flag
<1>2. TimeInv /\ DeadlineInv /\ HoldInv /\ CauseInv /\ CreditInv
  BY DEF TimeInv, DeadlineInv, HoldInv, CauseInv, CreditInv, Request
<1> QED BY <1>1, <1>2 DEF IInv

\* Commands change requests only.
LEMMA ReceiveKeeps ==
  ASSUME IInv, NEW r \in Request, Receive(r)
  PROVE  IInv'
<1> USE DEF IInv, Receive, ctrlVars, driveVars
<1>1. TypeOK'
  BY DEF TypeOK, Request, Flag
<1>2. TimeInv' /\ DeadlineInv' /\ HoldInv' /\ CauseInv'
  BY DEF TimeInv, DeadlineInv, HoldInv, CauseInv
<1>3. CreditInv'
  BY DEF CreditInv, TypeOK, Request, Flag
<1> QED BY <1>1, <1>2, <1>3

\* So does a $DUTY.
LEMMA ReceiveDutyKeeps ==
  ASSUME IInv, NEW h \in Holds, ReceiveDuty(h)
  PROVE  IInv'
<1> USE DEF IInv, ReceiveDuty, ctrlVars, driveVars
<1>1. TypeOK'
  BY DEF TypeOK, Request, Flag
<1>2. TimeInv' /\ DeadlineInv' /\ HoldInv' /\ CauseInv'
  BY DEF TimeInv, DeadlineInv, HoldInv, CauseInv
<1>3. CreditInv'
  BY DEF CreditInv, TypeOK, Request, Flag
<1> QED BY <1>1, <1>2, <1>3

\* A new job takes the time: what was driven before may be up to one period
\* older now.
LEMMA BeginJobKeeps ==
  ASSUME IInv, BeginJob
  PROVE  IInv'
<1> USE DEF IInv, BeginJob, driveVars, ghosts
<1>1. TypeOK'
  BY ControlAssumption DEF TypeOK
<1>2. TimeInv'
  BY DEF TimeInv, TypeOK, Ticks
<1>3. DeadlineInv'
  BY WrapAssumption, ControlAssumption
  DEF DeadlineInv, TimeInv, TypeOK, Ticks, Add
<1>4. HoldInv'
  BY WrapAssumption, ControlAssumption DEF HoldInv, TimeInv, TypeOK, Ticks
<1>5. CauseInv' /\ CreditInv'
  BY DEF CauseInv, CreditInv
<1> QED BY <1>1, <1>2, <1>3, <1>4, <1>5

\* Reading a flag changes what the job knows, not what it drives.
LEMMA ReadFlagKeeps ==
  ASSUME IInv, ReadStop \/ ReadStart
  PROVE  IInv'
<1> USE DEF IInv, ReadStop, ReadStart, ReadFlag, driveVars
<1>1. TypeOK'
  <2>1. seen' \in Flag
    BY DEF TypeOK, Request, Flag
  <2>2. seen' \in Ticks
    BY <2>1, WrapAssumption DEF Flag, Ticks
  <2> QED BY <2>2 DEF TypeOK, Flag
<1>2. TimeInv' /\ DeadlineInv' /\ HoldInv' /\ CauseInv'
  BY DEF TimeInv, DeadlineInv, HoldInv, CauseInv
<1>3. CreditInv'
  BY DEF CreditInv, TypeOK, Request, Flag
<1> QED BY <1>1, <1>2, <1>3

\* A stop leaves RUN with the motors off.
LEMMA ClearStopKeeps ==
  ASSUME IInv, ClearStop
  PROVE  IInv'
<1> USE DEF IInv, ClearStop, ClearFlag, SetState, ghosts
<1>1. TypeOK'
  BY DEF TypeOK, Request, Flag
<1>2. TimeInv' /\ DeadlineInv' /\ HoldInv' /\ CauseInv'
  BY DEF TimeInv, DeadlineInv, HoldInv, CauseInv
<1>3. CreditInv'
  BY DEF CreditInv, TypeOK, Request, Flag
<1> QED BY <1>1, <1>2, <1>3

\* A granted start enters RUN and uses up the STARTs received so far.
LEMMA ClearStartKeeps ==
  ASSUME IInv, ClearStart
  PROVE  IInv'
<1> USE DEF IInv, ClearStart, ClearFlag, SetState
<1>1. TypeOK'
  BY DEF TypeOK, Request, Flag
<1>2. TimeInv' /\ DeadlineInv' /\ HoldInv' /\ CauseInv'
  BY DEF TimeInv, DeadlineInv, HoldInv, CauseInv
<1>3. CreditInv'
  BY DEF CreditInv, TypeOK, Request, Flag
<1> QED BY <1>1, <1>2, <1>3

\* Looking for a $DUTY and copying it drives nothing.
LEMMA TakeDutyKeeps ==
  ASSUME IInv, TestDuty \/ CopyDuty
  PROVE  IInv'
<1> USE DEF IInv, TestDuty, CopyDuty, driveVars, ghosts
<1>1. TypeOK'
  <2>1. seen' \in Ticks
    BY ControlAssumption, WrapAssumption DEF TypeOK, Ticks
  <2> QED BY <2>1 DEF TypeOK
<1>2. TimeInv' /\ DeadlineInv' /\ HoldInv' /\ CauseInv'
  BY DEF TimeInv, DeadlineInv, HoldInv, CauseInv
<1>3. CreditInv'
  BY DEF CreditInv
<1> QED BY <1>1, <1>2, <1>3

\* A test begins: its deadline is computed, and the motors wait for Drive.
LEMMA ClearDutyKeeps ==
  ASSUME IInv, ClearDuty
  PROVE  IInv'
<1> USE DEF IInv, ClearDuty, ClearFlag, SetState, DeadlineOf
<1>1. hold' \in Ticks /\ deadline' \in Ticks
  <2>1. hold' \in Ticks
    BY ControlAssumption DEF TypeOK
  <2> QED BY <2>1, WrapAssumption DEF TypeOK, Ticks, Add
<1>2. TypeOK'
  BY <1>1 DEF TypeOK, Request, Flag
<1>3. TimeInv' /\ HoldInv' /\ CauseInv'
  BY DEF TimeInv, HoldInv, CauseInv
<1>4. DeadlineInv'
  BY DEF DeadlineInv, TypeOK, Ticks
<1>5. CreditInv'
  BY DEF CreditInv, TypeOK, Request, Flag
<1> QED BY <1>2, <1>3, <1>4, <1>5

\* A test is driven only before its deadline, and a deadline that is ahead of
\* the clock has not wrapped.
LEMMA DriveKeeps ==
  ASSUME IInv, Drive
  PROVE  IInv'
<1> USE DEF IInv, Drive, ghosts
<1>1. TypeOK'
  BY WrapAssumption DEF TypeOK, Ticks, Flag
<1>2. TimeInv' /\ CauseInv' /\ CreditInv'
  BY DEF TimeInv, CauseInv, CreditInv, TypeOK, Flag
<1>3. DeadlineInv'
  BY DEF DeadlineInv
<1>4. HoldInv'
  <2>1. SUFFICES ASSUME laps = 0, output' = "debug"
                 PROVE  now <= accepted + hold - 1
    BY DEF HoldInv, TypeOK, Ticks
  <2>2. debug = 1 /\ now < deadline
    BY <2>1 DEF HoldElapsed, TypeOK, Flag, Ticks
  <2> QED BY <2>1, <2>2, WrapAssumption DEF DeadlineInv, Add, TypeOK, Ticks
<1> QED BY <1>1, <1>2, <1>3, <1>4

\* The other tasks touch the motors only to stop them.
LEMMA OthersKeep ==
  ASSUME IInv, CopySnapshot \/ RaiseFault
  PROVE  IInv'
<1> USE DEF IInv, CopySnapshot, RaiseFault, ctrlVars, driveVars, ghosts
<1>1. TypeOK'
  BY DEF TypeOK, Flag
<1>2. TimeInv' /\ DeadlineInv' /\ HoldInv' /\ CauseInv' /\ CreditInv'
  BY DEF TimeInv, DeadlineInv, HoldInv, CauseInv, CreditInv
<1> QED BY <1>1, <1>2

\* Time passes; a counter that wraps starts a new lap.
LEMMA TickKeeps ==
  ASSUME IInv, Tick
  PROVE  IInv'
<1> USE DEF IInv, Tick, Inc, ctrlVars, driveVars, ghosts
<1>1. TypeOK'
  <2>1. tick' \in Ticks
    BY WrapAssumption DEF TypeOK, Ticks
  <2>2. wait' \in 0 .. CtrlWindow /\ laps' \in Flag
    BY ControlAssumption DEF TypeOK, Flag
  <2> QED BY <2>1, <2>2 DEF TypeOK
<1>2. TimeInv'
  BY WrapAssumption, ControlAssumption DEF TimeInv, TypeOK, Ticks
<1>3. laps' = 0 => laps = 0
  OBVIOUS
<1>4. DeadlineInv' /\ HoldInv' /\ CauseInv' /\ CreditInv'
  BY <1>3 DEF DeadlineInv, HoldInv, CauseInv, CreditInv
<1> QED BY <1>1, <1>2, <1>4

\* Every step keeps the invariant.
LEMMA NextKeeps == IInv /\ [Next]_vars => IInv'
<1> SUFFICES ASSUME IInv, [Next]_vars PROVE IInv'
  OBVIOUS
<1>1. CASE \E r \in Request : Receive(r)
  BY <1>1, ReceiveKeeps
<1>2. CASE \E h \in Holds : ReceiveDuty(h)
  BY <1>2, ReceiveDutyKeeps
<1>3. CASE CtrlStep
  BY <1>3, BeginJobKeeps, ReadFlagKeeps, ClearStopKeeps, ClearStartKeeps,
     TakeDutyKeeps, ClearDutyKeeps, DriveKeeps DEF CtrlStep
<1>4. CASE CopySnapshot \/ RaiseFault \/ Tick
  BY <1>4, OthersKeep, TickKeeps
<1>5. CASE UNCHANGED vars
  BY <1>5 DEF vars, ctrlVars, driveVars, ghosts, IInv, TypeOK, TimeInv,
     DeadlineInv, HoldInv, CauseInv, CreditInv
<1> QED BY <1>1, <1>2, <1>3, <1>4, <1>5 DEF Next

-----------------------------------------------------------------------------

\* The inductive invariant of the control task.
THEOREM InductiveInvariant == Spec => []IInv
BY InitInv, NextKeeps, PTL DEF Spec

\* Every variable keeps its type; in particular no deadline leaves the range
\* of the 32-bit counter it is compared with.
THEOREM TypeCorrect == Spec => []TypeOK
BY InductiveInvariant, PTL DEF IInv

\* A direct motor test ends within its hold time and two control periods, for
\* every hold time, until the counter first wraps (Control_Chassis_Tick).
THEOREM HoldTheorem == Spec => []HoldIsBounded
<1>1. IInv => HoldIsBounded
  BY WrapAssumption, ControlAssumption
  DEF IInv, TypeOK, Ticks, TimeInv, HoldInv, HoldIsBounded, HoldLimit
<1> QED BY <1>1, InductiveInvariant, PTL

\* Between two jobs nothing is driven without a RUN or a test in progress.
THEOREM CauseTheorem == Spec => []OutputHasCause
<1>1. IInv => OutputHasCause
  BY DEF IInv, CauseInv, OutputHasCause
<1> QED BY <1>1, InductiveInvariant, PTL

\* The timer of a direct motor test does not fire before its hold time, when
\* the deadline does not wrap (Control_Chassis_ClearDebugDuty).
THEOREM HoldKeptTheorem == Spec => HoldIsKept
<1> DEFINE Kept == (/\ debug = 1 /\ debug' = 0
                    /\ laps = 0 /\ accepted + hold < Wrap)
                     => tick - accepted >= hold
<1>1. IInv /\ [Next]_vars => [Kept]_vars
  <2> SUFFICES ASSUME IInv, Next, debug = 1, debug' = 0, laps = 0,
                      accepted + hold < Wrap
               PROVE  tick - accepted >= hold
    BY DEF vars
  <2>1. Drive /\ HoldElapsed
    BY DEF Next, CtrlStep, Receive, ReceiveDuty, BeginJob, ReadStop, ReadStart,
       ReadFlag, ClearStop, ClearStart, TestDuty, CopyDuty, ClearDuty, Drive,
       CopySnapshot, RaiseFault, Tick, driveVars
  <2> QED BY <2>1, WrapAssumption, ControlAssumption
          DEF HoldElapsed, IInv, TypeOK, Ticks, TimeInv, DeadlineInv, Add
<1>2. QED BY <1>1, InductiveInvariant, PTL DEF Spec, HoldIsKept

\* No START enters RUN twice, and none enters it after it was refused.
THEOREM OneRunTheorem == Spec => OneRunPerStart
<1>1. IInv /\ [Next]_vars
        => [(state # "RUN" /\ state' = "RUN") => credit = 1]_vars
  <2> SUFFICES ASSUME IInv, Next, state # "RUN", state' = "RUN"
               PROVE  credit = 1
    BY DEF vars
  <2>1. ClearStart /\ StartGranted
    BY DEF Next, CtrlStep, Receive, ReceiveDuty, BeginJob, ReadStop, ReadStart,
       ReadFlag, ClearStop, ClearStart, TestDuty, CopyDuty, ClearDuty, Drive,
       CopySnapshot, RaiseFault, Tick, driveVars, SetState
  <2> QED BY <2>1 DEF ClearStart, StartGranted, IInv, CreditInv
<1> QED BY <1>1, InductiveInvariant, PTL DEF Spec, OneRunPerStart

=============================================================================
