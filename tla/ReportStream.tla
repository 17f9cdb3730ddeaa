---------------------------- MODULE ReportStream ----------------------------
(***************************************************************************)
(* The periodic reports of modules/telemetry/telemetry.c: Telemetry_Tick    *)
(* in the telemetry task, with the settings that the commands $PAUSE,      *)
(* $RESUME, $RATE, $RAWLINE and $RAWIMU change from the UART interrupt, at *)
(* any point of it.  What a report says is left out.                       *)
(***************************************************************************)
EXTENDS TickMath

CONSTANTS
  Periods,          (* The report periods that $RATE can set, in ticks.     *)
  TaskWindow        (* An iteration of the telemetry task ends within this. *)

VARIABLES
  now,        \* xTaskGetTickCount()
  settings,   \* s_period_ms, s_enabled, s_raw_line_enabled, s_raw_imu_enabled
  step,       \* where Telemetry_Tick is
  ts,         \* its ts_ms
  lastEmit,   \* s_last_emit_ms
  primed,     \* s_emit_primed
  since,      \* ticks since the last iteration of the task ended
  quiet       \* (ghost) ticks for which a report has been on and not sent

taskVars == <<step, ts, lastEmit, primed>>
reportVars == <<now, settings, taskVars, since, quiet>>

Reports == {"chassis", "line", "imu"}
MaxPeriod == CHOOSE p \in Periods : \A q \in Periods : q <= p

TypeOK ==
  /\ now \in Ticks /\ ts \in Ticks /\ lastEmit \in Ticks
  /\ settings \in [period : Periods, enabled : BOOLEAN, line : BOOLEAN, imu : BOOLEAN]
  /\ step \in {"idle", "gate", "time"} \cup Reports
  /\ primed \in BOOLEAN
  /\ since \in 0 .. TaskWindow
  /\ quiet \in [Reports -> Nat]

\* A report that is on, as an operator who has set it expects.
On(r, s) == CASE r = "chassis" -> s.enabled
              [] r = "line" -> s.enabled /\ s.line
              [] r = "imu" -> s.imu

Init ==
  /\ now \in Ticks /\ ts = 0 /\ lastEmit = 0 /\ primed = FALSE
  /\ settings \in [period : Periods, enabled : {TRUE}, line : {FALSE}, imu : {FALSE}]
  /\ step = "idle" /\ since = 0 /\ quiet = [r \in Reports |-> 0]

\* One of the commands, in the interrupt.
Set(s) ==
  /\ settings' = s
  /\ quiet' = [r \in Reports |-> IF On(r, s) THEN quiet[r] ELSE 0]
  /\ UNCHANGED <<now, taskVars, since>>

\* The commands change one setting at a time.
Command ==
  \/ \E p \in Periods : Set([settings EXCEPT !.period = p])
  \/ \E b \in BOOLEAN :
       \/ Set([settings EXCEPT !.enabled = b])
       \/ Set([settings EXCEPT !.line = b])
       \/ Set([settings EXCEPT !.imu = b])

-----------------------------------------------------------------------------
(* Telemetry_Tick.                                                         *)

Begin ==
  /\ step = "idle" /\ step' = "gate" /\ ts' = now
  /\ UNCHANGED <<now, settings, lastEmit, primed, since, quiet>>

Return == step' = "idle" /\ since' = 0

Gate ==
  /\ step = "gate"
  /\ IF settings.enabled \/ settings.imu
       THEN step' = "time" /\ UNCHANGED since ELSE Return
  /\ UNCHANGED <<now, settings, ts, lastEmit, primed, quiet>>

\* Mutant: the time of the next report is compared with the clock.
DueByDeadline == ~primed \/ ts >= Add(lastEmit, settings.period)

\* The first report is due at once.
Due == ~primed \/ Sub(ts, lastEmit) >= settings.period

Time ==
  /\ step = "time"
  /\ IF Due THEN /\ step' = "chassis" /\ lastEmit' = ts /\ primed' = TRUE
                 /\ UNCHANGED since
            ELSE Return /\ UNCHANGED <<lastEmit, primed>>
  /\ UNCHANGED <<now, settings, ts, quiet>>

Send(r) == quiet' = [quiet EXCEPT ![r] = 0]

\* Mutant: the IMU report is part of the reports that $PAUSE stops.
EmitChassisElseReturn ==
  /\ step = "chassis"
  /\ IF settings.enabled THEN Send("chassis") /\ step' = "line" /\ UNCHANGED since
                         ELSE UNCHANGED quiet /\ Return
  /\ UNCHANGED <<now, settings, ts, lastEmit, primed>>

EmitChassis ==
  /\ step = "chassis"
  /\ IF settings.enabled THEN Send("chassis") /\ step' = "line"
                         ELSE UNCHANGED quiet /\ step' = "imu"
  /\ UNCHANGED <<now, settings, ts, lastEmit, primed, since>>

EmitLine ==
  /\ step = "line" /\ step' = "imu"
  /\ IF settings.line THEN Send("line") ELSE UNCHANGED quiet
  /\ UNCHANGED <<now, settings, ts, lastEmit, primed, since>>

EmitImu ==
  /\ step = "imu" /\ Return
  /\ IF settings.imu THEN Send("imu") ELSE UNCHANGED quiet
  /\ UNCHANGED <<now, settings, ts, lastEmit, primed>>

\* The scheduler lets the task finish an iteration in every window.
Tick ==
  /\ since < TaskWindow
  /\ now' = Inc(now) /\ since' = since + 1
  /\ quiet' = [r \in Reports |-> IF On(r, settings) THEN quiet[r] + 1 ELSE 0]
  /\ UNCHANGED <<settings, taskVars>>

Next == \/ Command \/ Tick
        \/ Begin \/ Gate \/ Time \/ EmitChassis \/ EmitLine \/ EmitImu

Spec == Init /\ [][Next]_reportVars

-----------------------------------------------------------------------------
(* Properties.                                                             *)

\* A report that stays on is sent again in less than the longest period and
\* three windows of the task, however the settings are changed in between,
\* across the wrap of the counter too; one that was just switched on also.
StreamIsAlive == \A r \in Reports : quiet[r] < MaxPeriod + 3 * TaskWindow

=============================================================================
