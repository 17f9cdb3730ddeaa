------------------------------- MODULE Sensors -------------------------------
(***************************************************************************)
(* What the control task measures: the wheels (Encoder) and the line       *)
(* (LineFollow).  The two share nothing, so that an interleaving of them   *)
(* shows no more than each by itself; a behaviour is about one of them,    *)
(* chosen at the beginning, and leaves the other alone.                    *)
(***************************************************************************)
EXTENDS Encoder, LineFollow

VARIABLE
  sensor      \* the sensor this behaviour is about

sensorVars == <<sensor, vars, lineVars>>

SensorsTypeOK == sensor \in {"encoder", "line"} /\ TypeOK /\ LineTypeOK

SensorsInit == sensor \in {"encoder", "line"} /\ Init /\ LineInit

SensorsNext ==
  /\ UNCHANGED sensor
  /\ \/ sensor = "encoder" /\ Next /\ UNCHANGED lineVars
     \/ sensor = "line" /\ LineNext /\ UNCHANGED vars

SensorsSpec == SensorsInit /\ [][SensorsNext]_sensorVars

=============================================================================
