-------------------------- MODULE MCHealthMonitor --------------------------
(* Two monitored tasks, one of which (imu) also raises faults itself; all  *)
(* times are scaled down, in units of about 20 ms.                         *)
EXTENDS HealthMonitor, TLC

CONSTANTS imu, ctrl

MCTask == {imu, ctrl}
MCRaisers == {imu}
MCDeadline == (imu :> 1) @@ (ctrl :> 2)

=============================================================================
