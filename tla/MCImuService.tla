---------------------------- MODULE MCImuService ----------------------------
(* Five attempts, a calibration of three samples, two errors in a row;     *)
(* a turn of 0.3 dps, which is learned, and one of 2 dps, which is none of  *)
(* rest; a gyro that drifts by 0.3 dps.                                     *)
EXTENDS ImuStack, TLC

RateOfMotion == ("rest" :> 0) @@ ("jolt" :> 0) @@ ("slow" :> 3) @@ ("fast" :> 20)

=============================================================================
