-------------------------- MODULE MCYawCalibration --------------------------
(* Four turns are 100 units.  The turns can end just inside or outside the  *)
(* capture ratio (90), the scale range (118) and the mismatch (1 and 2).    *)
EXTENDS YawCalibration

MCYaws == {0, 1, 2, 90, 100, 118}
MCProfileScale == <<995, 1000>>

=============================================================================
