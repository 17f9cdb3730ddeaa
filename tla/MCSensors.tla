------------------------------ MODULE MCSensors ------------------------------
(* Both sensors:                                                            *)
(*   encoder  The left wheel turns up to two edges away from where it       *)
(*            started, in both directions and at any speed (every entry of  *)
(*            the table and every jump); the right one jitters on one edge  *)
(*            in the same interrupts.                                       *)
(*   line     The seven channels of the board, see MCLineFollow.            *)
EXTENDS Sensors, MCLineFollow, TLC

MCPositions == ("left" :> -2 .. 2) @@ ("right" :> 0 .. 1)

=============================================================================
