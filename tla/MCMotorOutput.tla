--------------------------- MODULE MCMotorOutput ---------------------------
(* A PWM of one step; the commands stop both motors, or drive the right one *)
(* with a duty beyond the limit while the left one is asked to go backwards.*)
(* The command timeout is one millisecond and the fast task runs at least   *)
(* every millisecond.                                                       *)
EXTENDS MotorOutput

MCCommands == {<<0, 0>>, <<-1, 2>>}

=============================================================================
