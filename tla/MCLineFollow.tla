---------------------------- MODULE MCLineFollow ----------------------------
(* The seven channels of the board.  A line is a run of active channels of  *)
(* any width, none when it is lost and all of them on a cross line; a seam  *)
(* or a spot leaves one channel out.  Unit = 6 * 60 / 2 makes every bias    *)
(* that is not filtered exact.                                              *)
EXTENDS LineFollow

Runs == {a .. b : a \in 0 .. 6, b \in 0 .. 6}
Views7 == Runs \cup {0 .. 6 \ {c} : c \in 0 .. 6}
=============================================================================
