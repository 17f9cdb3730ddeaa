------------------------------ MODULE TickMath ------------------------------
(***************************************************************************)
(* The arithmetic of the firmware's millisecond clock.                     *)
(*                                                                         *)
(* xTaskGetTickCount() is a 32-bit counter, and every age in the code is   *)
(* an unsigned difference of two of its values,                            *)
(*     (uint32_t)(now_ms - then_ms),                                       *)
(* so both wrap.  Wrap is 2^32 on the target and a small number in the     *)
(* models.  For operands in Ticks the two operators below are exactly      *)
(* (t + 1) % Wrap and (a - b) % Wrap, written without % so that they stay  *)
(* linear.                                                                 *)
(***************************************************************************)
EXTENDS Integers

CONSTANT Wrap   \* The number of values of the tick counter.

ASSUME WrapAssumption == Wrap \in Nat \ {0, 1}

Ticks == 0 .. Wrap - 1

\* The tick after t.
Inc(t) == IF t + 1 = Wrap THEN 0 ELSE t + 1

\* (uint32_t)(a - b)
Sub(a, b) == IF a >= b THEN a - b ELSE a - b + Wrap

\* (uint32_t)(a + b), for b \in Ticks too: a deadline computed from a tick.
Add(a, b) == IF a + b < Wrap THEN a + b ELSE a + b - Wrap

=============================================================================
