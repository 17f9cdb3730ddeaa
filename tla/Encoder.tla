------------------------------- MODULE Encoder -------------------------------
(***************************************************************************)
(* The quadrature encoders of modules/encoder/bsp_encoder.c: the GPIO      *)
(* interrupt that decodes the edges of both wheels, and the control task   *)
(* that takes the deltas and resets the totals.                            *)
(*                                                                         *)
(* A wheel at (true) position p shows the pins Phase[p % 4], and every edge *)
(* sets the interrupt status bit of its pin.  The handler reads the status *)
(* of the four pins, then the pins of the left and of the right encoder,   *)
(* then clears the bits it read; the wheels turn meanwhile.                *)
(* The task's functions disable interrupts and are one action each.        *)
(* BSP_Encoder_Poll keeps diagnostics only and is left out.                *)
(***************************************************************************)
EXTENDS Integers

CONSTANTS
  Wheel,            (* The wheels that turn: "left", "right" or both.       *)
  Taken,            (* Those whose deltas the control task takes and whose  *)
                    (* totals it resets.                                    *)
  Positions         (* Bound of the model: the positions of each wheel, and *)
                    (* the totals outside which no more edges are skipped.  *)

ASSUME WheelAssumption ==
  /\ Wheel \subseteq {"left", "right"} /\ Taken \subseteq Wheel
  /\ Positions \in [Wheel -> SUBSET Int]
  /\ \A w \in Wheel : 0 \in Positions[w]

VARIABLES
  pos,        \* true position of each wheel, in edges since boot
  status,     \* the pins whose interrupt status bit is set
  irq,        \* "idle", or where GROUP1_IRQHandler is
  pending,    \* its local `pending`, as the set of pins
  lastState,  \* s_left_last_state and s_right_last_state
  total,      \* s_left_total, ...
  reported,   \* s_left_reported, ...
  resetPos,   \* (ghost) position at the last reset of the total
  readPos,    \* (ghost) position at the last reading of the pins
  handed,     \* (ghost) sum of the deltas handed out since the reset
  skipped,    \* (ghost) wheels that made more than one edge between readings
  late        \* (ghost) wheels with an edge whose status bit is cleared unread

isrVars == <<status, irq, pending>>
countVars == <<lastState, total, reported, resetPos, readPos, handed, skipped>>
vars == <<pos, isrVars, countVars, late>>

\* encoder_state: (a << 1) | b at the positions 0 to 3 of a cycle.
Phase == [q \in 0 .. 3 |-> CASE q = 0 -> 0 [] q = 1 -> 1 [] q = 2 -> 3 [] q = 3 -> 2]
Pins(p) == Phase[p % 4]

\* The phase that changes between the positions p and p + 1.
Pin == Wheel \X {"a", "b"}
Changed(w, p) == <<w, IF p % 2 = 0 THEN "b" ELSE "a">>

\* The table of decode_step, by last and current state.
TableRightSwapped == <<<<0, 1, -1, 0>>, <<-1, 0, 0, 1>>,   \* mutant
                       <<1, 0, 0, 1>>, <<0, -1, 1, 0>>>>
Table == <<<<0, 1, -1, 0>>, <<-1, 0, 0, 1>>, <<1, 0, 0, -1>>, <<0, -1, 1, 0>>>>
DecodeStep(last, current) == Table[last + 1][current + 1]

TypeOK ==
  /\ \A w \in Wheel : {pos[w], resetPos[w], readPos[w]} \subseteq Positions[w]
  /\ status \subseteq Pin /\ pending \subseteq Pin
  /\ irq \in {"idle", "left", "right", "clear"}
  /\ lastState \in [Wheel -> 0 .. 3]
  /\ total \in [Wheel -> Int] /\ reported \in [Wheel -> Int]
  /\ handed \in [Wheel -> Int]
  /\ skipped \subseteq Wheel /\ late \subseteq Wheel

\* BSP_Encoder_Init
Init ==
  /\ pos = [w \in Wheel |-> 0]
  /\ status = {} /\ irq = "idle" /\ pending = {}
  /\ lastState = [w \in Wheel |-> Pins(0)]
  /\ total = [w \in Wheel |-> 0] /\ reported = [w \in Wheel |-> 0]
  /\ resetPos = [w \in Wheel |-> 0] /\ readPos = [w \in Wheel |-> 0]
  /\ handed = [w \in Wheel |-> 0]
  /\ skipped = {} /\ late = {}

-----------------------------------------------------------------------------

\* The handler has read the pins of w in this run, or will not.
PinsRead(w) == \/ irq = "clear"
               \/ irq = "right" /\ w = "left"

\* A wheel turns by one edge, which sets the status bit of its pin.  A bit
\* that is already set and about to be cleared hides the edge.
Edge(w, d) ==
  LET pin == Changed(w, IF d = 1 THEN pos[w] ELSE pos[w] - 1) IN
  /\ pos[w] + d \in Positions[w]
  /\ pos[w] # readPos[w] /\ pos[w] + d # readPos[w] => total[w] \in Positions[w]
  /\ pos' = [pos EXCEPT ![w] = @ + d]
  /\ status' = status \cup {pin}
  /\ late' = IF pin \in pending /\ PinsRead(w) THEN late \cup {w} ELSE late
  /\ skipped' = IF pos[w] # readPos[w] /\ pos[w] + d # readPos[w]
                  THEN skipped \cup {w} ELSE skipped
  /\ UNCHANGED <<irq, pending, lastState, total, reported, resetPos, readPos,
                 handed>>

\* pending = DL_GPIO_getEnabledInterruptStatus
EnterIrq ==
  /\ irq = "idle" /\ status # {}
  /\ irq' = "left" /\ pending' = status
  /\ UNCHANGED <<pos, status, countVars, late>>

\* The pins of w are read and the step is counted.
Decode(w) ==
  /\ total' = [total EXCEPT ![w] = @ + DecodeStep(lastState[w], Pins(pos[w]))]
  /\ lastState' = [lastState EXCEPT ![w] = Pins(pos[w])]
  /\ readPos' = [readPos EXCEPT ![w] = pos[w]]
  /\ late' = late \ {w}

\* One of the pins of w has its bit in a set of pins.
Has(bits, w) == \E pin \in bits : pin[1] = w

\* if ((pending & pins) != 0)
HandlePins(w, next) ==
  /\ irq = w /\ irq' = next
  /\ IF Has(pending, w) THEN Decode(w)
                         ELSE UNCHANGED <<total, lastState, readPos, late>>
  /\ UNCHANGED <<pos, status, pending, reported, resetPos, handed, skipped>>

\* Mutant: everything is acknowledged, not only what was seen.
AcknowledgeAll == status' = {}
\* DL_GPIO_clearInterruptStatus(GPIOB, pending)
Acknowledge == status' = status \ pending

LeaveIrq ==
  /\ irq = "clear" /\ irq' = "idle"
  /\ Acknowledge /\ pending' = {}
  /\ UNCHANGED <<pos, countVars, late>>

\* BSP_Encoder_GetDelta
GetDelta(w) ==
  /\ irq = "idle"
  /\ handed' = [handed EXCEPT ![w] = @ + (total[w] - reported[w])]
  /\ reported' = [reported EXCEPT ![w] = total[w]]
  /\ UNCHANGED <<pos, isrVars, lastState, total, resetPos, readPos, skipped, late>>

\* BSP_Encoder_Reset: an interrupt that is pending stays pending.
ResetCount(w) ==
  /\ total' = [total EXCEPT ![w] = 0]
  /\ lastState' = [lastState EXCEPT ![w] = Pins(pos[w])]

ResetReportedLate(w) == UNCHANGED reported   \* mutant
ResetReported(w) == reported' = [reported EXCEPT ![w] = 0]

Reset(w) ==
  /\ irq = "idle"
  /\ ResetCount(w) /\ ResetReported(w)
  /\ handed' = [handed EXCEPT ![w] = 0]
  /\ resetPos' = [resetPos EXCEPT ![w] = pos[w]]
  /\ readPos' = [readPos EXCEPT ![w] = pos[w]]
  /\ skipped' = skipped \ {w} /\ late' = late \ {w}
  /\ UNCHANGED <<pos, isrVars>>

Next ==
  \/ \E w \in Wheel, d \in {-1, 1} : Edge(w, d)
  \/ EnterIrq \/ HandlePins("left", "right") \/ HandlePins("right", "clear")
  \/ LeaveIrq
  \/ \E w \in Taken : GetDelta(w) \/ Reset(w)

Spec == Init /\ [][Next]_vars

-----------------------------------------------------------------------------
(* Properties.                                                             *)

\* The total is the true distance, up to the last reading of the pins, as
\* long as no two edges fell between two readings.
TotalIsExact ==
  \A w \in Wheel \ skipped : total[w] = readPos[w] - resetPos[w]

\* Edges that are missed are missed in pairs: whatever the speed, the total is
\* never off by an odd number.
ErrorIsEven ==
  \A w \in Wheel : (total[w] - (readPos[w] - resetPos[w])) % 2 = 0

\* An edge that no reading has seen yet has a reading to come, except when its
\* pin changed a second time between the reading and the clear of its bit.
EdgesAreSeen ==
  \A w \in Wheel : pos[w] # readPos[w] => Has(status, w) \/ w \in late

\* The deltas handed to the control task add up to the total: no count is
\* handed out twice or lost around a reset.
DeltasAddUp == \A w \in Wheel : handed[w] = reported[w]

=============================================================================
