---------------------------- MODULE SensorProofs -----------------------------
(***************************************************************************)
(* What the encoder counts, for any number of edges at any speed and for   *)
(* either wheel or both, and where the line tracker turns the car, for any *)
(* number of channels, any set of views and any frames: the bounds of the  *)
(* model, Positions and Views, are any sets within the assumptions.        *)
(***************************************************************************)
EXTENDS Sensors, FiniteSetTheorems, WellFoundedInduction, TLAPS

-----------------------------------------------------------------------------
(* The decoding of one step.                                               *)

\* The table, by places in the cycle: a step of one is counted with its
\* direction, one of two not at all.
LEMMA TableByPlace ==
  ASSUME NEW r \in 0 .. 3, NEW s \in 0 .. 3
  PROVE  LET d == DecodeStep(Phase[r], Phase[s]) IN
         /\ s = r => d = 0
         /\ (s = r + 1 \/ s = r - 3) => d = 1
         /\ (s = r - 1 \/ s = r + 3) => d = -1
         /\ (s = r + 2 \/ s = r - 2) => d = 0
<1>1. Phase[0] = 0 /\ Phase[1] = 1 /\ Phase[2] = 3 /\ Phase[3] = 2
  BY DEF Phase
<1>2. r \in {0, 1, 2, 3} /\ s \in {0, 1, 2, 3}
  OBVIOUS
<1>3. CASE r = 0
  BY <1>1, <1>2, <1>3 DEF DecodeStep, Table
<1>4. CASE r = 1
  BY <1>1, <1>2, <1>4 DEF DecodeStep, Table
<1>5. CASE r = 2
  BY <1>1, <1>2, <1>5 DEF DecodeStep, Table
<1>6. CASE r = 3
  BY <1>1, <1>2, <1>6 DEF DecodeStep, Table
<1> QED
  BY <1>2, <1>3, <1>4, <1>5, <1>6

\* The places of two positions tell their distance modulo 4.
LEMMA Distance ==
  ASSUME NEW p \in Int, NEW q \in Int
  PROVE  /\ q % 4 = p % 4 => (0 - (q - p)) % 2 = 0 /\ q - p \notin {-1, 1}
         /\ (q % 4 = (p % 4) + 1 \/ q % 4 = (p % 4) - 3)
              => (1 - (q - p)) % 2 = 0 /\ q - p \notin {-1, 0}
         /\ (q % 4 = (p % 4) - 1 \/ q % 4 = (p % 4) + 3)
              => (-1 - (q - p)) % 2 = 0 /\ q - p \notin {0, 1}
         /\ (q % 4 = (p % 4) + 2 \/ q % 4 = (p % 4) - 2)
              => (0 - (q - p)) % 2 = 0 /\ q - p \notin {-1, 0, 1}
<1>1. q % 4 = p % 4 => (0 - (q - p)) % 2 = 0 /\ q - p \notin {-1, 1}
  OBVIOUS
<1>2. (q % 4 = (p % 4) + 1 \/ q % 4 = (p % 4) - 3)
        => (1 - (q - p)) % 2 = 0 /\ q - p \notin {-1, 0}
  OBVIOUS
<1>3. (q % 4 = (p % 4) - 1 \/ q % 4 = (p % 4) + 3)
        => (-1 - (q - p)) % 2 = 0 /\ q - p \notin {0, 1}
  OBVIOUS
<1>4. (q % 4 = (p % 4) + 2 \/ q % 4 = (p % 4) - 2)
        => (0 - (q - p)) % 2 = 0 /\ q - p \notin {-1, 0, 1}
  OBVIOUS
<1> QED
  BY <1>1, <1>2, <1>3, <1>4

\* Between any two positions the decoder counts an even number wrong, and
\* nothing wrong between neighbours.
LEMMA DecodeIsEven ==
  ASSUME NEW p \in Int, NEW q \in Int
  PROVE  LET d == DecodeStep(Pins(p), Pins(q)) IN
         /\ d \in Int
         /\ (d - (q - p)) % 2 = 0
         /\ q - p \in {-1, 0, 1} => d = q - p
<1> DEFINE r == p % 4
           s == q % 4
           d == DecodeStep(Phase[r], Phase[s])
<1>1. r \in 0 .. 3 /\ s \in 0 .. 3
  OBVIOUS
<1>2. \/ s = r /\ d = 0
      \/ (s = r + 1 \/ s = r - 3) /\ d = 1
      \/ (s = r - 1 \/ s = r + 3) /\ d = -1
      \/ (s = r + 2 \/ s = r - 2) /\ d = 0
  <2> HIDE DEF r, s
  <2>1. \/ s = r
        \/ s = r + 1 \/ s = r - 3
        \/ s = r - 1 \/ s = r + 3
        \/ s = r + 2 \/ s = r - 2
    BY <1>1
  <2> QED
    BY <1>1, <2>1, TableByPlace
<1>3. d = DecodeStep(Pins(p), Pins(q))
  BY DEF Pins
<1> HIDE DEF d
<1>4. /\ d \in Int
      /\ (d - (q - p)) % 2 = 0
      /\ q - p \in {-1, 0, 1} => d = q - p
  <2> HIDE DEF r, s
  <2>1. CASE s = r /\ d = 0
    <3>1. (0 - (q - p)) % 2 = 0 /\ q - p \notin {-1, 1}
      BY <2>1, Distance DEF r, s
    <3> QED
      BY <2>1, <3>1
  <2>2. CASE (s = r + 1 \/ s = r - 3) /\ d = 1
    <3>1. (1 - (q - p)) % 2 = 0 /\ q - p \notin {-1, 0}
      BY <2>2, Distance DEF r, s
    <3> QED
      BY <2>2, <3>1
  <2>3. CASE (s = r - 1 \/ s = r + 3) /\ d = -1
    <3>1. (-1 - (q - p)) % 2 = 0 /\ q - p \notin {0, 1}
      BY <2>3, Distance DEF r, s
    <3> QED
      BY <2>3, <3>1
  <2>4. CASE (s = r + 2 \/ s = r - 2) /\ d = 0
    <3>1. (0 - (q - p)) % 2 = 0 /\ q - p \notin {-1, 0, 1}
      BY <2>4, Distance DEF r, s
    <3> QED
      BY <2>4, <3>1
  <2> QED
    BY <1>2, <2>1, <2>2, <2>3, <2>4
<1> QED
  BY <1>3, <1>4

-----------------------------------------------------------------------------
(* The invariant.                                                          *)

EncoderType ==
  /\ TypeOK
  /\ pos \in [Wheel -> Int] /\ resetPos \in [Wheel -> Int] /\ readPos \in [Wheel -> Int]

\* The last state is that of the last reading, and the counts are those of the
\* steps since.
CountInv ==
  /\ \A w \in Wheel : lastState[w] = Pins(readPos[w])
  /\ ErrorIsEven /\ TotalIsExact /\ DeltasAddUp
  /\ \A w \in Wheel \ skipped : pos[w] - readPos[w] \in {-1, 0, 1}

\* The status bits that outlive this run of the handler, for a wheel whose
\* pins it has read.
Lasting(w) == IF PinsRead(w) THEN status \ pending ELSE status

\* An edge that is not seen has a bit that will lead to a reading.
EdgeInv == \A w \in Wheel : pos[w] # readPos[w] => Has(Lasting(w), w) \/ w \in late

\* The invariant of the encoders.
EncoderInv == EncoderType /\ CountInv /\ EdgeInv

\* The handler starts with the encoders read and nothing pending.
LEMMA EncoderInit == Init => EncoderInv
<1> SUFFICES ASSUME Init PROVE EncoderInv
  OBVIOUS
<1>1. \A w \in Wheel : pos[w] = 0 /\ readPos[w] = 0 /\ resetPos[w] = 0 /\ total[w] = 0
                       /\ lastState[w] = Pins(0) /\ handed[w] = 0 /\ reported[w] = 0
  BY DEF Init
<1>2. Pins(0) \in 0 .. 3
  BY DEF Pins, Phase
<1>3. EncoderType
  BY <1>1, <1>2, WheelAssumption DEF Init, EncoderType, TypeOK
<1>4. CountInv /\ EdgeInv
  BY <1>1 DEF CountInv, EdgeInv, ErrorIsEven, TotalIsExact, DeltasAddUp
<1> QED
  BY <1>3, <1>4 DEF EncoderInv

\* Bits that are added do not hide a wheel's.
LEMMA HasMore ==
  ASSUME NEW w, NEW S, NEW T, S \subseteq T, Has(S, w) PROVE Has(T, w)
BY DEF Has

\* An edge keeps the invariant: it is one step away from the last reading, or
\* back at it, or the second one, which is skipped.
LEMMA EdgeKeeps ==
  ASSUME EncoderInv, NEW w \in Wheel, NEW d \in {-1, 1}, Edge(w, d)
  PROVE  EncoderInv'
<1> DEFINE pin == Changed(w, IF d = 1 THEN pos[w] ELSE pos[w] - 1)
<1>1. /\ pos' = [pos EXCEPT ![w] = @ + d] /\ pos[w] + d \in Positions[w]
      /\ status' = status \cup {pin}
      /\ late' = IF pin \in pending /\ PinsRead(w) THEN late \cup {w} ELSE late
      /\ skipped' = IF pos[w] # readPos[w] /\ pos[w] + d # readPos[w]
                      THEN skipped \cup {w} ELSE skipped
      /\ UNCHANGED <<irq, pending, lastState, total, reported, resetPos, readPos, handed>>
  BY DEF Edge
<1>2. pin \in Pin /\ pin[1] = w
  BY DEF Pin, Changed
<1> HIDE DEF pin
<1>3. EncoderType /\ CountInv /\ EdgeInv
  BY DEF EncoderInv
<1>4. pos' \in [Wheel -> Int] /\ pos'[w] = pos[w] + d /\ \A v \in Wheel \ {w} : pos'[v] = pos[v]
  BY <1>1, <1>3 DEF EncoderType
<1>5. EncoderType'
  BY <1>1, <1>2, <1>3, <1>4 DEF EncoderType, TypeOK
<1>6. CountInv'
  <2>1. \A v \in Wheel \ skipped' : pos'[v] - readPos'[v] \in {-1, 0, 1}
    BY <1>1, <1>3, <1>4 DEF CountInv, EncoderType
  <2>2. (ErrorIsEven /\ DeltasAddUp)' /\ \A v \in Wheel : lastState'[v] = Pins(readPos'[v])
    BY <1>1, <1>3 DEF CountInv, ErrorIsEven, DeltasAddUp
  <2>3. TotalIsExact'
    BY <1>1, <1>3 DEF CountInv, TotalIsExact
  <2> QED
    BY <2>1, <2>2, <2>3 DEF CountInv
<1>7. EdgeInv'
  <2> SUFFICES ASSUME NEW v \in Wheel, pos'[v] # readPos'[v]
               PROVE  Has(Lasting(v)', v) \/ v \in late'
    BY DEF EdgeInv, Has, Lasting, PinsRead
  <2>1. (PinsRead(v))' <=> PinsRead(v)
    BY <1>1 DEF PinsRead
  <2>2. CASE v = w
    <3>1. CASE pin \in pending /\ PinsRead(w)
      BY <1>1, <2>2, <3>1
    <3>2. CASE ~(pin \in pending /\ PinsRead(w))
      <4>1. pin \in Lasting(v)'
        BY <1>1, <2>1, <2>2, <3>2 DEF Lasting
      <4> QED
        BY <1>2, <2>2, <4>1 DEF Has
    <3> QED
      BY <3>1, <3>2
  <2>3. CASE v # w
    <3>1. Has(Lasting(v), v) \/ v \in late
      BY <1>1, <1>3, <1>4, <2>3 DEF EdgeInv
    <3>2. Lasting(v) \subseteq Lasting(v)' /\ late \subseteq late'
      BY <1>1, <2>1 DEF Lasting
    <3> QED
      BY <3>1, <3>2, HasMore
  <2> QED
    BY <2>2, <2>3
<1> QED
  BY <1>5, <1>6, <1>7 DEF EncoderInv

\* The handler enters with every status bit in pending, and leaves having read
\* the wheels of the bits that it clears.
LEMMA EnterLeaveKeep ==
  ASSUME EncoderInv, EnterIrq \/ LeaveIrq
  PROVE  EncoderInv'
<1>1. EncoderType'
  BY DEF EncoderInv, EncoderType, TypeOK, EnterIrq, LeaveIrq, Acknowledge, countVars
<1>2. CountInv'
  BY DEF EncoderInv, CountInv, ErrorIsEven, TotalIsExact, DeltasAddUp,
         EnterIrq, LeaveIrq, countVars
<1>3. UNCHANGED <<pos, readPos, late>>
  BY DEF EnterIrq, LeaveIrq, countVars
<1>4. \A v \in Wheel : Lasting(v) \subseteq Lasting(v)'
  BY DEF Lasting, PinsRead, EnterIrq, LeaveIrq, Acknowledge
<1>5. EdgeInv'
  <2> SUFFICES ASSUME NEW v \in Wheel, pos'[v] # readPos'[v]
               PROVE  Has(Lasting(v)', v) \/ v \in late'
    BY DEF EdgeInv, Has, Lasting, PinsRead
  <2>1. Has(Lasting(v), v) \/ v \in late
    BY <1>3 DEF EncoderInv, EdgeInv
  <2> QED
    BY <1>3, <1>4, <2>1, HasMore
<1> QED
  BY <1>1, <1>2, <1>5 DEF EncoderInv

\* The handler reads the pins of a wheel with a pending bit, whose edges are
\* then counted; one without has all its bits ahead of it.
LEMMA HandleKeeps ==
  ASSUME EncoderInv, NEW w \in {"left", "right"}, NEW next \in {"right", "clear"},
         w = "left" <=> next = "right", HandlePins(w, next)
  PROVE  EncoderInv'
<1>1. /\ irq = w /\ irq' = next
      /\ UNCHANGED <<pos, status, pending, reported, resetPos, handed, skipped>>
  BY DEF HandlePins
<1>2. EncoderType /\ CountInv /\ EdgeInv
  BY DEF EncoderInv
<1>3. CASE Has(pending, w)
  <2>1. w \in Wheel
    BY <1>2, <1>3 DEF Has, EncoderType, TypeOK, Pin
  <2>2. Decode(w)
    BY <1>3 DEF HandlePins
  <2> DEFINE d == DecodeStep(lastState[w], Pins(pos[w]))
  <2>3. /\ d \in Int
        /\ (d - (pos[w] - readPos[w])) % 2 = 0
        /\ pos[w] - readPos[w] \in {-1, 0, 1} => d = pos[w] - readPos[w]
    <3>1. pos[w] \in Int /\ readPos[w] \in Int /\ lastState[w] = Pins(readPos[w])
      BY <1>2, <2>1 DEF EncoderType, CountInv
    <3> QED
      BY <3>1, DecodeIsEven
  <2>4. Pins(pos[w]) \in 0 .. 3
    BY <1>2, <2>1 DEF EncoderType, Pins, Phase
  <2>5. /\ total' = [total EXCEPT ![w] = @ + d]
        /\ lastState' = [lastState EXCEPT ![w] = Pins(pos[w])]
        /\ readPos' = [readPos EXCEPT ![w] = pos[w]]
        /\ late' = late \ {w}
    BY <2>2 DEF Decode
  <2> HIDE DEF d
  <2>6. EncoderType'
    BY <1>1, <1>2, <2>1, <2>3, <2>4, <2>5 DEF EncoderType, TypeOK
  <2>7. /\ total'[w] = total[w] + d /\ lastState'[w] = Pins(pos[w])
        /\ readPos'[w] = pos[w] /\ resetPos'[w] = resetPos[w]
        /\ \A v \in Wheel \ {w} : /\ total'[v] = total[v] /\ readPos'[v] = readPos[v]
                                  /\ lastState'[v] = lastState[v]
    BY <1>1, <1>2, <2>1, <2>5 DEF EncoderType, TypeOK
  <2>8. total[w] \in Int /\ pos[w] \in Int /\ readPos[w] \in Int /\ resetPos[w] \in Int
    BY <1>2, <2>1 DEF EncoderType, TypeOK
  <2>9. (total'[w] - (readPos'[w] - resetPos'[w])) % 2 = 0
    <3>1. (total[w] - (readPos[w] - resetPos[w])) % 2 = 0
      BY <1>2, <2>1 DEF CountInv, ErrorIsEven
    <3>2. total'[w] - (readPos'[w] - resetPos'[w]) =
            (total[w] - (readPos[w] - resetPos[w])) + (d - (pos[w] - readPos[w]))
      BY <2>3, <2>7, <2>8
    <3>3. \A a \in Int, b \in Int : a % 2 = 0 /\ b % 2 = 0 => (a + b) % 2 = 0
      OBVIOUS
    <3>4. /\ total[w] - (readPos[w] - resetPos[w]) \in Int
          /\ d - (pos[w] - readPos[w]) \in Int
      BY <2>3, <2>8
    <3> HIDE DEF d
    <3> QED
      BY <2>3, <3>1, <3>2, <3>3, <3>4, Zenon
  <2>10. w \notin skipped =>
           total'[w] = readPos'[w] - resetPos'[w] /\ pos'[w] - readPos'[w] \in {-1, 0, 1}
    BY <1>1, <1>2, <2>1, <2>3, <2>7, <2>8 DEF CountInv, TotalIsExact
  <2>11. CountInv'
    <3>1. \A v \in Wheel : lastState'[v] = Pins(readPos'[v])
      BY <1>2, <2>7 DEF CountInv
    <3>2. ErrorIsEven'
      BY <1>1, <1>2, <2>7, <2>9 DEF CountInv, ErrorIsEven
    <3>3. TotalIsExact'
      BY <1>1, <1>2, <2>7, <2>10 DEF CountInv, TotalIsExact
    <3>4. \A v \in Wheel \ skipped' : pos'[v] - readPos'[v] \in {-1, 0, 1}
      BY <1>1, <1>2, <2>7, <2>10 DEF CountInv
    <3>5. DeltasAddUp'
      BY <1>1, <1>2 DEF CountInv, DeltasAddUp
    <3> QED
      BY <3>1, <3>2, <3>3, <3>4, <3>5 DEF CountInv
  <2>12. EdgeInv'
    <3> SUFFICES ASSUME NEW v \in Wheel, pos'[v] # readPos'[v]
                 PROVE  Has(Lasting(v)', v) \/ v \in late'
      BY DEF EdgeInv, Has, Lasting, PinsRead
    <3>1. v # w
      BY <1>1, <2>7
    <3>2. (PinsRead(v))' => PinsRead(v)
      BY <1>1, <3>1, WheelAssumption DEF PinsRead
    <3>3. Lasting(v) \subseteq Lasting(v)'
      BY <1>1, <3>2 DEF Lasting
    <3>4. Has(Lasting(v), v) \/ v \in late
      BY <1>1, <1>2, <2>7, <3>1 DEF EdgeInv
    <3> QED
      BY <2>5, <3>1, <3>3, <3>4, HasMore
  <2> QED
    BY <2>6, <2>11, <2>12 DEF EncoderInv
<1>4. CASE ~Has(pending, w)
  <2>1. UNCHANGED <<total, lastState, readPos, late>>
    BY <1>4 DEF HandlePins
  <2>2. EncoderType' /\ CountInv'
    BY <1>1, <1>2, <2>1
    DEF EncoderType, TypeOK, CountInv, ErrorIsEven, TotalIsExact, DeltasAddUp
  <2>3. EdgeInv'
    <3> SUFFICES ASSUME NEW v \in Wheel, pos'[v] # readPos'[v], v \notin late
                 PROVE  Has(Lasting(v)', v)
      BY <2>1 DEF EdgeInv, Has, Lasting, PinsRead
    <3>1. PICK pin \in Lasting(v) : pin[1] = v
      BY <1>1, <1>2, <2>1 DEF EdgeInv, Has
    <3>2. v = w => pin \notin pending
      BY <1>4, <3>1 DEF Has
    <3>3. v # w => ((PinsRead(v))' => PinsRead(v))
      BY <1>1, WheelAssumption DEF PinsRead
    <3>4. pin \in Lasting(v)'
      BY <1>1, <3>1, <3>2, <3>3 DEF Lasting
    <3> QED
      BY <3>1, <3>4 DEF Has
  <2> QED
    BY <2>2, <2>3 DEF EncoderInv
<1> QED
  BY <1>3, <1>4

\* The control task takes deltas and resets totals between interrupts.
LEMMA TaskKeeps ==
  ASSUME EncoderInv, NEW w \in Taken, GetDelta(w) \/ Reset(w)
  PROVE  EncoderInv'
<1>1. w \in Wheel
  BY WheelAssumption
<1>2. EncoderType /\ CountInv /\ EdgeInv
  BY DEF EncoderInv
<1>3. CASE GetDelta(w)
  <2>1. EncoderType'
    BY <1>1, <1>2, <1>3 DEF GetDelta, EncoderType, TypeOK, isrVars
  <2>2. DeltasAddUp'
    BY <1>1, <1>2, <1>3 DEF GetDelta, EncoderType, TypeOK, CountInv, DeltasAddUp
  <2>3. CountInv'
    BY <1>2, <1>3, <2>2 DEF GetDelta, CountInv, ErrorIsEven, TotalIsExact
  <2>4. EdgeInv'
    BY <1>2, <1>3 DEF GetDelta, EdgeInv, Has, Lasting, PinsRead, isrVars
  <2> QED
    BY <2>1, <2>3, <2>4 DEF EncoderInv
<1>4. CASE Reset(w)
  <2>1. Pins(pos[w]) \in 0 .. 3 /\ pos[w] \in Int
    BY <1>1, <1>2 DEF EncoderType, Pins, Phase
  <2>2. EncoderType'
    BY <1>1, <1>2, <1>4, <2>1
    DEF Reset, ResetCount, ResetReported, EncoderType, TypeOK, isrVars
  <2>3. /\ total'[w] = 0 /\ readPos'[w] = pos[w] /\ resetPos'[w] = pos[w] /\ pos' = pos
        /\ lastState'[w] = Pins(pos[w]) /\ handed'[w] = 0 /\ reported'[w] = 0
        /\ skipped' = skipped \ {w} /\ late' = late \ {w} /\ UNCHANGED isrVars
    BY <1>1, <1>2, <1>4
    DEF Reset, ResetCount, ResetReported, EncoderType, TypeOK
  <2>4. \A v \in Wheel \ {w} :
          /\ total'[v] = total[v] /\ readPos'[v] = readPos[v] /\ resetPos'[v] = resetPos[v]
          /\ lastState'[v] = lastState[v] /\ handed'[v] = handed[v]
          /\ reported'[v] = reported[v]
    BY <1>1, <1>2, <1>4
    DEF Reset, ResetCount, ResetReported, EncoderType, TypeOK
  <2>5. CountInv'
    <3>1. \A v \in Wheel : lastState'[v] = Pins(readPos'[v])
      BY <1>2, <2>3, <2>4 DEF CountInv
    <3>2. ErrorIsEven'
      BY <1>2, <2>1, <2>3, <2>4 DEF CountInv, ErrorIsEven
    <3>3. TotalIsExact'
      BY <1>2, <2>1, <2>3, <2>4 DEF CountInv, TotalIsExact
    <3>4. \A v \in Wheel \ skipped' : pos'[v] - readPos'[v] \in {-1, 0, 1}
      BY <1>2, <2>1, <2>3, <2>4 DEF CountInv
    <3>5. DeltasAddUp'
      BY <1>2, <2>3, <2>4 DEF CountInv, DeltasAddUp
    <3> QED
      BY <3>1, <3>2, <3>3, <3>4, <3>5 DEF CountInv
  <2>6. EdgeInv'
    BY <1>2, <2>3, <2>4 DEF EdgeInv, Has, Lasting, PinsRead, isrVars
  <2> QED
    BY <2>2, <2>5, <2>6 DEF EncoderInv
<1> QED
  BY <1>3, <1>4

\* The invariant of the encoders.
THEOREM EncoderInvariant == Spec => []EncoderInv
<1>1. EncoderInv /\ [Next]_vars => EncoderInv'
  <2> SUFFICES ASSUME EncoderInv, [Next]_vars PROVE EncoderInv'
    OBVIOUS
  <2>1. ASSUME NEW w \in Wheel, NEW d \in {-1, 1}, Edge(w, d) PROVE EncoderInv'
    BY <2>1, EdgeKeeps
  <2>2. CASE EnterIrq \/ LeaveIrq
    BY <2>2, EnterLeaveKeep
  <2>3. CASE HandlePins("left", "right")
    BY <2>3, HandleKeeps
  <2>4. CASE HandlePins("right", "clear")
    BY <2>4, HandleKeeps
  <2>5. ASSUME NEW w \in Taken, GetDelta(w) \/ Reset(w) PROVE EncoderInv'
    BY <2>5, TaskKeeps
  <2>6. CASE UNCHANGED vars
    BY <2>6 DEF vars, isrVars, countVars, EncoderInv, EncoderType, TypeOK, CountInv,
         ErrorIsEven, TotalIsExact, DeltasAddUp, EdgeInv, Has, Lasting, PinsRead
  <2> QED
    BY <2>1, <2>2, <2>3, <2>4, <2>5, <2>6 DEF Next
<1> QED
  BY <1>1, EncoderInit, PTL DEF Spec

\* The variables keep their types.
THEOREM EncoderTypes == Spec => []TypeOK
<1>1. EncoderInv => TypeOK
  BY DEF EncoderInv, EncoderType
<1> QED
  BY <1>1, EncoderInvariant, PTL

\* The total is exact while no two edges fall between two readings.
THEOREM EncoderTotalExact == Spec => []TotalIsExact
<1>1. EncoderInv => TotalIsExact
  BY DEF EncoderInv, CountInv
<1> QED
  BY <1>1, EncoderInvariant, PTL

\* The total is never off by an odd number, at any speed.
THEOREM EncoderErrorEven == Spec => []ErrorIsEven
<1>1. EncoderInv => ErrorIsEven
  BY DEF EncoderInv, CountInv
<1> QED
  BY <1>1, EncoderInvariant, PTL

\* The deltas handed out add up to the total.
THEOREM EncoderDeltasAddUp == Spec => []DeltasAddUp
<1>1. EncoderInv => DeltasAddUp
  BY DEF EncoderInv, CountInv
<1> QED
  BY <1>1, EncoderInvariant, PTL

\* Every edge is seen, but for one whose pin changed again before the clear.
THEOREM EncoderEdgesSeen == Spec => []EdgesAreSeen
<1>1. EncoderInv => EdgesAreSeen
  BY HasMore DEF EncoderInv, EdgeInv, EdgesAreSeen, Lasting
<1> QED
  BY <1>1, EncoderInvariant, PTL

-----------------------------------------------------------------------------
(* The bias of the line.                                                   *)

\* Induction over the natural numbers, by the set of those that have a property.
LEMMA Induction ==
  ASSUME NEW S, 0 \in S, \A n \in Nat : n \in S => n + 1 \in S
  PROVE  Nat \subseteq S
<1> DEFINE T == {n \in Nat : n \notin S}
<1> SUFFICES ASSUME T # {} PROVE FALSE
  OBVIOUS
<1>1. IsWellFoundedOn(OpToRel(<, Nat), Nat)
  BY NatLessThanWellFounded
<1>2. PICK x \in T : \A y \in T : <<y, x>> \notin OpToRel(<, Nat)
  <2> HIDE DEF T
  <2>1. T \subseteq Nat
    BY DEF T
  <2> QED
    BY <1>1, <2>1, WFMin
<1>3. \A y \in T : ~(y < x)
  BY <1>2 DEF OpToRel
<1>4. x # 0 /\ x - 1 \in Nat /\ x - 1 < x
  OBVIOUS
<1>5. x - 1 \in S
  BY <1>3, <1>4
<1> QED
  BY <1>4, <1>5

\* Sets of channels are finite.
LEMMA ChannelsFinite ==
  ASSUME NEW s \in SUBSET Channels
  PROVE  IsFiniteSet(s) /\ Cardinality(s) \in Nat
<1>1. IsFiniteSet(Channels)
  BY LineAssumption, FS_Interval DEF Channels
<1> QED
  BY <1>1, FS_Subset, FS_CardinalityType

\* The channel that a sum takes first.
Pick(s) == CHOOSE x \in s : TRUE

\* A set without the channel that a sum takes first.
LEMMA PickOne ==
  ASSUME NEW s \in SUBSET Channels, s # {}
  PROVE  /\ Pick(s) \in s /\ s \ {Pick(s)} \in SUBSET Channels
         /\ Cardinality(s) \in Nat \ {0}
         /\ Cardinality(s \ {Pick(s)}) = Cardinality(s) - 1
<1>1. Pick(s) \in s
  BY DEF Pick
<1>2. IsFiniteSet(s) /\ Cardinality(s) \in Nat
  BY ChannelsFinite
<1>3. Cardinality(s) # 0
  BY <1>2, FS_EmptySet
<1> QED
  BY <1>1, <1>2, <1>3, FS_RemoveElement

\* The sum of weights is what its recursive definition says.
Summed(h, S) ==
  [s \in SUBSET S |-> IF s = {} THEN 0 ELSE Weight(Pick(s)) + h[s \ {Pick(s)}]]

\* The sum over a set is the value of a function that obeys its recursion: such
\* a function exists for sets of every size, by induction.
LEMMA SumIsDefined ==
  ASSUME NEW S \in SUBSET Channels
  PROVE  \E h : h = Summed(h, S) /\ MapThenSumSet(Weight, S) = h[S]
<1> DEFINE Good(h, n) == \A s \in SUBSET S : Cardinality(s) <= n => h[s] = Summed(h, S)[s]
           N == {n \in Nat : \E h : h = [s \in SUBSET S |-> h[s]] /\ Good(h, n)}
<1>0. \A s \in SUBSET S : Cardinality(s) \in Nat /\ (s = {} <=> Cardinality(s) = 0)
  BY ChannelsFinite, FS_EmptySet
<1>1. 0 \in N
  <2> DEFINE h == [s \in SUBSET S |-> 0]
  <2>1. Good(h, 0)
    BY <1>0 DEF Summed
  <2>2. h = [s \in SUBSET S |-> h[s]]
    OBVIOUS
  <2> QED
    BY <2>1, <2>2
<1>2. ASSUME NEW n \in Nat, n \in N PROVE n + 1 \in N
  <2>1. PICK h : Good(h, n)
    BY <1>2
  <2> DEFINE g == Summed(h, S)
  <2>2. g = [s \in SUBSET S |-> g[s]]
    BY DEF Summed
  <2>3. ASSUME NEW s \in SUBSET S, Cardinality(s) <= n + 1
        PROVE  g[s] = Summed(g, S)[s]
    <3>1. CASE s = {}
      BY <3>1 DEF Summed
    <3>2. CASE s # {}
      <4> DEFINE t == s \ {Pick(s)}
      <4>1. t \in SUBSET S /\ Cardinality(t) <= n
        BY <2>3, <3>2, PickOne
      <4>2. h[t] = g[t]
        BY <2>1, <4>1
      <4>3. g[s] = Weight(Pick(s)) + h[t] /\ Summed(g, S)[s] = Weight(Pick(s)) + g[t]
        BY <3>2 DEF Summed
      <4> QED
        BY <4>2, <4>3
    <3> QED
      BY <3>1, <3>2
  <2> HIDE DEF g
  <2>4. Good(g, n + 1)
    BY <2>3
  <2> HIDE DEF Good
  <2>5. \E f : f = [s \in SUBSET S |-> f[s]] /\ Good(f, n + 1)
    BY <2>2, <2>4
  <2> QED
    BY <2>5
<1> HIDE DEF N
<1>3. Nat \subseteq N
  BY <1>1, <1>2, Induction
<1>4. Cardinality(S) \in N
  BY <1>0, <1>3
<1>5. PICK h : h = [s \in SUBSET S |-> h[s]] /\ Good(h, Cardinality(S))
  BY <1>4 DEF N
<1>6. \A s \in SUBSET S : Cardinality(s) <= Cardinality(S)
  BY ChannelsFinite, FS_Subset
<1>7. \A s \in SUBSET S : h[s] = Summed(h, S)[s]
  BY <1>5, <1>6
<1>8. h = Summed(h, S)
  <2>1. Summed(h, S) = [s \in SUBSET S |-> Summed(h, S)[s]]
    BY DEF Summed
  <2> HIDE <1>6
  <2> QED
    BY <1>5, <1>7, <2>1
<1> DEFINE f == CHOOSE g : g = Summed(g, S)
<1>9. f = Summed(f, S)
  BY <1>8
<1>10. MapThenSumSet(Weight, S) = f[S]
  BY DEF MapThenSumSet, MapThenFoldSet, Summed, Pick
<1> QED
  BY <1>9, <1>10

\* Weights are between -(Count - 1) and Count - 1, so is their mean.
LEMMA SumIsBounded ==
  ASSUME NEW S \in SUBSET Channels
  PROVE  MapThenSumSet(Weight, S) \in -((Count - 1) * Cardinality(S)) .. (Count - 1) * Cardinality(S)
<1>1. PICK h : h = Summed(h, S) /\ MapThenSumSet(Weight, S) = h[S]
  BY SumIsDefined
<1> DEFINE N == {n \in Nat : \A s \in SUBSET S : Cardinality(s) = n =>
                               h[s] \in -((Count - 1) * n) .. (Count - 1) * n}
<1>0. \A s \in SUBSET S : Cardinality(s) \in Nat /\ (s = {} <=> Cardinality(s) = 0)
  BY ChannelsFinite, FS_EmptySet
<1>2. 0 \in N
  <2>1. h[{}] = 0
    BY <1>1 DEF Summed
  <2>2. (Count - 1) * 0 = 0
    BY LineAssumption
  <2>3. \A s \in SUBSET S : Cardinality(s) = 0 => h[s] = 0
    BY <1>0, <2>1
  <2> QED
    BY <2>2, <2>3
<1>3. ASSUME NEW n \in Nat, n \in N PROVE n + 1 \in N
  <2>1. ASSUME NEW s \in SUBSET S, Cardinality(s) = n + 1
        PROVE  h[s] \in -((Count - 1) * (n + 1)) .. (Count - 1) * (n + 1)
    <3> DEFINE t == s \ {Pick(s)}
    <3>1. s # {} /\ t \in SUBSET S /\ Cardinality(t) = n /\ Pick(s) \in Channels
      BY <1>0, <2>1, PickOne
    <3>2. h[s] = Weight(Pick(s)) + h[t]
      BY <1>1, <3>1 DEF Summed
    <3>3. Weight(Pick(s)) \in -(Count - 1) .. Count - 1
      BY <3>1, LineAssumption DEF Weight, Channels
    <3>4. h[t] \in -((Count - 1) * n) .. (Count - 1) * n
      BY <1>3, <3>1
    <3>5. (Count - 1) * (n + 1) = (Count - 1) * n + (Count - 1)
      BY LineAssumption
    <3> HIDE DEF t
    <3> QED
      BY <3>2, <3>3, <3>4, <3>5, LineAssumption
  <2> QED
    BY <2>1
<1> HIDE DEF N
<1>4. Nat \subseteq N
  BY <1>2, <1>3, Induction
<1> QED
  BY <1>0, <1>1, <1>4 DEF N

\* A quotient of a number that is at most u times the divisor.
LEMMA QuotientIsBounded ==
  ASSUME NEW d \in Nat \ {0}, NEW u \in Nat, NEW n \in -(u * d) .. u * d
  PROVE  n \div d \in -u .. u
<1> DEFINE q == n \div d
<1>1. q \in Int /\ d * q <= n /\ n < d * q + d /\ u * d \in Int /\ n \in Int
  OBVIOUS
<1> HIDE DEF q
<1>2. ASSUME NEW a \in Int, NEW b \in Int, a > b PROVE d * a >= d * b + d
  <2>1. PICK c \in Nat : a = b + 1 + c
    <3>1. a - b - 1 \in Nat /\ a = b + 1 + (a - b - 1)
      BY <1>2
    <3> QED
      BY <3>1
  <2>2. d * a = d * b + d + d * c /\ d * c >= 0
    BY <2>1
  <2> QED
    BY <2>2
<1>3. ~(q > u)
  <2>1. q > u => d * q >= d * u + d
    BY <1>1, <1>2
  <2>2. d * u = u * d /\ d * u \in Int /\ d * q \in Int
    BY <1>1
  <2> QED
    BY <1>1, <2>1, <2>2
<1>4. ~(-u > q)
  <2>1. -u > q => d * (-u) >= d * q + d
    BY <1>1, <1>2
  <2>2. d * (-u) = -(u * d) /\ d * q \in Int
    BY <1>1
  <2> QED
    BY <1>1, <2>1, <2>2
<1> QED
  BY <1>1, <1>3, <1>4 DEF q

\* No channel at all is no line.
LEMMA NothingIsNoLine == {} \in Views => ~OnLine[{}]
<1> SUFFICES ASSUME {} \in Views PROVE ~OnLine[{}]
  OBVIOUS
<1> DEFINE raw == ReadRaw({})
<1>1. {raw[i] : i \in Channels} = {0}
  BY LineAssumption DEF ReadRaw, Channels
<1>2. Max({0}) = 0 /\ Min({0}) = 0
  BY DEF Max, Min
<1>3. OnLine[{}] => Max({raw[i] : i \in Channels}) - Min({raw[i] : i \in Channels}) >= 120
  BY DEF OnLine, ContrastThreshold
<1> QED
  BY <1>1, <1>2, <1>3

\* The bias of a frame, for any number of channels.
LEMMA RawBiasIsBounded ==
  ASSUME NEW v \in Views, OnLine[v]
  PROVE  RawBias[v] \in -Unit .. Unit
<1> DEFINE k == Cardinality(v)
           sum == MapThenSumSet(Weight, v)
           d == k * (Count - 1)
<1>1. v # {} /\ v \in SUBSET Channels
  BY NothingIsNoLine, LineAssumption
<1>2. k \in Nat \ {0}
  BY <1>1, PickOne
<1>3. sum \in -((Count - 1) * k) .. (Count - 1) * k
  BY <1>1, SumIsBounded
<1>4. RawBias[v] = (Unit * sum) \div d
  BY DEF RawBias
<1> HIDE DEF k, sum
<1>5. d \in Nat \ {0} /\ d = (Count - 1) * k
  BY <1>2, LineAssumption
<1> HIDE DEF d
<1>6. Unit * sum \in -(Unit * d) .. Unit * d
  <2>1. sum \in Int /\ d - sum >= 0 /\ d + sum >= 0 /\ Unit \in Nat /\ d \in Nat
    BY <1>3, <1>5, LineAssumption
  <2>2. Unit * (d - sum) >= 0 /\ Unit * (d + sum) >= 0
    BY <2>1
  <2>3. Unit * (d - sum) = Unit * d - Unit * sum /\ Unit * (d + sum) = Unit * d + Unit * sum
    BY <2>1
  <2>4. Unit * d \in Int /\ Unit * sum \in Int
    BY <2>1
  <2> QED
    BY <2>2, <2>3, <2>4
<1> QED
  BY <1>4, <1>5, <1>6, QuotientIsBounded, LineAssumption

-----------------------------------------------------------------------------
(* The filter.                                                             *)

LEMMA Rounded ==
  ASSUME NEW n \in Int
  PROVE  /\ AwayFromZero(n, 100) \in Int
         /\ n >= 0 => n <= 100 * AwayFromZero(n, 100) /\ 100 * AwayFromZero(n, 100) <= n + 99
         /\ n < 0 => n - 99 <= 100 * AwayFromZero(n, 100) /\ 100 * AwayFromZero(n, 100) <= n
<1>1. CASE n >= 0
  <2>1. AwayFromZero(n, 100) = (n + 99) \div 100
    BY <1>1 DEF AwayFromZero
  <2> QED
    BY <1>1, <2>1
<1>2. CASE n < 0
  <2>1. AwayFromZero(n, 100) = -((99 - n) \div 100)
    BY <1>2 DEF AwayFromZero
  <2> QED
    BY <1>2, <2>1
<1> QED
  BY <1>1, <1>2

\* The filtered bias by inequalities: hundred times it is the weighted sum, rounded
\* away from zero.
LEMMA FilterForm ==
  ASSUME NEW raw \in Int, NEW old \in Int
  PROVE  \E n \in Int, b \in Int :
           /\ n = 35 * raw + 65 * old /\ b = Filter(raw, old)
           /\ n >= 0 => n <= 100 * b /\ 100 * b <= n + 99
           /\ n < 0 => n - 99 <= 100 * b /\ 100 * b <= n
<1> DEFINE n == 35 * raw + 65 * old
           b == AwayFromZero(n, 100)
<1>1. n \in Int /\ Filter(raw, old) = b
  BY DEF Filter, Alpha
<1>2. /\ b \in Int
      /\ n >= 0 => n <= 100 * b /\ 100 * b <= n + 99
      /\ n < 0 => n - 99 <= 100 * b /\ 100 * b <= n
  BY <1>1, Rounded
<1> HIDE DEF b
<1> QED
  BY <1>1, <1>2

\* A filtered bias is in range, and no smaller for larger arguments.
LEMMA FilterInRange ==
  ASSUME NEW raw \in -Unit .. Unit, NEW old \in -Unit .. Unit
  PROVE  Filter(raw, old) \in -Unit .. Unit
<1>1. raw \in Int /\ old \in Int /\ Unit \in Nat
  BY LineAssumption
<1>2. PICK n \in Int, b \in Int :
        /\ n = 35 * raw + 65 * old /\ b = Filter(raw, old)
        /\ n >= 0 => n <= 100 * b /\ 100 * b <= n + 99
        /\ n < 0 => n - 99 <= 100 * b /\ 100 * b <= n
  BY <1>1, FilterForm
<1> QED
  BY <1>1, <1>2

\* The filter keeps the order of its inputs.
LEMMA FilterMonotone ==
  ASSUME NEW raw \in Int, NEW old \in Int, NEW raw2 \in Int, NEW old2 \in Int,
         raw <= raw2, old <= old2
  PROVE  Filter(raw, old) <= Filter(raw2, old2)
<1>1. PICK n \in Int, b \in Int :
        /\ n = 35 * raw + 65 * old /\ b = Filter(raw, old)
        /\ n >= 0 => n <= 100 * b /\ 100 * b <= n + 99
        /\ n < 0 => n - 99 <= 100 * b /\ 100 * b <= n
  BY FilterForm
<1>2. PICK n2 \in Int, b2 \in Int :
        /\ n2 = 35 * raw2 + 65 * old2 /\ b2 = Filter(raw2, old2)
        /\ n2 >= 0 => n2 <= 100 * b2 /\ 100 * b2 <= n2 + 99
        /\ n2 < 0 => n2 - 99 <= 100 * b2 /\ 100 * b2 <= n2
  BY FilterForm
<1>3. n <= n2
  BY <1>1, <1>2
<1>4. b <= b2
  BY <1>1, <1>2, <1>3
<1> QED
  BY <1>1, <1>2, <1>4

\* The filter treats both sides alike.
LEMMA FilterOdd ==
  ASSUME NEW raw \in Int, NEW old \in Int
  PROVE  Filter(-raw, -old) = -Filter(raw, old)
<1>0. -raw \in Int /\ -old \in Int
  OBVIOUS
<1>1. PICK n \in Int, b \in Int :
        /\ n = 35 * raw + 65 * old /\ b = Filter(raw, old)
        /\ n >= 0 => n <= 100 * b /\ 100 * b <= n + 99
        /\ n < 0 => n - 99 <= 100 * b /\ 100 * b <= n
  BY FilterForm
<1>2. PICK n2 \in Int, b2 \in Int :
        /\ n2 = 35 * (-raw) + 65 * (-old) /\ b2 = Filter(-raw, -old)
        /\ n2 >= 0 => n2 <= 100 * b2 /\ 100 * b2 <= n2 + 99
        /\ n2 < 0 => n2 - 99 <= 100 * b2 /\ 100 * b2 <= n2
  BY <1>0, FilterForm
<1>3. n2 = -n
  BY <1>1, <1>2
<1>4. b2 = -b
  BY <1>1, <1>2, <1>3
<1> QED
  BY <1>1, <1>2, <1>4

\* Towards a larger value the filter never falls, and never overtakes it.
LEMMA FilterApproaches ==
  ASSUME NEW raw \in Int, NEW old \in Int, old <= raw
  PROVE  Filter(raw, old) \in old .. raw
<1>1. PICK n \in Int, b \in Int :
        /\ n = 35 * raw + 65 * old /\ b = Filter(raw, old)
        /\ n >= 0 => n <= 100 * b /\ 100 * b <= n + 99
        /\ n < 0 => n - 99 <= 100 * b /\ 100 * b <= n
  BY FilterForm
<1>2. 100 * old <= n /\ n <= 100 * raw
  BY <1>1
<1>3. old <= b /\ b <= raw
  BY <1>1, <1>2
<1> QED
  BY <1>1, <1>3

-----------------------------------------------------------------------------
(* How far the filter is behind.                                           *)

LEMMA BehindIsDefined ==
  ASSUME NEW least
  PROVE  \A k \in 0 .. LagFrames :
           Behind(least)[k] = IF k = 0 THEN -Unit ELSE Filter(least, Behind(least)[k - 1])
<1> DEFINE D == 0 .. LagFrames
           Then(h) == [k \in D |-> IF k = 0 THEN -Unit ELSE Filter(least, h[k - 1])]
           Good(h, n) == \A k \in D : k <= n => h[k] = Then(h)[k]
           N == {n \in Nat : \E h : h = [k \in D |-> h[k]] /\ Good(h, n)}
<1>1. 0 \in N
  <2> DEFINE h == [k \in D |-> -Unit]
  <2>1. Good(h, 0)
    BY LineAssumption
  <2>2. h = [k \in D |-> h[k]]
    OBVIOUS
  <2> QED
    BY <2>1, <2>2
<1>2. ASSUME NEW n \in Nat, n \in N PROVE n + 1 \in N
  <2>1. PICK h : Good(h, n)
    BY <1>2
  <2> DEFINE g == Then(h)
  <2>2. g = [k \in D |-> g[k]]
    OBVIOUS
  <2>3. ASSUME NEW k \in D, k <= n + 1 PROVE g[k] = Then(g)[k]
    <3>1. CASE k = 0
      BY <3>1
    <3>2. CASE k # 0
      <4>1. k - 1 \in D /\ k - 1 <= n
        BY <2>3, <3>2, LineAssumption
      <4>2. h[k - 1] = g[k - 1]
        BY <2>1, <4>1
      <4>3. g[k] = Filter(least, h[k - 1]) /\ Then(g)[k] = Filter(least, g[k - 1])
        BY <3>2
      <4> QED
        BY <4>2, <4>3
    <3> QED
      BY <3>1, <3>2
  <2> HIDE DEF g
  <2>4. Good(g, n + 1)
    BY <2>3
  <2> HIDE DEF Good
  <2>5. \E f : f = [k \in D |-> f[k]] /\ Good(f, n + 1)
    BY <2>2, <2>4
  <2>6. n + 1 \in Nat
    OBVIOUS
  <2> QED
    BY <2>5, <2>6, Zenon
<1> HIDE DEF N
<1>3. Nat \subseteq N
  BY <1>1, <1>2, Induction
<1>4. PICK h : h = [k \in D |-> h[k]] /\ Good(h, LagFrames)
  BY <1>3, LineAssumption DEF N
<1>5. \A k \in D : h[k] = Then(h)[k]
  <2>1. \A k \in D : k <= LagFrames
    BY LineAssumption
  <2> HIDE DEF Then
  <2> QED
    BY <1>4, <2>1
<1>6. h = Then(h)
  <2>1. Then(h) = [k \in D |-> Then(h)[k]]
    OBVIOUS
  <2> HIDE DEF Then
  <2> QED
    BY <1>4, <1>5, <2>1
<1> DEFINE f == CHOOSE g : g = Then(g)
<1>7. f = Then(f)
  BY <1>6
<1>8. Behind(least) = f
  BY DEF Behind
<1> HIDE DEF f
<1> QED
  BY <1>7, <1>8

\* The worst case stays within its bounds and comes closer with every frame.
LEMMA BehindRises ==
  ASSUME NEW least \in 1 .. Unit
  PROVE  /\ \A k \in 0 .. LagFrames : Behind(least)[k] \in -Unit .. least
         /\ \A k \in 0 .. LagFrames - 1 :
              /\ Behind(least)[k + 1] = Filter(least, Behind(least)[k])
              /\ Behind(least)[k] <= Behind(least)[k + 1]
<1>0. Unit \in Nat /\ least \in Int /\ LagFrames \in Nat
  BY LineAssumption
<1> DEFINE B == Behind(least)
           N == {n \in Nat : n <= LagFrames => B[n] \in -Unit .. least}
<1>1. \A k \in 0 .. LagFrames : B[k] = IF k = 0 THEN -Unit ELSE Filter(least, B[k - 1])
  BY BehindIsDefined
<1>2. \A k \in 0 .. LagFrames - 1 : B[k + 1] = Filter(least, B[k])
  <2>1. ASSUME NEW k \in 0 .. LagFrames - 1 PROVE B[k + 1] = Filter(least, B[k])
    <3>1. k + 1 \in 0 .. LagFrames /\ k + 1 # 0 /\ (k + 1) - 1 = k
      BY <1>0
    <3> HIDE DEF B
    <3> QED
      BY <1>1, <3>1
  <2> QED
    BY <2>1
<1>3. B[0] = -Unit
  BY <1>0, <1>1
<1> HIDE DEF B
<1>4. 0 \in N
  BY <1>0, <1>3
<1>5. ASSUME NEW n \in Nat, n \in N PROVE n + 1 \in N
  <2>1. ASSUME n + 1 <= LagFrames PROVE B[n + 1] \in -Unit .. least
    <3>1. B[n] \in -Unit .. least /\ B[n + 1] = Filter(least, B[n])
      BY <1>0, <1>2, <1>5, <2>1
    <3>2. B[n] \in Int /\ B[n] <= least
      BY <1>0, <3>1
    <3>3. Filter(least, B[n]) \in B[n] .. least
      BY <1>0, <3>2, FilterApproaches
    <3> QED
      BY <1>0, <3>1, <3>3
  <2> QED
    BY <2>1
<1>6. Nat \subseteq N
  <2> HIDE DEF N
  <2> QED
    BY <1>4, <1>5, Induction
<1>7. \A k \in 0 .. LagFrames : B[k] \in -Unit .. least
  BY <1>0, <1>6
<1>8. ASSUME NEW k \in 0 .. LagFrames - 1 PROVE B[k] <= B[k + 1]
  <2>1. B[k] \in -Unit .. least /\ B[k + 1] = Filter(least, B[k])
    BY <1>0, <1>2, <1>7
  <2>2. B[k] \in Int /\ B[k] <= least
    BY <1>0, <2>1
  <2>3. Filter(least, B[k]) \in B[k] .. least
    BY <1>0, <2>2, FilterApproaches
  <2> QED
    BY <2>1, <2>2, <2>3
<1> QED
  BY <1>2, <1>7, <1>8 DEF B

-----------------------------------------------------------------------------
(* The line tracker.                                                       *)

\* A bias that the filter, with LagAssumption, is sure to bring over.
Least == CHOOSE least \in 1 .. Unit :
  /\ \A v \in DOMAIN RawBias :
       RawBias[v] = 0 \/ RawBias[v] >= least \/ RawBias[v] <= -least
  /\ Behind(least)[LagFrames] > 0

\* The filter after a number of frames that saw the line on one side, s.
Caught(s) == side = s => streak # 0 /\ s * frame.bias >= Behind(Least)[streak]

\* The invariant of the line tracker: the filtered bias is at least as far as the
\* worst case after the frames in a row that saw the line on one side.
LineInv ==
  /\ LineTypeOK
  /\ prevErr = 0 - frame.bias /\ frame.lastBias = frame.bias
  /\ ~primed => frame.bias = 0
  /\ Caught(1) /\ Caught(-1)
  /\ SteersBack

\* What LagAssumption says of Least.
LEMMA LeastCrosses ==
  /\ Least \in 1 .. Unit
  /\ \A v \in Views : OnLine[v] =>
       RawBias[v] = 0 \/ RawBias[v] >= Least \/ RawBias[v] <= -Least
  /\ Behind(Least)[LagFrames] > 0
<1>1. DOMAIN RawBias = {v \in Views : OnLine[v]}
  BY DEF RawBias
<1>2. /\ Least \in 1 .. Unit
      /\ \A v \in DOMAIN RawBias :
           RawBias[v] = 0 \/ RawBias[v] >= Least \/ RawBias[v] <= -Least
      /\ Behind(Least)[LagFrames] > 0
  BY LagAssumption DEF Least
<1> QED
  BY <1>1, <1>2

\* The tracker starts in its invariant.
LEMMA LineStarts == LineInit => LineInv
<1> SUFFICES ASSUME LineInit PROVE LineInv
  OBVIOUS
<1>1. /\ running = FALSE /\ primed = FALSE /\ prevErr = 0 /\ turn = 0 /\ side = 0 /\ streak = 0
      /\ frame = EmptyFrame
  BY DEF LineInit
<1>2. frame \in [bias : -Unit .. Unit, lastBias : -Unit .. Unit, onLine : BOOLEAN]
      /\ frame.bias = 0 /\ frame.lastBias = 0
  BY <1>1, LineAssumption DEF EmptyFrame
<1>3. running \in BOOLEAN /\ primed \in BOOLEAN
  BY <1>1
<1>4. LineTypeOK
  <2>1. prevErr \in -Unit .. Unit /\ side \in {-1, 0, 1} /\ streak \in 0 .. LagFrames
    BY <1>1, LineAssumption
  <2>2. turn \in -40 * 100 * Unit .. 40 * 100 * Unit
    BY <1>1, LineAssumption
  <2> QED
    BY <1>2, <1>3, <2>1, <2>2 DEF LineTypeOK
<1>5. prevErr = 0 - frame.bias /\ frame.lastBias = frame.bias
  BY <1>1, <1>2
<1>6. Caught(1) /\ Caught(-1) /\ SteersBack
  BY <1>1 DEF Caught, SteersBack
<1> QED
  BY <1>2, <1>4, <1>5, <1>6 DEF LineInv

\* A frame that sees the line: the new bias, and the turn it makes.
LEMMA FrameOnLine ==
  ASSUME LineInv, NEW v \in Views, OnLine[v], Mission(v)
  PROVE  /\ frame'.onLine = TRUE /\ frame'.lastBias = frame'.bias
         /\ frame' \in [bias : -Unit .. Unit, lastBias : -Unit .. Unit, onLine : BOOLEAN]
         /\ frame'.bias = IF primed THEN Filter(RawBias[v], frame.bias) ELSE RawBias[v]
         /\ prevErr' = 0 - frame'.bias
         /\ turn' = 2 * frame.bias - 20 * frame'.bias
         /\ turn' \in -(40 * 100 * Unit) .. 40 * 100 * Unit
         /\ primed => turn' \in -(18 * Unit + 20) .. 18 * Unit + 20
<1> DEFINE b == IF primed THEN Filter(RawBias[v], frame.bias) ELSE RawBias[v]
<1>1. RawBias[v] \in -Unit .. Unit /\ frame.bias \in -Unit .. Unit /\ Unit \in Nat \ {0}
  BY RawBiasIsBounded, LineAssumption DEF LineInv, LineTypeOK
<1>2. b \in -Unit .. Unit
  BY <1>1, FilterInRange
<1>3. frame' = [bias |-> b, lastBias |-> b, onLine |-> TRUE]
  BY DEF Mission, Update
<1>4. prevErr = 0 - frame.bias /\ (~primed => frame.bias = 0)
  BY DEF LineInv
<1>5. prevErr' = 0 - b /\ turn' = Clamp(18 * (0 - b) + 2 * ((0 - b) - prevErr), 40 * 100 * Unit)
  BY <1>3 DEF Mission, Track, Pid
<1>6. primed => /\ 20 * b - 2 * frame.bias <= 18 * Unit + 20
                /\ 20 * b - 2 * frame.bias >= -(18 * Unit + 20)
  <2>1. primed => b = Filter(RawBias[v], frame.bias)
    OBVIOUS
  <2> HIDE DEF b
  <2>2. ASSUME primed
        PROVE  \E n \in Int : /\ n = 35 * RawBias[v] + 65 * frame.bias
                              /\ n >= 0 => n <= 100 * b /\ 100 * b <= n + 99
                              /\ n < 0 => n - 99 <= 100 * b /\ 100 * b <= n
    <3>1. b = Filter(RawBias[v], frame.bias)
      BY <2>1, <2>2
    <3>2. RawBias[v] \in Int /\ frame.bias \in Int
      BY <1>1
    <3> QED
      BY <3>1, <3>2, FilterForm
  <2> QED
    BY <1>1, <1>2, <2>2
<1>7. ~primed => b \in -Unit .. Unit /\ frame.bias = 0
  BY <1>2, <1>4
<1> HIDE DEF b
<1>8. turn' = 2 * frame.bias - 20 * b /\ turn' \in -(40 * 100 * Unit) .. 40 * 100 * Unit
  <2>1. 18 * (0 - b) + 2 * ((0 - b) - prevErr) = 2 * frame.bias - 20 * b
    BY <1>1, <1>2, <1>4
  <2>2. 2 * frame.bias - 20 * b \in -(40 * Unit) .. 40 * Unit
    BY <1>1, <1>2
  <2> QED
    BY <1>1, <1>5, <2>1, <2>2 DEF Clamp
<1>9. frame' \in [bias : -Unit .. Unit, lastBias : -Unit .. Unit, onLine : BOOLEAN]
  BY <1>2, <1>3
<1> QED
  BY <1>1, <1>2, <1>3, <1>5, <1>6, <1>8, <1>9 DEF b

\* The frames in a row that saw the line on one side, s.
LEMMA FrameCatches ==
  ASSUME LineInv, NEW v \in Views, OnLine[v], Mission(v), NEW s \in {1, -1}, side' = s
  PROVE  /\ streak' \in 1 .. LagFrames
         /\ s * frame'.bias >= Behind(Least)[streak']
         /\ streak' = LagFrames => Sign(turn') = -s
<1> DEFINE B == Behind(Least)
           raw == s * RawBias[v]
           old == s * frame.bias
           new == s * frame'.bias
<1>0. /\ LagFrames \in Nat \ {0} /\ Unit \in Nat \ {0} /\ Least \in 1 .. Unit
      /\ \A k \in 0 .. LagFrames : B[k] \in -Unit .. Least
      /\ \A k \in 0 .. LagFrames - 1 : B[k + 1] = Filter(Least, B[k]) /\ B[k] <= B[k + 1]
      /\ B[0] = -Unit /\ B[LagFrames] > 0
  <2>1. LagFrames \in Nat \ {0} /\ Unit \in Nat \ {0} /\ Least \in 1 .. Unit /\ B[LagFrames] > 0
    BY LeastCrosses, LineAssumption
  <2>2. /\ \A k \in 0 .. LagFrames : B[k] \in -Unit .. Least
        /\ \A k \in 0 .. LagFrames - 1 : B[k + 1] = Filter(Least, B[k]) /\ B[k] <= B[k + 1]
    BY <2>1, BehindRises
  <2>3. 0 \in 0 .. LagFrames
    BY <2>1
  <2>4. B[0] = -Unit
    BY <2>3, BehindIsDefined
  <2> QED
    BY <2>1, <2>2, <2>4
<1>1. RawBias[v] \in -Unit .. Unit /\ frame.bias \in -Unit .. Unit /\ streak \in 0 .. LagFrames
  BY RawBiasIsBounded DEF LineInv, LineTypeOK
<1>2. s = Sign(RawBias[v])
      /\ streak' = IF s = side THEN Min({streak + 1, LagFrames}) ELSE 1
  BY DEF Mission
<1>3. raw \in Least .. Unit
  <2>1. RawBias[v] = 0 \/ RawBias[v] >= Least \/ RawBias[v] <= -Least
    BY LeastCrosses
  <2>2. CASE s = 1
    BY <1>0, <1>1, <1>2, <2>1, <2>2 DEF Sign
  <2>3. CASE s = -1
    BY <1>0, <1>1, <1>2, <2>1, <2>3 DEF Sign
  <2> QED
    BY <2>2, <2>3
<1>4. old \in -Unit .. Unit /\ (~primed => old = 0)
  <2>1. ~primed => frame.bias = 0
    BY DEF LineInv
  <2>2. CASE s = 1
    BY <1>0, <1>1, <2>1, <2>2
  <2>3. CASE s = -1
    BY <1>0, <1>1, <2>1, <2>3
  <2> QED
    BY <2>2, <2>3
<1>6. turn' = 2 * frame.bias - 20 * frame'.bias /\ frame'.bias \in -Unit .. Unit
  BY FrameOnLine
<1>5. new = IF primed THEN Filter(raw, old) ELSE raw
  <2>1. frame'.bias = IF primed THEN Filter(RawBias[v], frame.bias) ELSE RawBias[v]
    BY FrameOnLine
  <2>2. /\ RawBias[v] \in Int /\ frame.bias \in Int
        /\ -RawBias[v] \in Int /\ -frame.bias \in Int /\ frame'.bias \in Int
    BY <1>0, <1>1, <1>6
  <2>0. ASSUME NEW x \in Int PROVE 1 * x = x /\ (-1) * x = -x
    OBVIOUS
  <2>3. s = 1 => raw = RawBias[v] /\ old = frame.bias /\ new = frame'.bias
    BY <2>0, <2>2
  <2>4. s = -1 => raw = -RawBias[v] /\ old = -frame.bias /\ new = -frame'.bias
    BY <2>0, <2>2
  <2>5. Filter(-RawBias[v], -frame.bias) = -Filter(RawBias[v], frame.bias)
    BY <2>2, FilterOdd
  <2> HIDE DEF raw, old, new
  <2> QED
    BY <2>1, <2>3, <2>4, <2>5
<1>7. turn' = -(s * (20 * new - 2 * old)) /\ new \in Int
  BY <1>0, <1>1, <1>6
<1>8. Min({streak + 1, LagFrames}) = IF streak + 1 <= LagFrames THEN streak + 1 ELSE LagFrames
  <2>1. streak + 1 \in Nat /\ LagFrames \in Nat
    BY <1>0, <1>1
  <2> QED
    BY <2>1 DEF Min
<1>9. streak' \in 1 .. LagFrames
  BY <1>0, <1>1, <1>2, <1>8
<1> HIDE DEF raw, old, new, B
<1>10. ASSUME primed, NEW k \in 0 .. LagFrames - 1, old >= B[k]
       PROVE  new >= B[k + 1]
  <2>1. B[k] \in Int /\ B[k + 1] = Filter(Least, B[k]) /\ raw \in Int /\ old \in Int /\ Least \in Int
    BY <1>0, <1>3, <1>4
  <2>2. Least <= raw
    BY <1>0, <1>3
  <2> QED
    BY <1>5, <1>10, <2>1, <2>2, FilterMonotone
<1>11. new >= B[streak']
  <2>1. CASE ~primed
    BY <1>0, <1>3, <1>5, <1>9, <2>1
  <2>2. CASE primed /\ s # side
    <3>1. 0 \in 0 .. LagFrames - 1 /\ old >= B[0]
      BY <1>0, <1>4
    <3>2. streak' = 0 + 1
      BY <1>2, <2>2
    <3> QED
      BY <1>10, <2>2, <3>1, <3>2
  <2>3. CASE primed /\ s = side
    <3>1. streak # 0 /\ old >= B[streak]
      BY <2>3 DEF LineInv, Caught, old, B
    <3>2. CASE streak < LagFrames
      <4>1. streak \in 0 .. LagFrames - 1 /\ streak' = streak + 1
        BY <1>0, <1>1, <1>2, <1>8, <2>3, <3>2
      <4> QED
        BY <1>10, <2>3, <3>1, <4>1
    <3>3. CASE streak = LagFrames
      <4>1. LagFrames - 1 \in 0 .. LagFrames - 1 /\ (LagFrames - 1) + 1 = LagFrames
        BY <1>0
      <4>2. B[LagFrames] >= B[LagFrames - 1] /\ B[LagFrames - 1] \in Int /\ B[LagFrames] \in Int
        BY <1>0, <4>1
      <4>3. old >= B[LagFrames - 1]
        BY <1>4, <3>1, <3>3, <4>2
      <4>4. streak' = LagFrames
        BY <1>0, <1>1, <1>2, <1>8, <2>3, <3>3
      <4> QED
        BY <1>10, <2>3, <4>1, <4>3, <4>4
    <3> QED
      BY <1>0, <1>1, <3>2, <3>3
  <2> QED
    BY <2>1, <2>2, <2>3
<1>12. ASSUME streak' = LagFrames PROVE Sign(turn') = -s
  <2>1. new > 0
    BY <1>0, <1>7, <1>11, <1>12
  <2>2. 20 * new > 2 * old
    <3>1. CASE ~primed
      BY <1>4, <1>7, <2>1, <3>1
    <3>2. CASE primed
      <4>1. raw \in Int /\ old \in Int /\ raw > 0
        BY <1>0, <1>3, <1>4
      <4>2. PICK n \in Int : /\ n = 35 * raw + 65 * old
                             /\ n >= 0 => n <= 100 * new /\ 100 * new <= n + 99
                             /\ n < 0 => n - 99 <= 100 * new /\ 100 * new <= n
        BY <1>5, <3>2, <4>1, FilterForm
      <4> QED
        BY <1>7, <2>1, <4>1, <4>2
    <3> QED
      BY <3>1, <3>2
  <2>3. 20 * new - 2 * old \in Int /\ 20 * new - 2 * old > 0
    BY <1>4, <1>7, <2>2
  <2> QED
    BY <1>7, <2>3 DEF Sign
<1> QED
  BY <1>9, <1>11, <1>12 DEF new, B

\* A frame without the line: the remembered side decides.
LEMMA FrameOffLine ==
  ASSUME LineInv, NEW v \in Views, ~OnLine[v], Mission(v)
  PROVE  /\ frame'.onLine = FALSE
         /\ frame'.bias = frame.bias /\ frame'.lastBias = frame.lastBias
         /\ frame' \in [bias : -Unit .. Unit, lastBias : -Unit .. Unit, onLine : BOOLEAN]
         /\ turn' \in -(18 * Unit) .. 18 * Unit
         /\ UNCHANGED <<primed, prevErr, side, streak>>
<1>1. frame \in [bias : -Unit .. Unit, lastBias : -Unit .. Unit, onLine : BOOLEAN]
      /\ frame.lastBias = frame.bias /\ Unit \in Nat
  BY LineAssumption DEF LineInv, LineTypeOK
<1>2. frame' = [frame EXCEPT !.bias = frame.lastBias, !.onLine = FALSE] /\ primed' = primed
  BY DEF Mission, Update
<1>3. /\ frame'.onLine = FALSE /\ frame'.bias = frame.bias /\ frame'.lastBias = frame.lastBias
      /\ frame' \in [bias : -Unit .. Unit, lastBias : -Unit .. Unit, onLine : BOOLEAN]
  BY <1>1, <1>2
<1>4. turn' = Sign(frame'.lastBias) * (18 * Unit) /\ prevErr' = prevErr
  BY <1>3 DEF Mission, Track, TrackLostDiff
<1>5. Sign(frame'.lastBias) \in {-1, 0, 1}
  BY DEF Sign
<1>6. turn' \in -(18 * Unit) .. 18 * Unit
  BY <1>1, <1>4, <1>5
<1>7. UNCHANGED <<side, streak>>
  BY DEF Mission
<1> QED
  BY <1>2, <1>3, <1>4, <1>6, <1>7

\* Every iteration keeps it: the line seen or lost, the car stopped.
LEMMA LineKeeps == LineInv /\ [LineNext]_lineVars => LineInv'
<1> SUFFICES ASSUME LineInv, [LineNext]_lineVars PROVE LineInv'
  OBVIOUS
<1>t. /\ frame \in [bias : -Unit .. Unit, lastBias : -Unit .. Unit, onLine : BOOLEAN]
      /\ prevErr \in -Unit .. Unit
      /\ turn \in -40 * 100 * Unit .. 40 * 100 * Unit
      /\ side \in {-1, 0, 1} /\ streak \in 0 .. LagFrames
      /\ Unit \in Nat \ {0} /\ LagFrames \in Nat \ {0}
  BY LineAssumption DEF LineInv, LineTypeOK
<1>b. running \in BOOLEAN /\ primed \in BOOLEAN
  BY DEF LineInv, LineTypeOK
<1>1. CASE MissionIdle
  <2>1. /\ running' = FALSE /\ turn' = 0
        /\ UNCHANGED <<frame, primed, prevErr, side, streak>>
    BY <1>1 DEF MissionIdle
  <2>2. running' \in BOOLEAN /\ primed' \in BOOLEAN
    BY <1>b, <2>1
  <2>3. LineTypeOK'
    BY <1>t, <2>1, <2>2 DEF LineTypeOK
  <2>4. SteersBack'
    BY <2>1 DEF SteersBack
  <2> QED
    BY <2>1, <2>3, <2>4 DEF LineInv, Caught
<1>2. ASSUME NEW v \in Views, Mission(v), OnLine[v] PROVE LineInv'
  <2>1. /\ running' = TRUE /\ primed' = TRUE /\ side' = Sign(RawBias[v])
        /\ frame'.onLine = TRUE /\ frame'.lastBias = frame'.bias
        /\ frame' \in [bias : -Unit .. Unit, lastBias : -Unit .. Unit, onLine : BOOLEAN]
        /\ prevErr' = 0 - frame'.bias
        /\ turn' \in -(40 * 100 * Unit) .. 40 * 100 * Unit
    BY <1>2, FrameOnLine DEF Mission, Update
  <2>2. side' \in {-1, 0, 1}
    BY <2>1 DEF Sign
  <2>3. ASSUME NEW s \in {1, -1}, side' = s
        PROVE  /\ streak' \in 1 .. LagFrames
               /\ s * frame'.bias >= Behind(Least)[streak']
               /\ streak' = LagFrames => Sign(turn') = -s
    BY <1>2, <2>3, FrameCatches
  <2>4. streak' \in 0 .. LagFrames
    <3>1. streak' \in {Min({streak + 1, LagFrames}), 1}
      BY <1>2 DEF Mission
    <3>2. streak + 1 \in Nat
      BY <1>t
    <3>3. Min({streak + 1, LagFrames}) \in {streak + 1, LagFrames} /\ Min({streak + 1, LagFrames}) <= LagFrames
      BY <1>t, <3>2 DEF Min
    <3> QED
      BY <1>t, <3>1, <3>2, <3>3
  <2>5. running' \in BOOLEAN /\ primed' \in BOOLEAN /\ primed'
    BY <2>1
  <2>6. prevErr' \in -Unit .. Unit
    BY <1>t, <2>1
  <2>7. LineTypeOK'
    BY <1>t, <2>1, <2>2, <2>4, <2>5, <2>6 DEF LineTypeOK
  <2>8. Caught(1)' /\ Caught(-1)'
    BY <2>3 DEF Caught
  <2>9. SteersBack'
    BY <2>2, <2>3 DEF SteersBack
  <2> QED
    BY <2>1, <2>5, <2>7, <2>8, <2>9 DEF LineInv
<1>3. ASSUME NEW v \in Views, Mission(v), ~OnLine[v] PROVE LineInv'
  <2>1. /\ frame'.onLine = FALSE
        /\ frame'.bias = frame.bias /\ frame'.lastBias = frame.lastBias
        /\ frame' \in [bias : -Unit .. Unit, lastBias : -Unit .. Unit, onLine : BOOLEAN]
        /\ turn' \in -(18 * Unit) .. 18 * Unit
        /\ UNCHANGED <<primed, prevErr, side, streak>>
    BY <1>3, FrameOffLine
  <2>2. turn' \in -40 * 100 * Unit .. 40 * 100 * Unit
    BY <1>t, <2>1
  <2>3. running' \in BOOLEAN /\ primed' \in BOOLEAN
    BY <1>b, <1>3, <2>1 DEF Mission
  <2>4. LineTypeOK'
    BY <1>t, <2>1, <2>2, <2>3 DEF LineTypeOK
  <2>5. SteersBack'
    BY <2>1 DEF SteersBack
  <2> QED
    BY <2>1, <2>4, <2>5 DEF LineInv, Caught
<1>4. CASE UNCHANGED lineVars
  <2>1. UNCHANGED <<running, frame, primed, prevErr, turn, side, streak>>
    BY <1>4 DEF lineVars
  <2> QED
    BY <2>1 DEF LineInv, LineTypeOK, Caught, SteersBack
<1> QED
  BY <1>1, <1>2, <1>3, <1>4 DEF LineNext

\* One step turns by no more than a line at the edge.
LEMMA LineKick ==
  LineInv /\ [LineNext]_lineVars
    => [primed => turn' \in -(18 * Unit + 20) .. 18 * Unit + 20]_lineVars
<1> SUFFICES ASSUME LineInv, LineNext, primed
             PROVE  turn' \in -(18 * Unit + 20) .. 18 * Unit + 20
  OBVIOUS
<1>1. Unit \in Nat \ {0}
  BY LineAssumption
<1>2. CASE MissionIdle
  BY <1>1, <1>2 DEF MissionIdle
<1>3. ASSUME NEW v \in Views, Mission(v), OnLine[v]
      PROVE  turn' \in -(18 * Unit + 20) .. 18 * Unit + 20
  BY <1>3, FrameOnLine
<1>4. ASSUME NEW v \in Views, Mission(v), ~OnLine[v]
      PROVE  turn' \in -(18 * Unit + 20) .. 18 * Unit + 20
  <2>1. turn' \in -(18 * Unit) .. 18 * Unit
    BY <1>4, FrameOffLine
  <2> QED
    BY <1>1, <2>1
<1> QED
  BY <1>2, <1>3, <1>4 DEF LineNext

\* The invariant of the line tracker holds, however long the line is followed.
THEOREM LineInvariant == LineSpec => []LineInv
BY LineStarts, LineKeeps, PTL DEF LineSpec

\* The variables of the line tracker keep their types.
THEOREM LineTypes == LineSpec => []LineTypeOK
<1>1. LineInv => LineTypeOK
  BY DEF LineInv
<1> QED
  BY <1>1, LineInvariant, PTL

\* After LagFrames frames that saw the line on one side the car turns to that side
\* (line_tracker.c, pid.c): for any number of channels, any sets of them that are
\* active together, and any lag that the filter needs for those.
THEOREM LineSteersBack == LineSpec => []SteersBack
<1>1. LineInv => SteersBack
  BY DEF LineInv
<1> QED
  BY <1>1, LineInvariant, PTL

\* From the second frame on, the filter of dev_line_sensor.c keeps the kick of the
\* derivative in: the turn is never sharper than at the edge, up to rounding.
THEOREM LineKickIsFiltered == LineSpec => KickIsFiltered
BY LineKick, LineInvariant, PTL DEF LineSpec, KickIsFiltered

-----------------------------------------------------------------------------
(* The two together.                                                       *)

\* The wheels of the two sensors behave as Encoder says.
LEMMA SensorsHaveEncoder == SensorsSpec => Spec
<1>1. SensorsInit => Init
  BY DEF SensorsInit
<1>2. [SensorsNext]_sensorVars => [Next]_vars
  BY DEF SensorsNext, sensorVars
<1> QED
  BY <1>1, <1>2, PTL DEF SensorsSpec, Spec

\* And the line as LineFollow says.
LEMMA SensorsHaveLine == SensorsSpec => LineSpec
<1>1. SensorsInit => LineInit
  BY DEF SensorsInit
<1>2. [SensorsNext]_sensorVars => [LineNext]_lineVars
  BY DEF SensorsNext, sensorVars
<1> QED
  BY <1>1, <1>2, PTL DEF SensorsSpec, LineSpec

\* The variables of both sensors keep their types.
THEOREM SensorsTypes == SensorsSpec => []SensorsTypeOK
<1> DEFINE Chosen == sensor \in {"encoder", "line"}
<1>1. SensorsInit => Chosen
  BY DEF SensorsInit
<1>2. Chosen /\ [SensorsNext]_sensorVars => Chosen'
  BY DEF SensorsNext, sensorVars
<1>3. Chosen /\ TypeOK /\ LineTypeOK => SensorsTypeOK
  BY DEF SensorsTypeOK
<1> HIDE DEF Chosen
<1>4. SensorsSpec => []Chosen
  BY <1>1, <1>2, PTL DEF SensorsSpec
<1> QED
  BY <1>3, <1>4, SensorsHaveEncoder, SensorsHaveLine, EncoderTypes, LineTypes, PTL

=============================================================================
