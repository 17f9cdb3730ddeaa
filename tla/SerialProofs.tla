---------------------------- MODULE SerialProofs ----------------------------
(***************************************************************************)
(* Proofs about the serial links, for frames, noise, buffers, periods and  *)
(* messages of any size that the assumptions of SerialLinks allow.  Each   *)
(* link has an invariant of its own; as the links share nothing, the       *)
(* composition keeps them all.                                             *)
(*                                                                         *)
(* What the parser makes of a frame is proved of frames it knows, and how  *)
(* soon it is in step again of frames without a header inside: the         *)
(* hypotheses of the last two theorems.  TargetWasSent is not among them:  *)
(* it fails for a payload that contains a frame.                           *)
(***************************************************************************)
EXTENDS SerialLinks, SpiBusProofs, SequenceTheorems, WellFoundedInduction, TLAPS

-----------------------------------------------------------------------------
(* The camera.                                                             *)

\* What the parser has of a frame: its length from the length byte on, and all
\* of its payload once the checksum is waited for.
FrameInParser ==
  /\ state \in {"TYPE", "DATA", "CRC", "CR", "LF"} => frameLen \in 1 .. MaxPayload
  /\ state = "DATA" => Len(payload) < frameLen
  /\ state \in {"CRC", "CR", "LF"} => Len(payload) = frameLen

\* Only bytes are on the line.
LineIsBytes == out \in Seq(0 .. 31)

\* A copy under way, which no newer target has overtaken, is right so far.
CopySoFar ==
  /\ target \in [1 .. TargetLen -> 0 .. 31] /\ copy \in [1 .. TargetLen -> 0 .. 31]
  /\ reader \in 0 .. TargetLen + 1
  /\ ~fresh => /\ reader # 1
               /\ reader = 0 => copy = target
               /\ \A i \in 1 .. TargetLen : i <= reader - 2 => copy[i] = target[i]

\* The invariant of the camera link.
VisionInv == Vision!TypeOK /\ FrameInParser /\ LineIsBytes /\ CopySoFar

\* The check sum of bytes is a byte.
LEMMA XorIsByte ==
  ASSUME NEW x \in 0 .. 31, NEW y \in 0 .. 31
  PROVE  Vision!Xor(x, y) \in 0 .. 31
<1>1. ASSUME NEW w \in {1, 2, 4, 8, 16}
      PROVE  ((Vision!Bit(x, w) + Vision!Bit(y, w)) % 2) * w \in {0, w}
  BY DEF Vision!Bit
<1> DEFINE d(w) == ((Vision!Bit(x, w) + Vision!Bit(y, w)) % 2) * w
<1>2. d(1) \in {0, 1} /\ d(2) \in {0, 2} /\ d(4) \in {0, 4} /\ d(8) \in {0, 8}
      /\ d(16) \in {0, 16}
  BY <1>1
<1>3. Vision!Xor(x, y) = d(1) + d(2) + d(4) + d(8) + d(16)
  BY DEF Vision!Xor
<1> HIDE DEF d
<1> QED
  BY <1>2, <1>3

\* The camera link starts in its invariant.
LEMMA VisionInit == Vision!Init => VisionInv
<1> SUFFICES ASSUME Vision!Init PROVE VisionInv
  OBVIOUS
<1> USE VisionAssumption
<1>1. /\ target = [i \in 1 .. TargetLen |-> 0] /\ copy = target
      /\ payload = <<>> /\ out = <<>> /\ reader = 0 /\ fresh = FALSE
      /\ state = "SYNC1" /\ frameLen = 0 /\ frameType = 0 /\ crcCalc = 0 /\ event = "none"
      /\ spared = 0
  BY DEF Vision!Init, Vision!NoTarget
<1>2. target \in [1 .. TargetLen -> 0 .. 31]
  BY <1>1
<1>3. fresh \in BOOLEAN
  BY <1>1
<1>4. Vision!TypeOK
  <2>1. payload \in Seq(0 .. 31) /\ Len(payload) = 0
    BY <1>1
  <2> QED
    BY <1>1, <1>3, <2>1 DEF Vision!TypeOK
<1> QED
  BY <1>1, <1>2, <1>4 DEF VisionInv, FrameInParser, LineIsBytes, CopySoFar

\* What the invariant says about the camera link.
LEMMA VisionSafe == VisionInv => Vision!TypeOK /\ QuietMeansCurrent
BY DEF VisionInv, CopySoFar, QuietMeansCurrent, Vision!QuietMeansCurrent

\* A byte that arrives leaves parser, target and reader as they can be.
LEMMA ByteArrives ==
  ASSUME VisionInv, NEW byte \in 0 .. 31, Vision!OnRxByte(byte),
         spared' \in 0 .. Spacing + 1
  PROVE  (Vision!TypeOK /\ FrameInParser /\ CopySoFar)'
<1> USE VisionAssumption
<1>t. /\ payload \in Seq(0 .. 31) /\ Len(payload) \in Nat /\ Len(payload) <= MaxPayload
      /\ frameLen \in 0 .. MaxPayload /\ frameType \in 0 .. 31 /\ crcCalc \in 0 .. 31
      /\ event \in {"none", "target", "command"} /\ reader \in 0 .. TargetLen + 2
  BY DEF VisionInv, Vision!TypeOK
<1>f. fresh \in BOOLEAN
  BY DEF VisionInv, Vision!TypeOK
<1>p. FrameInParser /\ CopySoFar
  BY DEF VisionInv
<1>r. reader' = reader /\ copy' = copy
  BY DEF Vision!OnRxByte, Vision!readerVars
<1>x. Vision!Xor(crcCalc, byte) \in 0 .. 31
  BY <1>t, XorIsByte
<1> DEFINE ParserOK ==
      /\ state' \in {"SYNC1", "SYNC2", "LEN", "TYPE", "DATA", "CRC", "CR", "LF"}
      /\ payload' \in Seq(0 .. 31) /\ Len(payload') <= MaxPayload
      /\ frameLen' \in 0 .. MaxPayload /\ frameType' \in 0 .. 31 /\ crcCalc' \in 0 .. 31
      /\ FrameInParser'
<1>1. ParserOK
  <2>1. ASSUME NEW s \in {"SYNC2", "CRC", "CR", "LF"}, NEW next,
               Vision!Expect(byte, s, next),
               next[2] \in CASE s = "SYNC2" -> {"LEN"}
                             [] s = "CRC" -> {"CR"}
                             [] s = "CR" -> {"LF"}
                             [] OTHER -> {"SYNC1"}
        PROVE  ParserOK
    BY <1>t, <1>p, <2>1 DEF Vision!Expect, FrameInParser
  <2>2. ASSUME state = "SYNC1", UNCHANGED <<payload, frameLen, frameType, crcCalc>>,
               state' \in {"SYNC1", "SYNC2"}
        PROVE  ParserOK
    BY <1>t, <2>2 DEF FrameInParser
  <2>3. CASE Vision!LenByte(byte)
    <3>1. CASE byte \in 1 .. MaxPayload
      <4>1. /\ frameLen' = byte /\ crcCalc' = byte /\ state' = "TYPE"
            /\ frameType' = frameType /\ payload' = payload
        BY <2>3, <3>1 DEF Vision!LenByte
      <4> QED
        BY <1>t, <3>1, <4>1 DEF FrameInParser
    <3>2. CASE byte \notin 1 .. MaxPayload
      <4>1. /\ state' = "SYNC1" /\ frameLen' = frameLen /\ crcCalc' = crcCalc
            /\ frameType' = frameType /\ payload' = payload
        BY <2>3, <3>2 DEF Vision!LenByte
      <4> QED
        BY <1>t, <4>1 DEF FrameInParser
    <3> QED
      BY <3>1, <3>2
  <2>4. CASE Vision!TypeByte(byte)
    <3>1. payload' \in Seq(0 .. 31) /\ Len(payload') = 0
      BY <2>4 DEF Vision!TypeByte
    <3> QED
      BY <1>t, <1>p, <1>x, <2>4, <3>1 DEF Vision!TypeByte, FrameInParser
  <2>5. CASE Vision!DataByte(byte)
    <3>1. payload' \in Seq(0 .. 31) /\ Len(payload') = Len(payload) + 1
      BY <1>t, <2>5 DEF Vision!DataByte
    <3> QED
      BY <1>t, <1>p, <1>x, <2>5, <3>1 DEF Vision!DataByte, FrameInParser
  <2> QED
    BY <2>1, <2>2, <2>3, <2>4, <2>5 DEF Vision!OnRxByte, Vision!CrcByte
<1>2. event' \in {"none", "target", "command"} /\ CopySoFar' /\ fresh' \in BOOLEAN
  <2>1. CASE UNCHANGED <<target, fresh>> /\ event' \in {"none", "target", "command"}
    <3>1. fresh' \in BOOLEAN
      BY <1>f, <2>1
    <3> QED
      BY <1>p, <1>r, <2>1, <3>1 DEF CopySoFar
  <2>2. CASE /\ state = "LF" /\ Vision!EventOf = "target" /\ Vision!DispatchFrame
    <3>1. frameLen >= TargetLen /\ Len(payload) = frameLen
      BY <1>t, <1>p, <2>2 DEF Vision!EventOf, FrameInParser
    <3>2. target' = SubSeq(payload, 1, TargetLen) /\ fresh' = TRUE /\ event' = "target"
      BY <2>2 DEF Vision!DispatchFrame
    <3>3. SubSeq(payload, 1, TargetLen) \in [1 .. TargetLen -> 0 .. 31]
      <4>1. \A i \in 1 .. TargetLen : payload[i] \in 0 .. 31
        <5>1. \A i \in 1 .. Len(payload) : payload[i] \in 0 .. 31
          BY <1>t, ElementOfSeq
        <5>2. TargetLen <= Len(payload) /\ TargetLen \in Nat /\ Len(payload) \in Nat
          BY <1>t, <3>1, VisionAssumption
        <5> QED
          BY <5>1, <5>2
      <4>2. /\ SubSeq(payload, 1, TargetLen) \in Seq(0 .. 31)
            /\ Len(SubSeq(payload, 1, TargetLen)) = TargetLen
        BY <4>1, SubSeqProperties
      <4> QED
        BY <4>2, LenProperties
    <3>4. fresh' \in BOOLEAN
      BY <3>2
    <3> QED
      BY <1>p, <1>r, <3>2, <3>3, <3>4 DEF CopySoFar
  <2>3. Vision!EventOf \in {"none", "target", "command"}
    BY DEF Vision!EventOf
  <2> QED
    BY <2>1, <2>2, <2>3 DEF Vision!OnRxByte, Vision!DispatchFrame
<1> QED
  <2>1. Vision!TypeOK'
    BY <1>1, <1>2, <1>r, <1>t DEF Vision!TypeOK
  <2> QED
    BY <1>1, <1>2, <2>1

\* Every step of the camera link keeps its invariant: bytes sent, lost or made up
\* of noise, and the parts of a copy.
LEMMA VisionNext == VisionInv /\ [Vision!Next]_visionVars => VisionInv'
<1> SUFFICES ASSUME VisionInv, [Vision!Next]_visionVars PROVE VisionInv'
  OBVIOUS
<1> USE VisionAssumption
<1>o. out \in Seq(0 .. 31) /\ reader \in 0 .. TargetLen + 1
  BY DEF VisionInv, LineIsBytes, CopySoFar
<1>h. ASSUME out # <<>> PROVE Head(out) \in 0 .. 31 /\ Tail(out) \in Seq(0 .. 31)
  BY <1>o, <1>h, HeadTailProperties
<1>p. spared' \in 0 .. Spacing + 1
  <2>1. spared \in 0 .. Spacing + 1
    BY DEF VisionInv, Vision!TypeOK
  <2>2. \/ spared' = spared \/ spared' = Spacing + 1
        \/ spared' = IF spared = 0 THEN 0 ELSE spared - 1
    BY DEF Vision!Next, Vision!Begin, Vision!Arrive, Vision!Lose, Vision!Alter, Vision!Add,
         Vision!Hit, Vision!TestFresh, Vision!ClearFresh, Vision!CopyTarget,
         Vision!cameraVars, visionVars
  <2> QED
    BY <2>1, <2>2
<1>s. ASSUME UNCHANGED <<state, payload, frameLen, frameType, crcCalc>>,
             UNCHANGED <<target, fresh, event, reader, copy>>
      PROVE  (Vision!TypeOK /\ FrameInParser /\ CopySoFar)'
  <2>1. Vision!TypeOK'
    BY <1>s, <1>p DEF VisionInv, Vision!TypeOK
  <2>2. FrameInParser'
    BY <1>s DEF VisionInv, FrameInParser
  <2>3. CopySoFar'
    BY <1>s DEF VisionInv, CopySoFar
  <2> QED
    BY <2>1, <2>2, <2>3
<1>1. ASSUME NEW f \in Frames, Vision!Begin(f) PROVE VisionInv'
  BY <1>1, <1>s DEF Vision!Begin, VisionInv, LineIsBytes, Vision!parserVars, Vision!targetVars, Vision!readerVars
<1>2. CASE Vision!Arrive
  BY <1>2, <1>h, <1>p, ByteArrives DEF Vision!Arrive, VisionInv, LineIsBytes
<1>3. CASE Vision!Lose
  BY <1>3, <1>h, <1>s DEF Vision!Lose, VisionInv, LineIsBytes, Vision!parserVars, Vision!targetVars, Vision!readerVars
<1>4. ASSUME NEW b \in Noise, Vision!Alter(b) \/ Vision!Add(b) PROVE VisionInv'
  <2>1. b \in 0 .. 31 /\ Vision!OnRxByte(b)
    BY <1>4 DEF Vision!Alter, Vision!Add
  <2>2. (Vision!TypeOK /\ FrameInParser /\ CopySoFar)'
    BY <2>1, <1>p, ByteArrives
  <2>3. LineIsBytes'
    BY <1>4, <1>o, <1>h DEF Vision!Alter, Vision!Add, LineIsBytes
  <2> QED
    BY <2>2, <2>3 DEF VisionInv
<1>5. CASE Vision!TestFresh
  <2>1. /\ UNCHANGED <<state, payload, frameLen, frameType, crcCalc, target, fresh, event, copy, out>>
        /\ fresh /\ reader' = 1
    BY <1>5 DEF Vision!TestFresh, Vision!parserVars, Vision!targetVars, Vision!cameraVars
  <2>2. Vision!TypeOK'
    BY <2>1, <1>p DEF VisionInv, Vision!TypeOK
  <2>a. fresh'
    BY <2>1
  <2>b. 1 \in 0 .. TargetLen + 1
    OBVIOUS
  <2>3. CopySoFar'
    BY <2>1, <2>a, <2>b, Zenon DEF VisionInv, CopySoFar
  <2> QED
    BY <2>1, <2>2, <2>3 DEF VisionInv, FrameInParser, LineIsBytes
<1>6. CASE Vision!ClearFresh
  <2>1. /\ UNCHANGED <<state, payload, frameLen, frameType, crcCalc, target, event, copy, out>>
        /\ reader = 1 /\ reader' = 2 /\ fresh' = FALSE
    BY <1>6, <1>o DEF Vision!ClearFresh, Vision!parserVars, Vision!cameraVars
  <2>f. fresh' \in BOOLEAN
    BY <2>1
  <2>2. Vision!TypeOK'
    BY <2>1, <2>f, <1>p DEF VisionInv, Vision!TypeOK
  <2>3. CopySoFar'
    BY <2>1 DEF VisionInv, CopySoFar
  <2> QED
    BY <2>1, <2>2, <2>3 DEF VisionInv, FrameInParser, LineIsBytes
<1>7. CASE Vision!CopyTarget
  <2>1. /\ UNCHANGED <<state, payload, frameLen, frameType, crcCalc, target, fresh, event, out>>
        /\ reader \in 2 .. TargetLen + 1
        /\ copy' = [copy EXCEPT ![reader - 1] = target[reader - 1]]
        /\ reader' = IF reader = TargetLen + 1 THEN 0 ELSE reader + 1
    BY <1>7 DEF Vision!CopyTarget, Vision!parserVars, Vision!targetVars, Vision!cameraVars
  <2>t. target \in [1 .. TargetLen -> 0 .. 31] /\ copy \in [1 .. TargetLen -> 0 .. 31]
    BY DEF VisionInv, CopySoFar
  <2>2. Vision!TypeOK'
    BY <2>1, <1>p DEF VisionInv, Vision!TypeOK
  <2>3. copy' \in [1 .. TargetLen -> 0 .. 31]
    BY <2>1, <2>t
  <2>4. ASSUME ~fresh, NEW i \in 1 .. TargetLen, i <= reader - 1 PROVE copy'[i] = target[i]
    <3>1. \A j \in 1 .. TargetLen : j <= reader - 2 => copy[j] = target[j]
      BY <2>4 DEF VisionInv, CopySoFar
    <3> QED
      BY <2>1, <2>t, <2>4, <3>1
  <2>5. CASE reader = TargetLen + 1
    <3>1. ASSUME ~fresh PROVE copy' = target
      BY <2>1, <2>3, <2>4, <2>5, <2>t, <3>1
    <3>2. reader' = 0
      BY <2>1, <2>5
    <3>3. CopySoFar'
      BY <2>1, <2>3, <2>t, <3>1, <3>2 DEF CopySoFar
    <3> QED
      BY <2>1, <2>2, <3>3 DEF VisionInv, FrameInParser, LineIsBytes
  <2>6. CASE reader # TargetLen + 1
    <3>1. reader' = reader + 1 /\ reader' \in 3 .. TargetLen + 1
      BY <2>1, <2>6
    <3>2. CopySoFar'
      BY <2>1, <2>3, <2>4, <2>t, <3>1 DEF CopySoFar
    <3> QED
      BY <2>1, <2>2, <3>2 DEF VisionInv, FrameInParser, LineIsBytes
  <2> QED
    BY <2>5, <2>6
<1>8. CASE UNCHANGED visionVars
  <2>1. UNCHANGED <<state, payload, frameLen, frameType, crcCalc, target, fresh, event, reader, copy, out>>
    BY <1>8 DEF visionVars
  <2> QED
    BY <2>1, <1>s DEF VisionInv, LineIsBytes
<1> QED
  BY <1>1, <1>2, <1>3, <1>4, <1>5, <1>6, <1>7, <1>8 DEF Vision!Next

-----------------------------------------------------------------------------
(* Command lines.                                                          *)

\* A number is its quotient and its remainder.
LEMMA QuotientAndRemainder ==
  ASSUME NEW n \in Nat, NEW m \in Nat \ {0},
         NEW q \in Int, q = n \div m, NEW r \in Int, r = n % m
  PROVE  n = m * q + r /\ r \in 0 .. m - 1
OBVIOUS

\* A positive multiple is at least the number.
LEMMA TimesAtLeast ==
  ASSUME NEW m \in Nat, NEW d \in Int, d >= 1
  PROVE  m * d >= m
<1>1. m * d = m + m * (d - 1)
  OBVIOUS
<1>2. m * (d - 1) >= 0
  OBVIOUS
<1> QED
  BY <1>1, <1>2

\* The remainder of the next number.
LEMMA NextRemainder ==
  ASSUME NEW n \in Nat, NEW m \in Nat \ {0}
  PROVE  /\ n % m \in 0 .. m - 1
         /\ n % m <= n
         /\ (n + 1) % m = IF n % m = m - 1 THEN 0 ELSE (n % m) + 1
<1>1. PICK q \in Int, r \in Int : q = n \div m /\ r = n % m
  OBVIOUS
<1>2. PICK p \in Int, s \in Int : p = (n + 1) \div m /\ s = (n + 1) % m
  OBVIOUS
<1>3. n = m * q + r /\ r \in 0 .. m - 1
  BY <1>1, QuotientAndRemainder
<1>4. n + 1 = m * p + s /\ s \in 0 .. m - 1
  BY <1>2, QuotientAndRemainder
<1>5. m * (p - q) = m * p - m * q
  OBVIOUS
<1>6. m * (p - q) = r + 1 - s
  BY <1>3, <1>4, <1>5
<1>7. ASSUME NEW d \in Int, d >= 1 PROVE m * d >= m
  BY <1>7, TimesAtLeast
<1>8. ASSUME NEW d \in Int, d <= -1 PROVE m * d <= -m
  <2>1. PICK e \in Int : e = -d
    OBVIOUS
  <2>2. e >= 1 /\ d = -e
    BY <1>8, <2>1
  <2>3. m * e >= m
    BY <1>7, <2>2
  <2>4. m * d = -(m * e) /\ m * e \in Int
    BY <2>2
  <2> QED
    BY <2>3, <2>4
<1>9. p - q \in Int /\ p - q >= 0
  BY <1>3, <1>4, <1>6, <1>8
<1>10. p - q = 0 => s = r + 1
  BY <1>3, <1>4, <1>6
<1>11. p - q >= 1 => r = m - 1 /\ s = 0
  BY <1>3, <1>4, <1>6, <1>7, <1>9
<1>12. m * q >= 0
  BY <1>3, <1>8
<1> QED
  BY <1>1, <1>2, <1>3, <1>4, <1>9, <1>10, <1>11, <1>12

\* The period of a rate is one of those that the settings can have.
LEMMA PeriodInRange ==
  ASSUME NEW hz \in 1 .. MaxRate
  PROVE  (2 * MaxRate) \div hz \in 2 .. 2 * MaxRate
<1> DEFINE q == (2 * MaxRate) \div hz
<1>0. hz \in Nat \ {0} /\ MaxRate \in Nat \ {0} /\ hz <= MaxRate
  BY CommandAssumption
<1>1. q \in Int /\ hz * q <= 2 * MaxRate /\ 2 * MaxRate < hz * q + hz
  BY <1>0
<1> HIDE DEF q
<1>2. ASSUME q <= 1 PROVE FALSE
  <2>1. hz * q <= hz
    BY <1>0, <1>1, <1>2
  <2> QED
    BY <1>0, <1>1, <2>1
<1>3. ASSUME q > 2 * MaxRate PROVE FALSE
  <2>1. hz * q >= q
    BY <1>0, <1>1, <1>3
  <2> QED
    BY <1>0, <1>1, <1>3, <2>1
<1> QED
  BY <1>0, <1>1, <1>2, <1>3 DEF q

\* The last k bytes of a line.
LEMMA TailLength ==
  ASSUME NEW S, NEW s \in Seq(S), NEW k \in Nat, k <= Len(s)
  PROVE  Len(SubSeq(s, Len(s) - k + 1, Len(s))) = k
OBVIOUS

\* A byte behind the last bytes of a sequence.
LEMMA AppendTail ==
  ASSUME NEW S, NEW s \in Seq(S), NEW k \in Nat, k <= Len(s), NEW e \in S
  PROVE  Append(SubSeq(s, Len(s) - k + 1, Len(s)), e)
           = SubSeq(Append(s, e), Len(s) - k + 1, Len(s) + 1)
<1> DEFINE n == Len(s)
           u == Append(SubSeq(s, n - k + 1, n), e)
           v == SubSeq(Append(s, e), n - k + 1, n + 1)
<1>1. u \in Seq(S) /\ v \in Seq(S) /\ Len(u) = k + 1 /\ Len(v) = k + 1
  OBVIOUS
<1>2. ASSUME NEW i \in 1 .. k + 1 PROVE u[i] = v[i]
  OBVIOUS
<1> HIDE DEF u, v
<1>3. u = v
  BY <1>1, <1>2, SeqEqual
<1> QED
  BY <1>3 DEF u, v

\* The command line starts empty, with rates of its range.
LEMMA CommandInit == Command!Init => Command!TypeOK /\ LineIsTail
<1> SUFFICES ASSUME Command!Init PROVE Command!TypeOK /\ LineIsTail
  OBVIOUS
<1>1. Command!TypeOK
  <2>1. config \in [period : 2 .. 2 * MaxRate, enabled : BOOLEAN, line : BOOLEAN, imu : BOOLEAN]
    <3>1. 2 \in 2 .. 2 * MaxRate
      BY CommandAssumption
    <3> QED
      BY <3>1 DEF Command!Init
  <2>2. /\ cmdBuf = <<>> /\ line = <<>> /\ asked = "none" /\ reply = "none"
    BY DEF Command!Init
  <2> QED
    BY <2>1, <2>2, CommandAssumption DEF Command!TypeOK
<1>2. LineIsTail
  <2>1. 0 % CmdBufLen = 0
    BY CommandAssumption
  <2> QED
    BY <2>1, CommandAssumption DEF Command!Init, LineIsTail, Command!LineIsTail
<1> QED
  BY <1>1, <1>2

\* A line that has ended leaves requests and settings as they can be.
LEMMA HandleLineTypes ==
  ASSUME Command!TypeOK, NEW text, Command!HandleLine(text)
  PROVE  /\ asked' \in {"none", "start", "stop", "duty", "calibrate", "cancel"}
         /\ config' \in [period : 2 .. 2 * MaxRate,
                         enabled : BOOLEAN, line : BOOLEAN, imu : BOOLEAN]
         /\ reply' \in {"none", "ok", "error", "config"}
<1>1. config \in [period : 2 .. 2 * MaxRate, enabled : BOOLEAN, line : BOOLEAN, imu : BOOLEAN]
  BY DEF Command!TypeOK
<1>2. ASSUME NEW hz, Command!SetRate(hz)
      PROVE  /\ asked' = "none"
             /\ config' \in [period : 2 .. 2 * MaxRate,
                             enabled : BOOLEAN, line : BOOLEAN, imu : BOOLEAN]
             /\ reply' \in {"ok", "error"}
  <2>1. CASE hz \in 1 .. MaxRate
    BY <1>1, <1>2, <2>1, PeriodInRange DEF Command!SetRate, Command!Configure
  <2>2. CASE hz \notin 1 .. MaxRate
    BY <1>1, <1>2, <2>2 DEF Command!SetRate, Command!Complain
  <2> QED
    BY <2>1, <2>2
<1>3. ASSUME NEW r \in {"start", "stop", "duty", "calibrate", "cancel"}, Command!Request(r)
      PROVE  asked' = r /\ config' = config /\ reply' = "ok"
  BY <1>3 DEF Command!Request
<1>4. Command!Complain => asked' = "none" /\ config' = config /\ reply' = "error"
  BY DEF Command!Complain
<1> QED
  BY <1>1, <1>2, <1>3, <1>4 DEF Command!HandleLine, Command!HandleDuty, Command!Configure, Command!Silent

\* Every byte, line end and poll keeps the types, and the buffer the last bytes of
\* the line.
LEMMA CommandStep ==
  Command!TypeOK /\ LineIsTail /\ [Command!Next]_cmdVars
    => (Command!TypeOK /\ LineIsTail)'
<1> SUFFICES ASSUME Command!TypeOK, LineIsTail, [Command!Next]_cmdVars
             PROVE  (Command!TypeOK /\ LineIsTail)'
  OBVIOUS
<1> USE CommandAssumption
<1>t. /\ cmdBuf \in Seq(RxBytes) /\ line \in Seq(RxBytes)
      /\ CmdBufLen \in Nat \ {0}
      /\ Len(line) \in Nat
  BY DEF Command!TypeOK
<1>1. ASSUME NEW byte \in RxBytes, Command!Store(byte)
      PROVE  (Command!TypeOK /\ LineIsTail)'
  <2> DEFINE n == Len(line)
             k == n % CmdBufLen
  <2>1. /\ line' = Append(line, byte) /\ line' \in Seq(RxBytes) /\ Len(line') = n + 1
        /\ asked' = "none" /\ reply' = "none" /\ config' = config
    BY <1>1, <1>t DEF Command!Store, Command!Silent
  <2>2. k \in 0 .. CmdBufLen - 1 /\ k <= n
    BY <1>t, NextRemainder
  <2>3. cmdBuf = SubSeq(line, n - k + 1, n)
    BY DEF LineIsTail, Command!LineIsTail
  <2>k. Len(cmdBuf) = k
    BY <1>t, <2>2, <2>3, TailLength
  <2>n. (n + 1) % CmdBufLen = IF k = CmdBufLen - 1 THEN 0 ELSE k + 1
    BY <1>t, NextRemainder
  <2>c. cmdBuf' = IF k < CmdBufLen - 1 THEN Append(cmdBuf, byte) ELSE <<>>
    BY <1>1, <2>k DEF Command!Store
  <2>5. LineIsTail'
    <3> DEFINE j == (n + 1) % CmdBufLen
    <3>1. CASE k < CmdBufLen - 1
      <4>1. j = k + 1 /\ cmdBuf' = Append(cmdBuf, byte)
        BY <2>2, <2>n, <2>c, <3>1
      <4>2. Append(cmdBuf, byte) = SubSeq(line', n - k + 1, n + 1)
        <5>1. n = Len(line) /\ n \in Nat /\ k \in Nat /\ k <= Len(line)
          BY <1>t, <2>2
        <5> HIDE DEF n, k
        <5>2. Append(SubSeq(line, Len(line) - k + 1, Len(line)), byte)
                = SubSeq(Append(line, byte), Len(line) - k + 1, Len(line) + 1)
          BY <1>t, <5>1, AppendTail
        <5> QED
          BY <2>1, <2>3, <5>1, <5>2
      <4>3. cmdBuf' = SubSeq(line', (n + 1) - j + 1, n + 1)
        <5>1. n \in Int /\ k \in Int
          BY <1>t, <2>2
        <5> HIDE DEF n, k, j
        <5>2. (n + 1) - j + 1 = n - k + 1
          BY <4>1, <5>1
        <5> QED
          BY <4>1, <4>2, <5>2
      <4> QED
        BY <2>1, <4>3 DEF LineIsTail, Command!LineIsTail
    <3>2. CASE k = CmdBufLen - 1
      <4>1. j = 0 /\ cmdBuf' = <<>>
        BY <2>n, <2>c, <3>2, <2>2
      <4>2. SubSeq(line', (n + 1) - 0 + 1, n + 1) = <<>>
        BY <1>t, <2>1, SubSeqEmpty
      <4> QED
        BY <2>1, <4>1, <4>2 DEF LineIsTail, Command!LineIsTail
    <3> QED
      BY <2>2, <3>1, <3>2
  <2>6. Command!TypeOK'
    <3>1. cmdBuf' \in Seq(RxBytes) /\ Len(cmdBuf') < CmdBufLen
      BY <1>t, <2>2, <2>k, <2>c
    <3> QED
      BY <1>t, <2>1, <3>1 DEF Command!TypeOK
  <2> QED
    BY <2>5, <2>6
<1>2. ASSUME NEW byte \in RxBytes, Command!EndOfLine(byte)
      PROVE  (Command!TypeOK /\ LineIsTail)'
  <2>1. cmdBuf' = <<>> /\ line' = <<>>
    BY <1>2 DEF Command!EndOfLine
  <2>2. Command!TypeOK'
    BY <1>2, <2>1, HandleLineTypes DEF Command!EndOfLine, Command!TypeOK
  <2>3. 0 % CmdBufLen = 0
    OBVIOUS
  <2> QED
    BY <2>1, <2>2, <2>3 DEF LineIsTail, Command!LineIsTail
<1>3. ASSUME NEW byte \in RxBytes, Command!Letter(byte) \/ Command!CarriageReturn(byte)
      PROVE  (Command!TypeOK /\ LineIsTail)'
  <2>1. UNCHANGED <<cmdBuf, line, config>>
    BY <1>3 DEF Command!Letter, Command!CarriageReturn, Command!Silent
  <2>2. asked' \in {"none", "start", "stop"} /\ reply' = "none"
    BY <1>3 DEF Command!Letter, Command!CarriageReturn, Command!Silent
  <2> QED
    BY <2>1, <2>2 DEF LineIsTail, Command!LineIsTail, Command!TypeOK
<1>4. CASE UNCHANGED cmdVars
  BY <1>4 DEF cmdVars, LineIsTail, Command!LineIsTail, Command!TypeOK
<1> QED
  BY <1>1, <1>2, <1>3, <1>4 DEF Command!Next, Command!OnRxByte

-----------------------------------------------------------------------------
(* The periodic reports.                                                   *)

\* The age of the last emission, and of the time that the iteration works with.
EmitAge == Report!Sub(now, lastEmit)
IterationAge == Report!Sub(now, ts)

\* The reports whose turn in this iteration is over.
Passed == CASE step = "line" -> {"chassis"}
            [] step = "imu" -> {"chassis", "line"}
            [] OTHER -> {}

\* A report that waits was switched on since the task last ended, or there has
\* been an iteration that was not due.
Waiting(r) ==
  \/ quiet[r] <= since
  \/ /\ primed
     /\ quiet[r] <= EmitAge + TaskWindow
     /\ EmitAge < Report!MaxPeriod + since + TaskWindow

\* The invariant of the reports: how old the waiting of each is at every place of
\* an iteration.
StreamInv ==
  /\ Report!TypeOK
  /\ \A r \in Report!Reports : quiet[r] = 0 \/ Report!On(r, settings)
  /\ step # "idle" => IterationAge <= since
  /\ step \in {"idle", "gate", "time"} => \A r \in Report!Reports : Waiting(r)
  /\ step \in Report!Reports =>
       /\ primed /\ lastEmit = ts
       /\ \A r \in Report!Reports :
            IF r \in Passed THEN quiet[r] <= IterationAge
            ELSE quiet[r] < Report!MaxPeriod + 2 * TaskWindow + since

\* The reports start in their invariant.
LEMMA StreamInit == Report!Init => StreamInv
<1> SUFFICES ASSUME Report!Init PROVE StreamInv
  OBVIOUS
<1>1. Report!TypeOK
  <2>1. 0 \in Report!Ticks
    BY ReportAssumption DEF Report!Ticks
  <2>2. settings \in [period : Periods, enabled : BOOLEAN, line : BOOLEAN, imu : BOOLEAN]
    BY DEF Report!Init
  <2>3. quiet \in [Report!Reports -> Nat]
    BY DEF Report!Init
  <2>4. step = "idle" /\ primed \in BOOLEAN
    BY DEF Report!Init
  <2>5. now \in Report!Ticks /\ ts = 0 /\ lastEmit = 0 /\ since = 0
    BY DEF Report!Init
  <2>6. 0 \in 0 .. TaskWindow
    BY ReportAssumption
  <2> QED
    BY <2>1, <2>2, <2>3, <2>4, <2>5, <2>6 DEF Report!TypeOK
<1>2. \A r \in Report!Reports : quiet[r] = 0 /\ since = 0 /\ step = "idle"
  BY DEF Report!Init
<1> QED
  BY <1>1, <1>2 DEF StreamInv, Waiting, Report!Reports

\* No report waits longer than the period and three windows of the task.
LEMMA StreamSafe == StreamInv => Report!StreamIsAlive
<1> SUFFICES ASSUME StreamInv, NEW r \in Report!Reports
             PROVE  quiet[r] < Report!MaxPeriod + 3 * TaskWindow
  BY DEF Report!StreamIsAlive
<1>1. /\ since \in 0 .. TaskWindow /\ quiet[r] \in Nat
      /\ TaskWindow \in Nat /\ Report!MaxPeriod \in Nat \ {0}
  BY ReportAssumption DEF StreamInv, Report!TypeOK
<1>2. EmitAge \in Int /\ IterationAge \in Int
  BY ReportAssumption DEF StreamInv, Report!TypeOK, EmitAge, IterationAge, Report!Sub, Report!Ticks
<1>3. CASE step \in {"idle", "gate", "time"}
  BY <1>1, <1>2, <1>3 DEF StreamInv, Waiting
<1>4. CASE step \in Report!Reports
  BY <1>1, <1>2, <1>4 DEF StreamInv, Report!Reports
<1> QED
  BY <1>3, <1>4 DEF StreamInv, Report!TypeOK

\* The clock and its differences.
LEMMA Clock ==
  ASSUME NEW a \in Report!Ticks, NEW b \in Report!Ticks
  PROVE  /\ Report!Sub(a, b) \in Report!Ticks
         /\ Report!Sub(a, a) = 0
         /\ Report!Inc(a) \in Report!Ticks
         /\ Report!Sub(a, b) < Wrap - 1 => Report!Sub(Report!Inc(a), b) = Report!Sub(a, b) + 1
BY ReportAssumption DEF Report!Sub, Report!Inc, Report!Ticks

\* The ages of two times add up as long as their sum is below the wrap.
LEMMA Ages ==
  ASSUME NEW a \in Report!Ticks, NEW b \in Report!Ticks, NEW c \in Report!Ticks,
         Report!Sub(a, b) + Report!Sub(b, c) < Wrap
  PROVE  Report!Sub(a, c) = Report!Sub(a, b) + Report!Sub(b, c)
BY ReportAssumption DEF Report!Sub, Report!Ticks

\* Every step of the task, of the clock and of the settings keeps the invariant.
LEMMA StreamNext == StreamInv /\ [Report!Next]_reportVars => StreamInv'
<1> SUFFICES ASSUME StreamInv, [Report!Next]_reportVars PROVE StreamInv'
  OBVIOUS
<1> USE ReportAssumption
<1> DEFINE P == Report!MaxPeriod
<1>t. /\ now \in Report!Ticks /\ ts \in Report!Ticks /\ lastEmit \in Report!Ticks
      /\ primed \in BOOLEAN /\ since \in 0 .. TaskWindow
      /\ quiet \in [Report!Reports -> Nat]
      /\ TaskWindow \in Nat /\ P \in Nat \ {0}
      /\ settings.period \in Periods /\ settings.period \in Nat
      /\ settings \in [period : Periods, enabled : BOOLEAN, line : BOOLEAN, imu : BOOLEAN]
      /\ EmitAge \in 0 .. Wrap - 1 /\ IterationAge \in 0 .. Wrap - 1
  <2>1. /\ now \in Report!Ticks /\ ts \in Report!Ticks /\ lastEmit \in Report!Ticks
    BY DEF StreamInv, Report!TypeOK
  <2>2. EmitAge \in 0 .. Wrap - 1 /\ IterationAge \in 0 .. Wrap - 1
    BY <2>1, Clock DEF EmitAge, IterationAge, Report!Ticks
  <2> QED
    BY <2>1, <2>2 DEF StreamInv, Report!TypeOK
<1>1. CASE Report!Command
  <2>1. PICK s \in [period : Periods, enabled : BOOLEAN, line : BOOLEAN, imu : BOOLEAN] :
           Report!Set(s)
    BY <1>1, <1>t DEF Report!Command
  <2>2. \A r \in Report!Reports : quiet'[r] <= quiet[r] /\ quiet'[r] \in Nat
    BY <2>1, <1>t DEF Report!Set
  <2>3. /\ UNCHANGED <<now, step, ts, lastEmit, primed, since>>
        /\ \A r \in Report!Reports : quiet'[r] = 0 \/ Report!On(r, settings')
    BY <2>1 DEF Report!Set, Report!taskVars
  <2>4. EmitAge' = EmitAge /\ IterationAge' = IterationAge /\ Passed' = Passed
    BY <2>3 DEF EmitAge, IterationAge, Passed
  <2>5. Report!TypeOK'
    BY <2>1, <2>2, <2>3, <1>t DEF StreamInv, Report!TypeOK, Report!Set
  <2>6. \A r \in Report!Reports : Waiting(r) => Waiting(r)'
    BY <2>2, <2>3, <2>4, <1>t DEF Waiting
  <2> QED
    BY <2>2, <2>3, <2>4, <2>5, <2>6, <1>t DEF StreamInv
<1>2. CASE Report!Tick
  <2>0. \A r \in Report!Reports : quiet'[r] = 0 \/ Report!On(r, settings')
    BY <1>2 DEF Report!Tick
  <2>1. /\ since < TaskWindow /\ since' = since + 1
        /\ now' = Report!Inc(now)
        /\ UNCHANGED <<settings, step, ts, lastEmit, primed>>
        /\ \A r \in Report!Reports : quiet'[r] \in Nat /\ quiet'[r] <= quiet[r] + 1
    BY <1>2, <1>t DEF Report!Tick, Report!taskVars
  <2>2. Report!TypeOK'
    <3>1. quiet' \in [Report!Reports -> Nat]
      BY <1>2, <2>1 DEF Report!Tick
    <3>2. now' \in Report!Ticks /\ since' \in 0 .. TaskWindow
      BY <2>1, <1>t, Clock
    <3> QED
      BY <2>1, <3>1, <3>2 DEF StreamInv, Report!TypeOK
  <2>3. Passed' = Passed
    BY <2>1 DEF Passed
  <2>4. EmitAge < Wrap - 1 => EmitAge' = EmitAge + 1
    BY <2>1, <1>t, Clock DEF EmitAge
  <2>5. IterationAge < Wrap - 1 => IterationAge' = IterationAge + 1
    BY <2>1, <1>t, Clock DEF IterationAge
  <2>6. \A r \in Report!Reports : Waiting(r) => Waiting(r)'
    BY <2>1, <2>4, <1>t DEF Waiting
  <2>7. step # "idle" => IterationAge' <= since' /\ IterationAge' = IterationAge + 1
    BY <2>1, <2>5, <1>t DEF StreamInv
  <2> QED
    BY <2>0, <2>1, <2>2, <2>3, <2>6, <2>7, <1>t DEF StreamInv, Report!Reports
<1>3. CASE Report!Begin
  <2>1. /\ step = "idle" /\ step' = "gate" /\ ts' = now
        /\ UNCHANGED <<now, settings, lastEmit, primed, since, quiet>>
    BY <1>3 DEF Report!Begin
  <2>2. IterationAge' = 0
    BY <2>1, <1>t, Clock DEF IterationAge
  <2>3. \A r \in Report!Reports : Waiting(r) => Waiting(r)'
    BY <2>1 DEF Waiting, EmitAge
  <2> QED
    BY <2>1, <2>2, <2>3, <1>t DEF StreamInv, Report!TypeOK, Report!Reports
<1>4. CASE Report!Gate
  <2>1. step = "gate" /\ UNCHANGED <<now, settings, ts, lastEmit, primed, quiet>>
    BY <1>4 DEF Report!Gate
  <2>2. EmitAge' = EmitAge /\ IterationAge' = IterationAge
    BY <2>1 DEF EmitAge, IterationAge
  <2>3. CASE settings.enabled \/ settings.imu
    <3>1. step' = "time" /\ since' = since
      BY <1>4, <2>3 DEF Report!Gate
    <3> QED
      BY <2>1, <2>2, <3>1, <1>t DEF StreamInv, Report!TypeOK, Report!Reports, Waiting
  <2>4. CASE ~(settings.enabled \/ settings.imu)
    <3>1. step' = "idle" /\ since' = 0
      BY <1>4, <2>4 DEF Report!Gate, Report!Return
    <3>2. \A r \in Report!Reports : quiet[r] = 0
      BY <2>4, <1>t DEF StreamInv, Report!Reports, Report!On
    <3> QED
      BY <2>1, <3>1, <3>2, <1>t DEF StreamInv, Report!TypeOK, Report!Reports, Waiting
  <2> QED
    BY <2>3, <2>4
<1>5. CASE Report!Time
  <2>1. step = "time" /\ UNCHANGED <<now, settings, ts, quiet>>
    BY <1>5 DEF Report!Time
  <2>2. IterationAge' = IterationAge /\ IterationAge <= since
    BY <2>1 DEF IterationAge, StreamInv
  <2>3. \A r \in Report!Reports : Waiting(r)
    BY <2>1 DEF StreamInv
  <2>4. CASE Report!Due
    <3>1. step' = "chassis" /\ lastEmit' = ts /\ primed' = TRUE /\ since' = since
      BY <1>5, <2>4 DEF Report!Time
    <3>2. \A r \in Report!Reports : quiet[r] < P + 2 * TaskWindow + since
      BY <2>3, <1>t DEF Waiting
    <3>3. Passed' = {}
      BY <3>1 DEF Passed
    <3> QED
      BY <2>1, <2>2, <3>1, <3>2, <3>3, <1>t DEF StreamInv, Report!TypeOK, Report!Reports
  <2>5. CASE ~Report!Due
    <3>1. step' = "idle" /\ since' = 0 /\ UNCHANGED <<lastEmit, primed>>
      BY <1>5, <2>5 DEF Report!Time, Report!Return
    <3>2. primed /\ Report!Sub(ts, lastEmit) < P
      BY <2>5, <1>t, Clock DEF Report!Due, Report!Ticks
    <3>3. EmitAge = IterationAge + Report!Sub(ts, lastEmit)
      BY <2>2, <3>2, <1>t, Clock, Ages DEF EmitAge, IterationAge, Report!Ticks
    <3>4. Report!Sub(ts, lastEmit) \in Nat
      BY <1>t, Clock DEF Report!Ticks
    <3>5. EmitAge' = EmitAge
      BY <2>1, <3>1 DEF EmitAge
    <3>6. \A r \in Report!Reports : Waiting(r)'
      BY <2>1, <2>2, <2>3, <3>1, <3>2, <3>3, <3>4, <3>5, <1>t DEF Waiting
    <3> QED
      BY <2>1, <3>1, <3>6, <1>t DEF StreamInv, Report!TypeOK, Report!Reports
  <2> QED
    BY <2>4, <2>5
<1>6. CASE Report!EmitChassis \/ Report!EmitLine
  <2>1. /\ step \in {"chassis", "line"} /\ step' \in {"line", "imu"}
        /\ UNCHANGED <<now, settings, ts, lastEmit, primed, since>>
        /\ primed /\ lastEmit = ts
    BY <1>6 DEF Report!EmitChassis, Report!EmitLine, StreamInv, Report!Reports
  <2>2. EmitAge' = EmitAge /\ IterationAge' = IterationAge /\ IterationAge <= since
    BY <2>1 DEF EmitAge, IterationAge, StreamInv
  <2>3. /\ quiet' \in [Report!Reports -> Nat]
        /\ \A r \in Report!Reports : quiet'[r] = quiet[r] \/ quiet'[r] = 0
    BY <1>6, <1>t DEF Report!EmitChassis, Report!EmitLine, Report!Send
  <2>4. \A r \in Passed' \ Passed : quiet'[r] = 0
    <3>1. CASE Report!EmitChassis
      <4>1. settings.enabled => quiet'["chassis"] = 0 /\ step' = "line"
        BY <3>1, <1>t DEF Report!EmitChassis, Report!Send, Report!Reports
      <4>2. ~settings.enabled => /\ quiet["chassis"] = 0 /\ quiet["line"] = 0
                                 /\ quiet' = quiet
        BY <3>1, <1>t DEF Report!EmitChassis, StreamInv, Report!On, Report!Reports
      <4>3. step = "chassis"
        BY <3>1 DEF Report!EmitChassis
      <4> QED
        BY <2>1, <4>1, <4>2, <4>3 DEF Passed
    <3>2. CASE Report!EmitLine
      <4>1. settings.line => quiet'["line"] = 0
        BY <3>2, <1>t DEF Report!EmitLine, Report!Send, Report!Reports
      <4>2. ~settings.line => quiet["line"] = 0 /\ quiet' = quiet
        BY <3>2, <1>t DEF Report!EmitLine, StreamInv, Report!On, Report!Reports
      <4>3. step = "line" /\ step' = "imu"
        BY <3>2 DEF Report!EmitLine
      <4> QED
        BY <4>1, <4>2, <4>3 DEF Passed
    <3> QED
      BY <1>6, <3>1, <3>2
  <2>5. Passed \subseteq Passed'
    <3>1. CASE step = "chassis"
      BY <3>1 DEF Passed
    <3>2. CASE step = "line"
      BY <1>6, <3>2 DEF Passed, Report!EmitLine, Report!EmitChassis
    <3> QED
      BY <2>1, <3>1, <3>2
  <2>6. \A r \in Report!Reports :
           IF r \in Passed' THEN quiet'[r] <= IterationAge'
           ELSE quiet'[r] < P + 2 * TaskWindow + since'
    BY <2>1, <2>2, <2>3, <2>4, <2>5, <1>t DEF StreamInv, Report!Reports
  <2> QED
    BY <2>1, <2>2, <2>3, <2>6, <1>t DEF StreamInv, Report!TypeOK, Report!Reports
<1>7. CASE Report!EmitImu
  <2>1. /\ step = "imu" /\ step' = "idle" /\ since' = 0
        /\ UNCHANGED <<now, settings, ts, lastEmit, primed>>
        /\ primed /\ lastEmit = ts
    BY <1>7 DEF Report!EmitImu, Report!Return, StreamInv, Report!Reports
  <2>2. /\ EmitAge' = EmitAge /\ EmitAge = IterationAge /\ IterationAge <= since
    BY <2>1 DEF EmitAge, IterationAge, StreamInv
  <2>3. /\ quiet' \in [Report!Reports -> Nat]
        /\ \A r \in Report!Reports : quiet'[r] = quiet[r] \/ quiet'[r] = 0
        /\ quiet'["imu"] = 0
    BY <1>7, <1>t DEF Report!EmitImu, Report!Send, StreamInv, Report!On, Report!Reports
  <2>4. \A r \in Report!Reports : quiet'[r] <= IterationAge
    <3>1. Passed = {"chassis", "line"}
      BY <2>1 DEF Passed
    <3> QED
      BY <2>1, <2>3, <3>1, <1>t DEF StreamInv, Report!Reports
  <2>5. \A r \in Report!Reports : Waiting(r)'
    BY <2>1, <2>2, <2>3, <2>4, <1>t DEF Waiting
  <2> QED
    BY <2>1, <2>3, <2>5, <1>t DEF StreamInv, Report!TypeOK, Report!Reports
<1>8. CASE UNCHANGED reportVars
  <2>1. UNCHANGED <<now, settings, step, ts, lastEmit, primed, since, quiet>>
    BY <1>8 DEF reportVars
  <2> QED
    BY <2>1 DEF StreamInv, Report!TypeOK, Waiting, EmitAge, IterationAge, Passed
<1> QED
  BY <1>1, <1>2, <1>3, <1>4, <1>5, <1>6, <1>7, <1>8 DEF Report!Next

-----------------------------------------------------------------------------
(* Messages on their way out.                                              *)

\* How far b is after a in the ring.
Dist(a, b) == IF b >= a THEN b - a ELSE b - a + RingSize

\* b can come next after a in a stream of whole messages.
Follows(a, b) == IF a.nth = a.of THEN b.nth = 1 ELSE b = Log!Nth(a, a.nth + 1)

\* What a probe that has read `last' finds in the ring q from r to w: bytes
\* that follow each other and end with a message.
Whole(q, r, w, last) ==
  /\ IF r = w THEN last.nth = last.of ELSE Follows(last, q[r])
  /\ \A o \in Log!Offsets : Dist(r, o) < Dist(r, w) =>
       IF Log!Inc(o) = w THEN q[o].nth = q[o].of ELSE Follows(q[o], q[Log!Inc(o)])

\* The message of the task, as far as it is in the ring behind wr_off.
Draft ==
  /\ at = "space" => wr = wrOff
  /\ at \in {"load", "put", "publish"} => Log!Fits(msg.of, wrOff, rdOff)
  /\ at \in {"put", "publish"} =>
       /\ Dist(wrOff, wr) = nth
       /\ \A o \in Log!Offsets :
            Dist(wrOff, o) < nth => ring[o] = Log!Nth(msg, Dist(wrOff, o) + 1)

\* Where the task is in the message.
Progress ==
  /\ at \in {"space", "load"} => nth = 0
  /\ at = "put" => nth < msg.of
  /\ at = "publish" => nth = msg.of

\* What is in the transmitter.
Transmitter == txFifo <= 2 /\ (at = "transmit" => txFifo <= 1)

\* The invariant of the log: as long as no task has called it within another, the
\* ring holds whole messages and the draft behind them.
LogInv ==
  /\ Log!TypeOK /\ Progress /\ Transmitter
  /\ ~nested => Whole(ring, rdOff, wrOff, lastRead) /\ Draft /\ ~garbled

-----------------------------------------------------------------------------
\* The place after one of the ring is one of the ring.
LEMMA IncInRing ==
  ASSUME NEW a \in Log!Offsets
  PROVE  Log!Inc(a) \in Log!Offsets
BY LogAssumption DEF Log!Inc, Log!Offsets

\* Distances in the ring.
LEMMA DistRange ==
  ASSUME NEW a \in Log!Offsets, NEW b \in Log!Offsets
  PROVE  Dist(a, b) \in 0 .. RingSize - 1 /\ (Dist(a, b) = 0 <=> a = b)
BY LogAssumption DEF Dist, Log!Offsets

\* A place further on, at either end.
LEMMA DistInc ==
  ASSUME NEW a \in Log!Offsets, NEW b \in Log!Offsets
  PROVE  /\ Log!Inc(b) # a => Dist(a, Log!Inc(b)) = Dist(a, b) + 1
         /\ a # b => Dist(Log!Inc(a), b) = Dist(a, b) - 1
BY LogAssumption DEF Dist, Log!Inc, Log!Offsets

\* A place is known by its distance.
LEMMA DistSame ==
  ASSUME NEW a \in Log!Offsets, NEW b \in Log!Offsets, NEW c \in Log!Offsets,
         Dist(a, b) = Dist(a, c)
  PROVE  b = c
BY LogAssumption DEF Dist, Log!Offsets

\* Distances add up as long as they do not go round.
LEMMA DistSum ==
  ASSUME NEW a \in Log!Offsets, NEW b \in Log!Offsets, NEW c \in Log!Offsets
  PROVE  /\ Dist(a, b) + Dist(b, c) < RingSize => Dist(a, c) = Dist(a, b) + Dist(b, c)
         /\ Dist(a, c) >= Dist(a, b) => Dist(b, c) = Dist(a, c) - Dist(a, b)
BY LogAssumption DEF Dist, Log!Offsets

\* The space that RTT finds is what the unread bytes leave, but for one place.
LEMMA SpaceIsRest ==
  ASSUME NEW r \in Log!Offsets, NEW w \in Log!Offsets
  PROVE  Log!Space(w, r) = RingSize - 1 - Dist(r, w)
BY LogAssumption DEF Dist, Log!Offsets, Log!Space

\* The place a few bytes further on.
LEMMA PlaceAfter ==
  ASSUME NEW a \in Log!Offsets, NEW k \in Nat, k < RingSize
  PROVE  (a + k) % RingSize \in Log!Offsets /\ Dist(a, (a + k) % RingSize) = k
<1>1. (a + k) % RingSize = IF a + k < RingSize THEN a + k ELSE a + k - RingSize
  BY LogAssumption DEF Log!Offsets
<1> QED
  BY <1>1, LogAssumption DEF Log!Offsets, Dist

\* A byte is one of its message.
LEMMA ByteForm ==
  \A b : b \in Log!Byte <=> /\ b \in [id : Log!Ids, nth : Nat, of : MsgLens]
                            /\ b.nth \in 1 .. b.of
BY LogAssumption DEF Log!Byte

\* Every byte of a message is a byte, with the same others.
LEMMA NthIsByte ==
  ASSUME NEW m \in Log!Byte, NEW i \in 1 .. m.of
  PROVE  /\ Log!Nth(m, i) \in Log!Byte /\ Log!Nth(m, i).nth = i
         /\ Log!Nth(m, i).of = m.of
         /\ \A j : Log!Nth(Log!Nth(m, i), j) = Log!Nth(m, j)
<1>1. m \in [id : Log!Ids, nth : Nat, of : MsgLens] /\ i \in Nat
  BY ByteForm, LogAssumption
<1>2. Log!Nth(m, i) = [id |-> m.id, nth |-> i, of |-> m.of]
  BY <1>1 DEF Log!Nth
<1>3. Log!Nth(m, i) \in Log!Byte
  BY <1>1, <1>2, ByteForm
<1>4. ASSUME NEW j PROVE Log!Nth(Log!Nth(m, i), j) = Log!Nth(m, j)
  BY <1>1, <1>2 DEF Log!Nth
<1> QED
  BY <1>2, <1>3, <1>4

\* The first byte of a new message.
LEMMA FirstIsByte ==
  ASSUME NEW m \in Log!Byte, NEW n \in MsgLens
  PROVE  LET b == Log!First(1 - m.id, n) IN b \in Log!Byte /\ b.nth = 1 /\ b.of = n
<1>1. m.id \in {0, 1}
  BY ByteForm DEF Log!Ids
<1>2. n \in Nat \ {0}
  BY LogAssumption
<1> QED
  BY <1>1, <1>2, ByteForm DEF Log!First, Log!Ids

\* The end of a message that is there before the first.
LEMMA EndedIsByte == Log!Ended \in Log!Byte /\ Log!Ended.nth = Log!Ended.of
<1>1. PICK n \in MsgLens : n \in Nat \ {0}
  BY LogAssumption
<1>2. [id |-> 0, nth |-> n, of |-> n] \in Log!Byte
  BY <1>1, ByteForm DEF Log!Ids
<1>3. \E b \in Log!Byte : b.nth = b.of
  BY <1>2
<1> QED
  BY <1>3 DEF Log!Ended

-----------------------------------------------------------------------------
\* A whole message behind the last one makes a stream of whole messages.
LEMMA WholeExtended ==
  ASSUME NEW p, NEW q, NEW r \in Log!Offsets, NEW w \in Log!Offsets, NEW v \in Log!Offsets,
         NEW last, NEW m \in Log!Byte,
         Whole(p, r, w, last),
         Dist(w, v) = m.of, Dist(r, w) + m.of < RingSize,
         \A o \in Log!Offsets : Dist(r, o) < Dist(r, w) => q[o] = p[o],
         \A o \in Log!Offsets : Dist(w, o) < m.of => q[o] = Log!Nth(m, Dist(w, o) + 1)
  PROVE  Whole(q, r, v, last)
<1>1. m.of \in Nat \ {0} /\ Dist(r, w) \in Nat /\ RingSize \in Nat \ {0}
  BY ByteForm, LogAssumption, DistRange
<1>2. Dist(r, v) = Dist(r, w) + m.of /\ r # v
  <2>1. Dist(r, v) = Dist(r, w) + m.of
    BY <1>1, DistSum
  <2>2. Dist(r, v) # 0
    BY <1>1, <2>1
  <2> QED
    BY <2>1, <2>2, DistRange
<1>3. w # v /\ q[w] = Log!Nth(m, 1)
  BY <1>1, DistRange
<1>4. Log!Nth(m, 1).nth = 1
  BY <1>1, NthIsByte
<1>5. ASSUME NEW b, b.nth = b.of PROVE Follows(b, q[w])
  BY <1>3, <1>4, <1>5 DEF Follows
<1>6. Follows(last, q[r])
  <2>1. CASE r = w
    BY <2>1, <1>5 DEF Whole
  <2>2. CASE r # w
    <3>1. Dist(r, r) < Dist(r, w)
      BY <2>2, DistRange
    <3> QED
      BY <2>2, <3>1 DEF Whole
  <2> QED
    BY <2>1, <2>2
<1>7. ASSUME NEW o \in Log!Offsets, Dist(r, o) < Dist(r, w)
      PROVE  IF Log!Inc(o) = v THEN q[o].nth = q[o].of ELSE Follows(q[o], q[Log!Inc(o)])
  <2>1. q[o] = p[o]
    BY <1>7
  <2>2. Log!Inc(o) \in Log!Offsets /\ Dist(r, o) \in Nat
    BY IncInRing, DistRange
  <2>3. CASE Log!Inc(o) = w
    <3>1. p[o].nth = p[o].of
      BY <1>7, <2>3 DEF Whole
    <3> QED
      BY <1>3, <1>5, <2>1, <2>3, <3>1
  <2>4. CASE Log!Inc(o) # w
    <3>1. Follows(p[o], p[Log!Inc(o)])
      BY <1>7, <2>4 DEF Whole
    <3>2. Dist(r, Log!Inc(o)) <= Dist(r, o) + 1
      BY <2>2, DistInc, DistRange
    <3>3. Dist(r, Log!Inc(o)) # Dist(r, w)
      BY <2>2, <2>4, DistSame
    <3>4. Dist(r, Log!Inc(o)) < Dist(r, w)
      BY <1>1, <1>7, <2>2, <3>2, <3>3, DistRange
    <3>5. q[Log!Inc(o)] = p[Log!Inc(o)] /\ Log!Inc(o) # v
      BY <1>1, <1>2, <2>2, <3>4
    <3> QED
      BY <2>1, <3>1, <3>5
  <2> QED
    BY <2>3, <2>4
<1>8. ASSUME NEW o \in Log!Offsets, Dist(r, o) >= Dist(r, w), Dist(r, o) < Dist(r, v)
      PROVE  IF Log!Inc(o) = v THEN q[o].nth = q[o].of ELSE Follows(q[o], q[Log!Inc(o)])
  <2> DEFINE d == Dist(w, o)
  <2>0. Log!Inc(o) \in Log!Offsets
    BY IncInRing
  <2>1. d \in Nat /\ d < m.of /\ d + 1 \in 1 .. m.of
    BY <1>1, <1>2, <1>8, DistSum, DistRange
  <2>2. q[o] = Log!Nth(m, d + 1) /\ q[o].nth = d + 1 /\ q[o].of = m.of
    BY <2>1, NthIsByte
  <2>3. Log!Inc(o) # w => Dist(w, Log!Inc(o)) = d + 1
    BY DistInc
  <2>4. Log!Inc(o) # w
    <3>1. ASSUME Log!Inc(o) = w PROVE FALSE
      <4>1. w # r => Dist(r, w) = Dist(r, o) + 1
        BY <3>1, DistInc
      <4>2. w = r => Dist(r, o) = RingSize - 1
        BY <3>1, LogAssumption DEF Dist, Log!Inc, Log!Offsets
      <4>3. Dist(r, o) \in 0 .. RingSize - 1 /\ Dist(r, v) \in 0 .. RingSize - 1
        BY DistRange
      <4> QED
        BY <1>1, <1>8, <4>1, <4>2, <4>3
    <3> QED
      BY <3>1
  <2>5. CASE Log!Inc(o) = v
    BY <2>2, <2>3, <2>4, <2>5
  <2>6. CASE Log!Inc(o) # v
    <3>1. d + 1 # m.of
      BY <2>0, <2>3, <2>4, <2>6, DistSame
    <3>2. q[Log!Inc(o)] = Log!Nth(m, d + 2) /\ d + 1 < m.of
      BY <1>1, <2>0, <2>1, <2>3, <2>4, <3>1
    <3>3. Log!Nth(q[o], d + 2) = Log!Nth(m, d + 2)
      BY <2>1, <2>2, NthIsByte
    <3>4. q[o].nth # q[o].of /\ q[o].nth + 1 = d + 2
      BY <2>1, <2>2, <3>1
    <3> QED
      BY <2>6, <3>2, <3>3, <3>4 DEF Follows
  <2> QED
    BY <2>5, <2>6
<1>9. ASSUME NEW o \in Log!Offsets, Dist(r, o) < Dist(r, v)
      PROVE  IF Log!Inc(o) = v THEN q[o].nth = q[o].of ELSE Follows(q[o], q[Log!Inc(o)])
  BY <1>1, <1>7, <1>8, <1>9, DistRange
<1> QED
  BY <1>2, <1>6, <1>9 DEF Whole

\* A ring with the same unread bytes.
LEMMA WholeSame ==
  ASSUME NEW p, NEW q, NEW r \in Log!Offsets, NEW w \in Log!Offsets, NEW last,
         Whole(p, r, w, last),
         \A o \in Log!Offsets : Dist(r, o) < Dist(r, w) => q[o] = p[o]
  PROVE  Whole(q, r, w, last)
<1>1. IF r = w THEN last.nth = last.of ELSE Follows(last, q[r])
  <2>1. r # w => Dist(r, r) < Dist(r, w)
    BY DistRange
  <2> QED
    BY <2>1 DEF Whole
<1>2. ASSUME NEW o \in Log!Offsets, Dist(r, o) < Dist(r, w), Log!Inc(o) # w
      PROVE  Follows(q[o], q[Log!Inc(o)])
  <2>1. Follows(p[o], p[Log!Inc(o)]) /\ q[o] = p[o]
    BY <1>2 DEF Whole
  <2>2. Log!Inc(o) \in Log!Offsets /\ Dist(r, Log!Inc(o)) <= Dist(r, o) + 1
    BY IncInRing, DistInc, DistRange
  <2>3. Dist(r, Log!Inc(o)) # Dist(r, w)
    BY <1>2, <2>2, DistSame
  <2>4. Dist(r, Log!Inc(o)) < Dist(r, w)
    <3>1. /\ Dist(r, o) \in Nat /\ Dist(r, w) \in Nat /\ Dist(r, Log!Inc(o)) \in Nat
      BY <2>2, DistRange
    <3> QED
      BY <1>2, <2>2, <2>3, <3>1
  <2> QED
    BY <2>1, <2>2, <2>4
<1>3. ASSUME NEW o \in Log!Offsets, Dist(r, o) < Dist(r, w), Log!Inc(o) = w
      PROVE  q[o].nth = q[o].of
  BY <1>3 DEF Whole
<1> QED
  BY <1>1, <1>2, <1>3 DEF Whole

\* The log starts empty.
LEMMA LogInit == Log!Init => LogInv
<1> SUFFICES ASSUME Log!Init PROVE LogInv
  OBVIOUS
<1>1. /\ ring = [o \in Log!Offsets |-> Log!Ended] /\ wrOff = 0 /\ rdOff = 0 /\ wr = 0 /\ nth = 0
      /\ at = "idle" /\ msg = Log!Ended /\ txFifo = 0 /\ lastRead = Log!Ended
      /\ nested = FALSE /\ garbled = FALSE
  BY DEF Log!Init
<1>2. Log!Ended \in Log!Byte /\ Log!Ended.nth = Log!Ended.of /\ 0 \in Log!Offsets
  BY EndedIsByte, LogAssumption DEF Log!Offsets
<1>3. ring \in [Log!Offsets -> Log!Byte]
  BY <1>1, <1>2
<1>4. nested \in BOOLEAN /\ garbled \in BOOLEAN
  BY <1>1
<1>5. Log!TypeOK
  BY <1>1, <1>2, <1>3, <1>4 DEF Log!TypeOK
<1>6. Whole(ring, rdOff, wrOff, lastRead)
  BY <1>1, <1>2, DistRange DEF Whole
<1> QED
  BY <1>1, <1>5, <1>6 DEF LogInv, Progress, Transmitter, Draft

\* What the invariant says about the log.
LEMMA LogSafe == LogInv => Log!TypeOK /\ MessagesWhole /\ TxFits
<1> SUFFICES ASSUME LogInv PROVE Log!TypeOK /\ MessagesWhole /\ TxFits
  OBVIOUS
<1>1. MessagesWhole
  BY DEF LogInv, MessagesWhole, Log!MessagesWhole
<1>2. TxFits
  BY LogAssumption DEF LogInv, Transmitter, Log!TypeOK, TxFits, Log!TxFits
<1> QED
  BY <1>1, <1>2 DEF LogInv

\* Every step of the writers, of the probe and of the transmitter keeps it.
LEMMA LogNext == LogInv /\ [Log!Next]_logVars => LogInv'
<1> SUFFICES ASSUME LogInv, [Log!Next]_logVars PROVE LogInv'
  OBVIOUS
<1> USE DEF Log!ringVars, Log!taskVars, Log!ghostVars
<1>t. /\ ring \in [Log!Offsets -> Log!Byte]
      /\ wrOff \in Log!Offsets /\ rdOff \in Log!Offsets /\ wr \in Log!Offsets
      /\ at \in {"idle", "space", "load", "put", "publish", "wait", "transmit"}
      /\ msg \in Log!Byte /\ lastRead \in Log!Byte /\ nth \in Nat /\ txFifo \in Nat
  BY DEF LogInv, Log!TypeOK
<1>n. msg.of \in Nat \ {0}
  BY <1>t, ByteForm, LogAssumption
<1>b. nested \in BOOLEAN /\ garbled \in BOOLEAN
  BY DEF LogInv, Log!TypeOK
<1>p. Progress /\ Transmitter
  BY DEF LogInv
<1>w. ASSUME ~nested PROVE Whole(ring, rdOff, wrOff, lastRead) /\ Draft /\ ~garbled
  BY <1>w DEF LogInv
\* Steps that leave ring and ghosts alone.
<1>k. ASSUME UNCHANGED <<ring, wrOff, rdOff, lastRead, nested, garbled>>,
             Log!TypeOK', Progress', Transmitter', ~nested => Draft'
      PROVE  LogInv'
  <2>1. nested' = nested /\ garbled' = garbled
    BY <1>k
  <2>2. ~nested => Whole(ring, rdOff, wrOff, lastRead)'
    BY <1>w, <1>k DEF Whole
  <2>3. ~nested' => Whole(ring, rdOff, wrOff, lastRead)' /\ Draft' /\ ~garbled'
    BY <1>w, <1>k, <2>1, <2>2
  <2> QED
    BY <1>k, <2>3, Zenon DEF LogInv
<1>1. ASSUME NEW n \in MsgLens, Log!Printf(n) PROVE LogInv'
  <2>1. /\ UNCHANGED <<ring, wrOff, rdOff, txFifo, lastRead, nested, garbled>>
        /\ at' = "space" /\ wr' = wrOff /\ nth' = 0 /\ msg' = Log!First(1 - msg.id, n)
    BY <1>1 DEF Log!Printf
  <2>2. msg' \in Log!Byte
    BY <2>1, <1>t, FirstIsByte
  <2>3. Log!TypeOK'
    BY <1>t, <1>n, <1>b, <2>1, <2>2 DEF Log!TypeOK
  <2>4. Progress' /\ Transmitter' /\ Draft'
    BY <1>p, <2>1 DEF Progress, Transmitter, Draft
  <2> QED
    BY <1>k, <2>1, <2>3, <2>4
<1>2. CASE Log!ReadSpace
  <2>1. /\ UNCHANGED <<ring, wrOff, rdOff, wr, nth, msg, txFifo, lastRead, nested, garbled>>
        /\ at = "space"
        /\ at' = IF Log!Fits(msg.of, wr, rdOff) THEN "load" ELSE "wait"
    BY <1>2 DEF Log!ReadSpace
  <2>3. Log!TypeOK'
    BY <1>t, <1>n, <1>b, <2>1 DEF Log!TypeOK
  <2>4. Progress' /\ Transmitter'
    BY <1>p, <2>1 DEF Progress, Transmitter
  <2>5. ~nested => Draft'
    BY <1>w, <2>1 DEF Draft
  <2> QED
    BY <1>k, <2>1, <2>3, <2>4, <2>5
<1>3. CASE Log!LoadOffset
  <2>1. /\ UNCHANGED <<ring, wrOff, rdOff, nth, msg, txFifo, lastRead, nested, garbled>>
        /\ at = "load" /\ at' = "put" /\ wr' = wrOff
    BY <1>3 DEF Log!LoadOffset
  <2>3. Log!TypeOK'
    BY <1>t, <1>n, <1>b, <2>1 DEF Log!TypeOK
  <2>4. Progress' /\ Transmitter' /\ nth = 0
    BY <1>t, <1>n, <1>p, <2>1 DEF Progress, Transmitter
  <2>5. \A o \in Log!Offsets : ~(Dist(wrOff, o) < 0)
    BY <1>t, <1>n, DistRange
  <2>6. Dist(wrOff, wrOff) = 0
    BY <1>t, <1>n, DistRange
  <2>7. ~nested => Log!Fits(msg.of, wrOff, rdOff)
    BY <1>w, <2>1 DEF Draft
  <2>8. ~nested => Draft'
    BY <2>1, <2>4, <2>5, <2>6, <2>7 DEF Draft, Dist
  <2> QED
    BY <1>k, <2>1, <2>3, <2>4, <2>8
<1>4. CASE Log!Put
  <2>1. /\ UNCHANGED <<wrOff, rdOff, msg, txFifo, lastRead, nested, garbled>>
        /\ at = "put" /\ at' = IF nth + 1 = msg.of THEN "publish" ELSE "put"
        /\ ring' = [ring EXCEPT ![wr] = Log!Nth(msg, nth + 1)]
        /\ wr' = Log!Inc(wr) /\ nth' = nth + 1
    BY <1>4 DEF Log!Put
  <2>2. nth < msg.of /\ nth + 1 \in 1 .. msg.of
    BY <1>t, <1>n, <1>p, <2>1 DEF Progress
  <2>3. ring' \in [Log!Offsets -> Log!Byte] /\ wr' \in Log!Offsets
    BY <1>t, <1>n, <2>1, <2>2, NthIsByte, IncInRing
  <2>4. Log!TypeOK'
    BY <1>t, <1>n, <1>b, <2>1, <2>3 DEF Log!TypeOK
  <2>5. Progress' /\ Transmitter'
    BY <1>t, <1>n, <1>p, <2>1, <2>2 DEF Progress, Transmitter
  <2>6. ASSUME ~nested
        PROVE  Whole(ring', rdOff, wrOff, lastRead) /\ Draft'
    <3>1. /\ Dist(wrOff, wr) = nth /\ Log!Fits(msg.of, wrOff, rdOff)
          /\ \A o \in Log!Offsets :
               Dist(wrOff, o) < nth => ring[o] = Log!Nth(msg, Dist(wrOff, o) + 1)
          /\ Whole(ring, rdOff, wrOff, lastRead)
      BY <1>w, <2>1, <2>6 DEF Draft
    <3>2. /\ Dist(rdOff, wrOff) + msg.of < RingSize
          /\ Dist(rdOff, wrOff) \in Nat /\ RingSize \in Nat
      BY <1>t, <1>n, <3>1, SpaceIsRest, DistRange, LogAssumption DEF Log!Fits
    <3>3. Dist(rdOff, wr) = Dist(rdOff, wrOff) + nth
      BY <1>t, <1>n, <2>2, <3>1, <3>2, DistSum
    <3>4. ASSUME NEW o \in Log!Offsets, Dist(rdOff, o) < Dist(rdOff, wrOff)
          PROVE  ring'[o] = ring[o]
      <4>1. o # wr
        BY <1>t, <1>n, <3>2, <3>3, <3>4
      <4> QED
        BY <1>t, <1>n, <2>1, <4>1
    <3>5. Whole(ring', rdOff, wrOff, lastRead)
      BY <1>t, <1>n, <3>1, <3>4, WholeSame
    <3>6. Dist(wrOff, Log!Inc(wr)) = nth + 1
      <4>1. Log!Inc(wr) # wrOff
        <5>1. Log!Inc(wr) = wrOff => Dist(wrOff, wr) = RingSize - 1
          BY <1>t, <1>n, LogAssumption DEF Dist, Log!Inc, Log!Offsets
        <5> QED
          BY <1>t, <1>n, <2>2, <3>1, <3>2, <5>1
      <4> QED
        BY <1>t, <1>n, <3>1, <4>1, DistInc
    <3>7. ASSUME NEW o \in Log!Offsets, Dist(wrOff, o) < nth + 1
          PROVE  ring'[o] = Log!Nth(msg, Dist(wrOff, o) + 1)
      <4>1. CASE o = wr
        BY <1>t, <1>n, <2>1, <3>1, <4>1
      <4>2. CASE o # wr
        <5>1. Dist(wrOff, o) # nth
          BY <1>t, <1>n, <3>1, <4>2, DistSame
        <5>2. Dist(wrOff, o) < nth
          BY <1>t, <1>n, <3>7, <5>1, DistRange
        <5> QED
          BY <1>t, <1>n, <2>1, <3>1, <4>2, <5>2
      <4> QED
        BY <4>1, <4>2
    <3>8. Draft'
      BY <2>1, <3>1, <3>6, <3>7 DEF Draft, Dist
    <3> QED
      BY <3>5, <3>8
  <2> QED
    <3>1. nested' = nested /\ garbled' = garbled
      BY <2>1
    <3>2. ~nested => Whole(ring, rdOff, wrOff, lastRead)'
      BY <2>1, <2>6 DEF Whole, Dist
    <3> QED
      BY <1>w, <2>4, <2>5, <2>6, <3>1, <3>2, Zenon DEF LogInv
<1>5. CASE Log!Publish
  <2>1. /\ UNCHANGED <<ring, rdOff, wr, msg, txFifo, lastRead, nested, garbled>>
        /\ at = "publish" /\ at' = "wait" /\ wrOff' = wr /\ nth' = 0
    BY <1>5 DEF Log!Publish
  <2>2. Log!TypeOK'
    BY <1>t, <1>n, <1>b, <2>1 DEF Log!TypeOK
  <2>3. Progress' /\ Transmitter'
    BY <1>t, <1>n, <1>p, <2>1 DEF Progress, Transmitter
  <2>4. Draft'
    BY <2>1 DEF Draft
  <2>5. ASSUME ~nested PROVE Whole(ring, rdOff, wr, lastRead)
    <3>1. /\ Dist(wrOff, wr) = msg.of /\ Log!Fits(msg.of, wrOff, rdOff)
          /\ \A o \in Log!Offsets :
               Dist(wrOff, o) < msg.of => ring[o] = Log!Nth(msg, Dist(wrOff, o) + 1)
          /\ Whole(ring, rdOff, wrOff, lastRead)
      BY <1>w, <1>p, <2>1, <2>5 DEF Draft, Progress
    <3>2. Dist(rdOff, wrOff) + msg.of < RingSize
      BY <1>t, <1>n, <3>1, SpaceIsRest, DistRange, LogAssumption DEF Log!Fits
    <3> QED
      BY <1>t, <1>n, <3>1, <3>2, WholeExtended
  <2> QED
    <3>1. nested' = nested /\ garbled' = garbled
      BY <2>1
    <3>2. ~nested => Whole(ring, rdOff, wrOff, lastRead)'
      BY <2>1, <2>5 DEF Whole, Dist
    <3> QED
      BY <1>w, <2>2, <2>3, <2>4, <3>1, <3>2, Zenon DEF LogInv
<1>6. CASE Log!Wait \/ Log!Transmit \/ Log!Sent
  <2>1. /\ UNCHANGED <<ring, wrOff, rdOff, msg, wr, lastRead, nested, garbled>>
        /\ at' \in {"idle", "wait", "transmit"} \/ (at' = at /\ nth' = nth)
        /\ nth' \in Nat /\ txFifo' \in Nat
    BY <1>t, <1>n, <1>6 DEF Log!Wait, Log!Transmit, Log!Sent
  <2>2. at' \in {"idle", "space", "load", "put", "publish", "wait", "transmit"}
    BY <1>t, <1>n, <2>1
  <2>3. Log!TypeOK'
    BY <1>t, <1>n, <1>b, <2>1, <2>2 DEF Log!TypeOK
  <2>4. Transmitter'
    BY <1>t, <1>n, <1>p, <1>6 DEF Transmitter, Log!Wait, Log!Transmit, Log!Sent
  <2>5. Progress'
    BY <1>p, <2>1 DEF Progress
  <2>6. ~nested => Draft'
    <3>1. CASE at' = at /\ nth' = nth
      BY <1>w, <2>1, <3>1 DEF Draft, Dist
    <3>2. CASE at' \in {"idle", "wait", "transmit"}
      BY <3>2 DEF Draft
    <3> QED
      BY <2>1, <3>1, <3>2
  <2> QED
    BY <1>k, <2>1, <2>3, <2>4, <2>5, <2>6
<1>7. ASSUME NEW n \in MsgLens, Log!InterruptPrints(n) PROVE LogInv'
  <2> DEFINE m == Log!First(1 - msg.id, n)
             fits == Log!Fits(n, wrOff, rdOff)
             place == [i \in 1 .. n |-> (wrOff + i - 1) % RingSize]
  <2>1. /\ UNCHANGED <<rdOff, at, wr, nth, lastRead, garbled>>
        /\ txFifo' = 1
        /\ nested' = (nested \/ (fits /\ at \in {"space", "load", "put", "publish"}))
        /\ msg' = IF at = "idle" THEN m ELSE msg
        /\ wrOff' = IF fits THEN (wrOff + n) % RingSize ELSE wrOff
        /\ ring' = IF fits
                     THEN [o \in Log!Offsets |->
                             IF \E i \in 1 .. n : place[i] = o
                               THEN Log!Nth(m, CHOOSE i \in 1 .. n : place[i] = o)
                               ELSE ring[o]]
                     ELSE ring
    BY <1>7 DEF Log!InterruptPrints
  <2>2. m \in Log!Byte /\ m.nth = 1 /\ m.of = n /\ n \in Nat \ {0}
    BY <1>t, <1>n, FirstIsByte, LogAssumption
  <2>3. msg' \in Log!Byte
    BY <1>t, <1>n, <2>1, <2>2
  <2> HIDE DEF m
  <2>4. ASSUME NEW o \in Log!Offsets, fits
        PROVE  /\ Dist(wrOff, o) >= n => ring'[o] = ring[o]
               /\ Dist(wrOff, o) < n => ring'[o] = Log!Nth(m, Dist(wrOff, o) + 1)
    <3>1. n < RingSize
      BY <2>4 DEF Log!Fits
    <3>2. \A i \in 1 .. n : place[i] = o <=> Dist(wrOff, o) = i - 1
      <4>1. ASSUME NEW i \in 1 .. n
            PROVE  place[i] = o <=> Dist(wrOff, o) = i - 1
        <5>1. i - 1 \in Nat /\ i - 1 < RingSize /\ wrOff + (i - 1) = wrOff + i - 1
          BY <1>t, <1>n, <2>2, <3>1, LogAssumption DEF Log!Offsets
        <5>2. place[i] \in Log!Offsets /\ Dist(wrOff, place[i]) = i - 1
          BY <1>t, <1>n, <5>1, PlaceAfter
        <5> QED
          BY <1>t, <1>n, <5>2, DistSame
      <4> QED
        BY <4>1
    <3>3. Dist(wrOff, o) \in Nat
      BY <1>t, <1>n, DistRange
    <3>4. ring'[o] = IF \E i \in 1 .. n : place[i] = o
                       THEN Log!Nth(m, CHOOSE i \in 1 .. n : place[i] = o) ELSE ring[o]
      BY <2>1, <2>4
    <3> HIDE DEF place
    <3>5. CASE Dist(wrOff, o) >= n
      BY <2>2, <3>2, <3>3, <3>4, <3>5
    <3>6. CASE Dist(wrOff, o) < n
      <4>1. Dist(wrOff, o) + 1 \in 1 .. n /\ place[Dist(wrOff, o) + 1] = o
        BY <2>2, <3>2, <3>3, <3>6
      <4>2. (CHOOSE i \in 1 .. n : place[i] = o) = Dist(wrOff, o) + 1
        BY <2>2, <3>2, <3>3, <4>1
      <4>3. ring'[o] = Log!Nth(m, Dist(wrOff, o) + 1)
        BY <3>4, <4>1, <4>2
      <4> QED
        BY <2>2, <3>3, <3>6, <4>3
    <3> QED
      BY <2>2, <3>3, <3>5, <3>6
  <2>5. ring' \in [Log!Offsets -> Log!Byte] /\ wrOff' \in Log!Offsets
    <3>1. CASE ~fits
      BY <1>t, <1>n, <2>1, <3>1
    <3>2. CASE fits
      <4>1. ASSUME NEW o \in Log!Offsets PROVE ring'[o] \in Log!Byte
        <5>1. Dist(wrOff, o) \in Nat
          BY <1>t, <1>n, DistRange
        <5>2. CASE Dist(wrOff, o) < n
          BY <2>2, <2>4, <3>2, <5>1, <5>2, NthIsByte
        <5>3. CASE Dist(wrOff, o) >= n
          BY <1>t, <1>n, <2>4, <3>2, <5>3
        <5> QED
          BY <2>2, <5>1, <5>2, <5>3
      <4>2. ring' = [o \in Log!Offsets |-> ring'[o]]
        BY <2>1, <3>2
      <4>3. wrOff' \in Log!Offsets
        BY <1>t, <1>n, <2>1, <2>2, <3>2, PlaceAfter DEF Log!Fits
      <4> QED
        BY <4>1, <4>2, <4>3
    <3> QED
      BY <3>1, <3>2
  <2>6. nested' \in BOOLEAN /\ garbled' \in BOOLEAN
    BY <1>b, <2>1
  <2>7. Log!TypeOK'
    BY <1>t, <1>n, <2>1, <2>3, <2>5, <2>6 DEF Log!TypeOK
  <2>8. Progress' /\ Transmitter'
    BY <1>p, <2>1 DEF Progress, Transmitter
  <2>9. ASSUME ~nested' PROVE Whole(ring', rdOff, wrOff', lastRead) /\ Draft' /\ ~garbled'
    <3>1. ~nested /\ ~(fits /\ at \in {"space", "load", "put", "publish"})
      BY <2>1, <2>9
    <3>2. Whole(ring, rdOff, wrOff, lastRead) /\ Draft /\ ~garbled
      BY <1>w, <3>1
    <3>3. CASE ~fits
      <4>1. ring' = ring /\ wrOff' = wrOff
        BY <2>1, <3>3
      <4>2. Draft'
        <5>1. CASE at = "idle"
          BY <2>1, <5>1 DEF Draft
        <5>2. CASE at # "idle"
          BY <2>1, <3>2, <4>1, <5>2 DEF Draft, Dist
        <5> QED
          BY <5>1, <5>2
      <4> QED
        BY <2>1, <3>2, <4>1, <4>2
    <3>4. CASE fits
      <4>1. at \notin {"space", "load", "put", "publish"}
        BY <3>1, <3>4
      <4>2. Draft'
        BY <2>1, <4>1 DEF Draft
      <4>3. /\ Dist(rdOff, wrOff) + n < RingSize /\ n < RingSize
            /\ Dist(rdOff, wrOff) \in Nat /\ RingSize \in Nat
        BY <1>t, <1>n, <2>2, <3>4, SpaceIsRest, DistRange, LogAssumption DEF Log!Fits
      <4>4. Dist(wrOff, wrOff') = n
        BY <1>t, <1>n, <2>1, <2>2, <3>4, <4>3, PlaceAfter
      <4>5. ASSUME NEW o \in Log!Offsets, Dist(rdOff, o) < Dist(rdOff, wrOff)
            PROVE  ring'[o] = ring[o]
        <5>1. Dist(wrOff, o) >= n
          <6>1. Dist(rdOff, wrOff) + Dist(wrOff, o) < RingSize
                  => Dist(rdOff, o) = Dist(rdOff, wrOff) + Dist(wrOff, o)
            BY <1>t, <1>n, DistSum
          <6>2. Dist(wrOff, o) \in Nat /\ Dist(rdOff, o) \in Nat
            BY <1>t, <1>n, DistRange
          <6> QED
            BY <2>2, <4>3, <4>5, <6>1, <6>2
        <5> QED
          BY <2>4, <3>4, <5>1
      <4>6. \A o \in Log!Offsets :
              Dist(wrOff, o) < m.of => ring'[o] = Log!Nth(m, Dist(wrOff, o) + 1)
        BY <2>2, <2>4, <3>4
      <4>7. Whole(ring', rdOff, wrOff', lastRead)
        BY <1>t, <1>n, <2>2, <2>5, <3>2, <4>3, <4>4, <4>5, <4>6, WholeExtended
      <4> QED
        BY <2>1, <3>2, <4>2, <4>7
    <3> QED
      BY <3>3, <3>4
  <2> QED
    <3>1. ~nested' => Whole(ring, rdOff, wrOff, lastRead)'
      BY <2>1, <2>9 DEF Whole, Dist
    <3> QED
      BY <2>7, <2>8, <2>9, <3>1, Zenon DEF LogInv
<1>8. CASE Log!Read
  <2>1. /\ UNCHANGED <<ring, wrOff, at, msg, wr, nth, txFifo, nested>>
        /\ rdOff # wrOff /\ lastRead' = ring[rdOff] /\ rdOff' = Log!Inc(rdOff)
        /\ garbled' = (garbled \/ IF lastRead.nth = lastRead.of
                              THEN ring[rdOff].nth # 1
                              ELSE ring[rdOff] # Log!Nth(lastRead, lastRead.nth + 1))
    BY <1>8 DEF Log!Read
  <2>2. garbled' \in BOOLEAN /\ nested' \in BOOLEAN
    BY <1>b, <2>1
  <2>3. rdOff' \in Log!Offsets /\ lastRead' \in Log!Byte
    BY <1>t, <1>n, <2>1, IncInRing
  <2>4. Log!TypeOK'
    BY <1>t, <1>n, <2>1, <2>2, <2>3 DEF Log!TypeOK
  <2>5. Progress' /\ Transmitter'
    BY <1>p, <2>1 DEF Progress, Transmitter
  <2>6. ASSUME ~nested PROVE Whole(ring, rdOff', wrOff, lastRead') /\ Draft' /\ ~garbled'
    <3>1. Whole(ring, rdOff, wrOff, lastRead) /\ Draft /\ ~garbled
      BY <1>w, <2>6
    <3>2. ~garbled'
      BY <2>1, <3>1 DEF Whole, Follows
    <3>3. Dist(rdOff', wrOff) = Dist(rdOff, wrOff) - 1 /\ Dist(rdOff, wrOff) \in Nat \ {0}
      BY <1>t, <1>n, <2>1, DistInc, DistRange
    <3>4. Draft'
      <4>1. at \in {"load", "put", "publish"} => Log!Fits(msg.of, wrOff, rdOff')
        BY <1>t, <1>n, <2>3, <3>1, <3>3, SpaceIsRest, LogAssumption DEF Draft, Log!Fits
      <4> QED
        BY <2>1, <3>1, <4>1 DEF Draft, Dist
    <3>5. Whole(ring, rdOff', wrOff, lastRead')
      <4>1. Dist(rdOff, rdOff) < Dist(rdOff, wrOff)
        BY <1>t, <1>n, <3>3, DistRange
      <4>2. IF rdOff' = wrOff THEN lastRead'.nth = lastRead'.of
                              ELSE Follows(lastRead', ring[rdOff'])
        BY <1>t, <1>n, <2>1, <3>1, <4>1 DEF Whole
      <4>3. ASSUME NEW o \in Log!Offsets, Dist(rdOff', o) < Dist(rdOff', wrOff)
            PROVE  IF Log!Inc(o) = wrOff THEN ring[o].nth = ring[o].of
                                         ELSE Follows(ring[o], ring[Log!Inc(o)])
        <5>1. Dist(rdOff, o) < Dist(rdOff, wrOff)
          <6>1. CASE o = rdOff
            BY <4>1, <6>1
          <6>2. CASE o # rdOff
            <7>1. Dist(rdOff', o) = Dist(rdOff, o) - 1
              BY <1>t, <1>n, <2>1, <6>2, DistInc
            <7> QED
              BY <1>t, <1>n, <3>3, <4>3, <7>1, DistRange
          <6> QED
            BY <6>1, <6>2
        <5> QED
          BY <3>1, <5>1 DEF Whole
      <4> QED
        BY <4>2, <4>3 DEF Whole
    <3> QED
      BY <3>2, <3>4, <3>5
  <2> QED
    <3>1. nested' = nested
      BY <2>1
    <3>2. ~nested => Whole(ring, rdOff, wrOff, lastRead)'
      BY <2>1, <2>6 DEF Whole, Dist
    <3> QED
      BY <2>4, <2>5, <2>6, <3>1, <3>2, Zenon DEF LogInv
<1>9. CASE UNCHANGED logVars
  <2>1. /\ UNCHANGED <<ring, wrOff, rdOff, lastRead, nested, garbled>>
        /\ UNCHANGED <<at, msg, wr, nth, txFifo>>
    BY <1>9 DEF logVars
  <2>2. Log!TypeOK'
    BY <1>t, <1>n, <1>b, <2>1 DEF Log!TypeOK
  <2>3. Progress' /\ Transmitter'
    BY <1>p, <2>1 DEF Progress, Transmitter
  <2>4. ~nested => Draft'
    BY <1>w, <2>1 DEF Draft, Dist
  <2> QED
    BY <1>k, <2>1, <2>2, <2>3, <2>4
<1> QED
  BY <1>1, <1>2, <1>3, <1>4, <1>5, <1>6, <1>7, <1>8, <1>9 DEF Log!Next

-----------------------------------------------------------------------------
(* The links together.                                                     *)

SerialInv ==
  /\ SpiInv
  /\ VisionInv
  /\ Command!TypeOK /\ LineIsTail
  /\ StreamInv
  /\ LogInv

\* All links start in their invariants.
LEMMA SerialStarts == SerialInit => SerialInv
BY SpiInit, VisionInit, CommandInit, StreamInit, LogInit DEF SerialInit, SerialInv

\* A step of one link is none of the others.
LEMMA SerialStep == SerialInv /\ [SerialNext]_serialVars => SerialInv'
<1>1. ASSUME SerialInv, [SerialNext]_serialVars
      PROVE  /\ [Next]_spiVars /\ [Vision!Next]_visionVars /\ [Command!Next]_cmdVars
             /\ [Report!Next]_reportVars /\ [Log!Next]_logVars
  BY <1>1 DEF SerialNext, serialVars
<1> QED
  BY <1>1, SpiStep, VisionNext, CommandStep, StreamNext, LogNext DEF SerialInv

\* The links keep all their invariants together.
THEOREM SerialInvariant == SerialSpec => []SerialInv
BY SerialStarts, SerialStep, PTL DEF SerialSpec

\* The variables of all the links keep their types.
THEOREM SerialTypes == SerialSpec => []AllTypeOK
<1>1. SerialInv => AllTypeOK
  BY VisionSafe, StreamSafe, LogSafe DEF SerialInv, SpiInv, TypeOK, StreamInv, AllTypeOK
<1> QED
  BY <1>1, SerialInvariant, PTL

\* A task that has copied a target and finds none fresh has the last one, whole:
\* HasFreshTarget and GetTarget of dev_vision.c, with frames coming in between any
\* two of their accesses.
THEOREM SerialTargetCurrent == SerialSpec => []QuietMeansCurrent
<1>1. SerialInv => QuietMeansCurrent
  BY VisionSafe DEF SerialInv
<1> QED
  BY <1>1, SerialInvariant, PTL

\* What is taken for a command is the tail of its line: Telemetry_OnRxByte of
\* telemetry.c, with a line of any length in a buffer of any.
THEOREM SerialLineIsTail == SerialSpec => []LineIsTail
<1>1. SerialInv => LineIsTail
  BY DEF SerialInv
<1> QED
  BY <1>1, SerialInvariant, PTL

\* A report that stays on is sent again in time: Telemetry_Tick of telemetry.c,
\* with any periods, any window of the task and any width of the counter that
\* holds the longest period and two windows.
THEOREM SerialStreamIsAlive == SerialSpec => []StreamIsAlive
<1>1. SerialInv => StreamIsAlive
  BY StreamSafe DEF SerialInv, StreamIsAlive
<1> QED
  BY <1>1, SerialInvariant, PTL

\* The probe gets whole messages one after the other, until a reply is printed
\* inside one: RTT_Log_Write of rtt_log.c, with a ring of any size, messages of
\* any length and a probe that reads at any pace.
THEOREM SerialMessagesWhole == SerialSpec => []MessagesWhole
<1>1. SerialInv => MessagesWhole
  BY LogSafe DEF SerialInv
<1> QED
  BY <1>1, SerialInvariant, PTL

\* No byte is lost in the transmitter: drv_uart.c looks at BUSY before each byte,
\* and one byte of the interrupt at most comes between.
THEOREM SerialTxFits == SerialSpec => []TxFits
<1>1. SerialInv => TxFits
  BY LogSafe DEF SerialInv
<1> QED
  BY <1>1, SerialInvariant, PTL

\* Every byte on the SPI line is one of the access that selected the sensor, in
\* the composition of the links as in SpiBus by itself.
THEOREM SerialSelected == SerialSpec => []SelectedForOwnBytes
<1>1. SerialInv => SelectedForOwnBytes
  BY SpiInvSelected DEF SerialInv
<1> QED
  BY <1>1, SerialInvariant, PTL

-----------------------------------------------------------------------------
(* The camera in step.  A frame is known by the byte at each place of it,  *)
(* and the line by what is left of a frame on it; so the byte that comes   *)
(* is the one a parser in step waits for.                                  *)

\* Induction over the natural numbers, by the set of those that have a property.
LEMMA Induction ==
  ASSUME NEW S, 0 \in S, \A n \in Nat : n \in S => n + 1 \in S
  PROVE  Nat \subseteq S
<1> DEFINE T == {n \in Nat : n \notin S}
<1> SUFFICES ASSUME T # {} PROVE FALSE
  OBVIOUS
<1>1. IsWellFoundedOn(OpToRel(<, Nat), Nat)
  BY NatLessThanWellFounded
<1>2. PICK x \in T : \A y \in T : <<y, x>> \notin OpToRel(<, Nat)
  <2> HIDE DEF T
  <2>1. T \subseteq Nat
    BY DEF T
  <2> QED
    BY <1>1, <2>1, WFMin
<1>3. \A y \in T : ~(y < x)
  BY <1>2 DEF OpToRel
<1>4. x # 0 /\ x - 1 \in Nat /\ x - 1 < x
  OBVIOUS
<1>5. x - 1 \in S
  BY <1>3, <1>4
<1> QED
  BY <1>4, <1>5

\* The checksum is what its recursive definition says.
LEMMA ChecksumIsDefined ==
  ASSUME NEW f, Len(f.data) \in Nat
  PROVE  \A k \in 0 .. Len(f.data) :
           Vision!Checksum(f)[k] =
             IF k = 0 THEN Vision!Xor(Len(f.data), f.type)
                      ELSE Vision!Xor(Vision!Checksum(f)[k - 1], f.data[k])
<1> DEFINE D == 0 .. Len(f.data)
           Then(h) == [k \in D |-> IF k = 0 THEN Vision!Xor(Len(f.data), f.type)
                                            ELSE Vision!Xor(h[k - 1], f.data[k])]
           Good(h, n) == \A k \in D : k <= n => h[k] = Then(h)[k]
           N == {n \in Nat : \E h : h = [k \in D |-> h[k]] /\ Good(h, n)}
<1>1. 0 \in N
  <2> DEFINE h == [k \in D |-> Vision!Xor(Len(f.data), f.type)]
  <2>1. Good(h, 0)
    OBVIOUS
  <2>2. h = [k \in D |-> h[k]]
    OBVIOUS
  <2> QED
    BY <2>1, <2>2
<1>2. ASSUME NEW n \in Nat, n \in N PROVE n + 1 \in N
  <2>1. PICK h : Good(h, n)
    BY <1>2
  <2> DEFINE g == Then(h)
  <2>2. g = [k \in D |-> g[k]]
    OBVIOUS
  <2>3. ASSUME NEW k \in D, k <= n + 1 PROVE g[k] = Then(g)[k]
    <3>1. CASE k = 0
      BY <3>1
    <3>2. CASE k # 0
      <4>1. k - 1 \in D /\ k - 1 <= n
        BY <2>3, <3>2
      <4>2. h[k - 1] = g[k - 1]
        BY <2>1, <4>1
      <4>3. g[k] = Vision!Xor(h[k - 1], f.data[k]) /\ Then(g)[k] = Vision!Xor(g[k - 1], f.data[k])
        BY <3>2
      <4> QED
        BY <4>2, <4>3
    <3> QED
      BY <3>1, <3>2
  <2> HIDE DEF g
  <2>4. Good(g, n + 1)
    BY <2>3
  <2> HIDE DEF Good
  <2>5. \E e : e = [k \in D |-> e[k]] /\ Good(e, n + 1)
    BY <2>2, <2>4
  <2>6. n + 1 \in Nat
    OBVIOUS
  <2> QED
    BY <2>5, <2>6, Zenon
<1> HIDE DEF N
<1>3. Nat \subseteq N
  BY <1>1, <1>2, Induction
<1>4. PICK h : h = [k \in D |-> h[k]] /\ Good(h, Len(f.data))
  BY <1>3 DEF N
<1>5. \A k \in D : h[k] = Then(h)[k]
  <2>1. \A k \in D : k <= Len(f.data)
    OBVIOUS
  <2> HIDE DEF Then
  <2> QED
    BY <1>4, <2>1
<1>6. h = Then(h)
  <2>1. Then(h) = [k \in D |-> Then(h)[k]]
    OBVIOUS
  <2> HIDE DEF Then
  <2> QED
    BY <1>4, <1>5, <2>1
<1> DEFINE s == CHOOSE g : g = Then(g)
<1>7. s = Then(s)
  BY <1>6
<1>8. Vision!Checksum(f) = s
  BY DEF Vision!Checksum
<1> HIDE DEF s
<1> QED
  BY <1>7, <1>8

\* What the camera sends, byte by byte: a frame of n bytes of payload.
IsFrame(b, f, n) ==
  /\ n \in 1 .. MaxPayload /\ Len(b) = n + 7
  /\ b[1] = 21 /\ b[2] = 14 /\ b[3] = n /\ b[4] = f.type
  /\ \A i \in 1 .. n : b[i + 4] = f.data[i]
  /\ b[n + 5] = Vision!Checksum(f)[n] /\ b[n + 6] = 13 /\ b[n + 7] = 15

LEMMA BytesForm ==
  ASSUME Vision!KnownFrames, NEW f \in Frames
  PROVE  IsFrame(Vision!Bytes(f), f, Len(f.data))
<1>p. PICK n, b : n = Len(f.data) /\ b = Vision!Bytes(f)
  OBVIOUS
<1>1. n \in 1 .. MaxPayload /\ n \in 0 .. 31 /\ f.type \in {1, 2} /\ f.data \in Seq(0 .. 31)
  <2>1. /\ f.data \in Seq(0 .. 31) /\ Len(f.data) \in 1 .. MaxPayload
        /\ \/ f.type = 1
           \/ f.type = 2
    BY DEF Vision!KnownFrames, Vision!TARGET, Vision!COMMAND
  <2>2. \A m \in 1 .. MaxPayload : m \in 0 .. 31
    BY VisionAssumption
  <2>3. n \in 1 .. MaxPayload
    BY <1>p, <2>1
  <2>4. n \in 0 .. 31
    BY <2>2, <2>3, Zenon
  <2>5. f.type \in {1, 2}
    BY <2>1
  <2> QED
    BY <2>1, <2>3, <2>4, <2>5
<1> DEFINE c == Vision!Checksum(f)[n]
           head == <<21, 14, n, f.type>>
           last == <<c, 13, 15>>
           S == 0 .. 31 \cup {c}
<1>2. b = (head \o f.data) \o last
  BY <1>p DEF Vision!Bytes, Vision!SYNC1, Vision!SYNC2, Vision!CR, Vision!LF
<1>3. head \in Seq(S) /\ Len(head) = 4 /\ last \in Seq(S) /\ Len(last) = 3
  BY <1>1
<1>4. f.data \in Seq(S) /\ Len(f.data) = n
  BY <1>1, <1>p
<1>5. /\ head[1] = 21 /\ head[2] = 14 /\ head[3] = n /\ head[4] = f.type
      /\ last[1] = c /\ last[2] = 13 /\ last[3] = 15
  OBVIOUS
<1> HIDE DEF head, last, S, c
<1>6. /\ head \o f.data \in Seq(S) /\ Len(head \o f.data) = n + 4
      /\ \A i \in 1 .. n + 4 : (head \o f.data)[i] = IF i <= 4 THEN head[i] ELSE f.data[i - 4]
  <2>1. /\ head \o f.data \in Seq(S) /\ Len(head \o f.data) = Len(head) + Len(f.data)
        /\ \A i \in 1 .. Len(head) + Len(f.data) :
             (head \o f.data)[i] = IF i <= Len(head) THEN head[i] ELSE f.data[i - Len(head)]
    BY <1>3, <1>4, ConcatProperties, Zenon
  <2>2. 4 + n = n + 4
    BY <1>1
  <2> QED
    BY <1>3, <1>4, <2>1, <2>2, Zenon
<1> DEFINE front == head \o f.data
<1>7. /\ Len(b) = n + 7
      /\ \A i \in 1 .. n + 7 : b[i] = IF i <= n + 4 THEN front[i] ELSE last[i - (n + 4)]
  <2>1. /\ Len(front \o last) = Len(front) + Len(last)
        /\ \A i \in 1 .. Len(front) + Len(last) :
             (front \o last)[i] = IF i <= Len(front) THEN front[i] ELSE last[i - Len(front)]
    BY <1>3, <1>6, ConcatProperties, Zenon
  <2>2. (n + 4) + 3 = n + 7
    BY <1>1
  <2> QED
    BY <1>2, <1>3, <1>6, <2>1, <2>2, Zenon
<1> HIDE DEF front
<1>8. \A i \in 1 .. n : b[i + 4] = f.data[i]
  BY <1>1, <1>6, <1>7 DEF front
<1>9. b[1] = 21 /\ b[2] = 14 /\ b[3] = n /\ b[4] = f.type
  <2>1. /\ b[1] = front[1] /\ b[2] = front[2] /\ b[3] = front[3] /\ b[4] = front[4]
    BY <1>1, <1>7
  <2>2. /\ front[1] = head[1] /\ front[2] = head[2] /\ front[3] = head[3] /\ front[4] = head[4]
    BY <1>1, <1>6 DEF front
  <2> QED
    BY <1>5, <2>1, <2>2
<1>10. b[n + 5] = c /\ b[n + 6] = 13 /\ b[n + 7] = 15
  <2>1. b[n + 5] = last[1] /\ b[n + 6] = last[2] /\ b[n + 7] = last[3]
    <3>1. /\ n + 5 \in 1 .. n + 7 /\ (n + 5) - (n + 4) = 1 /\ ~(n + 5 <= n + 4)
          /\ n + 6 \in 1 .. n + 7 /\ (n + 6) - (n + 4) = 2 /\ ~(n + 6 <= n + 4)
          /\ n + 7 \in 1 .. n + 7 /\ (n + 7) - (n + 4) = 3 /\ ~(n + 7 <= n + 4)
      BY <1>1
    <3> QED
      BY <1>7, <3>1, Zenon
  <2> QED
    BY <1>5, <2>1
<1> QED
  BY <1>p, <1>1, <1>7, <1>8, <1>9, <1>10 DEF c, IsFrame

\* What is left of the frame on the line is the end of it.
LineIsRest ==
  /\ sending \in Frames
  /\ out # <<>> => /\ Len(out) <= Len(Vision!Bytes(sending))
                   /\ \A i \in 1 .. Len(out) : out[i] = Vision!Bytes(sending)[Vision!Sent + i]

\* The byte that comes is the next one of the frame.
LEMMA RestTaken ==
  ASSUME Vision!KnownFrames, LineIsBytes, LineIsRest, out # <<>>,
         out' = Tail(out), sending' = sending,
         NEW n, n = Len(sending.data), NEW k, k = Vision!Sent, NEW b, b = Vision!Bytes(sending)
  PROVE  /\ n \in 1 .. MaxPayload /\ k \in 0 .. n + 6
         /\ Head(out) = b[k + 1] /\ Len(out) = n + 7 - k
         /\ out' = <<>> <=> k = n + 6
         /\ Vision!Sent' = IF k = n + 6 THEN 0 ELSE k + 1
         /\ LineIsRest'
<1>1. n \in 1 .. MaxPayload /\ n \in Nat /\ Len(b) = n + 7
  <2>1. n \in 1 .. MaxPayload /\ Len(b) = n + 7
    BY BytesForm DEF LineIsRest, IsFrame
  <2> QED
    BY <2>1, VisionAssumption
<1>2. /\ Len(out) \in Nat \ {0} /\ Head(out) = out[1] /\ Len(out') = Len(out) - 1
      /\ \A i \in 1 .. Len(out') : out'[i] = out[i + 1]
      /\ out' \in Seq(0 .. 31)
  BY HeadTailProperties DEF LineIsBytes
<1>3. k = n + 7 - Len(out) /\ Len(out) <= Len(b)
  BY DEF Vision!Sent, LineIsRest
<1>4. k \in 0 .. n + 6 /\ Len(out) = n + 7 - k
  BY <1>1, <1>2, <1>3
<1>5. Head(out) = b[k + 1]
  BY <1>2 DEF LineIsRest
<1>6. out' = <<>> <=> k = n + 6
  <2>1. out' = <<>> <=> Len(out') = 0
    BY <1>2, EmptySeq
  <2> QED
    BY <1>1, <1>2, <1>4, <2>1
<1>7. Vision!Sent' = IF k = n + 6 THEN 0 ELSE k + 1
  <2>1. CASE out' = <<>>
    BY <1>6, <2>1 DEF Vision!Sent
  <2>2. CASE out' # <<>>
    <3>1. Vision!Sent' = n + 7 - Len(out')
      BY <2>2 DEF Vision!Sent
    <3> QED
      BY <1>1, <1>2, <1>3, <1>4, <1>6, <2>2, <3>1
  <2> QED
    BY <2>1, <2>2
<1>8. LineIsRest'
  <2>1. sending' \in Frames
    BY DEF LineIsRest
  <2>2. ASSUME out' # <<>>
        PROVE  /\ Len(out') <= Len(b)
               /\ \A i \in 1 .. Len(out') : out'[i] = b[Vision!Sent' + i]
    <3>1. Vision!Sent' = k + 1
      BY <1>6, <1>7, <2>2
    <3>2. ASSUME NEW i \in 1 .. Len(out') PROVE out'[i] = b[(k + 1) + i]
      <4>1. i + 1 \in 1 .. Len(out) /\ k + (i + 1) = (k + 1) + i
        BY <1>2, <1>4, <1>1
      <4>2. out[i + 1] = b[k + (i + 1)]
        BY <4>1 DEF LineIsRest
      <4> QED
        BY <1>2, <4>1, <4>2
    <3>3. Len(out') <= Len(b)
      BY <1>1, <1>2, <1>3
    <3> QED
      BY <3>1, <3>2, <3>3
  <2>3. Vision!Bytes(sending)' = b
    OBVIOUS
  <2> QED
    BY <2>1, <2>2, <2>3 DEF LineIsRest
<1> QED
  BY <1>1, <1>4, <1>5, <1>6, <1>7, <1>8

\* What the parser does with a byte, state by state.
LEMMA ByteTaken ==
  ASSUME NEW byte, Vision!OnRxByte(byte)
  PROVE  /\ state = "SYNC1" => state' = IF byte = 21 THEN "SYNC2" ELSE "SYNC1"
         /\ state = "SYNC2" => state' = IF byte = 14 THEN "LEN" ELSE "SYNC1"
         /\ state = "LEN" =>
              IF byte \in 1 .. MaxPayload
                THEN state' = "TYPE" /\ frameLen' = byte /\ crcCalc' = byte
                ELSE state' = "SYNC1"
         /\ state = "TYPE" =>
              /\ state' = "DATA" /\ payload' = <<>>
              /\ frameLen' = frameLen /\ frameType' = byte
              /\ crcCalc' = Vision!Xor(crcCalc, byte)
         /\ state = "DATA" =>
              /\ state' = IF Len(payload) + 1 >= frameLen THEN "CRC" ELSE "DATA"
              /\ payload' = Append(payload, byte)
              /\ frameLen' = frameLen /\ frameType' = frameType
              /\ crcCalc' = Vision!Xor(crcCalc, byte)
         /\ state \in {"CRC", "CR", "LF"} =>
              /\ state' = CASE state = "CRC" -> IF byte = crcCalc THEN "CR" ELSE "SYNC1"
                            [] state = "CR" -> IF byte = 13 THEN "LF" ELSE "SYNC1"
                            [] OTHER -> "SYNC1"
              /\ UNCHANGED <<payload, frameLen, frameType, crcCalc>>
         /\ IF state = "LF" /\ byte = 15 THEN Vision!DispatchFrame
                                         ELSE event' = "none" /\ UNCHANGED <<target, fresh>>
BY DEF Vision!OnRxByte, Vision!Expect, Vision!LenByte, Vision!TypeByte, Vision!DataByte,
     Vision!CrcByte, Vision!SYNC1, Vision!SYNC2, Vision!CR, Vision!LF

\* A payload that is taken byte by byte.
PrefixForm(d) ==
  /\ SubSeq(d, 1, 0) = <<>> /\ SubSeq(d, 1, Len(d)) = d
  /\ \A i \in 0 .. Len(d) - 1 :
       /\ Len(SubSeq(d, 1, i)) = i
       /\ Append(SubSeq(d, 1, i), d[i + 1]) = SubSeq(d, 1, i + 1)

LEMMA PayloadGrows ==
  ASSUME NEW S, NEW d \in Seq(S)
  PROVE  PrefixForm(d)
<1>1. Len(d) \in Nat /\ \A j \in 1 .. Len(d) : d[j] \in S
  <2>1. Len(d) \in Nat
    BY LenProperties, Zenon
  <2>2. \A j \in 1 .. Len(d) : d[j] \in S
    BY ElementOfSeq, Zenon
  <2> QED
    BY <2>1, <2>2
<1>2. ASSUME NEW m \in 0 .. Len(d)
      PROVE  /\ SubSeq(d, 1, m) \in Seq(S) /\ Len(SubSeq(d, 1, m)) = m
             /\ \A j \in 1 .. m : SubSeq(d, 1, m)[j] = d[j]
  <2>1. m \in Int /\ 1 \in Int /\ \A j \in 1 .. m : d[j] \in S
    BY <1>1
  <2>2. /\ SubSeq(d, 1, m) \in Seq(S)
        /\ Len(SubSeq(d, 1, m)) = IF 1 <= m THEN m - 1 + 1 ELSE 0
        /\ \A j \in 1 .. m - 1 + 1 : SubSeq(d, 1, m)[j] = d[1 + j - 1]
    <3>1. ASSUME NEW j \in 1 .. m PROVE d[j] \in S
      BY <2>1
    <3>2. m \in Int /\ 1 \in Int
      BY <2>1
    <3> QED
      BY <3>1, <3>2, SubSeqProperties, SMTT(30)
  <2>3. m - 1 + 1 = m /\ \A j \in 1 .. m : 1 + j - 1 = j
    BY <1>1
  <2> QED
    BY <1>1, <2>2, <2>3
<1>3. SubSeq(d, 1, 0) = <<>>
  BY <1>1, <1>2, EmptySeq
<1>4. SubSeq(d, 1, Len(d)) = d
  <2>1. Len(d) \in 0 .. Len(d)
    BY <1>1
  <2> QED
    BY <1>2, <2>1, SeqEqual
<1>5. ASSUME NEW i \in 0 .. Len(d) - 1
      PROVE  /\ Len(SubSeq(d, 1, i)) = i
             /\ Append(SubSeq(d, 1, i), d[i + 1]) = SubSeq(d, 1, i + 1)
  <2> DEFINE p == SubSeq(d, 1, i)
             q == SubSeq(d, 1, i + 1)
  <2>1. i \in 0 .. Len(d) /\ i + 1 \in 0 .. Len(d) /\ d[i + 1] \in S
    BY <1>1
  <2>2. /\ p \in Seq(S) /\ Len(p) = i /\ \A j \in 1 .. i : p[j] = d[j]
        /\ q \in Seq(S) /\ Len(q) = i + 1 /\ \A j \in 1 .. i + 1 : q[j] = d[j]
    BY <1>2, <2>1
  <2> HIDE DEF p, q
  <2>3. /\ Append(p, d[i + 1]) \in Seq(S) /\ Len(Append(p, d[i + 1])) = i + 1
        /\ \A j \in 1 .. i : Append(p, d[i + 1])[j] = p[j]
        /\ Append(p, d[i + 1])[i + 1] = d[i + 1]
    BY <2>1, <2>2, AppendProperties
  <2>4. \A j \in 1 .. i + 1 : Append(p, d[i + 1])[j] = q[j]
    BY <2>1, <2>2, <2>3
  <2> QED
    BY <2>2, <2>3, <2>4, SeqEqual DEF p, q
<1>6. PrefixForm(d)
  BY <1>3, <1>4, <1>5 DEF PrefixForm
<1> QED
  BY <1>6

\* In step the byte that comes is the one the parser waits for, and the last one
\* of a frame announces it.
LEMMA StepTaken ==
  ASSUME Vision!KnownFrames, LineIsBytes, LineIsRest, Vision!InStep, out # <<>>,
         Vision!OnRxByte(Head(out)), out' = Tail(out), sending' = sending
  PROVE  Vision!InStep' /\ (out' = <<>> => Vision!Taken)
<1>f. sending \in Frames /\ \E S : sending.data \in Seq(S)
  BY DEF LineIsRest, Vision!KnownFrames
<1>p. PrefixForm(sending.data)
  <2>1. PICK S : sending.data \in Seq(S)
    BY <1>f
  <2> QED
    BY <2>1, PayloadGrows
<1>b. IsFrame(Vision!Bytes(sending), sending, Len(sending.data))
  BY <1>f, BytesForm, Zenon
<1> DEFINE f == sending
           n == Len(f.data)
           k == Vision!Sent
           b == Vision!Bytes(f)
           sum == Vision!Checksum(f)
           byte == Head(out)
<1>1. /\ n \in 1 .. MaxPayload /\ k \in 0 .. n + 6 /\ byte = b[k + 1]
      /\ out' = <<>> <=> k = n + 6
      /\ Vision!Sent' = IF k = n + 6 THEN 0 ELSE k + 1
  BY RestTaken, Zenon
<1>2. /\ b[1] = 21 /\ b[2] = 14 /\ b[3] = n /\ b[4] = f.type
      /\ \A i \in 1 .. n : b[i + 4] = f.data[i]
      /\ b[n + 5] = sum[n] /\ b[n + 6] = 13 /\ b[n + 7] = 15
  BY <1>b DEF IsFrame
<1>3. \A i \in 0 .. n : sum[i] = IF i = 0 THEN Vision!Xor(n, f.type)
                                 ELSE Vision!Xor(sum[i - 1], f.data[i])
  <2>1. n \in Nat
    BY <1>1, VisionAssumption
  <2> QED
    BY <2>1, ChecksumIsDefined, Zenon
<1>4. /\ f.data \in Seq(0 .. 31)
      /\ \/ f.type = 1 /\ n >= TargetLen
         \/ f.type = 2
  BY <1>f DEF Vision!KnownFrames, Vision!TARGET, Vision!COMMAND
<1>s. f' = f /\ n' = n /\ sum' = sum
  OBVIOUS
<1>n. n \in Nat /\ k \in Nat
  BY <1>1, VisionAssumption
<1> DEFINE Fits(st, fl, ft, cc, pl, kk) ==
             \/ kk = 0 /\ st = "SYNC1"
             \/ kk = 1 /\ st = "SYNC2"
             \/ kk = 2 /\ st = "LEN"
             \/ kk = 3 /\ st = "TYPE" /\ fl = n /\ cc = n
             \/ /\ fl = n /\ ft = f.type
                /\ \/ kk \in 4 .. n + 3 /\ st = "DATA"
                      /\ cc = sum[kk - 4] /\ pl = SubSeq(f.data, 1, kk - 4)
                   \/ kk = n + 4 /\ st = "CRC" /\ cc = sum[n] /\ pl = SubSeq(f.data, 1, n)
                   \/ kk = n + 5 /\ st = "CR" /\ cc = sum[n] /\ pl = SubSeq(f.data, 1, n)
                   \/ kk = n + 6 /\ st = "LF" /\ cc = sum[n] /\ pl = SubSeq(f.data, 1, n)
<1>5. Fits(state, frameLen, frameType, crcCalc, payload, k)
  BY DEF Vision!InStep, Vision!Has
<1>6. ASSUME Fits(state', frameLen', frameType', crcCalc', payload', Vision!Sent')
      PROVE  Vision!InStep'
  BY <1>6, <1>s DEF Vision!InStep, Vision!Has
<1> HIDE DEF b, sum, byte, n, f, k
<1>t. Vision!OnRxByte(byte)
  BY DEF byte
<1>7. CASE k = 0 \/ k = 1
  <2>1. state' = IF k = 0 THEN "SYNC2" ELSE "LEN"
    <3>1. state = IF k = 0 THEN "SYNC1" ELSE "SYNC2"
      BY <1>5, <1>7, <1>n
    <3>2. byte = IF k = 0 THEN 21 ELSE 14
      BY <1>1, <1>2, <1>7
    <3> QED
      BY <1>t, <1>7, <3>1, <3>2, ByteTaken
  <2>2. Vision!Sent' = k + 1 /\ out' # <<>>
    BY <1>1, <1>7, <1>n
  <2>3. Fits(state', frameLen', frameType', crcCalc', payload', k + 1)
    BY <1>7, <2>1
  <2> QED
    BY <1>6, <2>2, <2>3
<1>8. CASE k = 2
  <2>1. state = "LEN" /\ byte = n
    BY <1>1, <1>2, <1>5, <1>8, <1>n
  <2>2. state' = "TYPE" /\ frameLen' = n /\ crcCalc' = n
    BY <1>1, <1>t, <2>1, ByteTaken
  <2>3. Vision!Sent' = 3 /\ out' # <<>>
    BY <1>1, <1>8, <1>n
  <2> QED
    BY <1>6, <2>2, <2>3
<1>9. CASE k = 3
  <2>1. state = "TYPE" /\ frameLen = n /\ crcCalc = n /\ byte = f.type
    BY <1>1, <1>2, <1>5, <1>9, <1>n
  <2>2. /\ state' = "DATA" /\ payload' = <<>> /\ frameLen' = n /\ frameType' = f.type
        /\ crcCalc' = Vision!Xor(n, f.type)
    BY <1>t, <2>1, ByteTaken
  <2>3. sum[0] = Vision!Xor(n, f.type)
    BY <1>3, <1>n
  <2>4. SubSeq(f.data, 1, 0) = <<>>
    BY <1>p DEF PrefixForm, f
  <2>5. Vision!Sent' = 4 /\ out' # <<>> /\ 4 \in 4 .. n + 3 /\ 4 - 4 = 0
    BY <1>1, <1>9, <1>n
  <2>6. Fits(state', frameLen', frameType', crcCalc', payload', 4)
    BY <2>2, <2>3, <2>4, <2>5
  <2> QED
    BY <1>6, <2>5, <2>6
<1>10. CASE k \in 4 .. n + 3
  <2> DEFINE i == k - 4
  <2>1. i \in 0 .. n - 1 /\ k = i + 4 /\ k + 1 = (i + 1) + 4 /\ i + 1 \in 1 .. n
    BY <1>10, <1>n
  <2>2. /\ state = "DATA" /\ frameLen = n /\ frameType = f.type
        /\ crcCalc = sum[i] /\ payload = SubSeq(f.data, 1, i)
    BY <1>5, <1>10, <1>n
  <2>3. byte = f.data[i + 1]
    BY <1>1, <1>2, <2>1
  <2> HIDE DEF i
  <2>4. Len(payload) = i /\ Append(payload, byte) = SubSeq(f.data, 1, i + 1)
    <3>1. i \in 0 .. Len(f.data) - 1
      BY <2>1 DEF n
    <3>2. /\ Len(SubSeq(f.data, 1, i)) = i
          /\ Append(SubSeq(f.data, 1, i), f.data[i + 1]) = SubSeq(f.data, 1, i + 1)
      BY <1>p, <3>1, Zenon DEF PrefixForm, f
    <3> QED
      BY <2>2, <2>3, <3>2
  <2>5. Vision!Xor(crcCalc, byte) = sum[i + 1]
    <3>1. i + 1 \in 0 .. n /\ i + 1 # 0 /\ (i + 1) - 1 = i
      BY <2>1, <1>n
    <3> QED
      BY <1>3, <2>2, <2>3, <3>1
  <2>6. /\ state' = IF i + 1 >= n THEN "CRC" ELSE "DATA"
        /\ payload' = SubSeq(f.data, 1, i + 1) /\ frameLen' = n /\ frameType' = f.type
        /\ crcCalc' = sum[i + 1]
    BY <1>t, <2>2, <2>4, <2>5, ByteTaken
  <2>7. Vision!Sent' = k + 1 /\ out' # <<>>
    BY <1>1, <1>10, <1>n
  <2>8. CASE i + 1 = n
    <3>1. k + 1 = n + 4 /\ state' = "CRC"
      BY <2>1, <2>6, <2>8, <1>n
    <3>2. Fits(state', frameLen', frameType', crcCalc', payload', k + 1)
      BY <2>6, <2>8, <3>1
    <3> QED
      BY <1>6, <2>7, <3>2
  <2>9. CASE i + 1 # n
    <3>1. k + 1 \in 4 .. n + 3 /\ (k + 1) - 4 = i + 1 /\ state' = "DATA"
      BY <2>1, <2>6, <2>9, <1>n
    <3>2. Fits(state', frameLen', frameType', crcCalc', payload', k + 1)
      BY <2>6, <3>1
    <3> QED
      BY <1>6, <2>7, <3>2
  <2> QED
    BY <2>8, <2>9
<1>11. CASE k \in {n + 4, n + 5, n + 6}
  <2>1. /\ frameLen = n /\ frameType = f.type /\ crcCalc = sum[n] /\ payload = SubSeq(f.data, 1, n)
        /\ state = IF k = n + 4 THEN "CRC" ELSE IF k = n + 5 THEN "CR" ELSE "LF"
    BY <1>5, <1>11, <1>n
  <2>2. byte = IF k = n + 4 THEN sum[n] ELSE IF k = n + 5 THEN 13 ELSE 15
    <3>1. k + 1 = IF k = n + 4 THEN n + 5 ELSE IF k = n + 5 THEN n + 6 ELSE n + 7
      BY <1>11, <1>n
    <3> QED
      BY <1>1, <1>2, <1>11, <3>1
  <2>3. /\ UNCHANGED <<payload, frameLen, frameType, crcCalc>>
        /\ state' = IF k = n + 4 THEN "CR" ELSE IF k = n + 5 THEN "LF" ELSE "SYNC1"
    BY <1>t, <1>11, <2>1, <2>2, ByteTaken
  <2>4. CASE k # n + 6
    <3>1. Vision!Sent' = k + 1 /\ out' # <<>>
      BY <1>1, <2>4
    <3>2. Fits(state', frameLen', frameType', crcCalc', payload', k + 1)
      <4>1. \/ k + 1 = n + 5 /\ state' = "CR"
            \/ k + 1 = n + 6 /\ state' = "LF"
        BY <1>11, <1>n, <2>3, <2>4
      <4> QED
        BY <2>1, <2>3, <4>1
    <3> QED
      BY <1>6, <3>1, <3>2
  <2>5. CASE k = n + 6
    <3>1. Vision!Sent' = 0 /\ state' = "SYNC1"
      BY <1>1, <1>n, <2>3, <2>5
    <3>2. state = "LF" /\ byte = 15
      BY <1>n, <2>1, <2>2, <2>5
    <3>3. Vision!DispatchFrame
      BY <1>t, <3>2, ByteTaken
    <3>4. payload = f.data
      <4>1. SubSeq(f.data, 1, Len(f.data)) = f.data
        BY <1>p DEF PrefixForm, f
      <4> QED
        BY <2>1, <4>1 DEF n
    <3>5. CASE f.type = 1
      <4>1. Vision!EventOf = "target" /\ f.type = Vision!TARGET
        BY <1>4, <2>1, <3>5 DEF Vision!EventOf, Vision!TARGET
      <4>2. event' = "target" /\ fresh' /\ target' = SubSeq(f.data, 1, TargetLen)
        BY <3>3, <3>4, <4>1 DEF Vision!DispatchFrame
      <4>3. Vision!Taken
        BY <4>1, <4>2, Zenon DEF Vision!Taken, f
      <4> QED
        BY <1>6, <3>1, <4>3
    <3>6. CASE f.type = 2
      <4>1. Vision!EventOf = "command" /\ f.type # Vision!TARGET
        BY <1>1, <1>n, <2>1, <3>6 DEF Vision!EventOf, Vision!TARGET, Vision!COMMAND
      <4>2. event' = "command" /\ UNCHANGED target
        BY <3>3, <4>1 DEF Vision!DispatchFrame
      <4>3. Vision!Taken
        BY <4>1, <4>2, Zenon DEF Vision!Taken, f
      <4> QED
        BY <1>6, <3>1, <4>3
    <3> QED
      BY <1>4, <3>5, <3>6
  <2> QED
    BY <2>4, <2>5
<1> QED
  BY <1>1, <1>7, <1>8, <1>9, <1>10, <1>11, <1>n

-----------------------------------------------------------------------------
(* The camera caught up with.  What a parser out of step can still swallow *)
(* pays for the frames it misses: eight bytes for each.                    *)

\* While nothing is left of a frame, and while its last byte is, the parser does
\* not wait inside a header, but for a frame that was disturbed.
EndsClean ==
  /\ out = <<>> => state # "LEN"
  /\ Len(out) = 1 /\ state \in {"SYNC2", "LEN"} => spared = Spacing + 1

\* The bytes that the parser still takes for a part of the frame it is in.
InFrame == state \in {"TYPE", "DATA", "CRC", "CR", "LF"}
Left == CASE state = "TYPE" -> frameLen + 4
          [] state = "DATA" -> frameLen - Len(payload) + 3
          [] state = "CRC" -> 3
          [] state = "CR" -> 2
          [] OTHER -> 1

\* The parser is in step, or it swallows what is left of a frame, or it has
\* swallowed the header of this one and looks for the next.
CatchesUp ==
  \/ Vision!InStep /\ missed <= Vision!ResyncBound
  \/ InFrame /\ 8 * missed + Vision!Sent + Left <= MaxPayload + 4
  \/ /\ 8 * missed < MaxPayload + 4
     /\ \/ state = "SYNC1" /\ Vision!Sent >= 1
        \/ state = "SYNC2" /\ Vision!Sent >= 2 /\ Vision!Bytes(sending)[Vision!Sent] = 21
  \/ state = "SYNC2" /\ Vision!Sent = 0 /\ missed = 0

\* The invariant of a camera that sends frames without a header inside.
CatchInv ==
  /\ EndsClean
  /\ missed \in Nat /\ (spared = Spacing + 1 => missed = 0)
  /\ (spared <= Spacing \/ out = <<>>) => CatchesUp

\* A frame missed while the bytes swallowed last no longer than a frame is one
\* of at most ResyncBound.
LEMMA MissedBound ==
  /\ Vision!ResyncBound \in Nat
  /\ \A m \in Nat : 8 * m < MaxPayload + 4 => m + 1 <= Vision!ResyncBound
<1>1. MaxPayload \in Nat
  BY VisionAssumption
<1> QED
  BY <1>1 DEF Vision!ResyncBound, Vision!ShortestFrame

\* When a frame is over the parser waits for a header, or swallows no more than
\* the longest frame.
LEMMA CaughtAtEnd == VisionInv /\ EndsClean /\ out = <<>> /\ missed = 0 => CatchesUp
<1> SUFFICES ASSUME VisionInv, EndsClean, out = <<>>, missed = 0 PROVE CatchesUp
  OBVIOUS
<1>1. Vision!Sent = 0 /\ state # "LEN"
  BY DEF Vision!Sent, EndsClean
<1>2. CASE state = "SYNC1"
  <2>1. Vision!InStep
    BY <1>1, <1>2 DEF Vision!InStep
  <2> QED
    BY <2>1, MissedBound DEF CatchesUp
<1>3. CASE state = "SYNC2"
  BY <1>1, <1>3 DEF CatchesUp
<1>4. CASE InFrame
  <2>1. frameLen \in 1 .. MaxPayload /\ MaxPayload \in Nat
    BY <1>4, VisionAssumption DEF VisionInv, FrameInParser, InFrame
  <2>2. Len(payload) \in Nat
    BY LenProperties DEF VisionInv, Vision!TypeOK
  <2>3. Left <= MaxPayload + 4 /\ Left \in Int
    BY <1>4, <2>1, <2>2 DEF InFrame, Left
  <2>4. 8 * missed + Vision!Sent + Left <= MaxPayload + 4
    BY <1>1, <2>1, <2>3
  <2> QED
    BY <1>4, <2>4 DEF CatchesUp
<1> QED
  BY <1>1, <1>2, <1>3, <1>4 DEF InFrame, VisionInv, Vision!TypeOK

\* A camera that has just been switched on.
LEMMA CatchInit == Vision!Init => LineIsRest /\ CatchInv
<1> SUFFICES ASSUME Vision!Init PROVE LineIsRest /\ CatchInv
  OBVIOUS
<1>1. out = <<>> /\ state = "SYNC1" /\ missed = 0 /\ sending \in Frames
  BY DEF Vision!Init
<1>2. LineIsRest
  BY <1>1 DEF LineIsRest
<1>3. EndsClean
  <2>1. Len(out) = 0
    BY <1>1
  <2> QED
    BY <1>1, <2>1 DEF EndsClean
<1>4. CatchesUp
  BY <1>1, <1>3, VisionInit, CaughtAtEnd
<1> QED
  BY <1>1, <1>2, <1>3, <1>4 DEF CatchInv

\* The camera begins its next frame: the parser is where it was.
LEMMA BeginStays ==
  ASSUME Vision!KnownFrames, LineIsRest, spared \in 0 .. Spacing + 1,
         NEW g \in Frames, Vision!Begin(g)
  PROVE  LineIsRest' /\ (CatchInv => CatchInv') /\ (Vision!InStep => Vision!InStep')
<1>1. /\ out = <<>> /\ sending' = g /\ out' = Vision!Bytes(g)
      /\ state' = state /\ payload' = payload /\ frameLen' = frameLen /\ missed' = missed
      /\ spared' = IF spared = 0 THEN 0 ELSE spared - 1
  BY DEF Vision!Begin, Vision!parserVars
<1>2. Vision!Bytes(sending)' = Vision!Bytes(g)
  BY <1>1
<1>3. Len(out') \in Nat /\ Len(out') >= 8 /\ out' # <<>> /\ Len(out') = Len(g.data) + 7
  <2>1. IsFrame(Vision!Bytes(g), g, Len(g.data))
    BY BytesForm
  <2>2. /\ Len(g.data) \in 1 .. MaxPayload /\ MaxPayload \in Nat
        /\ Len(Vision!Bytes(g)) = Len(g.data) + 7
    BY <2>1, VisionAssumption DEF IsFrame
  <2>3. Len(out') = Len(g.data) + 7
    BY <1>1, <2>2
  <2>4. Len(out') >= 8 /\ Len(out') \in Nat
    BY <2>2, <2>3
  <2> QED
    BY <2>3, <2>4
<1>4. Vision!Sent = 0 /\ Vision!Sent' = 0
  <2>1. Vision!Sent' = Len(g.data) + 7 - Len(out')
    BY <1>1, <1>3 DEF Vision!Sent
  <2> QED
    BY <1>1, <1>3, <2>1 DEF Vision!Sent
<1>5. LineIsRest'
  <2>1. ASSUME NEW i \in 1 .. Len(out') PROVE out'[i] = Vision!Bytes(g)[0 + i]
    <3>1. 0 + i = i
      BY <1>3
    <3>2. out'[i] = Vision!Bytes(g)[i]
      BY <1>1
    <3> QED
      BY <3>1, <3>2, Zenon
  <2>2. Len(out') <= Len(Vision!Bytes(g))
    BY <1>1, <1>3
  <2>3. sending' \in Frames
    BY <1>1
  <2>4. \A i \in 1 .. Len(out') : out'[i] = Vision!Bytes(sending)'[Vision!Sent' + i]
    BY <1>2, <1>4, <2>1
  <2> QED
    BY <1>2, <2>2, <2>3, <2>4 DEF LineIsRest
<1>6. EndsClean'
  <2>1. PICK l : l = Len(out')
    OBVIOUS
  <2>2. l # 1
    BY <1>3, <2>1
  <2> QED
    BY <1>3, <2>1, <2>2, Zenon DEF EndsClean
<1>7. Vision!InStep => Vision!InStep' /\ state = "SYNC1"
  <2>1. ASSUME Vision!InStep PROVE state = "SYNC1"
    <3>1. IsFrame(Vision!Bytes(sending), sending, Len(sending.data))
      BY BytesForm DEF LineIsRest
    <3>2. Len(sending.data) \in 1 .. MaxPayload /\ MaxPayload \in Nat
      BY <3>1, VisionAssumption DEF IsFrame
    <3> QED
      BY <1>4, <2>1, <3>2 DEF Vision!InStep
  <2> QED
    BY <1>1, <1>4, <2>1 DEF Vision!InStep
<1>8. ASSUME CatchInv PROVE CatchesUp /\ missed \in Nat
  BY <1>1, <1>8 DEF CatchInv
<1>9. CatchInv => CatchesUp'
  <2>1. Vision!ResyncBound' = Vision!ResyncBound
    BY DEF Vision!ResyncBound, Vision!ShortestFrame
  <2>2. Left' = Left /\ InFrame' = InFrame
    BY <1>1 DEF Left, InFrame
  <2> QED
    BY <1>1, <1>4, <1>7, <1>8, <2>1, <2>2 DEF CatchesUp
<1>10. spared' # Spacing + 1
  BY <1>1, VisionAssumption
<1> QED
  BY <1>1, <1>5, <1>6, <1>7, <1>9, <1>10 DEF CatchInv

\* Steps of the task that uses the targets: what the camera and the parser are
\* doing stays.
LEMMA ReaderStays ==
  ASSUME LineIsRest, UNCHANGED <<Vision!parserVars, Vision!cameraVars>>
  PROVE  LineIsRest' /\ (CatchInv => CatchInv') /\ (Vision!InStep => Vision!InStep')
<1>1. /\ state' = state /\ payload' = payload /\ frameLen' = frameLen /\ frameType' = frameType
      /\ crcCalc' = crcCalc /\ out' = out /\ sending' = sending /\ spared' = spared
      /\ missed' = missed
  BY DEF Vision!parserVars, Vision!cameraVars
<1>2. /\ Vision!Bytes(sending)' = Vision!Bytes(sending)
      /\ Vision!Checksum(sending)' = Vision!Checksum(sending)
  BY <1>1
<1>3. Vision!Sent' = Vision!Sent
  BY <1>1, <1>2 DEF Vision!Sent
<1>4. Vision!InStep' <=> Vision!InStep
  BY <1>1, <1>2, <1>3 DEF Vision!InStep, Vision!Has
<1>5. CatchesUp' <=> CatchesUp
  <2>1. Vision!ResyncBound' = Vision!ResyncBound
    BY DEF Vision!ResyncBound, Vision!ShortestFrame
  <2>2. Left' = Left /\ InFrame' = InFrame
    BY <1>1 DEF Left, InFrame
  <2> QED
    BY <1>1, <1>2, <1>3, <1>4, <2>1, <2>2 DEF CatchesUp
<1>6. LineIsRest'
  BY <1>1, <1>2, <1>3 DEF LineIsRest
<1> QED
  BY <1>1, <1>4, <1>5, <1>6 DEF CatchInv, EndsClean

\* The last two bytes of a frame are no part of a header.
LEMMA EndsCleanKept ==
  ASSUME Vision!KnownFrames, LineIsBytes, LineIsRest, EndsClean, out # <<>>,
         out' = Tail(out), sending' = sending,
         \/ Vision!OnRxByte(Head(out)) /\ spared' = spared
         \/ spared = 0 /\ spared' = Spacing + 1 /\ \E byte : Vision!OnRxByte(byte)
         \/ spared = 0 /\ spared' = Spacing + 1 /\ UNCHANGED state
  PROVE  EndsClean'
<1> DEFINE n == Len(sending.data)
           k == Vision!Sent
           b == Vision!Bytes(sending)
<1>1. /\ n \in 1 .. MaxPayload /\ k \in 0 .. n + 6 /\ Head(out) = b[k + 1] /\ Len(out) = n + 7 - k
      /\ out' = <<>> <=> k = n + 6
  BY RestTaken, Zenon
<1>2. b[n + 6] = 13 /\ b[n + 7] = 15
  BY BytesForm DEF LineIsRest, IsFrame
<1>3. MaxPayload \in Nat /\ Spacing \in Nat
  BY VisionAssumption
<1> HIDE DEF n, k, b
<1>4. Len(out) \in Nat \ {0} /\ Len(out') = Len(out) - 1
  BY HeadTailProperties DEF LineIsBytes
<1>5. ASSUME Vision!OnRxByte(Head(out)), k >= n + 5 PROVE state' \notin {"SYNC2", "LEN"}
  <2>1. Head(out) \in {13, 15}
    <3>1. k = n + 5 \/ k = n + 6
      BY <1>1, <1>3, <1>5
    <3> QED
      BY <1>1, <1>2, <1>3, <3>1
  <2> QED
    BY <1>5, <2>1 DEF Vision!OnRxByte, Vision!Expect, Vision!LenByte, Vision!TypeByte,
         Vision!DataByte, Vision!CrcByte, Vision!SYNC1, Vision!SYNC2, Vision!CR, Vision!LF
<1>6. ASSUME out' = <<>> PROVE state' # "LEN"
  <2>1. k = n + 6 /\ Len(out) = 1
    BY <1>1, <1>3, <1>6
  <2>2. CASE Vision!OnRxByte(Head(out))
    BY <1>1, <1>3, <1>5, <2>1, <2>2
  <2>3. ASSUME spared = 0 PROVE state \notin {"SYNC2", "LEN"}
    BY <1>3, <2>1, <2>3 DEF EndsClean
  <2>4. ASSUME NEW byte, Vision!OnRxByte(byte), state \notin {"SYNC2", "LEN"} PROVE state' # "LEN"
    BY <2>4 DEF Vision!OnRxByte, Vision!Expect, Vision!LenByte, Vision!TypeByte,
         Vision!DataByte, Vision!CrcByte
  <2> QED
    <3>1. CASE spared = 0 /\ \E byte : Vision!OnRxByte(byte)
      BY <2>3, <2>4, <3>1
    <3>2. CASE spared = 0 /\ UNCHANGED state
      BY <2>3, <3>2
    <3> QED
      BY <2>2, <3>1, <3>2, Zenon
<1>7. ASSUME k = n + 5, state' \in {"SYNC2", "LEN"} PROVE spared' = Spacing + 1
  BY <1>1, <1>3, <1>5, <1>7
<1>8. Len(out') = 1 => k = n + 5
  <2>1. PICK l, m : l = Len(out) /\ m = Len(out')
    OBVIOUS
  <2>2. l \in Nat /\ l = n + 7 - k /\ m = l - 1
    BY <1>1, <1>4, <2>1
  <2>3. m = 1 => k = n + 5
    BY <1>1, <1>3, <2>2
  <2> QED
    BY <2>1, <2>3, Zenon
<1> QED
  BY <1>6, <1>7, <1>8, Zenon DEF EndsClean

\* In a frame there is at least one byte left.
LEMMA LeftRange ==
  ASSUME VisionInv, InFrame
  PROVE  Left \in Nat /\ Left >= 1
<1>1. frameLen \in 1 .. MaxPayload /\ MaxPayload \in Nat
  BY VisionAssumption DEF VisionInv, FrameInParser, InFrame
<1>2. PICK p \in Nat : p = Len(payload)
  BY LenProperties DEF VisionInv, Vision!TypeOK
<1>3. state = "DATA" => p < frameLen
  BY <1>2 DEF VisionInv, FrameInParser
<1>4. CASE state = "DATA"
  <2>1. Left = frameLen - p + 3
    BY <1>2, <1>4 DEF Left
  <2> QED
    BY <1>1, <1>2, <1>3, <1>4, <2>1
<1> QED
  BY <1>1, <1>4 DEF Left

\* In a frame every byte brings the parser nearer to its end, or out of it.
LEMMA LeftSinks ==
  ASSUME VisionInv, InFrame, NEW byte, Vision!OnRxByte(byte)
  PROVE  /\ Left \in Nat /\ Left >= 1
         /\ \/ InFrame' /\ Left' = Left - 1
            \/ state' = "SYNC1"
<1>1. frameLen \in 1 .. MaxPayload /\ MaxPayload \in Nat
  BY VisionAssumption DEF VisionInv, FrameInParser, InFrame
<1>2. PICK p \in Nat : p = Len(payload)
  BY LenProperties DEF VisionInv, Vision!TypeOK
<1>3. CASE state = "TYPE"
  <2>1. Left = frameLen + 4
    BY <1>3 DEF Left
  <2>2. state' = "DATA" /\ payload' = <<>> /\ frameLen' = frameLen
    BY <1>3, ByteTaken
  <2>3. Left' = frameLen - Len(payload') + 3
    BY <2>2 DEF Left
  <2>4. Len(payload') = 0
    BY <2>2
  <2> QED
    BY <1>1, <2>1, <2>2, <2>3, <2>4 DEF InFrame
<1>4. CASE state = "DATA"
  <2>1. p < frameLen /\ Left = frameLen - p + 3
    BY <1>2, <1>4 DEF Left, VisionInv, FrameInParser
  <2>2. /\ state' = IF p + 1 >= frameLen THEN "CRC" ELSE "DATA"
        /\ payload' = Append(payload, byte) /\ frameLen' = frameLen
    BY <1>2, <1>4, ByteTaken
  <2>3. CASE p + 1 >= frameLen
    BY <1>1, <1>2, <2>1, <2>2, <2>3 DEF Left, InFrame
  <2>4. CASE ~(p + 1 >= frameLen)
    <3>1. Left' = frameLen - Len(payload') + 3
      BY <2>2, <2>4 DEF Left
    <3>2. Len(payload') = p + 1
      <4>1. payload \in Seq(0 .. 31)
        BY DEF VisionInv, Vision!TypeOK
      <4> QED
        BY <1>2, <2>2, <4>1
    <3> QED
      BY <1>1, <1>2, <2>1, <2>2, <2>4, <3>1, <3>2 DEF InFrame
  <2> QED
    BY <2>3, <2>4
<1>5. CASE state \in {"CRC", "CR", "LF"}
  <2>1. Left = CASE state = "CRC" -> 3 [] state = "CR" -> 2 [] OTHER -> 1
    BY <1>5 DEF Left
  <2>2. \/ state = "CRC" /\ state' \in {"CR", "SYNC1"}
        \/ state = "CR" /\ state' \in {"LF", "SYNC1"}
        \/ state = "LF" /\ state' = "SYNC1"
    BY <1>5, ByteTaken
  <2>3. /\ state' = "CR" => Left' = 2
        /\ state' = "LF" => Left' = 1
    BY DEF Left
  <2> QED
    BY <2>1, <2>2, <2>3 DEF InFrame
<1> QED
  BY <1>3, <1>4, <1>5 DEF InFrame

\* A byte of a frame that the line leaves alone.
LEMMA ByteCatches ==
  ASSUME Vision!KnownFrames, Vision!PlainFrames, VisionInv, LineIsRest, CatchesUp, missed \in Nat,
         out # <<>>, Vision!OnRxByte(Head(out)), out' = Tail(out), sending' = sending,
         missed' = IF out' # <<>> THEN missed ELSE IF event' = "none" THEN missed + 1 ELSE 0
  PROVE  CatchesUp'
<1> DEFINE n == Len(sending.data)
           k == Vision!Sent
           b == Vision!Bytes(sending)
           byte == Head(out)
<1>1. /\ n \in 1 .. MaxPayload /\ k \in 0 .. n + 6 /\ byte = b[k + 1]
      /\ out' = <<>> <=> k = n + 6
      /\ Vision!Sent' = IF k = n + 6 THEN 0 ELSE k + 1
  <2>1. LineIsBytes
    BY DEF VisionInv
  <2> QED
    BY <2>1, RestTaken, Zenon
<1>2. /\ b[2] = 14 /\ b[n + 7] = 15 /\ b[1] = 21 /\ Len(b) = n + 7
  BY BytesForm DEF LineIsRest, IsFrame
<1>3. \A i \in 2 .. n + 6 : ~(b[i] = 21 /\ b[i + 1] = 14)
  <2>1. sending \in Frames
    BY DEF LineIsRest
  <2>2. \A i \in 2 .. Len(b) - 1 : ~(b[i] = 21 /\ b[i + 1] = 14)
    BY <2>1 DEF Vision!PlainFrames, Vision!SYNC1, Vision!SYNC2
  <2>3. Len(b) - 1 = n + 6
    BY <1>1, <1>2
  <2> QED
    BY <2>2, <2>3
<1>s. Vision!Bytes(sending)' = b
  OBVIOUS
<1>r. Vision!ResyncBound' = Vision!ResyncBound
  BY DEF Vision!ResyncBound, Vision!ShortestFrame
<1>m. MaxPayload \in Nat
  BY VisionAssumption
<1>a. CASE Vision!InStep /\ missed <= Vision!ResyncBound
  <2>1. Vision!InStep' /\ (out' = <<>> => Vision!Taken)
    <3>1. LineIsBytes
      BY DEF VisionInv
    <3> QED
      BY <1>a, <3>1, StepTaken
  <2>2. Vision!Taken => event' # "none"
    BY DEF Vision!Taken
  <2>3. missed' <= Vision!ResyncBound'
    BY <1>a, <1>r, <2>1, <2>2, MissedBound
  <2> QED
    BY <2>1, <2>3 DEF CatchesUp
<1> HIDE DEF n, k, b, byte
<1>t. Vision!OnRxByte(byte) /\ missed' \in Nat /\ missed' <= missed + 1
  BY DEF byte
<1>n. n \in Nat /\ k \in Nat
  BY <1>1, <1>m
<1>l. ASSUME state' = "SYNC1", 8 * missed < MaxPayload + 4 PROVE CatchesUp'
  <2>1. CASE k = n + 6
    <3>1. Vision!Sent' = 0
      BY <1>1, <2>1
    <3>2. Vision!InStep'
      BY <1>l, <3>1 DEF Vision!InStep
    <3>3. missed' <= Vision!ResyncBound'
      BY <1>l, <1>r, <1>t, MissedBound
    <3> QED
      BY <3>2, <3>3 DEF CatchesUp
  <2>2. CASE k # n + 6
    <3>1. missed' = missed /\ Vision!Sent' >= 1
      BY <1>1, <1>n, <2>2
    <3> QED
      BY <1>l, <3>1 DEF CatchesUp
  <2> QED
    BY <2>1, <2>2
<1>b. CASE InFrame /\ 8 * missed + k + Left <= MaxPayload + 4
  <2>1. /\ Left \in Nat /\ Left >= 1
        /\ \/ InFrame' /\ Left' = Left - 1
           \/ state' = "SYNC1"
    BY <1>b, <1>t, LeftSinks
  <2>2. 8 * missed < MaxPayload + 4
    BY <1>b, <1>m, <1>n, <2>1
  <2>3. ASSUME InFrame', Left' = Left - 1 PROVE CatchesUp'
    <3>1. 8 * missed' + Vision!Sent' + Left' <= MaxPayload + 4
      <4>1. CASE k = n + 6
        <5>1. Vision!Sent' = 0 /\ k >= 7
          BY <1>1, <1>m, <4>1
        <5> QED
          BY <1>b, <1>m, <1>n, <1>t, <2>1, <2>3, <5>1
      <4>2. CASE k # n + 6
        <5>1. missed' = missed /\ Vision!Sent' = k + 1
          BY <1>1, <4>2
        <5> QED
          BY <1>b, <1>m, <1>n, <2>1, <2>3, <5>1
      <4> QED
        BY <4>1, <4>2
    <3> QED
      BY <2>3, <3>1 DEF CatchesUp
  <2> QED
    BY <1>l, <2>1, <2>2, <2>3
<1>c. CASE 8 * missed < MaxPayload + 4 /\ state = "SYNC1" /\ k >= 1
  <2>1. CASE byte = 21
    <3>1. k # n + 6
      <4>1. k = n + 6 => k + 1 = n + 7
        BY <1>n
      <4>2. byte = b[k + 1] /\ b[n + 7] = 15
        BY <1>1, <1>2
      <4> QED
        BY <2>1, <4>1, <4>2
    <3>2. Vision!Sent' = k + 1 /\ missed' = missed
      BY <1>1, <3>1
    <3>3. state' = "SYNC2"
      BY <1>c, <1>t, <2>1, ByteTaken
    <3>4. Vision!Bytes(sending)'[Vision!Sent'] = 21
      BY <1>1, <1>s, <2>1, <3>2
    <3> QED
      BY <1>c, <1>n, <3>2, <3>3, <3>4 DEF CatchesUp
  <2>2. CASE byte # 21
    <3>1. state' = "SYNC1"
      BY <1>c, <1>t, <2>2, ByteTaken
    <3> QED
      BY <1>c, <1>l, <3>1
  <2> QED
    BY <2>1, <2>2
<1>d. CASE 8 * missed < MaxPayload + 4 /\ state = "SYNC2" /\ k >= 2 /\ b[k] = 21
  <2>1. byte # 14
    <3>1. k \in 2 .. n + 6
      BY <1>1, <1>d, <1>n
    <3> QED
      BY <1>1, <1>3, <1>d, <3>1
  <2>2. state' = "SYNC1"
    BY <1>d, <1>t, <2>1, ByteTaken
  <2> QED
    BY <1>d, <1>l, <2>2
<1>e. CASE state = "SYNC2" /\ k = 0 /\ missed = 0
  <2>1. byte = 21
    BY <1>1, <1>2, <1>e
  <2>2. state' = "SYNC1"
    BY <1>e, <1>t, <2>1, ByteTaken
  <2> QED
    BY <1>e, <1>l, <1>m, <2>2
<1> QED
  BY <1>a, <1>b, <1>c, <1>d, <1>e DEF CatchesUp, k, b

\* Every step of the camera link: what is on the line is the end of the frame,
\* and a parser in step stays so while no byte is disturbed.
LEMMA VisionStays ==
  ASSUME Vision!KnownFrames, VisionInv, LineIsRest, [Vision!Next]_visionVars
  PROVE  /\ LineIsRest'
         /\ Vision!InStep /\ ~Vision!Hit =>
              Vision!InStep' /\ (out # <<>> /\ out' = <<>> => Vision!Taken)
<1>1. LineIsBytes /\ spared \in 0 .. Spacing + 1
  BY DEF VisionInv, Vision!TypeOK
<1>2. CASE UNCHANGED visionVars \/ Vision!TestFresh \/ Vision!ClearFresh \/ Vision!CopyTarget
  <2>1. UNCHANGED <<Vision!parserVars, Vision!cameraVars>> /\ out' = out
    BY <1>2 DEF visionVars, Vision!TestFresh, Vision!ClearFresh, Vision!CopyTarget,
         Vision!parserVars, Vision!cameraVars
  <2> QED
    BY <2>1, ReaderStays
<1>3. ASSUME NEW g \in Frames, Vision!Begin(g)
      PROVE  LineIsRest' /\ (Vision!InStep => Vision!InStep') /\ out = <<>>
  BY <1>1, <1>3, BeginStays DEF Vision!Begin
<1>4. CASE Vision!Arrive
  <2>1. /\ out # <<>> /\ Vision!OnRxByte(Head(out)) /\ out' = Tail(out) /\ sending' = sending
    BY <1>4 DEF Vision!Arrive
  <2>2. LineIsRest'
    BY <1>1, <2>1, RestTaken
  <2>3. Vision!InStep => Vision!InStep' /\ (out' = <<>> => Vision!Taken)
    BY <1>1, <2>1, StepTaken
  <2> QED
    BY <2>2, <2>3
<1>5. ASSUME out # <<>>, out' = Tail(out), sending' = sending, Vision!Hit
      PROVE  LineIsRest'
  BY <1>1, <1>5, RestTaken
<1>6. ASSUME out' = out, sending' = sending
      PROVE  LineIsRest'
  <2>1. Vision!Bytes(sending)' = Vision!Bytes(sending)
    BY <1>6
  <2>2. Vision!Sent' = Vision!Sent
    BY <1>6, <2>1 DEF Vision!Sent
  <2> QED
    BY <1>6, <2>1, <2>2 DEF LineIsRest
<1>7. CASE Vision!Lose
  BY <1>5, <1>7 DEF Vision!Lose
<1>8. ASSUME NEW byte \in Noise, Vision!Alter(byte) PROVE Vision!Hit /\ LineIsRest'
  BY <1>5, <1>8 DEF Vision!Alter
<1>9. ASSUME NEW byte \in Noise, Vision!Add(byte) PROVE Vision!Hit /\ LineIsRest'
  BY <1>6, <1>9 DEF Vision!Add
<1>10. Vision!Lose => Vision!Hit
  BY DEF Vision!Lose
<1> QED
  BY <1>2, <1>3, <1>4, <1>7, <1>8, <1>9, <1>10 DEF Vision!Next

\* Every step of the camera link keeps the bound of the frames missed.
LEMMA VisionCatches ==
  ASSUME Vision!KnownFrames, Vision!PlainFrames, VisionInv, VisionInv', LineIsRest, CatchInv,
         [Vision!Next]_visionVars
  PROVE  CatchInv'
<1>1. LineIsBytes /\ spared \in 0 .. Spacing + 1 /\ Spacing \in Nat
  BY VisionAssumption DEF VisionInv, Vision!TypeOK
<1>2. CASE UNCHANGED visionVars \/ Vision!TestFresh \/ Vision!ClearFresh \/ Vision!CopyTarget
  <2>1. UNCHANGED <<Vision!parserVars, Vision!cameraVars>>
    BY <1>2 DEF visionVars, Vision!TestFresh, Vision!ClearFresh, Vision!CopyTarget,
         Vision!parserVars, Vision!cameraVars
  <2> QED
    BY <2>1, ReaderStays
<1>3. ASSUME NEW g \in Frames, Vision!Begin(g) PROVE CatchInv'
  BY <1>1, <1>3, BeginStays
\* A byte is lost or altered, or the frame was disturbed before.
<1>e. (VisionInv /\ EndsClean /\ out = <<>> /\ missed = 0 => CatchesUp)'
  BY CaughtAtEnd, PTL
<1>4. ASSUME missed' = 0, spared' = Spacing + 1, EndsClean' PROVE CatchInv'
  <2>1. CASE out' = <<>>
    <3>1. CatchesUp'
      BY <1>e, <1>4, <2>1
    <3> QED
      BY <1>4, <3>1 DEF CatchInv
  <2>2. CASE out' # <<>>
    BY <1>1, <1>4, <2>2 DEF CatchInv
  <2> QED
    BY <2>1, <2>2
<1>5. CASE Vision!Arrive
  <2>1. /\ out # <<>> /\ Vision!OnRxByte(Head(out)) /\ out' = Tail(out) /\ sending' = sending
        /\ spared' = spared /\ Vision!Account(out', spared <= Spacing)
    BY <1>5 DEF Vision!Arrive
  <2>2. EndsClean'
    BY <1>1, <2>1, EndsCleanKept DEF CatchInv
  <2>3. CASE spared <= Spacing
    <3>1. missed' = IF out' # <<>> THEN missed ELSE IF event' = "none" THEN missed + 1 ELSE 0
      BY <2>1, <2>3 DEF Vision!Account
    <3>2. CatchesUp /\ missed \in Nat
      BY <2>3 DEF CatchInv
    <3>3. CatchesUp'
      BY <2>1, <3>1, <3>2, ByteCatches
    <3> QED
      BY <1>1, <2>1, <2>2, <2>3, <3>1, <3>2, <3>3 DEF CatchInv
  <2>4. CASE ~(spared <= Spacing)
    <3>1. missed' = 0 /\ spared' = Spacing + 1
      BY <1>1, <2>1, <2>4 DEF Vision!Account
    <3> QED
      BY <1>4, <2>2, <3>1
  <2> QED
    BY <2>3, <2>4
<1>6. CASE Vision!Lose
  <2>1. /\ out # <<>> /\ out' = Tail(out) /\ sending' = sending /\ UNCHANGED state
        /\ spared = 0 /\ spared' = Spacing + 1 /\ missed' = 0
    BY <1>6 DEF Vision!Lose, Vision!Hit, Vision!parserVars
  <2>2. EndsClean'
    BY <1>1, <2>1, EndsCleanKept DEF CatchInv
  <2> QED
    BY <1>4, <2>1, <2>2
<1>7. ASSUME NEW byte \in Noise, Vision!Alter(byte) PROVE CatchInv'
  <2>1. /\ out # <<>> /\ out' = Tail(out) /\ sending' = sending /\ Vision!OnRxByte(byte)
        /\ spared = 0 /\ spared' = Spacing + 1 /\ missed' = 0
    BY <1>7 DEF Vision!Alter, Vision!Hit
  <2>2. EndsClean'
    BY <1>1, <2>1, EndsCleanKept DEF CatchInv
  <2> QED
    BY <1>4, <2>1, <2>2
<1>8. ASSUME NEW byte \in Noise, Vision!Add(byte) PROVE CatchInv'
  <2>1. out # <<>> /\ out' = out /\ spared' = Spacing + 1 /\ missed' = 0
    BY <1>8 DEF Vision!Add, Vision!Hit
  <2>2. EndsClean'
    BY <2>1 DEF EndsClean
  <2> QED
    BY <1>4, <2>1, <2>2
<1> QED
  BY <1>2, <1>3, <1>5, <1>6, <1>7, <1>8 DEF Vision!Next

\* The bound follows.
LEMMA CatchBound ==
  Vision!KnownFrames /\ VisionInv /\ LineIsRest /\ CatchInv => Resynchronises
<1> SUFFICES ASSUME Vision!KnownFrames, VisionInv, LineIsRest, CatchInv
             PROVE  missed <= Vision!ResyncBound
  BY DEF Resynchronises, Vision!Resynchronises
<1>1. /\ Vision!ResyncBound \in Nat /\ missed \in Nat /\ MaxPayload \in Nat
      /\ spared \in 0 .. Spacing + 1 /\ Spacing \in Nat
  BY MissedBound, VisionAssumption DEF CatchInv, VisionInv, Vision!TypeOK
<1>2. ASSUME 8 * missed < MaxPayload + 4 PROVE missed <= Vision!ResyncBound
  BY <1>1, <1>2, MissedBound
<1>3. Vision!Sent \in Nat
  <2>1. CASE out = <<>>
    BY <2>1 DEF Vision!Sent
  <2>2. CASE out # <<>>
    <3>1. Len(out) \in Nat /\ Len(out) <= Len(Vision!Bytes(sending))
      BY <2>2, LenProperties DEF LineIsRest, VisionInv, LineIsBytes
    <3>2. IsFrame(Vision!Bytes(sending), sending, Len(sending.data))
      BY BytesForm DEF LineIsRest
    <3>3. Vision!Sent = Len(sending.data) + 7 - Len(out)
      BY <2>2 DEF Vision!Sent
    <3> QED
      BY <1>1, <3>1, <3>2, <3>3 DEF IsFrame
  <2> QED
    BY <2>1, <2>2
<1>4. CASE InFrame /\ 8 * missed + Vision!Sent + Left <= MaxPayload + 4
  <2>1. Left \in Nat /\ Left >= 1
    BY <1>4, LeftRange
  <2> QED
    BY <1>1, <1>2, <1>3, <1>4, <2>1
<1>5. CASE spared = Spacing + 1
  BY <1>1, <1>5 DEF CatchInv
<1>6. CASE spared <= Spacing
  <2>1. CatchesUp
    BY <1>6 DEF CatchInv
  <2> QED
    BY <1>1, <1>2, <1>4, <2>1 DEF CatchesUp
<1> QED
  BY <1>1, <1>5, <1>6

-----------------------------------------------------------------------------
\* As long as the camera sends frames that the parser knows, a parser in step
\* with it takes every frame for what it is: Dev_Vision_OnRxByte of dev_vision.c,
\* with frames of any payload, sync bytes included, and after any disturbance.
THEOREM SerialStaysInStep ==
  ASSUME Vision!KnownFrames
  PROVE  SerialSpec => StaysInStep
<1>1. SerialInit => LineIsRest
  BY CatchInit DEF SerialInit
<1>2. VisionInv /\ LineIsRest /\ [SerialNext]_serialVars => LineIsRest'
  <2> SUFFICES ASSUME VisionInv, LineIsRest, [SerialNext]_serialVars PROVE LineIsRest'
    OBVIOUS
  <2>1. [Vision!Next]_visionVars
    BY DEF SerialNext, serialVars
  <2> QED
    BY <2>1, VisionStays
<1>3. /\ VisionInv /\ LineIsRest /\ [SerialNext]_serialVars
      => [Vision!InStep /\ ~Vision!Hit =>
            Vision!InStep' /\ (out # <<>> /\ out' = <<>> => Vision!Taken)]_Vision!visionVars
  <2> SUFFICES ASSUME VisionInv, LineIsRest, [SerialNext]_serialVars
               PROVE  Vision!InStep /\ ~Vision!Hit =>
                        Vision!InStep' /\ (out # <<>> /\ out' = <<>> => Vision!Taken)
    OBVIOUS
  <2>1. [Vision!Next]_visionVars
    BY DEF SerialNext, serialVars
  <2> QED
    BY <2>1, VisionStays
<1>4. SerialInv => VisionInv
  BY DEF SerialInv
<1> QED
  BY <1>1, <1>2, <1>3, <1>4, SerialInvariant, PTL DEF SerialSpec, StaysInStep, Vision!StaysInStep

\* When no frame has a header inside, at most ResyncBound frames in a row that the
\* line has left alone are missed: Dev_Vision_OnRxByte of dev_vision.c, with any
\* longest payload and any number of whole frames between two disturbed ones.
THEOREM SerialResynchronises ==
  ASSUME Vision!KnownFrames, Vision!PlainFrames
  PROVE  SerialSpec => []Resynchronises
<1> DEFINE Inv == SerialInv /\ LineIsRest /\ CatchInv
<1>1. SerialInit => Inv
  BY SerialStarts, CatchInit DEF SerialInit
<1>2. Inv /\ [SerialNext]_serialVars => Inv'
  <2> SUFFICES ASSUME Inv, [SerialNext]_serialVars PROVE Inv'
    OBVIOUS
  <2>1. [Vision!Next]_visionVars
    BY DEF SerialNext, serialVars
  <2>2. SerialInv' /\ VisionInv /\ VisionInv'
    BY SerialStep DEF SerialInv
  <2>3. LineIsRest'
    BY <2>1, <2>2, VisionStays
  <2>4. CatchInv'
    BY <2>1, <2>2, VisionCatches
  <2> QED
    BY <2>2, <2>3, <2>4
<1>3. Inv => Resynchronises
  BY CatchBound DEF SerialInv
<1> QED
  BY <1>1, <1>2, <1>3, PTL DEF SerialSpec
=============================================================================
