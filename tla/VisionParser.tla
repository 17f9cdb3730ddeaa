---------------------------- MODULE VisionParser ----------------------------
(***************************************************************************)
(* The link from the K230 camera, modules/vision/dev_vision.c: frames       *)
(*                                                                         *)
(*   AA 55 length type payload xor CR LF                                   *)
(*                                                                         *)
(* taken byte by byte in the UART interrupt, and the last target, which a  *)
(* task tests for and copies while bytes keep coming.  The line may lose,  *)
(* add or alter one byte of a frame, and then leaves some frames alone.    *)
(*                                                                         *)
(* Bytes have five bits here; the marks of a frame are different from each *)
(* other.  Like in the code, AA 55 are no possible lengths, and neither is *)
(* the checksum of the four marks (F8 there).                              *)
(***************************************************************************)
EXTENDS Integers, Sequences

CONSTANTS
  MaxPayload,       (* DEV_VISION_MAX_PAYLOAD.                              *)
  TargetLen,        (* The 7 bytes a target takes of a payload.             *)
  Frames,           (* What the camera sends: records [type, data].         *)
  Noise,            (* What a byte added or altered on the line can be.     *)
  Spacing           (* Frames that arrive whole between two disturbed ones. *)

VARIABLES
  state,      \* vision->state
  payload,    \* vision->payload up to vision->index
  frameLen,   \* vision->len
  frameType,  \* vision->frame_type
  crcCalc,    \* vision->crc_calc
  target,     \* vision->target
  fresh,      \* vision->fresh_target
  event,      \* the type of the event of the last byte
  reader,     \* where the task that uses the targets is
  copy,       \* the target it has copied
  out,        \* the bytes of the current frame that are still to be sent
  sending,    \* the frame the camera sends
  spared,     \* frames, with this one, that the line leaves alone; more than
              \* Spacing: a byte of this one was lost, added or altered
  missed      \* (ghost) frames in a row that arrived whole and were ignored

parserVars == <<state, payload, frameLen, frameType, crcCalc>>
targetVars == <<target, fresh, event>>
readerVars == <<reader, copy>>
cameraVars == <<out, sending, spared, missed>>
visionVars == <<parserVars, targetVars, readerVars, cameraVars>>

SYNC1 == 21
SYNC2 == 14
CR == 13
LF == 15
TARGET == 1
COMMAND == 2

Bit(x, w) == (x \div w) % 2
Xor(x, y) == LET d(w) == ((Bit(x, w) + Bit(y, w)) % 2) * w
             IN  d(1) + d(2) + d(4) + d(8) + d(16)

\* The checksum of a frame up to byte i of its payload.
Checksum(f) ==
  LET sum[i \in 0 .. Len(f.data)] ==
        IF i = 0 THEN Xor(Len(f.data), f.type) ELSE Xor(sum[i - 1], f.data[i])
  IN  sum

\* What the camera puts on the line for a frame.
Bytes(f) ==
  <<SYNC1, SYNC2, Len(f.data), f.type>> \o f.data
  \o <<Checksum(f)[Len(f.data)], CR, LF>>

NoTarget == [i \in 1 .. TargetLen |-> 0]
Targets == {SubSeq(f.data, 1, TargetLen) :
              f \in {g \in Frames : g.type = TARGET /\ Len(g.data) >= TargetLen}}

TypeOK ==
  /\ state \in {"SYNC1", "SYNC2", "LEN", "TYPE", "DATA", "CRC", "CR", "LF"}
  /\ payload \in Seq(0 .. 31) /\ Len(payload) <= MaxPayload
  /\ frameLen \in 0 .. MaxPayload
  /\ {frameType, crcCalc} \subseteq 0 .. 31
  /\ fresh \in BOOLEAN
  /\ event \in {"none", "target", "command"}
  /\ reader \in 0 .. TargetLen + 2
  /\ spared \in 0 .. Spacing + 1

\* Dev_Vision_Init, and a camera that has just been switched on.
Init ==
  /\ state = "SYNC1" /\ payload = <<>> /\ frameLen = 0 /\ frameType = 0 /\ crcCalc = 0
  /\ target = NoTarget /\ fresh = FALSE /\ event = "none"
  /\ reader = 0 /\ copy = NoTarget
  /\ out = <<>> /\ sending \in Frames /\ spared = 0 /\ missed = 0

-----------------------------------------------------------------------------
(* Dev_Vision_OnRxByte, in the interrupt.                                  *)

\* What dispatch_frame makes of the frame in the parser.
EventOf ==
  IF frameType = TARGET /\ frameLen >= TargetLen THEN "target"
  ELSE IF frameType = COMMAND /\ frameLen >= 1 THEN "command" ELSE "none"

\* dispatch_frame
DispatchFrame ==
  /\ event' = EventOf
  /\ IF EventOf = "target"
       THEN target' = SubSeq(payload, 1, TargetLen) /\ fresh' = TRUE
       ELSE UNCHANGED <<target, fresh>>

\* A byte that is not what the state waits for is thrown away and the parser
\* waits for a header, even if the byte was the first of one.
Expect(byte, s, next) ==
  /\ state = s
  /\ state' = IF byte = next[1] THEN next[2] ELSE "SYNC1"
  /\ UNCHANGED <<payload, frameLen, frameType, crcCalc>>

LenByte(byte) ==
  /\ state = "LEN"
  /\ IF byte \in 1 .. MaxPayload
       THEN frameLen' = byte /\ crcCalc' = byte /\ state' = "TYPE"
       ELSE state' = "SYNC1" /\ UNCHANGED <<frameLen, crcCalc>>
  /\ UNCHANGED <<frameType, payload>>

\* Mutant: the payload goes on where the last one ended.
TypeByteKeepsIndex(byte) ==
  /\ state = "TYPE" /\ state' = "DATA"
  /\ frameType' = byte /\ crcCalc' = Xor(crcCalc, byte)
  /\ UNCHANGED <<frameLen, payload>>

TypeByte(byte) ==
  /\ state = "TYPE" /\ state' = "DATA"
  /\ frameType' = byte /\ crcCalc' = Xor(crcCalc, byte) /\ payload' = <<>>
  /\ UNCHANGED frameLen

DataByte(byte) ==
  /\ state = "DATA"
  /\ payload' = Append(payload, byte) /\ crcCalc' = Xor(crcCalc, byte)
  /\ state' = IF Len(payload) + 1 >= frameLen THEN "CRC" ELSE "DATA"
  /\ UNCHANGED <<frameLen, frameType>>

\* Mutant: the checksum is not compared.
CrcByteIgnored(byte) ==
  /\ state = "CRC" /\ state' = "CR"
  /\ UNCHANGED <<payload, frameLen, frameType, crcCalc>>

CrcByte(byte) == Expect(byte, "CRC", <<crcCalc, "CR">>)

OnRxByte(byte) ==
  /\ \/ state = "SYNC1" /\ UNCHANGED <<payload, frameLen, frameType, crcCalc>>
        /\ state' = IF byte = SYNC1 THEN "SYNC2" ELSE "SYNC1"
     \/ Expect(byte, "SYNC2", <<SYNC2, "LEN">>)
     \/ LenByte(byte) \/ TypeByte(byte) \/ DataByte(byte)
     \/ CrcByte(byte)
     \/ Expect(byte, "CR", <<CR, "LF">>)
     \/ Expect(byte, "LF", <<LF, "SYNC1">>)
  /\ IF state = "LF" /\ byte = LF
       THEN DispatchFrame
       ELSE event' = "none" /\ UNCHANGED <<target, fresh>>
  /\ UNCHANGED readerVars

-----------------------------------------------------------------------------
(* The camera and the line.                                                *)

Begin(f) ==
  /\ out = <<>>
  /\ sending' = f /\ out' = Bytes(f)
  /\ spared' = IF spared = 0 THEN 0 ELSE spared - 1
  /\ UNCHANGED <<parserVars, targetVars, readerVars, missed>>

\* A whole frame has been sent: was it taken?
Account(rest, ok) ==
  missed' = IF ~ok THEN 0
            ELSE IF rest # <<>> THEN missed
            ELSE IF event' = "none" THEN missed + 1 ELSE 0

Arrive ==
  /\ out # <<>> /\ OnRxByte(Head(out))
  /\ out' = Tail(out) /\ UNCHANGED <<sending, spared>>
  /\ Account(out', spared <= Spacing)

\* One byte is disturbed; the next frames will arrive whole.
Hit == spared = 0 /\ spared' = Spacing + 1 /\ missed' = 0

Alter(byte) ==
  /\ out # <<>> /\ Hit /\ byte # Head(out) /\ OnRxByte(byte)
  /\ out' = Tail(out) /\ UNCHANGED sending

Lose ==
  /\ out # <<>> /\ Hit
  /\ out' = Tail(out)
  /\ UNCHANGED <<parserVars, targetVars, readerVars, sending>>

Add(byte) ==
  /\ out # <<>> /\ Hit /\ OnRxByte(byte)
  /\ UNCHANGED <<out, sending>>

-----------------------------------------------------------------------------
(* The task that uses the targets.                                         *)

\* Mutant: the flag is read, and cleared whatever it was.
TestAlways ==
  /\ reader = 0
  /\ reader' = IF fresh THEN 1 ELSE TargetLen + 2
  /\ UNCHANGED <<copy, parserVars, targetVars, cameraVars>>

\* The two halves of Dev_Vision_HasFreshTarget.
TestFresh ==
  /\ reader = 0 /\ fresh /\ reader' = 1
  /\ UNCHANGED <<copy, parserVars, targetVars, cameraVars>>

ClearFresh ==
  /\ reader \in {1, TargetLen + 2}
  /\ fresh' = FALSE /\ reader' = IF reader = 1 THEN 2 ELSE 0
  /\ UNCHANGED <<target, event, copy, parserVars, cameraVars>>

\* Dev_Vision_GetTarget copies the structure piece by piece.
CopyTarget ==
  /\ reader \in 2 .. TargetLen + 1
  /\ copy' = [copy EXCEPT ![reader - 1] = target[reader - 1]]
  /\ reader' = IF reader = TargetLen + 1 THEN 0 ELSE reader + 1
  /\ UNCHANGED <<parserVars, targetVars, cameraVars>>

Next ==
  \/ \E f \in Frames : Begin(f)
  \/ Arrive \/ Lose
  \/ \E b \in Noise : Alter(b) \/ Add(b)
  \/ TestFresh \/ ClearFresh \/ CopyTarget

Spec == Init /\ [][Next]_visionVars

-----------------------------------------------------------------------------
(* Properties.                                                             *)

\* With one byte of a frame lost, added or altered and the next Spacing frames
\* whole, no target is ever announced that the camera did not send: neither a
\* wrong one, nor one put together of two frames.  (With Spacing = 0 it is: a
\* byte too many makes the length of a command the type of a target, and when
\* the checksum of the next frame is lost a byte of its payload may fit.)
TargetWasSent == target \in Targets \cup {NoTarget}

\* The bytes of the current frame that are off the line.
Sent == IF out = <<>> THEN 0 ELSE Len(sending.data) + 7 - Len(out)

\* The parser has the frame up to byte i of the payload.
Has(i) ==
  /\ frameLen = Len(sending.data) /\ frameType = sending.type
  /\ crcCalc = Checksum(sending)[i] /\ payload = SubSeq(sending.data, 1, i)

\* The parser waits for the byte that is sent next, and has the frame so far.
InStep ==
  LET n == Len(sending.data)
  IN  \/ Sent = 0 /\ state = "SYNC1"
      \/ Sent = 1 /\ state = "SYNC2"
      \/ Sent = 2 /\ state = "LEN"
      \/ Sent = 3 /\ state = "TYPE" /\ frameLen = n /\ crcCalc = n
      \/ Sent \in 4 .. n + 3 /\ state = "DATA" /\ Has(Sent - 4)
      \/ Sent = n + 4 /\ state = "CRC" /\ Has(n)
      \/ Sent = n + 5 /\ state = "CR" /\ Has(n)
      \/ Sent = n + 6 /\ state = "LF" /\ Has(n)

\* The parser has announced the frame, and handed over the target that it was.
Taken ==
  LET f == sending
  IN  IF f.type = TARGET
        THEN event' = "target" /\ fresh' /\ target' = SubSeq(f.data, 1, TargetLen)
        ELSE event' = "command" /\ UNCHANGED target

\* Frames that the parser knows, and ones without a header inside.
KnownFrames ==
  \A f \in Frames :
    /\ f.data \in Seq(0 .. 31) /\ Len(f.data) \in 1 .. MaxPayload
    /\ \/ f.type = TARGET /\ Len(f.data) >= TargetLen
       \/ f.type = COMMAND
PlainFrames ==
  \A f \in Frames : \A i \in 2 .. Len(Bytes(f)) - 1 :
    ~(Bytes(f)[i] = SYNC1 /\ Bytes(f)[i + 1] = SYNC2)

\* Once in step the parser stays in step until the line disturbs a frame again,
\* whatever it went through before: it takes every frame, and takes it for
\* what it is.
StaysInStep ==
  [][InStep /\ ~Hit => InStep' /\ (out # <<>> /\ out' = <<>> => Taken)]_visionVars

\* After a disturbance the parser is in step again when the frames it has
\* swallowed are over: a length byte taken for the largest makes it take
\* MaxPayload + 4 bytes more at most, and a frame of which it swallows only the
\* header is missed as well.
ShortestFrame == 8
ResyncBound == ((MaxPayload + 3) \div ShortestFrame) + 1
Resynchronises == missed <= ResyncBound

\* A task that sees no fresh target has the last one, whole, although the
\* interrupt may have replaced it in the middle of a copy.
QuietMeansCurrent == (reader = 0 /\ ~fresh) => copy = target

=============================================================================
