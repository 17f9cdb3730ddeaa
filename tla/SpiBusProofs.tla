---------------------------- MODULE SpiBusProofs ----------------------------
(***************************************************************************)
(* Theorems about the SPI transport: an access hands out the bytes of this *)
(* access or an error, for every set of lengths and however many accesses  *)
(* before it were given up with bytes on their way.                        *)
(*                                                                         *)
(* The argument: Start lets an access begin only when the controller is at *)
(* rest, so that nothing is on the wire, and Drain goes on until nothing   *)
(* is in the receive FIFO either.  From then on there is one byte in the   *)
(* controller while the driver waits for it, and none otherwise; the data  *)
(* collected are the bytes 1, 2, ... up to the last one received.          *)
(***************************************************************************)
EXTENDS SpiBus, TLAPS

\* The bytes that an access has received after k of them.
Prefix(k) == [i \in 1 .. k |-> i]

\* What the caller has of them.
Collected(k) == data = IF op = "read" THEN Prefix(k) ELSE <<>>

\* Where the bytes of an access are.
Quiet == wire = <<>> /\ fifo = <<>>

SpiInv ==
  /\ spiPc \in {"idle", "start", "drain", "send", "receive", "finish"}
  /\ op \in {"read", "write"} /\ len \in Nat /\ sent \in Nat
  /\ data \in Seq(Byte) /\ wire \in Seq(Byte) /\ fifo \in Seq(Byte)
  /\ busy \in BOOLEAN
  /\ outcome \in [ok : BOOLEAN, data : Seq(Byte)]
  /\ wire # <<>> => busy
  /\ cs = IF spiPc \in {"idle", "start", "drain"} THEN "high" ELSE "low"
  /\ spiPc \in {"start", "drain"} => sent = 0 /\ data = <<>>
  /\ spiPc = "drain" => wire = <<>> /\ ~busy
  /\ spiPc = "send" => /\ Quiet /\ sent <= len
                       /\ Collected(IF sent = 0 THEN 0 ELSE sent - 1)
  /\ spiPc = "receive" => /\ sent \in 1 .. len + 1
                          /\ \/ wire = <<sent - 1>> /\ fifo = <<>>
                             \/ wire = <<>> /\ fifo = <<sent - 1>>
                          /\ Collected(IF sent = 1 THEN 0 ELSE sent - 2)
  /\ spiPc = "finish" => Quiet /\ Collected(len)

-----------------------------------------------------------------------------

\* The next byte extends a prefix.
LEMMA PrefixGrows ==
  ASSUME NEW k \in Nat
  PROVE  /\ Prefix(k) \in Seq(Byte)
         /\ Append(Prefix(k), k + 1) = Prefix(k + 1)
         /\ Prefix(0) = <<>>
<1>1. Prefix(k) \in Seq(Byte)
  BY DEF Prefix, Byte
<1>2. Len(Prefix(k)) = k
  BY DEF Prefix
<1>3. Append(Prefix(k), k + 1) = Prefix(k + 1)
  BY <1>1, <1>2 DEF Prefix
<1>4. Prefix(0) = <<>>
  BY DEF Prefix
<1> QED
  BY <1>1, <1>3, <1>4

\* Aged bytes are bytes.
LEMMA AgedBytes == ASSUME NEW s \in Seq(Byte) PROVE Aged(s) \in Seq(Byte)
BY DEF Aged, Byte, Stale

-----------------------------------------------------------------------------
(* The invariant.                                                          *)

\* An access that has failed hands out no data.
LEMMA NoDataTyped == Bus!NoData \in [ok : BOOLEAN, data : Seq(Byte)]
BY DEF Bus!NoData

\* The invariant holds at the beginning.
LEMMA SpiInit == Init => SpiInv
<1>1. <<>> \in Seq(Byte) /\ Len(<<>>) = 0
  OBVIOUS
<1> SUFFICES ASSUME Init PROVE SpiInv
  OBVIOUS
<1>2. /\ spiPc = "idle" /\ op = "read" /\ len = 0 /\ sent = 0 /\ data = <<>>
      /\ outcome = Bus!NoData /\ cs = "high" /\ wire = <<>> /\ fifo = <<>>
  BY DEF Init
<1>3. busy \in BOOLEAN /\ (wire # <<>> => busy)
  BY Zenon DEF Init
<1>4. cs = IF spiPc \in {"idle", "start", "drain"} THEN "high" ELSE "low"
  BY <1>2
<1>5. spiPc \notin {"start", "drain", "send", "receive", "finish"}
  BY <1>2
<1> QED
  BY <1>1, <1>2, <1>3, <1>4, <1>5, NoDataTyped DEF SpiInv

\* Every step keeps it.
LEMMA SpiStep == SpiInv /\ [Next]_spiVars => SpiInv'
<1> SUFFICES ASSUME SpiInv, [Next]_spiVars PROVE SpiInv'
  OBVIOUS
<1> USE LengthsAssumption
<1>1. ASSUME NEW o \in {"read", "write"}, NEW n \in Lengths, Call(o, n)
      PROVE  SpiInv'
  <2>1. wire' \in Seq(Byte) /\ fifo' \in Seq(Byte)
    BY <1>1, AgedBytes DEF Call, SpiInv
  <2>2. wire' # <<>> => busy'
    BY <1>1 DEF Call, SpiInv, Aged
  <2> QED
    BY <1>1, <2>1, <2>2, NoDataTyped DEF Call, SpiInv
<1>2. CASE Refuse
  BY <1>2, NoDataTyped DEF Refuse, SpiInv, wireVars, Quiet, Collected
<1>3. ASSUME NEW ok \in BOOLEAN, Return(ok), UNCHANGED <<wire, busy>>,
             fifo' \in Seq(Byte)
      PROVE  SpiInv'
  BY <1>3, NoDataTyped DEF Return, SpiInv
<1>4. CASE Start
  <2>1. CASE Return(FALSE)
    BY <1>3, <1>4, <2>1 DEF Start, SpiInv, wireVars
  <2>2. CASE ~busy /\ spiPc' = "drain" /\ UNCHANGED <<op, len, sent, data, outcome, cs>>
    BY <1>4, <2>2 DEF Start, SpiInv, wireVars
  <2> QED
    BY <1>4, <2>1, <2>2 DEF Start
<1>5. CASE Drain
  <2>1. CASE fifo # <<>>
    BY <1>5, <2>1 DEF Drain, SpiInv
  <2>2. CASE fifo = <<>>
    BY <1>5, <2>2, PrefixGrows DEF Drain, SpiInv, Quiet, Collected
  <2> QED
    BY <2>1, <2>2
<1>6. CASE Send
  <2>1. wire' = <<(sent + 1) - 1>> /\ fifo' = <<>> /\ wire' \in Seq(Byte)
    BY <1>6 DEF Send, SpiInv, Quiet, Byte
  <2>2. sent' = sent + 1 /\ sent' \in 1 .. len + 1
    BY <1>6 DEF Send, SpiInv
  <2>3. (IF sent' = 1 THEN 0 ELSE sent' - 2) = (IF sent = 0 THEN 0 ELSE sent - 1)
    BY <2>2 DEF SpiInv
  <2>4. Collected(IF sent = 1 THEN 0 ELSE sent - 2)'
    BY <1>6, <2>3 DEF Send, SpiInv, Collected
  <2> QED
    BY <1>6, <2>1, <2>2, <2>4 DEF Send, SpiInv
<1>7. CASE Receive
  <2>1. CASE fifo = <<>> /\ Return(FALSE) /\ UNCHANGED fifo
    BY <1>3, <1>7, <2>1 DEF Receive, SpiInv
  <2>2. CASE fifo # <<>>
    <3>1. wire = <<>> /\ fifo = <<sent - 1>>
      BY <1>7, <2>2 DEF Receive, SpiInv
    <3>2. wire' = <<>> /\ fifo' = <<>> /\ busy' = busy
      BY <1>7, <2>2, <3>1 DEF Receive
    <3>3. /\ UNCHANGED <<op, len, sent, outcome, cs>>
          /\ spiPc' = IF sent = len + 1 THEN "finish" ELSE "send"
          /\ data' = IF op = "read" /\ sent > 1 THEN Append(data, sent - 1) ELSE data
      BY <1>7, <2>2, <3>1 DEF Receive
    <3>4. sent \in 1 .. len + 1
      BY <1>7 DEF Receive, SpiInv
    <3>5. Collected(sent - 1)'
      <4>1. CASE sent = 1
        BY <1>7, <3>3, <4>1 DEF Receive, SpiInv, Collected
      <4>2. CASE sent > 1 /\ op = "read"
        <5>1. data = Prefix(sent - 2)
          BY <1>7, <3>4, <4>2 DEF Receive, SpiInv, Collected
        <5>2. Append(Prefix(sent - 2), sent - 1) = Prefix(sent - 1)
          <6>1. sent - 2 \in Nat /\ (sent - 2) + 1 = sent - 1
            BY <3>4, <4>2 DEF SpiInv
          <6> QED
            BY <6>1, PrefixGrows
        <5> QED
          BY <3>3, <4>2, <5>1, <5>2 DEF Collected
      <4>3. CASE sent > 1 /\ op = "write"
        BY <1>7, <3>3, <3>4, <4>3 DEF Receive, SpiInv, Collected
      <4> QED
        BY <3>4, <4>1, <4>2, <4>3 DEF SpiInv
    <3>6. data' \in Seq(Byte)
      BY <3>3, <3>4 DEF SpiInv, Byte
    <3>7. CASE sent = len + 1
      <4>1. sent - 1 = len
        BY <3>7 DEF SpiInv
      <4>2. Collected(len)'
        BY <3>3, <3>5, <4>1 DEF Collected
      <4> QED
        BY <1>7, <3>2, <3>3, <3>6, <3>7, <4>2 DEF Receive, SpiInv, Quiet
    <3>8. CASE sent # len + 1
      <4>1. sent <= len /\ sent # 0
        BY <3>4, <3>8 DEF SpiInv
      <4>2. Collected(IF sent = 0 THEN 0 ELSE sent - 1)'
        BY <3>3, <3>5, <4>1 DEF Collected
      <4> QED
        BY <1>7, <3>2, <3>3, <3>6, <3>8, <4>1, <4>2 DEF Receive, SpiInv, Quiet
    <3> QED
      BY <3>7, <3>8
  <2> QED
    BY <1>7, <2>1, <2>2 DEF Receive
<1>8. CASE Finish
  BY <1>3, <1>8 DEF Finish, SpiInv, wireVars
<1>9. CASE Exchange
  <2>1. spiPc \in {"idle", "start", "receive"}
    BY <1>9 DEF Exchange, SpiInv, Quiet
  <2>2. wire' \in Seq(Byte) /\ fifo' \in Seq(Byte)
    BY <1>9 DEF Exchange, SpiInv
  <2>3. ASSUME spiPc = "receive" PROVE wire' = <<>> /\ fifo' = <<sent - 1>>
    <3>1. wire # <<>> /\ wire' = Tail(wire) /\ fifo' = Append(fifo, Head(wire))
      BY <1>9 DEF Exchange
    <3>2. wire = <<sent - 1>> /\ fifo = <<>>
      BY <2>3, <3>1 DEF SpiInv
    <3> QED
      BY <3>1, <3>2
  <2>4. /\ UNCHANGED <<spiPc, op, len, sent, data, outcome, cs, busy>>
        /\ wire' # <<>> => busy'
    BY <1>9 DEF Exchange, SpiInv, driverVars
  <2>5. Collected(IF sent = 1 THEN 0 ELSE sent - 2)'
        <=> Collected(IF sent = 1 THEN 0 ELSE sent - 2)
    BY <2>4 DEF Collected
  <2>6. CASE spiPc = "receive"
    <3>1. /\ sent' \in 1 .. len' + 1
          /\ Collected(IF sent = 1 THEN 0 ELSE sent - 2)'
      BY <2>4, <2>5, <2>6 DEF SpiInv
    <3>2. wire' = <<>> /\ fifo' = <<sent' - 1>>
      BY <2>3, <2>4, <2>6
    <3> QED
      BY <2>2, <2>4, <2>6, <3>1, <3>2 DEF SpiInv
  <2>7. CASE spiPc \in {"idle", "start"}
    BY <2>2, <2>4, <2>7 DEF SpiInv
  <2> QED
    BY <2>1, <2>6, <2>7
<1>10. CASE Rest
  BY <1>10 DEF Rest, SpiInv, driverVars, Quiet, Collected
<1>11. CASE UNCHANGED spiVars
  BY <1>11 DEF spiVars, driverVars, wireVars, SpiInv, Quiet, Collected
<1> QED
  BY <1>1, <1>2, <1>4, <1>5, <1>6, <1>7, <1>8, <1>9, <1>10, <1>11
  DEF Next, DriverStep

\* The inductive invariant of the SPI transport.
THEOREM SpiInvariant == Spec => []SpiInv
<1>1. Init => SpiInv
  BY SpiInit
<1>2. SpiInv /\ [Next]_spiVars => SpiInv'
  BY SpiStep
<1> QED
  BY <1>1, <1>2, PTL DEF Spec

\* Types of the SPI transport.
THEOREM SpiTypes == Spec => []TypeOK
<1>1. SpiInv => TypeOK
  BY DEF SpiInv, TypeOK
<1> QED
  BY <1>1, SpiInvariant, PTL

\* The chip is selected for the bytes of its own access only.
LEMMA SpiInvSelected == SpiInv => SelectedForOwnBytes
<1> SUFFICES ASSUME SpiInv PROVE SelectedForOwnBytes
  OBVIOUS
<1>1. spiPc \in {"idle", "start"} => cs = "high"
  BY DEF SpiInv
<1>2. ASSUME cs = "low", NEW i \in DOMAIN wire PROVE wire[i] # Stale
  <2>1. wire = <<>> \/ (wire = <<sent - 1>> /\ sent - 1 \in Nat)
    BY <1>2 DEF SpiInv, Quiet
  <2> QED
    BY <1>2, <2>1 DEF Stale
<1> QED
  BY <1>1, <1>2 DEF SelectedForOwnBytes

THEOREM SpiSelected == Spec => []SelectedForOwnBytes
BY SpiInvSelected, SpiInvariant, PTL

-----------------------------------------------------------------------------
(* The refinement.                                                         *)

\* Every step of the transport is one of the bus, or none.
LEMMA SpiStepIsBusStep == SpiInv /\ [Next]_spiVars => [Bus!Next]_(Bus!busVars)
<1> SUFFICES ASSUME SpiInv, [Next]_spiVars
             PROVE  Bus!Next \/ UNCHANGED Bus!busVars
  OBVIOUS
<1> USE LengthsAssumption
<1>1. ASSUME NEW o \in {"read", "write"}, NEW n \in Lengths, Call(o, n)
      PROVE  Bus!Next
  <2>1. Bus!Call(o, n) /\ n \in Lengths \ {0}
    BY <1>1 DEF Call, Bus!Call
  <2> QED
    BY <2>1 DEF Bus!Next
<1>2. CASE Refuse
  BY <1>2 DEF Refuse, Bus!Next, Bus!Refuse
<1>3. ASSUME NEW ok \in BOOLEAN, Return(ok), spiPc # "idle", ok => Collected(len)
      PROVE  Bus!Next
  <2>1. outcome' \in {Bus!NoData, Bus!Answer(op, len)}
    <3>1. CASE ok
      BY <1>3, <3>1 DEF Return, Collected, Prefix, Bus!Answer
    <3>2. CASE ~ok
      BY <1>3, <3>2 DEF Return
    <3> QED
      BY <3>1, <3>2
  <2>2. op # "idle" /\ spiPc' = "idle" /\ UNCHANGED len
    BY <1>3 DEF Return, SpiInv
  <2>3. Bus!Return
    BY <1>3, <2>1, <2>2 DEF Bus!Return
  <2> QED
    BY <2>3 DEF Bus!Next
<1>4. ASSUME spiPc # "idle", spiPc' # "idle", UNCHANGED <<op, len, outcome>>
      PROVE  UNCHANGED Bus!busVars
  BY <1>4 DEF Bus!busVars
<1>5. CASE Start
  BY <1>3, <1>4, <1>5 DEF Start
<1>6. CASE Drain
  BY <1>4, <1>6 DEF Drain
<1>7. CASE Send
  BY <1>4, <1>7 DEF Send
<1>8. CASE Receive
  BY <1>3, <1>4, <1>8 DEF Receive
<1>9. CASE Finish
  BY <1>3, <1>9 DEF Finish, SpiInv
<1>10. CASE Exchange \/ Rest \/ UNCHANGED spiVars
  BY <1>10 DEF Exchange, Rest, spiVars, driverVars, Bus!busVars
<1> QED
  BY <1>1, <1>2, <1>5, <1>6, <1>7, <1>8, <1>9, <1>10 DEF Next, DriverStep

\* An access of the SPI transport is an access of the bus that the IMU code
\* is written against: it hands out the bytes of this access, or an error,
\* for every set of lengths and whatever was given up before.
THEOREM SpiImplementsBus == Spec => ImplementsBusSafely
<1>1. Init => Bus!Init
  BY DEF Init, Bus!Init
<1>2. SpiInv /\ [Next]_spiVars => [Bus!Next]_(Bus!busVars)
  BY SpiStepIsBusStep
<1> QED
  BY <1>1, <1>2, SpiInvariant, PTL DEF Spec, ImplementsBusSafely, Bus!Spec

=============================================================================
