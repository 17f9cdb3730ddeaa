---------------------------- MODULE SerialLinks ----------------------------
(***************************************************************************)
(* The five byte links of the car, which share nothing, each by itself:    *)
(* which one a behaviour is about is chosen at the beginning.              *)
(*   spi      register accesses of the IMU            SpiBus               *)
(*   vision   frames of the camera                    VisionParser         *)
(*   command  command lines of an operator            CommandLine          *)
(*   report   the periodic reports                    ReportStream         *)
(*   log      a message on its way out                LogOutput            *)
(***************************************************************************)
EXTENDS SpiBus

CONSTANTS
  MaxPayload, TargetLen, Frames, Noise, Spacing,     (* VisionParser        *)
  CmdBufLen, RxBytes, MaxLine, MaxRate,              (* CommandLine         *)
  Wrap, Periods, TaskWindow,                         (* ReportStream        *)
  RingSize, MsgLens, FifoDepth                       (* LogOutput           *)

VARIABLES
  link,       \* the link this behaviour is about
  state, payload, frameLen, frameType, crcCalc, target, fresh, event, reader,
  copy, out, sending, spared, missed,
  cmdBuf, asked, config, reply, line,
  now, settings, step, ts, lastEmit, primed, since, quiet,
  ring, wrOff, rdOff, at, msg, wr, nth, txFifo, lastRead, nested, garbled

Vision == INSTANCE VisionParser
Command == INSTANCE CommandLine
Report == INSTANCE ReportStream
Log == INSTANCE LogOutput

\* What comes over the line are bytes, and a length is one.
ASSUME VisionAssumption ==
  /\ MaxPayload \in 0 .. 31 /\ TargetLen \in Nat \ {0}
  /\ Frames # {} /\ \A f \in Frames : Vision!Bytes(f) \in Seq(0 .. 31)
  /\ Noise \subseteq 0 .. 31 /\ Spacing \in Nat

ASSUME CommandAssumption == CmdBufLen \in Nat \ {0} /\ MaxRate \in Nat \ {0}

ASSUME ReportAssumption ==
  /\ Wrap \in Nat \ {0, 1} /\ TaskWindow \in Nat
  /\ Periods \subseteq Nat \ {0} /\ Report!MaxPeriod \in Periods
  /\ \A p \in Periods : p <= Report!MaxPeriod
  \* 500 reports a second to one: a report is late long before the clock wraps.
  /\ Report!MaxPeriod + 2 * TaskWindow <= Wrap

ASSUME LogAssumption ==
  /\ RingSize \in Nat \ {0}
  /\ MsgLens # {} /\ MsgLens \subseteq Nat \ {0}
  /\ FifoDepth \in Nat /\ FifoDepth >= 2

visionVars == <<state, payload, frameLen, frameType, crcCalc, target, fresh, event,
                reader, copy, out, sending, spared, missed>>
cmdVars == <<cmdBuf, asked, config, reply, line>>
reportVars == <<now, settings, step, ts, lastEmit, primed, since, quiet>>
logVars == <<ring, wrOff, rdOff, at, msg, wr, nth, txFifo, lastRead, nested, garbled>>
serialVars == <<link, spiVars, visionVars, cmdVars,
                reportVars, logVars>>

AllTypeOK == TypeOK /\ Vision!TypeOK /\ Command!TypeOK /\ Report!TypeOK /\ Log!TypeOK

SerialInit ==
  /\ link \in {"spi", "vision", "command", "report", "log"}
  /\ Init /\ Vision!Init /\ Command!Init /\ Report!Init /\ Log!Init
  \* What the other links start from does not matter: one state for each.
  /\ link # "vision" => sending = CHOOSE f \in Frames : TRUE
  /\ link # "report" => now = 0 /\ settings.period = Report!MaxPeriod

SerialNext ==
  /\ UNCHANGED link
  /\ \/ /\ link = "spi" /\ Next
        /\ UNCHANGED <<visionVars, cmdVars, reportVars, logVars>>
     \/ /\ link = "vision" /\ Vision!Next
        /\ UNCHANGED <<spiVars, cmdVars, reportVars, logVars>>
     \/ /\ link = "command" /\ Command!Next
        /\ UNCHANGED <<spiVars, visionVars, reportVars, logVars>>
     \/ /\ link = "report" /\ Report!Next
        /\ UNCHANGED <<spiVars, visionVars, cmdVars, logVars>>
     \/ /\ link = "log" /\ Log!Next
        /\ UNCHANGED <<spiVars, visionVars, cmdVars, reportVars>>

SerialSpec == SerialInit /\ [][SerialNext]_serialVars /\ Fairness

TargetWasSent == Vision!TargetWasSent
Resynchronises == Vision!Resynchronises
StaysInStep == Vision!StaysInStep
QuietMeansCurrent == Vision!QuietMeansCurrent
LineIsTail == Command!LineIsTail
StreamIsAlive == Report!StreamIsAlive
MessagesWhole == Log!MessagesWhole
TxFits == Log!TxFits

=============================================================================
