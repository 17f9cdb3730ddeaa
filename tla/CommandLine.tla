---------------------------- MODULE CommandLine ----------------------------
(***************************************************************************)
(* The parser of command lines, Telemetry_OnRxByte and handle_line in      *)
(* modules/telemetry/telemetry.c, which runs in the UART interrupt: bytes  *)
(* in, requests and settings out.  AppControl, YawCalibration and          *)
(* ReportStream start from what comes out here.                            *)
(*                                                                         *)
(* A keyword ($STOP, $RATE, ...) is one byte here, and so is a number;     *)
(* every other byte that means nothing stands for any text.                *)
(***************************************************************************)
EXTENDS Integers, Sequences, TLC

CONSTANTS
  CmdBufLen,        (* CMD_BUF_LEN.                                         *)
  RxBytes,          (* What comes over the line.                            *)
  MaxLine,          (* Bound: an operator ends a line after so many bytes.  *)
  MaxRate           (* The highest report rate; a second has twice as many  *)
                    (* ticks.                                               *)

VARIABLES
  cmdBuf,     \* s_cmd_buf up to s_cmd_idx
  asked,      \* the request that the last byte has raised
  config,     \* s_period_ms, s_enabled, s_raw_line_enabled, s_raw_imu_enabled
  reply,      \* what the last byte has printed
  line        \* (ghost) the bytes of the line since the last end of line

cmdVars == <<cmdBuf, asked, config, reply, line>>

TypeOK ==
  /\ cmdBuf \in Seq(RxBytes) /\ Len(cmdBuf) < CmdBufLen
  /\ asked \in {"none", "start", "stop", "duty", "calibrate", "cancel"}
  /\ config \in [period : 2 .. 2 * MaxRate,
                enabled : BOOLEAN, line : BOOLEAN, imu : BOOLEAN]
  /\ reply \in {"none", "ok", "error", "config"}
  /\ line \in Seq(RxBytes)

Init ==
  /\ cmdBuf = <<>> /\ line = <<>> /\ asked = "none" /\ reply = "none"
  /\ config = [period |-> 2, enabled |-> TRUE, line |-> FALSE, imu |-> FALSE]

-----------------------------------------------------------------------------
(* handle_line.                                                            *)

\* The line as the string functions see it: up to the first zero byte.
Text(buf) ==
  LET end == CHOOSE n \in 1 .. Len(buf) + 1 :
               /\ n = Len(buf) + 1 \/ buf[n] = "nul"
               /\ \A m \in 1 .. n - 1 : buf[m] # "nul"
  IN  SubSeq(buf, 1, end - 1)

\* strncmp with the keyword alone, and atoi of what follows.
Starts(text, keyword) == text # <<>> /\ text[1] = keyword
Number == ("1" :> 1) @@ ("2" :> 2) @@ ("3" :> 3)
Argument(text) ==
  IF Len(text) > 1 /\ text[2] \in DOMAIN Number THEN Number[text[2]] ELSE 0

Request(r) == asked' = r /\ reply' = "ok" /\ UNCHANGED config
Configure(c) == config' = c /\ reply' = "ok" /\ asked' = "none"
Silent == asked' = "none" /\ reply' = "none" /\ UNCHANGED config
Complain == reply' = "error" /\ UNCHANGED config /\ asked' = "none"

\* hz >= 1 && hz <= 500
SetRate(hz) ==
  IF hz \in 1 .. MaxRate
    THEN Configure([config EXCEPT !.period = (2 * MaxRate) \div hz])
    ELSE Complain

\* handle_duty: two fields at least.
HandleDuty(text) == IF Len(text) >= 3 THEN Request("duty") ELSE Complain

HandleLine(text) ==
  CASE text \in {<<"$START">>, <<"$RUN">>} -> Request("start")
    [] text = <<"$STOP">> -> Request("stop")
    [] text = <<"$IMUCAL,START">> -> Request("calibrate")
    [] text = <<"$IMUCAL,CANCEL">> -> Request("cancel")
    [] text = <<"$PAUSE">> -> Configure([config EXCEPT !.enabled = FALSE])
    [] text = <<"$RESUME">> -> Configure([config EXCEPT !.enabled = TRUE])
    [] Starts(text, "$RATE,") -> SetRate(Argument(text))
    [] Starts(text, "$RAWLINE,") ->
         Configure([config EXCEPT !.line = Argument(text) # 0])
    [] Starts(text, "$RAWIMU,") ->
         Configure([config EXCEPT !.imu = Argument(text) # 0])
    [] Starts(text, "$DUTY,") -> HandleDuty(text)
    [] text = <<"$DUMP">> -> reply' = "config" /\ asked' = "none" /\ UNCHANGED config
    [] text = <<>> -> Silent
    [] OTHER -> Complain

-----------------------------------------------------------------------------
(* Telemetry_OnRxByte.                                                     *)

\* The one-letter commands are taken wherever they come, also in a line.
Letter(byte) ==
  /\ byte \in {"s", "x"}
  /\ asked' = IF byte = "s" THEN "start" ELSE "stop"
  /\ reply' = "none"
  /\ UNCHANGED <<cmdBuf, config, line>>

EndOfLine(byte) ==
  /\ byte = "lf"
  /\ HandleLine(Text(cmdBuf))
  /\ cmdBuf' = <<>> /\ line' = <<>>

CarriageReturn(byte) ==
  /\ byte = "cr"
  /\ UNCHANGED <<cmdBuf, line>> /\ Silent

\* Mutants: the byte that does not fit starts the new buffer, or the buffer
\* is filled to its last place.
StoreOverflow(byte) ==
  /\ byte \notin {"s", "x", "lf", "cr"}
  /\ cmdBuf' = IF Len(cmdBuf) < CmdBufLen - 1 THEN Append(cmdBuf, byte) ELSE <<byte>>
  /\ line' = Append(line, byte) /\ Silent
StoreFull(byte) ==
  /\ byte \notin {"s", "x", "lf", "cr"}
  /\ cmdBuf' = IF Len(cmdBuf) < CmdBufLen THEN Append(cmdBuf, byte) ELSE <<>>
  /\ line' = Append(line, byte) /\ Silent

\* A byte that does not fit empties the buffer and is dropped itself.
Store(byte) ==
  /\ byte \notin {"s", "x", "lf", "cr"}
  /\ cmdBuf' = IF Len(cmdBuf) < CmdBufLen - 1 THEN Append(cmdBuf, byte) ELSE <<>>
  /\ line' = Append(line, byte) /\ Silent

OnRxByte(byte) ==
  Letter(byte) \/ EndOfLine(byte) \/ CarriageReturn(byte) \/ Store(byte)

Next == \E byte \in RxBytes :
          /\ byte \in {"s", "x", "lf", "cr"} \/ Len(line) < MaxLine
          /\ OnRxByte(byte)

Spec == Init /\ [][Next]_cmdVars

-----------------------------------------------------------------------------
(* Properties.                                                             *)

\* README.md lists the commands, one to a line.  A line that fits is taken as
\* it is.  Of a longer one, and of those only, the last n % CMD_BUF_LEN bytes
\* are taken for the command, n being its length: what was sent as the end of
\* a long line can be a command of its own.
LineIsTail ==
  LET n == Len(line)
      k == n % CmdBufLen
  IN  cmdBuf = SubSeq(line, n - k + 1, n)

=============================================================================
