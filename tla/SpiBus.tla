------------------------------- MODULE SpiBus -------------------------------
(***************************************************************************)
(* The SPI transport of the IMU, platform/mspm0g3507/drivers/drv_spi.c,    *)
(* with the FIFOs of the controller it waits for.                          *)
(*                                                                         *)
(* A register access is one byte for the address and one per byte of data, *)
(* sent and received one at a time, with a bounded wait at every step.  A  *)
(* wait can run out at any moment; the byte it was waiting for is then     *)
(* still on its way and arrives during, or after, a later access.  A byte  *)
(* is its place in the access it was sent in; those of accesses that have  *)
(* ended are Stale.                                                        *)
(***************************************************************************)
EXTENDS Integers, Sequences

CONSTANT
  Lengths           (* The lengths a caller asks for; 0 is refused.         *)

ASSUME LengthsAssumption == Lengths \subseteq Nat

VARIABLES
  spiPc,      \* where the access is
  op,         \* "read" or "write"
  len,        \* the bytes of data it is for
  sent,       \* the bytes transmitted so far, the address included
  data,       \* what has been received for the caller
  outcome,    \* how the last access ended: [ok, data]
  cs,         \* the chip select line
  wire,       \* transmit FIFO and shift register, as a sequence of bytes
  busy,       \* the BUSY flag of the controller
  fifo        \* the receive FIFO

driverVars == <<spiPc, op, len, sent, data, outcome, cs>>
wireVars == <<wire, busy, fifo>>
spiVars == <<driverVars, wireVars>>

Stale == -1
Byte == Nat \cup {Stale}
Aged(s) == [i \in DOMAIN s |-> Stale]

Bus == INSTANCE RegisterBus
         WITH access <- IF spiPc = "idle" THEN "idle" ELSE op, length <- len

TypeOK ==
  /\ spiPc \in {"idle", "start", "drain", "send", "receive", "finish"}
  /\ op \in {"read", "write"}
  /\ len \in Nat /\ sent \in Nat
  /\ data \in Seq(Byte)
  /\ outcome \in [ok : BOOLEAN, data : Seq(Byte)]
  /\ cs \in {"high", "low"}
  /\ wire \in Seq(Byte) /\ fifo \in Seq(Byte)
  /\ busy \in BOOLEAN

\* ICM45688_MSPM0_InitHandleSPI deselects the chip.
Init ==
  /\ spiPc = "idle" /\ op = "read" /\ len = 0 /\ sent = 0 /\ data = <<>>
  /\ outcome = Bus!NoData /\ cs = "high"
  /\ wire = <<>> /\ busy = FALSE /\ fifo = <<>>

-----------------------------------------------------------------------------
(* Drv_Spi_ReadReg8 and Drv_Spi_WriteReg8.                                 *)

\* valid(bus, data, len)
Call(o, n) ==
  /\ spiPc = "idle" /\ n > 0
  /\ spiPc' = "start" /\ op' = o /\ len' = n
  /\ sent' = 0 /\ data' = <<>> /\ outcome' = Bus!NoData
  /\ wire' = Aged(wire) /\ fifo' = Aged(fifo)
  /\ UNCHANGED <<cs, busy>>

Refuse ==
  /\ spiPc = "idle" /\ 0 \in Lengths
  /\ outcome' = Bus!NoData
  /\ UNCHANGED <<spiPc, op, len, sent, data, cs, wireVars>>

\* Mutant: the chip stays selected when a transfer fails.
ReturnSelected(ok) ==
  /\ spiPc' = "idle" /\ cs' = IF ok THEN "high" ELSE cs
  /\ outcome' = IF ok THEN [ok |-> TRUE, data |-> data] ELSE Bus!NoData
  /\ UNCHANGED <<op, len, sent, data>>

\* Drv_Spi_Deselect, and the return of the status.  What a failed read has
\* left in the caller's buffer is not looked at by the callers.
Return(ok) ==
  /\ spiPc' = "idle" /\ cs' = "high"
  /\ outcome' = IF ok THEN [ok |-> TRUE, data |-> data] ELSE Bus!NoData
  /\ UNCHANGED <<op, len, sent, data>>

\* wait_not_busy before the access: the chip is not selected yet.
Start ==
  /\ spiPc = "start"
  /\ \/ ~busy /\ spiPc' = "drain" /\ UNCHANGED <<op, len, sent, data, outcome, cs>>
     \/ busy /\ Return(FALSE)
  /\ UNCHANGED wireVars

NoDrain ==   \* mutant: what is left in the receive FIFO stays there
  /\ spiPc = "drain"
  /\ spiPc' = "send" /\ cs' = "low"
  /\ UNCHANGED <<op, len, sent, data, outcome, wireVars>>

\* drain_rx, one byte at a time, then select.
Drain ==
  /\ spiPc = "drain"
  /\ IF fifo # <<>>
       THEN fifo' = Tail(fifo) /\ UNCHANGED <<spiPc, cs>>
       ELSE spiPc' = "send" /\ cs' = "low" /\ UNCHANGED fifo
  /\ UNCHANGED <<op, len, sent, data, outcome, wire, busy>>

\* The first half of transfer8: room in the transmit FIFO, which is never full
\* with one byte in the controller at most, and the byte.
Send ==
  /\ spiPc = "send"
  /\ wire' = Append(wire, sent) /\ busy' = TRUE
  /\ sent' = sent + 1 /\ spiPc' = "receive"
  /\ UNCHANGED <<op, len, data, outcome, cs, fifo>>

\* Mutant: the wait for a byte has no end.
ReceiveForEver ==
  /\ spiPc = "receive" /\ fifo # <<>>
  /\ fifo' = Tail(fifo)
  /\ data' = IF op = "read" /\ sent > 1 THEN Append(data, Head(fifo)) ELSE data
  /\ spiPc' = IF sent = len + 1 THEN "finish" ELSE "send"
  /\ UNCHANGED <<op, len, sent, outcome, cs, wire, busy>>

\* The second half: the byte that comes back, which a write, and the address
\* byte, throw away.
Receive ==
  /\ spiPc = "receive"
  /\ \/ /\ fifo # <<>>
        /\ fifo' = Tail(fifo)
        /\ data' = IF op = "read" /\ sent > 1 THEN Append(data, Head(fifo)) ELSE data
        /\ spiPc' = IF sent = len + 1 THEN "finish" ELSE "send"
        /\ UNCHANGED <<op, len, sent, outcome, cs>>
     \/ fifo = <<>> /\ Return(FALSE) /\ UNCHANGED fifo
  /\ UNCHANGED <<wire, busy>>

\* wait_not_busy after the last byte.
Finish ==
  /\ spiPc = "finish"
  /\ Return(~busy)
  /\ UNCHANGED wireVars

-----------------------------------------------------------------------------
(* The controller.                                                         *)

\* A byte has been exchanged: the answer enters the receive FIFO.
Exchange ==
  /\ wire # <<>>
  /\ wire' = Tail(wire) /\ fifo' = Append(fifo, Head(wire))
  /\ UNCHANGED <<driverVars, busy>>

\* BUSY is cleared a little after the last bit.
Rest ==
  /\ busy /\ wire = <<>>
  /\ busy' = FALSE
  /\ UNCHANGED <<driverVars, wire, fifo>>

DriverStep == Start \/ Drain \/ Send \/ Receive \/ Finish

Next ==
  \/ \E o \in {"read", "write"}, n \in Lengths : Call(o, n)
  \/ Refuse
  \/ DriverStep
  \/ Exchange \/ Rest

Spec == Init /\ [][Next]_spiVars

\* The IMU task runs; of the controller nothing is assumed.
Fairness == WF_spiVars(DriverStep)
FairSpec == Spec /\ Fairness

-----------------------------------------------------------------------------
(* Properties.                                                             *)

\* README.md: "The module must use finite communication timeouts": whatever
\* the controller does, an access returns, with the bytes of this access or
\* with an error, however many accesses before it were given up half-way.
ImplementsBus == Bus!FairSpec

\* The same without the return: what an access that succeeds hands out.
ImplementsBusSafely == Bus!Spec

\* The chip is selected in an access only, and never while a byte of an
\* earlier access is still being clocked: it would be taken for a register.
SelectedForOwnBytes ==
  /\ spiPc \in {"idle", "start"} => cs = "high"
  /\ cs = "low" => \A i \in DOMAIN wire : wire[i] # Stale

=============================================================================
