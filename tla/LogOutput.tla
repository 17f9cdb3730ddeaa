----------------------------- MODULE LogOutput -----------------------------
(***************************************************************************)
(* The way of a printed message to the outside: BSP_Uart_Printf writes it  *)
(* to the RTT ring buffer (modules/telemetry/rtt_log.c), which a debug     *)
(* probe reads, and then to the UART (drv_uart.c), whose transmitter has a *)
(* FIFO.  The telemetry task prints its reports, and the UART interrupt    *)
(* prints its replies in the middle of them; there is no lock.             *)
(*                                                                         *)
(* A byte is [id, nth, of]: the nth byte of the message id, which has `of'  *)
(* of them.                                                               *)
(***************************************************************************)
EXTENDS Integers

CONSTANTS
  RingSize,         (* RTT_UP_BUFFER_SIZE.                                  *)
  MsgLens,          (* The lengths of messages.                             *)
  FifoDepth         (* The transmit FIFO of the UART, 4 bytes.              *)

VARIABLES
  ring,       \* the bytes in s_up_buffer
  wrOff,      \* buf->wr_off
  rdOff,      \* buf->rd_off
  at,         \* where the task is in BSP_Uart_Send
  msg,        \* the message it prints, as its first byte
  wr,         \* wr, in space_available and in RTT_Log_Write
  nth,        \* bytes of the message that are done
  txFifo,     \* bytes in the transmitter; it is busy while there are any
  lastRead,   \* (ghost) the byte the probe has read last
  nested,     \* (ghost) an interrupt has printed inside RTT_Log_Write
  garbled     \* (ghost) the probe has read something else than whole messages

ringVars == <<ring, wrOff, rdOff>>
taskVars == <<at, msg, wr, nth>>
ghostVars == <<lastRead, nested, garbled>>
logVars == <<ringVars, taskVars, txFifo, ghostVars>>

Offsets == 0 .. RingSize - 1
Ids == {0, 1}
Byte == UNION {[id : Ids, nth : 1 .. n, of : {n}] : n \in MsgLens}
First(id, n) == [id |-> id, nth |-> 1, of |-> n]
Nth(m, i) == [m EXCEPT !.nth = i]
Ended == CHOOSE b \in Byte : b.nth = b.of
Inc(off) == IF off + 1 = RingSize THEN 0 ELSE off + 1

TypeOK ==
  /\ ring \in [Offsets -> Byte]
  /\ wrOff \in Offsets /\ rdOff \in Offsets /\ wr \in Offsets
  /\ at \in {"idle", "space", "load", "put", "publish", "wait", "transmit"}
  /\ msg \in Byte /\ lastRead \in Byte /\ nth \in Nat
  /\ txFifo \in Nat /\ nested \in BOOLEAN /\ garbled \in BOOLEAN

Init ==
  /\ ring = [o \in Offsets |-> Ended]
  /\ wrOff = 0 /\ rdOff = 0 /\ wr = 0 /\ nth = 0
  /\ at = "idle" /\ msg = Ended /\ txFifo = 0
  /\ lastRead = Ended /\ nested = FALSE /\ garbled = FALSE

-----------------------------------------------------------------------------
(* RTT_Log_Write.                                                          *)

\* Mutant: the place that tells a full buffer from an empty one is used too.
SpaceToTheLast(w, r) == IF r > w THEN r - w ELSE RingSize - w + r
\* space_available, with wr_off as it was read before rd_off.
Space(w, r) == IF r > w THEN r - w - 1 ELSE RingSize - w + r - 1

\* A message that does not fit goes to the UART alone.
Fits(n, w, r) == n < RingSize /\ Space(w, r) >= n

\* BSP_Uart_Printf of a message that fits into its buffer, as all of them do.
Printf(n) ==
  /\ at = "idle" /\ at' = "space"
  /\ msg' = First(1 - msg.id, n) /\ wr' = wrOff /\ nth' = 0
  /\ UNCHANGED <<ringVars, txFifo, ghostVars>>

ReadSpace ==
  /\ at = "space"
  /\ at' = IF Fits(msg.of, wr, rdOff) THEN "load" ELSE "wait"
  /\ UNCHANGED <<ringVars, msg, wr, nth, txFifo, ghostVars>>

LoadOffset ==
  /\ at = "load" /\ at' = "put" /\ wr' = wrOff
  /\ UNCHANGED <<ringVars, msg, nth, txFifo, ghostVars>>

Put ==
  /\ at = "put"
  /\ ring' = [ring EXCEPT ![wr] = Nth(msg, nth + 1)]
  /\ wr' = Inc(wr) /\ nth' = nth + 1
  /\ at' = IF nth + 1 = msg.of THEN "publish" ELSE "put"
  /\ UNCHANGED <<wrOff, rdOff, msg, txFifo, ghostVars>>

Publish ==
  /\ at = "publish" /\ at' = "wait"
  /\ wrOff' = wr /\ nth' = 0
  /\ UNCHANGED <<ring, rdOff, msg, wr, txFifo, ghostVars>>

-----------------------------------------------------------------------------
(* Drv_Uart_WriteBlocking.                                                 *)

\* Mutant: the transmitter is not waited for.
WaitNot ==
  /\ at = "wait" /\ at' = "transmit"
  /\ UNCHANGED <<ringVars, msg, wr, nth, txFifo, ghostVars>>

Wait ==
  /\ at = "wait" /\ txFifo = 0 /\ at' = "transmit"
  /\ UNCHANGED <<ringVars, msg, wr, nth, txFifo, ghostVars>>

Transmit ==
  /\ at = "transmit" /\ txFifo' = txFifo + 1
  /\ nth' = nth + 1 /\ at' = IF nth + 1 >= msg.of THEN "idle" ELSE "wait"
  /\ UNCHANGED <<ringVars, msg, wr, ghostVars>>

\* The transmitter has sent a byte.
Sent ==
  /\ txFifo > 0 /\ txFifo' = txFifo - 1
  /\ UNCHANGED <<ringVars, taskVars, ghostVars>>

-----------------------------------------------------------------------------
(* The interrupt, and the probe.                                           *)

\* A reply, printed from beginning to end while the task waits: into the ring
\* when it fits, and byte by byte through the transmitter, so that only its
\* last byte is still in there.
InterruptPrints(n) ==
  LET m == First(1 - msg.id, n)
      fits == Fits(n, wrOff, rdOff)
      place == [i \in 1 .. n |-> (wrOff + i - 1) % RingSize]
  IN  /\ ring' = IF fits
                   THEN [o \in Offsets |->
                           IF \E i \in 1 .. n : place[i] = o
                             THEN Nth(m, CHOOSE i \in 1 .. n : place[i] = o)
                             ELSE ring[o]]
                   ELSE ring
      /\ wrOff' = IF fits THEN (wrOff + n) % RingSize ELSE wrOff
      /\ txFifo' = 1
      /\ nested' = (nested \/ (fits /\ at \in {"space", "load", "put", "publish"}))
      /\ msg' = IF at = "idle" THEN m ELSE msg
      /\ UNCHANGED <<rdOff, at, wr, nth, lastRead, garbled>>

\* The probe takes a byte and moves rd_off.
Read ==
  /\ rdOff # wrOff
  /\ lastRead' = ring[rdOff] /\ rdOff' = Inc(rdOff)
  /\ garbled' = (garbled \/ IF lastRead.nth = lastRead.of
                              THEN ring[rdOff].nth # 1
                              ELSE ring[rdOff] # Nth(lastRead, lastRead.nth + 1))
  /\ UNCHANGED <<ring, wrOff, taskVars, txFifo, nested>>

Next ==
  \/ \E n \in MsgLens : Printf(n) \/ InterruptPrints(n)
  \/ ReadSpace \/ LoadOffset \/ Put \/ Publish
  \/ Wait \/ Transmit \/ Sent \/ Read

Spec == Init /\ [][Next]_logVars

-----------------------------------------------------------------------------
(* Properties.                                                             *)

\* The probe reads whole messages: one that does not fit is left out as a
\* whole, and none is seen before it is complete, however far the probe is
\* behind.  That is so until a reply is printed inside a write of the task:
\* the two then start from the same offset.
MessagesWhole == garbled => nested

\* docs/ARCHITECTURE.md wants one owner of a piece of hardware; the UART has
\* two.  All the same no byte is lost in the transmitter: between the task's
\* look at BUSY and its byte there can be one byte of the interrupt at most.
TxFits == txFifo <= FifoDepth

=============================================================================
