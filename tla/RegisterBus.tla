---------------------------- MODULE RegisterBus ----------------------------
(***************************************************************************)
(* What the IMU code takes its bus to be: a register access is called, and *)
(* it returns, either with exactly the bytes the chip sent for this access *)
(* or with an error.  ImuStack is written against this; SpiBus implements  *)
(* it over platform/mspm0g3507/drivers/drv_spi.c.                          *)
(***************************************************************************)
EXTENDS Naturals, Sequences

CONSTANT
  Lengths           (* The lengths a caller asks for; 0 is refused.         *)

VARIABLES
  access,     \* "idle", or the kind of the access in progress
  length,     \* its length
  outcome     \* how the last access ended: [ok, data]

busVars == <<access, length, outcome>>

NoData == [ok |-> FALSE, data |-> <<>>]

\* The i-th byte of an answer is i, and 0 is the one that comes with the
\* register address: a byte is told from its place in an access.
Answer(op, n) ==
  [ok |-> TRUE, data |-> IF op = "read" THEN [i \in 1 .. n |-> i] ELSE <<>>]

Init == access = "idle" /\ length = 0 /\ outcome = NoData

Call(op, n) ==
  /\ access = "idle"
  /\ access' = op /\ length' = n /\ outcome' = NoData

\* An access without data or without a bus returns at once.
Refuse ==
  /\ access = "idle"
  /\ outcome' = NoData /\ UNCHANGED <<access, length>>

Return ==
  /\ access # "idle"
  /\ access' = "idle" /\ UNCHANGED length
  /\ outcome' \in {NoData, Answer(access, length)}

Next == (\E op \in {"read", "write"}, n \in Lengths \ {0} : Call(op, n))
        \/ Refuse \/ Return

Spec == Init /\ [][Next]_busVars
FairSpec == Spec /\ WF_busVars(Return)

=============================================================================
