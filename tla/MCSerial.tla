------------------------------ MODULE MCSerial ------------------------------
(*   spi      accesses without data, of one byte and of three               *)
(*   vision   two targets and a command, of one byte or two; payloads of up *)
(*            to twelve, so that a wrong length takes a frame with it       *)
(*   command  lines of up to five bytes for a buffer of four                *)
(*   report   two periods, a counter that wraps, an iteration in a tick     *)
(*   log      messages of one byte and of two for a ring of three           *)
EXTENDS SerialLinks

MCFrames == {[type |-> 1, data |-> <<1, 2>>], [type |-> 1, data |-> <<3, 4>>],
             [type |-> 2, data |-> <<19>>]}
MCNoise == {1, 3, 12, 14, 21}
\* What the theorems about the camera assume of its frames.
ASSUME MCFramesAssumption == Vision!KnownFrames /\ Vision!PlainFrames

MCRxBytes == {"s", "x", "lf", "cr", "nul", "other", "1", "3",
              "$STOP", "$RATE,", "$RAWIMU,", "$DUTY,"}

=============================================================================
