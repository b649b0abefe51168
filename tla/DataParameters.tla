-------------------------- MODULE DataParameters --------------------------
(***************************************************************************)
(* FwConfig.h: the sizes of what the server sends.  A frame is two bytes   *)
(* of header, the number of its LEDs, and BytesPerLed bytes for each; a    *)
(* history is HistoryFrames frames.                                        *)
(***************************************************************************)
EXTENDS Naturals

CONSTANTS ByteValues,    \* 256 in the code
          BytesPerLed,   \* kBytesPerLed, 5
          MaxLedsOn,     \* kMaxLedsOn, 312
          HistoryFrames  \* kNumberOfHistoryFrames, 45

ASSUME DataAssumption ==
  /\ ByteValues \in Nat \ {0} /\ BytesPerLed \in Nat \ {0}
  /\ MaxLedsOn \in Nat \ {0} /\ HistoryFrames \in Nat \ {0}

BytesInHeader == 2
FrameLength(leds) == BytesInHeader + leds * BytesPerLed
BufferSize == FrameLength(MaxLedsOn)   \* kBufferSizeInBytes

Bytes == 0..(ByteValues - 1)

\* Every frame as the server builds it: the count, then the LEDs.
Frames ==
  UNION {{f \in [1..FrameLength(n) -> Bytes] : f[1] * ByteValues + f[2] = n} : n \in 0..MaxLedsOn}
=============================================================================
