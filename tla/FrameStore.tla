---------------------------- MODULE FrameStore ----------------------------
(***************************************************************************)
(* What the data manager promises the state machine: the last frames that  *)
(* were received, oldest first.  A history replaces them all, a live frame *)
(* takes the place of the oldest.  Live mode reads the newest frame,       *)
(* history mode one after the other and around, and so does offline mode   *)
(* with the built-in frames, whatever was received.                        *)
(***************************************************************************)
EXTENDS Naturals, Sequences

CONSTANTS Frames,    \* every well-formed frame
          NoFrame,   \* what is shown before any was read
          Size,      \* kNumberOfHistoryFrames
          FakeFrames \* the built-in frames

VARIABLES received,  \* what came last: a history, one live frame, or no frames
          saved,     \* and whether it has been stored
          frames,    \* what is stored
          index,     \* the next frame history mode reads, counted from 0
          fake_index, \* the next frame offline mode reads
          shown      \* what was read last

Init ==
  /\ received = <<>>
  /\ saved = FALSE
  /\ frames = <<>>
  /\ index = 0
  /\ fake_index = 0
  /\ shown = NoFrame

Receive ==
  /\ received' \in Seq(Frames)
  /\ saved' = FALSE
  /\ UNCHANGED <<frames, index, fake_index, shown>>

\* Each message is stored once at most, as it was received.
Save ==
  /\ saved = FALSE
  /\ saved' = TRUE
  /\ UNCHANGED <<received, index, fake_index, shown>>

SaveHistory ==
  /\ Save
  /\ Len(received) = Size
  /\ frames' = received

SaveLive ==
  /\ Save
  /\ Len(received) = 1
  /\ Len(frames) = Size
  /\ frames' = Append(Tail(frames), received[1])

ReadLive ==
  /\ frames # <<>>
  /\ shown' = frames[Len(frames)]
  /\ UNCHANGED <<received, saved, frames, index, fake_index>>

ReadHistory ==
  /\ frames # <<>>
  /\ shown' = frames[index + 1]
  /\ index' = IF index + 1 = Size THEN 0 ELSE index + 1
  /\ UNCHANGED <<received, saved, frames, fake_index>>

ReadFake ==
  /\ shown' = FakeFrames[fake_index + 1]
  /\ fake_index' = IF fake_index + 1 = Size THEN 0 ELSE fake_index + 1
  /\ UNCHANGED <<received, saved, frames, index>>

Next == Receive \/ SaveHistory \/ SaveLive \/ ReadLive \/ ReadHistory \/ ReadFake

Spec == Init /\ [][Next]_<<received, saved, frames, index, fake_index, shown>>
=============================================================================
