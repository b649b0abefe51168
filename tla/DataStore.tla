---------------------------- MODULE DataStore -----------------------------
(***************************************************************************)
(* Database/DataManager.cpp: the ring of the frames that were received,    *)
(* its two writers and its two readers, and the reader of the fake data.   *)
(* A frame is what DataConverter lets pass, and a history arrives here     *)
(* whole (FullIsCorrect there).                                            *)
(***************************************************************************)
EXTENDS Naturals, Sequences

CONSTANTS Frames,        \* every well-formed frame
          NoFrame,       \* what is in a slot before anything was saved: length 0
          HistoryFrames, \* kNumberOfHistoryFrames, 45
          FakeFrames     \* the frames of FakeData.cpp, as many as of a history

-----------------------------------------------------------------------------
(* The etl::circular_buffer_ext: one slot more than it has room for, and   *)
(* empty when in = out.                                                    *)

VARIABLES slot, in, out,
          frame_index,   \* of the history reader
          fake_index,    \* of the same reader on the fake data
          shown,         \* the frame that was read last
          received,      \* what came last, as frames: a history, one frame, or none
          saved          \* and whether a writer has stored it

ring == <<slot, in, out>>
messageVars == <<received, saved>>
storeVars == <<ring, frame_index, fake_index, shown, messageVars>>

Slots == 0..HistoryFrames
NextSlot(i) == IF i = HistoryFrames THEN 0 ELSE i + 1
Stored == IF out <= in THEN in - out ELSE HistoryFrames + 1 - (out - in)

\* operator[] does not look at the size, nor does back().
At(i) == slot[IF out + i <= HistoryFrames THEN out + i ELSE out + i - (HistoryFrames + 1)]
Back == slot[IF in = 0 THEN HistoryFrames ELSE in - 1]

Push(frame) ==
  /\ slot' = [slot EXCEPT ![in] = frame]
  /\ in' = NextSlot(in)
  /\ out' = IF NextSlot(in) = out THEN NextSlot(out) ELSE out

\* Mutant: the loop over the history ends one frame early.
RefillMissesLast(history) ==
  /\ slot' = [i \in Slots |-> IF i + 1 < Len(history) THEN history[i + 1] ELSE slot[i]]
  /\ in' = Len(history) - 1
  /\ out' = 0

\* clear() and a push for each frame; the slots behind them keep what they held.
Refill(history) ==
  /\ slot' = [i \in Slots |-> IF i < Len(history) THEN history[i + 1] ELSE slot[i]]
  /\ in' = Len(history)
  /\ out' = 0

-----------------------------------------------------------------------------
Init ==
  /\ slot = [i \in Slots |-> NoFrame]
  /\ in = 0
  /\ out = 0
  /\ frame_index = 0
  /\ fake_index = 0
  /\ shown = NoFrame
  /\ received = <<>>
  /\ saved = FALSE

\* HistoryDataStoreWriter::SaveData
SaveHistory(history) ==
  /\ Refill(history)
  /\ UNCHANGED <<frame_index, fake_index, shown>>

\* LiveDataStoreWriter::SaveData, in Polling for a single frame, which comes
\* after a history (StoreReadAfterSave of Firmware).
SaveLive(frame) ==
  /\ Stored # 0
  /\ Push(frame)
  /\ UNCHANGED <<frame_index, fake_index, shown>>

\* LiveDataStoreReader::ReadData.  No frame is larger than the caller's buffer.
ReadLive ==
  /\ Stored # 0
  /\ shown' = Back
  /\ UNCHANGED <<ring, frame_index, fake_index>>

\* Mutant: the index goes round one frame late.
FollowingLate(index) == IF index >= HistoryFrames THEN 0 ELSE index + 1

\* IncrementFrameIndex
Following(index) == IF index + 1 >= HistoryFrames THEN 0 ELSE index + 1

\* HistoryDataStoreReader::ReadData.
ReadHistory ==
  /\ Stored # 0
  /\ shown' = At(frame_index)
  /\ frame_index' = Following(frame_index)
  /\ UNCHANGED <<ring, fake_index>>

\* The memory g_fake_data is put around: the frames, and the slot a ring has more.
FakeSlot == [i \in Slots |-> IF i < HistoryFrames THEN FakeFrames[i + 1] ELSE NoFrame]

\* The same reader on g_fake_data, a ring nothing was ever pushed to: in = out = 0.
\* It relies on operator[] not to look at the size.
ReadFake ==
  /\ shown' = FakeSlot[fake_index]
  /\ fake_index' = Following(fake_index)
  /\ UNCHANGED <<ring, frame_index>>

\* What is around the store: a message comes, and its writer is called once.
Receive ==
  /\ received' \in Seq(Frames)
  /\ saved' = FALSE
  /\ UNCHANGED <<ring, frame_index, fake_index, shown>>

SaveReceived ==
  /\ saved = FALSE /\ saved' = TRUE /\ UNCHANGED received
  /\ \/ Len(received) = HistoryFrames /\ SaveHistory(received)
     \/ Len(received) = 1 /\ SaveLive(received[1])

ReadStored == (ReadLive \/ ReadHistory \/ ReadFake) /\ UNCHANGED messageVars

Next == Receive \/ SaveReceived \/ ReadStored

Spec == Init /\ [][Next]_storeVars

-----------------------------------------------------------------------------
\* The type of the store: every index is one of a slot or of a frame.
TypeOK ==
  /\ slot \in [Slots -> Frames \cup {NoFrame}]
  /\ in \in Slots
  /\ out \in Slots
  /\ frame_index \in 0..(HistoryFrames - 1)
  /\ fake_index \in 0..(HistoryFrames - 1)
  /\ shown \in Frames \cup {NoFrame}

\* The ring and the index that runs round it show the state machine the plain
\* list of FrameStore: the frames of the last history that was received and the live
\* frames since, oldest first.  DataManager.cpp nowhere compares the index with the frames that
\* are stored, and ring positions move under it with every live frame.
Store == INSTANCE FrameStore
           WITH Size <- HistoryFrames,
                frames <- [i \in 1..Stored |-> At(i - 1)],
                index <- frame_index

StoreKeepsLastFrames == Store!Spec
=============================================================================
