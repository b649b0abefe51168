----------------------------- MODULE Database -----------------------------
(***************************************************************************)
(* From an answer of the server to the frame that is read for the LEDs:    *)
(* DataConverter and DataStore as StatePolling and StateTransitioning use  *)
(* them, one after the other.                                              *)
(***************************************************************************)
EXTENDS DataParameters, Sequences

CONSTANT FakeFrames   \* the built-in frames

ASSUME FakeAssumption == FakeFrames \in [1..HistoryFrames -> Frames]

VARIABLES writer, data, stage, frames,                    \* of DataConverter
          slot, in, out, frame_index, fake_index, shown   \* of DataStore

Converter == INSTANCE DataConverter

\* The frames the message in the buffer is made of, told from how a history is built and
\* not from how it is cut.  None, if it is not what the server was asked for.
Received ==
  IF writer = "kSingle"
    THEN IF data \in Frames THEN <<data>> ELSE <<>>
    ELSE IF data \in Converter!AllHistories
      THEN CHOOSE h \in [1..HistoryFrames -> Frames] : Converter!FlattenSeq(h) = data
      ELSE <<>>

Store == INSTANCE DataStore
           WITH NoFrame <- <<>>, received <- Received, saved <- (stage = "saved")

converterVars == <<writer, data, stage, frames>>
storeVars == <<slot, in, out, frame_index, fake_index, shown>>
databaseVars == <<converterVars, storeVars>>

Init == Converter!Init /\ Store!Init

\* A single frame is only asked for when a history is there (StoreReadAfterSave of
\* Firmware).
Receive(mode, message) ==
  /\ mode = "kSingle" => Store!Stored # 0
  /\ Converter!Receive(mode, message)
  /\ UNCHANGED storeVars

ClearBuffer == Converter!ClearBuffer /\ UNCHANGED storeVars
Validate == Converter!Validate /\ UNCHANGED storeVars

SaveHistory == Converter!SaveHistory /\ Store!SaveHistory(frames')

SaveLive ==
  /\ Converter!SaveLive
  /\ IF frames' = <<>> THEN UNCHANGED storeVars ELSE Store!SaveLive(frames'[1])

\* The board reads in another state than the one that polls.
NotPolling == stage \in {"none", "refused", "saved"} /\ UNCHANGED converterVars
ReadLive == NotPolling /\ Store!ReadLive
ReadHistory == NotPolling /\ Store!ReadHistory
ReadFake == NotPolling /\ Store!ReadFake

Next ==
  \/ \E mode \in {"kSingle", "kMultiple"}, message \in Converter!Messages : Receive(mode, message)
  \/ ClearBuffer \/ Validate \/ SaveHistory \/ SaveLive
  \/ ReadLive \/ ReadHistory \/ ReadFake

Spec == Init /\ [][Next]_databaseVars

-----------------------------------------------------------------------------
\* The types of both parts.
TypeOK == Converter!TypeOK /\ Store!TypeOK

\* See DataConverter: nothing the server was asked for is refused, but for a
\* history whose last frame has no LEDs.
AcceptsWhatIsAsked == Converter!AcceptsWhatIsAsked

\* See DataConverter: what passed the validator is stored to the last byte.
StoredWhole == Converter!StoredWhole

\* See DataStore: the validator, the writers, the ring and the readers together
\* show the state machine the list of FrameStore: the frames the server sent, each where
\* it belongs, and each once.  Holds as long as no frame of a history has ByteValues LEDs.
StoreKeepsLastFrames == Store!StoreKeepsLastFrames

\* What the documentation says and the code does not do: see DataConverter.
FullIsCorrect == Converter!FullIsCorrect
=============================================================================
