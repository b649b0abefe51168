-------------------------- MODULE DataConverter ---------------------------
(***************************************************************************)
(* Led/DataConverter.cpp and the writers of Database/DataManager.cpp: what *)
(* becomes of the bytes the server sends until they are frames in the      *)
(* store.                                                                  *)
(***************************************************************************)
EXTENDS DataParameters, Sequences, SequencesExt

VARIABLES writer,   \* the writer mode, and with it the validator
          data,     \* the message in the buffer of the state Polling
          stage,    \* what was done to it
          frames    \* what the writer put into the store for it

converterVars == <<writer, data, stage, frames>>

-----------------------------------------------------------------------------
(* Cutting a message into frames.  start counts from 0, as in the code.    *)

\* The number of LEDs of the frame at start.  The first byte of its header weighs
\* ByteValues for the validator; the history writer reads the second only.
LedCount(message, start, weight) == message[start + 1] * weight + message[start + 2]

\* The loop that cuts frames off the front of a message: until there are HistoryFrames,
\* no more than a header is left, or a frame would pass the end.
CutFrames(message, weight) ==
  LET loop[n \in 0..HistoryFrames] ==
        IF n = 0 THEN [start |-> 0, frames |-> <<>>]
        ELSE LET now == loop[n - 1]
                 end == now.start + FrameLength(LedCount(message, now.start, weight))
             IN IF now.start + BytesInHeader >= Len(message) \/ end > Len(message) THEN now
                ELSE [start |-> end,
                      frames |-> Append(now.frames, SubSeq(message, now.start + 1, end))]
  IN loop[HistoryFrames]

\* Mutant: a frame may be as long as it states.
IsDataValidNoLimit(message) ==
  /\ Len(message) >= BytesInHeader
  /\ Len(message) = FrameLength(LedCount(message, 0, ByteValues))

\* DataConv_IsDataValid
IsDataValid(message) ==
  /\ Len(message) \in BytesInHeader..BufferSize
  /\ Len(message) = FrameLength(LedCount(message, 0, ByteValues))

\* Mutant: frames of the largest size are refused.
IsHistoryDataValidTight(message) ==
  LET cut == CutFrames(message, ByteValues)
  IN /\ Len(cut.frames) = HistoryFrames
     /\ \A i \in 1..HistoryFrames : Len(cut.frames[i]) < BufferSize
     /\ cut.start = Len(message)

\* DataConv_IsHistoryDataValid: the right number of valid frames and nothing else.
IsHistoryDataValid(message) ==
  LET cut == CutFrames(message, ByteValues)
  IN /\ Len(cut.frames) = HistoryFrames
     /\ \A i \in 1..HistoryFrames : IsDataValid(cut.frames[i])
     /\ cut.start = Len(message)

-----------------------------------------------------------------------------
(* Polling, one message after the other.                                   *)

Init ==
  /\ writer = "kMultiple"
  /\ data = <<>>
  /\ stage = "none"
  /\ frames = <<>>

\* What GetData may put into the buffer; it cuts longer answers off.
Messages == SeqOf(Bytes, HistoryFrames * BufferSize)

Receive(mode, message) ==
  /\ stage = "none"
  /\ writer' = mode
  /\ data' = message
  /\ stage' = "received"
  /\ UNCHANGED frames

\* GetData makes sure that nothing of the last message is left.
ClearBuffer ==
  /\ stage \in {"refused", "saved"}
  /\ data' = <<>>
  /\ stage' = "none"
  /\ frames' = <<>>
  /\ UNCHANGED writer

ValidHistories == {message \in Messages : IsHistoryDataValid(message)}
IsValid == IF writer = "kSingle" THEN IsDataValid(data) ELSE data \in ValidHistories

\* StatePolling::EvaluateData: nothing received counts as a failure, too.
Validate ==
  /\ stage = "received"
  /\ stage' = IF data # <<>> /\ IsValid THEN "valid" ELSE "refused"
  /\ UNCHANGED <<writer, data, frames>>

\* HistoryDataStoreWriter::SaveData.  Its result, whether the store is full, is
\* not looked at by its caller.
SaveHistory ==
  /\ stage = "valid" /\ writer = "kMultiple"
  /\ frames' = CutFrames(data, 0).frames
  /\ stage' = "saved"
  /\ UNCHANGED <<writer, data>>

\* LiveDataStoreWriter::SaveData; false for what is larger than a slot.
SaveLive ==
  /\ stage = "valid" /\ writer = "kSingle"
  /\ frames' = IF Len(data) \in 1..BufferSize THEN <<data>> ELSE <<>>
  /\ stage' = "saved"
  /\ UNCHANGED <<writer, data>>

Next ==
  \/ \E mode \in {"kSingle", "kMultiple"}, message \in Messages : Receive(mode, message)
  \/ ClearBuffer \/ Validate \/ SaveHistory \/ SaveLive

Spec == Init /\ [][Next]_converterVars

-----------------------------------------------------------------------------
\* The type of the variables: whatever is in the store is no larger than a slot.
TypeOK ==
  /\ writer \in {"kSingle", "kMultiple"}
  /\ data \in Messages
  /\ stage \in {"none", "received", "valid", "refused", "saved"}
  /\ \A i \in 1..Len(frames) : Len(frames[i]) \in BytesInHeader..BufferSize

\* The messages that are what the server is asked for, built from frames instead
\* of cut into them.
AllHistories == {FlattenSeq(h) : h \in [1..HistoryFrames -> Frames]}
IsAsked(message) == IF writer = "kSingle" THEN message \in Frames ELSE message \in AllHistories

\* Refusing counts towards giving up, and after five the board shows fake data:
\* no frame and no history is refused, unless the last frame of a history has no
\* LEDs (the loop of DataConv_IsHistoryDataValid takes a header at the very end
\* of the data for no frame).  DataConverter.h 54-59 knows no such exception: a
\* history is valid when each frame in it is and their number is right.
AcceptsWhatIsAsked ==
  stage = "refused" /\ IsAsked(data) =>
    /\ writer = "kMultiple"
    /\ \E h \in [1..HistoryFrames -> Frames] :
         FlattenSeq(h) = data /\ Len(h[HistoryFrames]) = BytesInHeader

\* DataManager.cpp 165: "Buffer has the size of the history. If it full, all data
\* was correctly written": HistoryFrames frames, one behind the other, are the
\* message.
FullIsCorrect ==
  stage = "saved" /\ Len(frames) = HistoryFrames /\ writer = "kMultiple" => FlattenSeq(frames) = data

\* What was received is a frame, or frames none of which has ByteValues LEDs: the
\* first byte of their headers is zero.
CountsFitInByte ==
  writer = "kMultiple" => \A frame \in ToSet(CutFrames(data, ByteValues).frames) : frame[1] = 0

\* The caller ignores the result of SaveData, and the readers do not look at the
\* fill level: a message that passed the validator must be stored whole.  Holds as
\* long as no frame has ByteValues LEDs (FullIsCorrect is what is left otherwise).
StoredWhole ==
  stage = "saved" /\ CountsFitInByte =>
    /\ FlattenSeq(frames) = data
    /\ Len(frames) = IF writer = "kSingle" THEN 1 ELSE HistoryFrames

=============================================================================
