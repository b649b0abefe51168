--------------------------- MODULE DatabaseProofs ---------------------------
(***************************************************************************)
(* From the answers of the server to the frames that are read: the proofs  *)
(* about the converter and about the store put together.                   *)
(***************************************************************************)
EXTENDS Database, TLAPS

ConverterPart == INSTANCE ConverterProofs
StorePart == INSTANCE StoreProofs
               WITH NoFrame <- <<>>, received <- Received, saved <- (stage = "saved")

\* The condition of the theorems: no frame of a history that is about to be stored has
\* ByteValues LEDs or more, which the history writer would misread.
ValidCountsFit == stage = "valid" => Converter!CountsFitInByte

-----------------------------------------------------------------------------
(* The parts of Database are what the proofs are about.                    *)

LEMMA SameFrames == ConverterPart!Frames = Frames
BY DEF ConverterPart!Frames, Frames, ConverterPart!FrameLength, FrameLength,
       ConverterPart!BytesInHeader, BytesInHeader, ConverterPart!Bytes, Bytes

LEMMA SameSizes ==
  /\ \A leds : Converter!FrameLength(leds) = ConverterPart!FrameLength(leds)
  /\ Converter!BufferSize = ConverterPart!BufferSize
  /\ Converter!BytesInHeader = ConverterPart!BytesInHeader
  /\ Converter!Bytes = ConverterPart!Bytes
BY DEF Converter!FrameLength, ConverterPart!FrameLength, Converter!BufferSize,
       ConverterPart!BufferSize, Converter!BytesInHeader, ConverterPart!BytesInHeader,
       Converter!Bytes, ConverterPart!Bytes

LEMMA SameCuts ==
  \A message, weight : Converter!CutFrames(message, weight) = ConverterPart!CutFrames(message, weight)
BY DEF Converter!CutFrames, ConverterPart!CutFrames, Converter!LedCount, ConverterPart!LedCount,
       Converter!FrameLength, ConverterPart!FrameLength,
       Converter!BytesInHeader, ConverterPart!BytesInHeader

LEMMA SameMessages == Converter!Messages = ConverterPart!Messages
BY SameSizes DEF Converter!Messages, ConverterPart!Messages, Converter!SeqOf, ConverterPart!SeqOf

LEMMA SameDataValid ==
  \A message : Converter!IsDataValid(message) <=> ConverterPart!IsDataValid(message)
<1> TAKE message
<1>1. Converter!LedCount(message, 0, ByteValues) = ConverterPart!LedCount(message, 0, ByteValues)
  BY DEF Converter!LedCount, ConverterPart!LedCount
<1> QED BY <1>1, SameSizes DEF Converter!IsDataValid, ConverterPart!IsDataValid

LEMMA SameValid == Converter!IsValid <=> ConverterPart!IsValid
<1>1. \A message : Converter!IsHistoryDataValid(message) <=> ConverterPart!IsHistoryDataValid(message)
  BY SameCuts, SameDataValid DEF Converter!IsHistoryDataValid, ConverterPart!IsHistoryDataValid
<1>2. Converter!ValidHistories = ConverterPart!ValidHistories
  BY <1>1, SameMessages DEF Converter!ValidHistories, ConverterPart!ValidHistories
<1> QED BY <1>2, SameDataValid DEF Converter!IsValid, ConverterPart!IsValid

LEMMA SameCounts == Converter!CountsFitInByte <=> ConverterPart!CountsFitInByte
BY SameCuts DEF Converter!CountsFitInByte, ConverterPart!CountsFitInByte,
                Converter!ToSet, ConverterPart!ToSet

LEMMA SameFlattening ==
  \A list : Converter!FlattenSeq(list) = ConverterPart!FlattenSeq(list)
BY DEF Converter!FlattenSeq, ConverterPart!FlattenSeq

LEMMA SameStore ==
  /\ Store!Stored = StorePart!Stored
  /\ \A history : Store!SaveHistory(history) <=> StorePart!SaveHistory(history)
  /\ \A frame : Store!SaveLive(frame) <=> StorePart!SaveLive(frame)
  /\ Store!ReadLive <=> StorePart!ReadLive
  /\ Store!ReadHistory <=> StorePart!ReadHistory
  /\ Store!ReadFake <=> StorePart!ReadFake
<1>1. Store!Stored = StorePart!Stored
  BY DEF Store!Stored, StorePart!Stored
<1>2. /\ Store!Slots = StorePart!Slots /\ Store!ring = StorePart!ring
      /\ Store!Back = StorePart!Back /\ Store!FakeSlot = StorePart!FakeSlot
      /\ \A i : /\ Store!NextSlot(i) = StorePart!NextSlot(i) /\ Store!At(i) = StorePart!At(i)
               /\ Store!Following(i) = StorePart!Following(i)
  BY DEF Store!Slots, StorePart!Slots, Store!ring, StorePart!ring, Store!Back, StorePart!Back,
         Store!FakeSlot, StorePart!FakeSlot, Store!NextSlot, StorePart!NextSlot,
         Store!At, StorePart!At, Store!Following, StorePart!Following
<1>3. \A history : Store!SaveHistory(history) <=> StorePart!SaveHistory(history)
  BY <1>2 DEF Store!SaveHistory, StorePart!SaveHistory, Store!Refill, StorePart!Refill
<1>4. \A frame : Store!SaveLive(frame) <=> StorePart!SaveLive(frame)
  BY <1>1, <1>2 DEF Store!SaveLive, StorePart!SaveLive, Store!Push, StorePart!Push
<1>5. Store!ReadLive <=> StorePart!ReadLive
  BY <1>1, <1>2 DEF Store!ReadLive, StorePart!ReadLive, Store!ring, StorePart!ring
<1>6. Store!ReadHistory <=> StorePart!ReadHistory
  BY <1>1, <1>2 DEF Store!ReadHistory, StorePart!ReadHistory, Store!ring, StorePart!ring
<1>7. Store!ReadFake <=> StorePart!ReadFake
  BY <1>2 DEF Store!ReadFake, StorePart!ReadFake, Store!ring, StorePart!ring
<1> QED BY <1>1, <1>3, <1>4, <1>5, <1>6, <1>7

-----------------------------------------------------------------------------
(* What is stored is what came.                                            *)

\* What the server was asked for, as it is received.
Histories == [1..HistoryFrames -> Frames]

LEMMA SameHistories == Converter!AllHistories = {ConverterPart!FlattenSeq(h) : h \in Histories}
<1>1. Converter!Frames = Frames
  BY DEF Converter!Frames, Frames, Converter!FrameLength, FrameLength,
         Converter!BytesInHeader, BytesInHeader, Converter!Bytes, Bytes
<1> QED BY <1>1, SameFlattening DEF Converter!AllHistories, Histories

LEMMA HistoriesAre ==
  ASSUME NEW h \in Histories
  PROVE  h \in Seq(ConverterPart!Frames) /\ h \in Seq(Frames) /\ Len(h) = HistoryFrames
BY DataAssumption, SameFrames DEF Histories

\* A message is at most one history, which is the one that is received.
LEMMA ReceivedHistory ==
  ASSUME NEW h \in Histories, writer = "kMultiple", data = ConverterPart!FlattenSeq(h)
  PROVE  Received = h
<1>1. data \in Converter!AllHistories
  BY SameHistories
<1>2. Received = CHOOSE g \in Histories : Converter!FlattenSeq(g) = data
  BY <1>1 DEF Received, Histories
<1>3. \E g \in Histories : Converter!FlattenSeq(g) = data
  BY SameFlattening
<1>4. Received \in Histories /\ Converter!FlattenSeq(Received) = data
  BY <1>2, <1>3
<1>5. ConverterPart!FlattenSeq(Received) = ConverterPart!FlattenSeq(h)
  BY <1>4, SameFlattening
<1> HIDE DEF Received
<1> QED BY <1>4, <1>5, DataAssumption, HistoriesAre, ConverterPart!OneHistory

LEMMA ReceivedFrames == Received \in Seq(Frames)
<1>1. CASE writer = "kSingle"
  BY <1>1 DEF Received
<1>2. CASE writer # "kSingle" /\ data \in Converter!AllHistories
  <2>1. \E h \in Histories : Converter!FlattenSeq(h) = data
    BY <1>2, SameHistories, SameFlattening
  <2>2. Received = CHOOSE h \in Histories : Converter!FlattenSeq(h) = data
    BY <1>2 DEF Received, Histories
  <2>3. Received \in Histories
    BY <2>1, <2>2
  <2> QED BY <2>3, HistoriesAre
<1>3. CASE writer # "kSingle" /\ data \notin Converter!AllHistories
  BY <1>3 DEF Received
<1> QED BY <1>1, <1>2, <1>3

LEMMA ReceivedFramesNext == (Received \in Seq(Frames))'
BY ReceivedFrames, PTL

\* Nothing has come yet: no history is empty.
LEMMA NothingReceived ==
  ASSUME writer = "kMultiple", data = <<>>
  PROVE  Received = <<>>
<1>1. ASSUME NEW h \in Histories PROVE ConverterPart!FlattenSeq(h) # <<>>
  BY DataAssumption, HistoriesAre, ConverterPart!HistoryNotEmpty
<1>2. data \notin Converter!AllHistories
  BY <1>1, SameHistories
<1> QED BY <1>2 DEF Received

LEMMA SameReceived ==
  ASSUME UNCHANGED <<writer, data>>
  PROVE  Received' = Received
BY DEF Received, Converter!AllHistories, Converter!FlattenSeq

-----------------------------------------------------------------------------
(* A behaviour of Database is one of each part.                            *)

LEMMA InitOfParts == Init => ConverterPart!Init /\ StorePart!Init
<1>1. ASSUME Init PROVE Received = <<>>
  BY <1>1, NothingReceived DEF Init, Converter!Init
<1> QED BY <1>1 DEF Init, Converter!Init, ConverterPart!Init, Store!Init, StorePart!Init,
                    Store!Slots, StorePart!Slots

\* The converter goes its way whatever the store does.
LEMMA StepOfConverter ==
  [Next]_databaseVars => [ConverterPart!Next]_(ConverterPart!converterVars)
<1> SUFFICES ASSUME [Next]_databaseVars
             PROVE  ConverterPart!Next \/ UNCHANGED ConverterPart!converterVars
  OBVIOUS
<1>1. ASSUME NEW mode \in {"kSingle", "kMultiple"}, NEW message \in Converter!Messages,
             Receive(mode, message)
      PROVE  ConverterPart!Next
  <2>1. ConverterPart!Receive(mode, message)
    BY <1>1 DEF Receive, Converter!Receive, ConverterPart!Receive
  <2> QED BY <2>1, SameMessages DEF ConverterPart!Next
<1>2. CASE ClearBuffer
  <2>1. ConverterPart!ClearBuffer
    BY <1>2 DEF ClearBuffer, Converter!ClearBuffer, ConverterPart!ClearBuffer
  <2> QED BY <2>1 DEF ConverterPart!Next
<1>3. CASE Validate
  <2>1. ConverterPart!Validate
    BY <1>3, SameValid DEF Validate, Converter!Validate, ConverterPart!Validate
  <2> QED BY <2>1 DEF ConverterPart!Next
<1>4. CASE SaveHistory
  <2>1. ConverterPart!SaveHistory
    BY <1>4, SameCuts DEF SaveHistory, Converter!SaveHistory, ConverterPart!SaveHistory
  <2> QED BY <2>1 DEF ConverterPart!Next
<1>5. CASE SaveLive
  <2>1. ConverterPart!SaveLive
    BY <1>5, SameSizes DEF SaveLive, Converter!SaveLive, ConverterPart!SaveLive
  <2> QED BY <2>1 DEF ConverterPart!Next
<1>6. CASE ReadLive \/ ReadHistory \/ ReadFake \/ UNCHANGED databaseVars
  <2>1. UNCHANGED converterVars
    BY <1>6 DEF ReadLive, ReadHistory, ReadFake, NotPolling, databaseVars
  <2> QED BY <2>1 DEF converterVars, ConverterPart!converterVars
<1> QED BY <1>1, <1>2, <1>3, <1>4, <1>5, <1>6 DEF Next

\* The store is given what was received, and once.
LEMMA StepOfStore ==
  ConverterPart!ConverterInv /\ ValidCountsFit /\ [Next]_databaseVars
    => [StorePart!Next]_(StorePart!storeVars)
<1> SUFFICES ASSUME ConverterPart!ConverterInv, ValidCountsFit, [Next]_databaseVars
             PROVE  StorePart!Next \/ UNCHANGED StorePart!storeVars
  OBVIOUS
<1> USE DEF StorePart!storeVars, StorePart!ring, StorePart!messageVars
<1>1. CASE SaveHistory
  <2>1. /\ ConverterPart!SaveHistory /\ Store!SaveHistory(frames')
        /\ stage = "valid" /\ writer = "kMultiple" /\ stage' = "saved"
        /\ UNCHANGED <<writer, data>>
    BY <1>1, SameCuts DEF SaveHistory, Converter!SaveHistory, ConverterPart!SaveHistory
  <2>2. ConverterPart!CountsFitInByte
    BY <2>1, SameCounts DEF ValidCountsFit
  <2>3. frames' \in Histories /\ data = ConverterPart!FlattenSeq(frames')
    BY <2>1, <2>2, DataAssumption, ConverterPart!FramesAreStored, SameFrames DEF Histories
  <2>4. Received = frames' /\ Len(Received) = HistoryFrames
    BY <2>1, <2>3, ReceivedHistory, HistoriesAre
  <2>5. StorePart!SaveHistory(Received) /\ Received' = Received
    BY <2>1, <2>4, SameStore, SameReceived
  <2> QED BY <2>1, <2>4, <2>5 DEF StorePart!Next, StorePart!SaveReceived
<1>2. CASE SaveLive
  <2>1. /\ ConverterPart!SaveLive
        /\ IF frames' = <<>> THEN UNCHANGED storeVars ELSE Store!SaveLive(frames'[1])
        /\ stage = "valid" /\ writer = "kSingle" /\ stage' = "saved"
        /\ UNCHANGED <<writer, data>>
    BY <1>2, SameSizes DEF SaveLive, Converter!SaveLive, ConverterPart!SaveLive
  <2>2. ConverterPart!CountsFitInByte
    BY <2>1, SameCounts DEF ValidCountsFit
  <2>3. frames' = <<data>> /\ data \in Frames
    BY <2>1, <2>2, DataAssumption, ConverterPart!FramesAreStored, SameFrames
  <2>4. Received = <<data>> /\ Len(Received) = 1 /\ Received[1] = data
    BY <2>1, <2>3 DEF Received
  <2>5. StorePart!SaveLive(Received[1]) /\ Received' = Received
    <3>1. <<data>> # <<>> /\ <<data>>[1] = data
      OBVIOUS
    <3> QED BY <2>1, <2>3, <2>4, <3>1, SameStore, SameReceived
  <2> QED BY <2>1, <2>4, <2>5 DEF StorePart!Next, StorePart!SaveReceived
<1>3. CASE ReadLive \/ ReadHistory \/ ReadFake
  <2>1. UNCHANGED <<writer, data, stage>>
    BY <1>3 DEF ReadLive, ReadHistory, ReadFake, NotPolling, converterVars
  <2>2. StorePart!ReadLive \/ StorePart!ReadHistory \/ StorePart!ReadFake
    BY <1>3, SameStore DEF ReadLive, ReadHistory, ReadFake
  <2>3. Received' = Received
    BY <2>1, SameReceived
  <2> QED BY <2>1, <2>2, <2>3 DEF StorePart!Next, StorePart!ReadStored
<1>4. CASE \/ \E mode \in {"kSingle", "kMultiple"}, message \in Converter!Messages :
                Receive(mode, message)
           \/ ClearBuffer
  <2>1. UNCHANGED storeVars /\ stage' # "saved"
    BY <1>4 DEF Receive, ClearBuffer, Converter!Receive, Converter!ClearBuffer
  <2>2. Received' \in Seq(Frames)
    BY ReceivedFramesNext
  <2> QED BY <2>1, <2>2 DEF storeVars, StorePart!Next, StorePart!Receive
<1>5. CASE Validate \/ UNCHANGED databaseVars
  <2>1. UNCHANGED storeVars /\ UNCHANGED <<writer, data>> /\ (stage = "saved")' = (stage = "saved")
    BY <1>5 DEF Validate, Converter!Validate, databaseVars, converterVars
  <2>2. Received' = Received
    BY <2>1, SameReceived
  <2> QED BY <2>1, <2>2 DEF storeVars
<1> QED BY <1>1, <1>2, <1>3, <1>4, <1>5 DEF Next

LEMMA Parts == Spec => ConverterPart!Spec
BY InitOfParts, StepOfConverter, PTL DEF Spec, ConverterPart!Spec

LEMMA PartsWhereCountsFit == Spec /\ []ValidCountsFit => StorePart!Spec
<1>1. ConverterPart!Spec => []ConverterPart!ConverterInv
  BY DataAssumption, ConverterPart!ConverterInvCorrect
<1> QED BY <1>1, Parts, InitOfParts, StepOfStore, PTL DEF Spec, StorePart!Spec

-----------------------------------------------------------------------------
\* The types of both parts: what is in a slot, and what was read, is a frame as the server
\* builds it, so that DataConv_DataToLeds succeeds on it.  As long as no frame of a
\* history has ByteValues LEDs or more.
THEOREM DatabaseTypeCorrect == Spec /\ []ValidCountsFit => []TypeOK
<1>1. ConverterPart!Spec => []ConverterPart!TypeOK
  BY DataAssumption, ConverterPart!StoredFits
<1>2. StorePart!Spec => []StorePart!StoreInv
  BY DataAssumption, FakeAssumption, StorePart!StoreInvCorrect
<1>3. ConverterPart!TypeOK /\ StorePart!StoreInv => TypeOK
  <2>1. ConverterPart!TypeOK => Converter!TypeOK
    BY SameMessages, SameSizes DEF Converter!TypeOK, ConverterPart!TypeOK
  <2>2. StorePart!StoreInv => Store!TypeOK
    BY DEF StorePart!StoreInv, StorePart!TypeOK, Store!TypeOK, StorePart!Slots, Store!Slots
  <2> QED BY <2>1, <2>2 DEF TypeOK
<1> QED BY <1>1, <1>2, <1>3, Parts, PartsWhereCountsFit, PTL

\* The validator, the writers, the ring and the readers together show the state machine the
\* list of the frames of the last history and of the live frames since: the frames the
\* server sent, each where it belongs and each once.  As long as no frame of a history has
\* ByteValues LEDs or more.
THEOREM DatabaseImplementsList == Spec /\ []ValidCountsFit => StoreKeepsLastFrames
<1>1. StorePart!Spec => StorePart!StoreKeepsLastFrames
  BY DataAssumption, FakeAssumption, StorePart!RingImplementsList
<1>2. StorePart!Store!Init => Store!Store!Init
  BY DEF StorePart!Store!Init, Store!Store!Init, StorePart!Stored, Store!Stored,
         StorePart!At, Store!At
<1>3. [StorePart!Store!Next]_<<Received, stage = "saved",
                               [i \in 1..StorePart!Stored |-> StorePart!At(i - 1)],
                               frame_index, fake_index, shown>>
        => [Store!Store!Next]_<<Received, stage = "saved",
                                [i \in 1..Store!Stored |-> Store!At(i - 1)],
                                frame_index, fake_index, shown>>
  BY DEF StorePart!Stored, Store!Stored, StorePart!At, Store!At,
         StorePart!Store!Next, Store!Store!Next,
         StorePart!Store!Receive, Store!Store!Receive, StorePart!Store!Save, Store!Store!Save,
         StorePart!Store!SaveHistory, Store!Store!SaveHistory,
         StorePart!Store!SaveLive, Store!Store!SaveLive,
         StorePart!Store!ReadLive, Store!Store!ReadLive,
         StorePart!Store!ReadHistory, Store!Store!ReadHistory,
         StorePart!Store!ReadFake, Store!Store!ReadFake
<1> QED BY <1>1, <1>2, <1>3, PartsWhereCountsFit, PTL DEF StoreKeepsLastFrames,
             Store!StoreKeepsLastFrames, StorePart!StoreKeepsLastFrames, Store!Store!Spec, StorePart!Store!Spec

\* Where no frame has more LEDs than a byte counts, as in the model that is checked, the
\* condition is met: Database does all of this without one.
THEOREM SmallFramesAreKept ==
  ASSUME MaxLedsOn < ByteValues
  PROVE  Spec => []TypeOK /\ StoreKeepsLastFrames
<1>1. ConverterPart!Spec => []ConverterPart!ConverterInv
  BY DataAssumption, ConverterPart!ConverterInvCorrect
<1>2. ConverterPart!ConverterInv => ValidCountsFit
  BY DataAssumption, ConverterPart!CountsFit, SameCounts DEF ValidCountsFit
<1> QED BY <1>1, <1>2, Parts, DatabaseTypeCorrect, DatabaseImplementsList, PTL

\* Whatever the server is asked for passes the validator, but for a history that ends with
\* a frame without LEDs.
THEOREM DatabaseAccepts == Spec => []AcceptsWhatIsAsked
<1>1. ConverterPart!Spec => []ConverterPart!AcceptsWhatIsAsked
  BY DataAssumption, ConverterPart!AskedIsAccepted
<1>2. Converter!AllHistories = ConverterPart!AllHistories /\ Converter!Frames = ConverterPart!Frames
  <2>1. Converter!Frames = ConverterPart!Frames
    BY SameSizes DEF Converter!Frames, ConverterPart!Frames
  <2> QED BY <2>1, SameFlattening DEF Converter!AllHistories, ConverterPart!AllHistories
<1>3. Converter!IsAsked(data) <=> ConverterPart!IsAsked(data)
  BY <1>2 DEF Converter!IsAsked, ConverterPart!IsAsked
<1>4. ConverterPart!AcceptsWhatIsAsked => AcceptsWhatIsAsked
  BY <1>2, <1>3, SameFlattening, SameSizes
     DEF AcceptsWhatIsAsked, Converter!AcceptsWhatIsAsked, ConverterPart!AcceptsWhatIsAsked
<1> QED BY <1>1, <1>4, Parts, PTL

\* What passed the validator is stored to the last byte, as long as no frame has so many
\* LEDs that the writer misreads its header.
THEOREM DatabaseStoresWhole == Spec => []StoredWhole
<1>1. ConverterPart!Spec => []ConverterPart!StoredWhole
  BY DataAssumption, ConverterPart!ValidIsStoredWhole
<1>2. ConverterPart!StoredWhole => StoredWhole
  BY SameCounts, SameFlattening
     DEF StoredWhole, Converter!StoredWhole, ConverterPart!StoredWhole
<1> QED BY <1>1, <1>2, Parts, PTL
=============================================================================
