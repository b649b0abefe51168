--------------------------- MODULE StoreProofs ----------------------------
(***************************************************************************)
(* That the ring of DataStore implements the list of FrameStore, for every *)
(* set of frames and every length of a history.                            *)
(***************************************************************************)
EXTENDS DataStore, SequenceTheorems, TLAPS

\* The list the ring stands for.
Listed == [i \in 1..Stored |-> At(i - 1)]

\* The ring is empty until a history comes and full from then on, and what it holds
\* are frames, as is what comes.
StoreInv ==
  /\ TypeOK
  /\ received \in Seq(Frames)
  /\ in = out \/ Stored = HistoryFrames
  /\ \A i \in 0..(Stored - 1) : At(i) \in Frames

StoreStep == [Store!Next]_<<received, saved, Listed, frame_index, fake_index, shown>>

\* Where the ring of a full store begins.
LEMMA FullRing ==
  ASSUME HistoryFrames \in Nat \ {0}, StoreInv, Stored # 0
  PROVE  /\ Stored = HistoryFrames
         /\ out = NextSlot(in)
         /\ Listed \in Seq(Frames) /\ Len(Listed) = HistoryFrames
         /\ \A i \in 1..HistoryFrames : Listed[i] = At(i - 1)
<1>1. in \in Slots /\ out \in Slots /\ (in = out \/ Stored = HistoryFrames)
  BY DEF StoreInv, TypeOK
<1>2. Stored = HistoryFrames
  BY <1>1 DEF Stored, Slots
<1>3. out = NextSlot(in)
  BY <1>1, <1>2 DEF Stored, Slots, NextSlot
<1>4. \A i \in 1..HistoryFrames : At(i - 1) \in Frames
  BY <1>2 DEF StoreInv
<1>5. Listed = [i \in 1..HistoryFrames |-> At(i - 1)]
  BY <1>2 DEF Listed
<1> QED BY <1>2, <1>3, <1>4, <1>5

\* A history takes the place of everything.
LEMMA HistoryStep ==
  ASSUME HistoryFrames \in Nat \ {0}, StoreInv,
         SaveReceived, Len(received) = HistoryFrames, SaveHistory(received)
  PROVE  StoreInv' /\ StoreStep
<1> DEFINE history == received
<1>1. history \in Seq(Frames) /\ Len(history) = HistoryFrames
  BY DEF StoreInv
<1>a. saved = FALSE /\ saved' = TRUE /\ received' = received
  BY DEF SaveReceived
<1>2. /\ slot' = [i \in Slots |-> IF i < HistoryFrames THEN history[i + 1] ELSE slot[i]]
      /\ in' = HistoryFrames /\ out' = 0
      /\ UNCHANGED <<frame_index, fake_index, shown>>
  BY <1>1 DEF SaveHistory, Refill
<1>3. Stored' = HistoryFrames
  BY <1>2 DEF Stored
<1>4. \A i \in 0..(HistoryFrames - 1) : At(i)' = history[i + 1]
  BY <1>2 DEF At, Slots
<1>5. TypeOK'
  BY <1>1, <1>2 DEF StoreInv, TypeOK, Slots
<1>6. StoreInv'
  BY <1>1, <1>3, <1>4, <1>5, <1>a DEF StoreInv
<1>7. Listed' = [i \in 1..HistoryFrames |-> At(i - 1)']
  BY <1>3 DEF Listed
<1>8. Listed' = received
  <2>1. \A i \in 1..HistoryFrames : At(i - 1)' = history[i] /\ history[i] \in Frames
    BY <1>1, <1>4
  <2>2. /\ Listed' \in Seq(Frames) /\ Len(Listed') = HistoryFrames
        /\ \A i \in 1..HistoryFrames : Listed'[i] = history[i]
    BY <1>7, <2>1
  <2> QED BY <1>1, <2>2, SeqEqual
<1>9. Store!SaveHistory
  BY <1>1, <1>2, <1>8, <1>a DEF Store!SaveHistory, Store!Save, Listed
<1> QED BY <1>6, <1>9 DEF StoreStep, Store!Next

\* A live frame takes the free slot, and the slot of the oldest frame is free then.
LEMMA LiveStep ==
  ASSUME HistoryFrames \in Nat \ {0}, StoreInv,
         SaveReceived, Len(received) = 1, SaveLive(received[1])
  PROVE  StoreInv' /\ StoreStep
<1> DEFINE frame == received[1]
<1>a. frame \in Frames /\ received \in Seq(Frames)
  BY DEF StoreInv
<1>b. saved = FALSE /\ saved' = TRUE /\ received' = received
  BY DEF SaveReceived
<1> HIDE DEF frame
<1>c. SaveLive(frame)
  BY DEF frame
<1>1. /\ Stored = HistoryFrames /\ out = NextSlot(in)
      /\ Listed \in Seq(Frames) /\ Len(Listed) = HistoryFrames
      /\ \A i \in 1..HistoryFrames : Listed[i] = At(i - 1)
  BY <1>c, FullRing DEF SaveLive
<1>2. /\ in \in Slots /\ out \in Slots /\ slot \in [Slots -> Frames \cup {NoFrame}]
      /\ slot' = [slot EXCEPT ![in] = frame]
      /\ in' = out /\ out' = NextSlot(out)
      /\ UNCHANGED <<frame_index, fake_index, shown>>
  BY <1>1, <1>c DEF SaveLive, Push, StoreInv, TypeOK
<1>3. in' \in Slots /\ out' \in Slots /\ Stored' = HistoryFrames
  BY <1>2 DEF Slots, NextSlot, Stored
<1>4. ASSUME NEW i \in 0..(HistoryFrames - 2) PROVE At(i)' = At(i + 1)
  <2> USE DEF At, Slots, NextSlot
  <2>1. \A p \in Slots : p # in => slot'[p] = slot[p]
    BY <1>2
  <2>2. CASE in = HistoryFrames
    BY <1>1, <1>2, <2>1, <2>2
  <2>3. CASE in = HistoryFrames - 1
    BY <1>1, <1>2, <2>1, <2>3
  <2>4. CASE in < HistoryFrames - 1
    <3>1. out = in + 1 /\ out' = in + 2 /\ in \in 0..(HistoryFrames - 2)
      BY <1>1, <1>2, <2>4
    <3>2. CASE in + 2 + i <= HistoryFrames
      BY <2>1, <3>1, <3>2
    <3>3. CASE in + 2 + i > HistoryFrames
      <4>1. in + 2 + i - (HistoryFrames + 1) \in Slots /\ in + 2 + i - (HistoryFrames + 1) < in
        BY <3>1, <3>3
      <4> QED BY <2>1, <3>1, <3>3, <4>1
    <3> QED BY <3>1, <3>2, <3>3
  <2> QED BY <1>2, <2>2, <2>3, <2>4
<1>5. At(HistoryFrames - 1)' = frame
  <2> USE DEF At, Slots, NextSlot
  <2>1. slot'[in] = frame
    BY <1>2
  <2>2. CASE in = HistoryFrames
    BY <1>1, <1>2, <2>1, <2>2
  <2>3. CASE in = HistoryFrames - 1
    BY <1>1, <1>2, <2>1, <2>3
  <2>4. CASE in < HistoryFrames - 1
    <3>1. out' = in + 2 /\ out' + (HistoryFrames - 1) > HistoryFrames
          /\ out' + (HistoryFrames - 1) - (HistoryFrames + 1) = in
      BY <1>1, <1>2, <2>4
    <3> QED BY <2>1, <3>1
  <2> QED BY <1>2, <2>2, <2>3, <2>4
<1>6. \A i \in 0..(HistoryFrames - 1) : At(i)' \in Frames
  <2> TAKE i \in 0..(HistoryFrames - 1)
  <2>1. CASE i = HistoryFrames - 1
    BY <1>5, <1>a, <2>1
  <2>2. CASE i \in 0..(HistoryFrames - 2)
    BY <1>1, <1>4, <2>2 DEF StoreInv
  <2> QED BY <2>1, <2>2
<1>7. StoreInv'
  BY <1>2, <1>3, <1>6, <1>a, <1>b DEF StoreInv, TypeOK, Slots
<1>8. Listed' = Append(Tail(Listed), frame)
  <2> DEFINE l == Append(Tail(Listed), frame)
  <2>1. /\ l \in Seq(Frames) /\ Len(l) = HistoryFrames
        /\ \A i \in 1..(HistoryFrames - 1) : l[i] = Listed[i + 1]
        /\ l[HistoryFrames] = frame
    BY <1>1, <1>a
  <2> HIDE DEF l
  <2>2. Listed' = [i \in 1..HistoryFrames |-> At(i - 1)']
    BY <1>3 DEF Listed
  <2>3. \A i \in 1..HistoryFrames : At(i - 1)' \in Frames
    BY <1>6
  <2>4. /\ Listed' \in Seq(Frames) /\ Len(Listed') = HistoryFrames
        /\ \A i \in 1..HistoryFrames : Listed'[i] = At(i - 1)'
    BY <2>2, <2>3
  <2>5. ASSUME NEW i \in 1..HistoryFrames PROVE l[i] = Listed'[i]
    <3>1. CASE i = HistoryFrames
      BY <1>5, <2>1, <2>4, <3>1
    <3>2. CASE i \in 1..(HistoryFrames - 1)
      <4>1. Listed[i + 1] = At(i) /\ i - 1 \in 0..(HistoryFrames - 2) /\ i - 1 + 1 = i
        BY <1>1, <3>2
      <4>2. At(i - 1)' = At(i - 1 + 1)
        BY <1>4, <4>1
      <4>3. At(i - 1)' = At(i)
        BY <4>1, <4>2
      <4> QED BY <2>1, <2>4, <3>2, <4>1, <4>3
    <3> QED BY <3>1, <3>2
  <2>6. l = Listed'
    BY <2>1, <2>4, <2>5, SeqEqual
  <2> QED BY <2>6 DEF l
<1>9. Store!SaveLive
  BY <1>1, <1>2, <1>8, <1>b DEF Store!SaveLive, Store!Save, Listed, frame
<1> QED BY <1>7, <1>9 DEF StoreStep, Store!Next

\* The readers see the newest frame, and one frame after the other.
LEMMA ReadStep ==
  ASSUME HistoryFrames \in Nat \ {0}, StoreInv, ReadLive \/ ReadHistory, UNCHANGED messageVars
  PROVE  StoreInv' /\ StoreStep
<1>1. /\ Stored = HistoryFrames /\ out = NextSlot(in)
      /\ Listed \in Seq(Frames) /\ Len(Listed) = HistoryFrames
      /\ \A i \in 1..HistoryFrames : Listed[i] = At(i - 1)
  BY FullRing DEF ReadLive, ReadHistory
<1>2. TypeOK /\ in \in Slots /\ out \in Slots /\ frame_index \in 0..(HistoryFrames - 1)
      /\ \A i \in 0..(HistoryFrames - 1) : At(i) \in Frames
  BY <1>1 DEF StoreInv, TypeOK
<1>3. UNCHANGED <<slot, in, out, received, saved>>
  BY DEF ReadLive, ReadHistory, ring, messageVars
<1>4. /\ Listed' = Listed /\ Stored' = Stored
      /\ \A i \in 0..(HistoryFrames - 1) : At(i)' = At(i)
  BY <1>3 DEF Listed, Stored, At
<1>5. Listed # <<>>
  BY <1>1
<1>6. CASE ReadLive
  <2>1. Back = At(HistoryFrames - 1)
    <3> USE DEF Back, At, Slots, NextSlot
    <3>1. CASE in = 0
      BY <1>1, <1>2, <3>1
    <3>2. CASE in = HistoryFrames
      BY <1>1, <1>2, <3>2
    <3>3. CASE in \in 1..(HistoryFrames - 1)
      <4>1. out = in + 1 /\ out + (HistoryFrames - 1) > HistoryFrames
            /\ out + (HistoryFrames - 1) - (HistoryFrames + 1) = in - 1
        BY <1>1, <1>2, <3>3
      <4> QED BY <3>3, <4>1
    <3> QED BY <1>2, <3>1, <3>2, <3>3
  <2>2. shown' = Listed[Len(Listed)] /\ shown' \in Frames /\ frame_index' = frame_index
    BY <1>1, <1>2, <1>6, <2>1 DEF ReadLive
  <2>3. StoreInv'
    BY <1>1, <1>2, <1>3, <1>4, <1>6, <2>2 DEF StoreInv, TypeOK, ReadLive
  <2>4. Store!ReadLive
    BY <1>3, <1>4, <1>5, <1>6, <2>2 DEF Store!ReadLive, ReadLive, Listed
  <2> QED BY <2>3, <2>4 DEF StoreStep, Store!Next
<1>7. CASE ReadHistory
  <2>1. /\ shown' = Listed[frame_index + 1] /\ shown' \in Frames
        /\ frame_index' = IF frame_index + 1 = HistoryFrames THEN 0 ELSE frame_index + 1
    BY <1>1, <1>2, <1>7 DEF ReadHistory, Following
  <2>2. StoreInv'
    BY <1>1, <1>2, <1>3, <1>4, <1>7, <2>1 DEF StoreInv, TypeOK, ReadHistory
  <2>3. Store!ReadHistory
    BY <1>3, <1>4, <1>5, <1>7, <2>1 DEF Store!ReadHistory, ReadHistory, Listed
  <2> QED BY <2>2, <2>3 DEF StoreStep, Store!Next
<1> QED BY <1>6, <1>7

\* The reader of the fake data sees one frame after the other, never the slot behind.
LEMMA FakeStep ==
  ASSUME HistoryFrames \in Nat \ {0}, FakeFrames \in [1..HistoryFrames -> Frames], StoreInv,
         ReadFake, UNCHANGED messageVars
  PROVE  StoreInv' /\ StoreStep
<1>1. fake_index \in 0..(HistoryFrames - 1) /\ fake_index + 1 \in 1..HistoryFrames
  BY DEF StoreInv, TypeOK
<1>2. /\ UNCHANGED <<slot, in, out, frame_index, received, saved>>
      /\ shown' = FakeFrames[fake_index + 1]
      /\ fake_index' = IF fake_index + 1 = HistoryFrames THEN 0 ELSE fake_index + 1
  BY <1>1 DEF ReadFake, FakeSlot, Slots, Following, ring, messageVars
<1>3. shown' \in Frames /\ fake_index' \in 0..(HistoryFrames - 1)
  BY <1>1, <1>2
<1>4. Listed' = Listed /\ Stored' = Stored /\ \A i \in 0..(Stored - 1) : At(i)' = At(i)
  BY <1>2 DEF Listed, Stored, At
<1>5. StoreInv'
  BY <1>2, <1>3, <1>4 DEF StoreInv, TypeOK
<1>6. Store!ReadFake
  BY <1>2, <1>4 DEF Store!ReadFake, Listed
<1> QED BY <1>5, <1>6 DEF StoreStep, Store!Next

\* A message that comes changes nothing in the store.
LEMMA ReceiveStep ==
  ASSUME StoreInv, Receive
  PROVE  StoreInv' /\ StoreStep
<1>1. /\ received' \in Seq(Frames) /\ saved' = FALSE
      /\ UNCHANGED <<slot, in, out, frame_index, fake_index, shown>>
  BY DEF Receive, ring
<1>2. Listed' = Listed /\ Stored' = Stored /\ \A i \in 0..(Stored - 1) : At(i)' = At(i)
  BY <1>1 DEF Listed, Stored, At
<1>3. StoreInv'
  BY <1>1, <1>2 DEF StoreInv, TypeOK
<1>4. Store!Receive
  BY <1>1, <1>2 DEF Store!Receive, Listed
<1> QED BY <1>3, <1>4 DEF StoreStep, Store!Next

\* The initial states.
LEMMA StoreInvInit ==
  ASSUME HistoryFrames \in Nat \ {0}, Init
  PROVE  StoreInv /\ Store!Init
<1>1. /\ Stored = 0 /\ frame_index = 0 /\ fake_index = 0 /\ shown = NoFrame
      /\ in = 0 /\ out = 0 /\ received = <<>> /\ saved = FALSE
  BY DEF Init, Stored
<1>2. StoreInv
  BY <1>1 DEF Init, StoreInv, TypeOK, Slots
<1>3. Listed = <<>>
  BY <1>1 DEF Listed
<1> QED BY <1>1, <1>2, <1>3 DEF Store!Init, Listed

\* Every step.
LEMMA StoreInvStep ==
  ASSUME HistoryFrames \in Nat \ {0}, FakeFrames \in [1..HistoryFrames -> Frames],
         StoreInv, [Next]_storeVars
  PROVE  StoreInv' /\ StoreStep
<1>1. CASE UNCHANGED storeVars
  <2>1. UNCHANGED <<slot, in, out, frame_index, fake_index, shown, received, saved>>
    BY <1>1 DEF storeVars, ring, messageVars
  <2> QED BY <2>1 DEF StoreInv, TypeOK, Stored, At, StoreStep, Listed
<1>2. CASE SaveReceived
  <2>1. \/ Len(received) = HistoryFrames /\ SaveHistory(received)
        \/ Len(received) = 1 /\ SaveLive(received[1])
    BY <1>2 DEF SaveReceived
  <2> QED BY <1>2, <2>1, HistoryStep, LiveStep
<1>3. CASE ReadStored
  BY <1>3, ReadStep, FakeStep DEF ReadStored
<1> QED BY <1>1, <1>2, <1>3, ReceiveStep DEF Next

\* The invariant holds in every reachable state.
LEMMA StoreInvCorrect ==
  ASSUME HistoryFrames \in Nat \ {0}, FakeFrames \in [1..HistoryFrames -> Frames]
  PROVE  Spec => []StoreInv
<1>1. Init => StoreInv
  BY StoreInvInit
<1>2. StoreInv /\ [Next]_storeVars => StoreInv'
  BY StoreInvStep
<1> QED BY <1>1, <1>2, PTL DEF Spec

\* The ring and the index that runs round it show the state machine the plain list of the
\* frames of the last history that was received and of the live frames since, oldest
\* first: ring positions may move under the index, but never out of what is stored.
THEOREM RingImplementsList ==
  ASSUME HistoryFrames \in Nat \ {0}, FakeFrames \in [1..HistoryFrames -> Frames]
  PROVE  Spec => StoreKeepsLastFrames
<1>1. Init => Store!Init
  BY StoreInvInit
<1>2. StoreInv /\ [Next]_storeVars
        => [Store!Next]_<<received, saved, [i \in 1..Stored |-> At(i - 1)],
                           frame_index, fake_index, shown>>
  BY StoreInvStep DEF StoreStep, Listed
<1> QED BY <1>1, <1>2, StoreInvCorrect, PTL DEF Spec, StoreKeepsLastFrames, Store!Spec
=============================================================================
