SPECIFICATION Spec
CONSTANTS
  ByteValues = 2
  BytesPerLed = 1
  MaxLedsOn = 1
  HistoryFrames = 2
  FakeFrames <- TwoFrames
INVARIANTS
  TypeOK
  AcceptsWhatIsAsked
  StoredWhole
PROPERTY StoreKeepsLastFrames
