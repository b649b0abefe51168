SPECIFICATION Spec
CONSTANTS
  ByteValues = 2
  BytesPerLed = 1
  MaxLedsOn = 2
  HistoryFrames = 2
  FakeFrames <- TwoFrames
INVARIANT FullIsCorrect
