SPECIFICATION FairSpec
CONSTANTS
  QueueSize = 4
  ClockSize = 7
  TickPeriod = 2
  MaxBlock = 4
  ByteSize = 4
  FilterWeight = 4
  DefaultBrightness = 2
  MinimumBrightness = 1
  MaxCnt = 1
  Lights = {0, 15}
  MaxTimers = 3
  DefaultPeriod = 1
  TimerPeriod = 2
  TimersInOrder <- TwoTimers
  PinLevels = {0, 1010}
  MaxRestarts = 2
INVARIANTS
  TypeOK
  TicksComeInTime
  LoopFindsEverything
  RoundTicksEach
PROPERTIES
  TicksAreSpaced
  NoJump
  TicksGoOn
  BrightnessSettles
