SPECIFICATION FairSpec
CONSTANTS
  QueueSize = 4
  CheckTicks = 0
  RecheckTicks = 0
  ShortPushTicks = 0
  TransitionTicks = 1
  MaxFails = 2
  MaxConversions = 1
PROPERTY ConnectionLossSetsFakeMode
