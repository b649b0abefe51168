SPECIFICATION Spec
CONSTANTS
  QueueSize = 4
  CheckTicks = 0
  RecheckTicks = 1
  ShortPushTicks = 0
  TransitionTicks = 2
  MaxFails = 2
  MaxConversions = 2
INVARIANTS
  TypeOK
  QueueBounded
  SignalsReachTheirState
  DelegatesMatchWriter
  StoreReadAfterSave
  LiveShowsLiveData
  PictureMatchesMode
  StatusLedShown
  TimersFollowState
  PollingGivesUp
PROPERTIES
  MinuteStartsOnEntry
  StatusAnnounced
  PushWhileStartingResets
