SPECIFICATION FairSpec
CONSTANTS
  TickPeriod = 2
  Durations = {0, 1, 2, 3, 5, 7}
  CounterSize = 5
INVARIANT TypeOK
PROPERTIES
  TimerIsOneShot
  ExitStops
  RunsEnd
