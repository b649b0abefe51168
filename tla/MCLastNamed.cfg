SPECIFICATION PatientSpec
CONSTANTS
  StripSizes <- OneStrip
  Ids <- SomeIds
  Colors = {"red", "green"}
  MaxLedsOn = 2
  TransitionTicks = 4
INVARIANT LastNamedIsShown
