SPECIFICATION Spec
CONSTANTS
  StripSizes <- OneStrip
  Ids <- SomeIds
  Colors = {"red"}
  MaxLedsOn = 1
  TransitionTicks = 4
INVARIANT NewLedsAreDisplayed
