SPECIFICATION PatientSpec
CONSTANTS
  StripSizes <- OneStrip
  Ids <- SomeIds
  Colors = {"red", "green", "blue"}
  MaxLedsOn = 2
  TransitionTicks = 6
INVARIANTS
  TypeOK
  ShowsPicture
  UnchangedStayLit
PROPERTY NoFlicker
