SPECIFICATION FairSpec
CONSTANTS
  Attempts = 2
  WithTouch = TRUE
  MaxTries = 3
  MaxOther = 1
INVARIANTS
  OnePipeline
  QuietMeansConfigured
PROPERTIES
  ImplementsService
  StartEnds
  ClosedEndsSession
