SPECIFICATION FairSpec
CONSTANTS
  r1 = r1 r0 = r0
  Configs <- SomeConfigs
  Requests = {r1}
  Earlier = r0
  MaxInt = 1000
  MaxSignals = 2
  Chunks = 2
  MaxLosses = 1
INVARIANTS HandlersHaveWhatTheyNeed OkMeansPublished WholeArchiveOrNone
PROPERTIES SignalEnds CommandEnds
CHECK_DEADLOCK FALSE
