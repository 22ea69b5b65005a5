SPECIFICATION FairSpec
CONSTANTS
  kWorkers = 3
  kPerWorker = 3
  Bases <- TwoBases
INVARIANTS
  NeverOverReports
  LossNeedsOverlap
  SomeCountsSurvive
  MeasuredWork
PROPERTIES
  PaddedLinesStay
  Terminates
