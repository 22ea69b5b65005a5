SPECIFICATION FairSpec
CONSTANTS
  Accounts = {"alice", "bob"}
  N = 2
  From <- Crossing
  To <- CrossingTo
  amount = 10
  kInitial = 1000
  Nullptr = "nullptr"
INVARIANTS TypeOK HoldingIsOwned CycleIffDeadlock
PROPERTIES Atomic HangsOnlyByDeadlock LateSampleReports
CHECK_DEADLOCK FALSE
