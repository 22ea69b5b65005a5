SPECIFICATION Spec
CONSTANTS
  Accounts = {"alice", "bob"}
  N = 2
  From <- Crossing
  To <- CrossingTo
  amount = 10
  kInitial = 1000
  Nullptr = "nullptr"
INVARIANTS ReportsOnlyDeadlocks
CHECK_DEADLOCK FALSE
