SPECIFICATION FairSpec
CONSTANTS
  Accounts = {"alice", "bob", "carol"}
  N = 4
  From <- Ring
  To <- RingTo
  amount = 10
  kInitial = 1000
INVARIANTS TypeOK NoHoldAndWait PrintsTheLedger
PROPERTIES Atomic EndsOrBacksOffForever
