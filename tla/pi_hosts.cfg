SPECIFICATION FairSpec
CONSTANTS
  Variant = "fixed"
  Hosts <- EveryHost
  Measured = {0, 3, 7}
  kCriticalSection = 3
  kHogBurst = 4
  kHogIdle = 2
  kHolderIdle = 5
  kControlIdle = 1
  kStartDelay = 6
  kCycles = 2
  MaxOversleep = 0
  MaxWait = 10
INVARIANTS TypeOK MutexConsistent ConcludesOnlyWithPriorities
PROPERTIES Terminates
