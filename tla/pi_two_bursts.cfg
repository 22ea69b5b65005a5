SPECIFICATION Spec
CONSTANTS
  Variant = "broken"
  Hosts <- RealTimeHost
  Measured = {5}
  kCriticalSection = 5
  kHogBurst = 10
  kHogIdle = 3
  kHolderIdle = 30
  kControlIdle = 2
  kStartDelay = 50
  kCycles = 40
  MaxOversleep = 1
  MaxWait = 60
INVARIANTS WaitPaysOneBurst
