SPECIFICATION Spec
CONSTANTS
  Variant = "fixed"
  Hosts <- RealTimeHost
  Measured = {4, 5, 10, 20, 23}
  kCriticalSection = 10
  kHogBurst = 20
  kHogIdle = 6
  kHolderIdle = 60
  kControlIdle = 4
  kStartDelay = 100
  kCycles = 40
  MaxOversleep = 1
  MaxWait = 60
INVARIANTS WaitBounded HogNeverIntervenes ConcludesBounded
