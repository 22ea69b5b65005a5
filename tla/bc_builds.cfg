SPECIFICATION Spec
CONSTANTS
  IntMax = 15
  kBufferSize = 6
  kSmall = 2
INVARIANTS
  GuardedDecides
  WrongExactlyOnOverflow
  DiagnosisIsExact
