SPECIFICATION Spec
CONSTANTS
  MaxDeviations <- TwoDeviations
  MaxRuns <- TwoRuns
INVARIANTS
  TypeOK
  NoStaleVerdict
  SuccessShowsTheDefects
  EveryCheckCounted
  EvidenceIsAPair
  EvidenceInOrder
