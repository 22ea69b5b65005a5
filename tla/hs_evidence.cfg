SPECIFICATION Spec
CONSTANTS
  MaxDeviations = 1
  MaxRuns = 1
INVARIANT
  EvidenceConcludes
