SPECIFICATION Spec
CONSTANTS
  Configured <- FewAndMany
  MaxCapacity = 10
INVARIANTS
  DanglesIffOutgrown
  PrintsFirstUnlessOutgrown
  AsanIsExact
