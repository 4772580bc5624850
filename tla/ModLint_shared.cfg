SPECIFICATION FairSpec
CONSTANTS
  Shared = TRUE
  Directives <- MCDirectives
  Misspelled <- MCMisspelled
  Kinds <- MCKinds
  MaxLines = 4
  MaxConfigs = 3
  MaxRestarts = 2
INVARIANTS
  PoolSafety
  NoFault
  AttributionExact
  RecordedExactly
  NoStaleConfigs
  EmissionHasItsLine
PROPERTIES
  QuietWhileServing
  Released
  Answered
CHECK_DEADLOCK FALSE
