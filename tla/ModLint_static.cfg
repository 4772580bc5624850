SPECIFICATION FairSpec
CONSTANTS
  Shared = FALSE
  Directives <- MCDirectives
  Misspelled <- MCMisspelled
  Kinds <- MCKinds
  MaxLines = 4
  MaxConfigs = 3
  MaxRestarts = 2
INVARIANTS
  TypeOK
  PoolSafety
  NoFault
  AttributionExact
  RecordedExactly
  NoStaleConfigs
  EmissionHasItsLine
PROPERTIES
  QuietWhileServing
  Released
  Answered
CHECK_DEADLOCK FALSE
