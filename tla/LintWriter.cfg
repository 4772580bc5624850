SPECIFICATION Spec
CONSTANTS
  Configurations <- MCConfigurations
  Symbols <- MCSymbols
  Rank <- MCRank
  Static = {1}
  PR_USE_DSO = TRUE
  PR_USE_CTRLS = TRUE
  MaxShort = 1
INVARIANTS
  EmittedOnce
  Normalized
  FailureReported
  HandleClosed
PROPERTIES
  NothingAfterFailure
  KeepsPromise
CHECK_DEADLOCK FALSE
