SPECIFICATION SystemFairSpec
CONSTANTS
  Shared = TRUE
  Directives <- MCTrace
  Misspelled = {}
  Kinds <- MCTraceKinds
  MaxLines = 3
  MaxConfigs = 2
  MaxRestarts = 1
  Symbols <- MCSymbols
  Rank <- MCRank
  Static = {}
  PR_USE_DSO = TRUE
  PR_USE_CTRLS = TRUE
  MaxShort = 0
  Servers = 1
  MainSettings = {}
  Modules <- MCModules
INVARIANTS
  OneConfiguration
  NothingLeft
PROPERTIES
  ImplementsModLint
  SystemAnswered
CHECK_DEADLOCK FALSE
