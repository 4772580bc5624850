SPECIFICATION SystemSpec
CONSTANTS
  Shared = TRUE
  Directives <- MCTraceAndUser
  Misspelled = {}
  Kinds <- MCUserKinds
  MaxLines = 4
  MaxConfigs = 3
  MaxRestarts = 0
  Symbols <- MCSymbols
  Rank <- MCRank
  Static = {}
  PR_USE_DSO = TRUE
  PR_USE_CTRLS = TRUE
  MaxShort = 0
  Servers = 2
  MainSettings = {}
  Modules <- MCModules
INVARIANTS
  CompleteFile
CHECK_DEADLOCK FALSE
