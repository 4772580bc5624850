SPECIFICATION Spec
CONSTANTS
  Configurations <- MCTwice
  Symbols <- MCSymbols
  Rank <- MCRank
  Static = {1}
  PR_USE_DSO = TRUE
  PR_USE_CTRLS = TRUE
  MaxShort = 0
INVARIANTS
  WrittenBack
CHECK_DEADLOCK FALSE
