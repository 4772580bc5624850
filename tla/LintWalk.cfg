SPECIFICATION Spec
CONSTANTS
  Trees <- MCTrees
  Symbols <- MCSymbols
  Lines <- MCLines
  MaxNodes = 4
INVARIANTS
  WalkIsPreorder
  IndentPools
  LinesAlive
