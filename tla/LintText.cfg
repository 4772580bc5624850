SPECIFICATION Spec
CONSTANTS
  Texts <- MCTexts
  LINT_BUFFER_SIZE = 4
  SIZE_MAX = 15
  MaxCalls = 4
INVARIANTS
  ForeignOnlyFromLong
  AnswerTellsCause
  BufferWritten
CHECK_DEADLOCK FALSE
