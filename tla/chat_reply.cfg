SPECIFICATION FairSpec
CONSTANTS
  MaxAttempts = 2
  MaxEditAttempts = 2
  MaxIterations = 2
  MaxChunks = 3
  HasTools = TRUE
INVARIANTS AnswerStays PlaceholderIsReplaced
PROPERTY HandlerEnds
CHECK_DEADLOCK FALSE
