SPECIFICATION FairSpec
CONSTANTS
  MaxCalls = 2
  MaxRefusals = 1
  MaxLate = 1
  MaxNet = 3
CHECK_DEADLOCK FALSE
INVARIANTS AnswerIsOwn RunningIsTrue
PROPERTY CallAnswered
