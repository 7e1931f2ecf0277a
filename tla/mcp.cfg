SPECIFICATION FairSpec
CONSTANTS
  Anomalies = FALSE
  MaxCalls = 2
  MaxConnects = 3
  MaxNet = 2
CHECK_DEADLOCK FALSE
INVARIANTS AnswerIsOwn OnlineIsWelcomed
PROPERTY CallAnswered
