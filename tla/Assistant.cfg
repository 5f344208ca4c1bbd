SPECIFICATION FairSpec
CONSTANTS
  None = None
  Commands <- SomeCommands
  SessionTable <- SomeSessions
  Stored <- SomeRows
  TargetOf <- Owners
  Events <- EarlierEvents
  Notes <- EarlierNotes
  Registered = {"mock"}
  PerUser = 2
  PerTarget = 2
  MaxConcurrent = 2
  Window = 2
  MaxFactsPerType = 2
  MaxTotalFacts = 5
  PageSize = 3
  MaxRetries = 1
  Stranger <- Nothing
  Emerging <- Leftover
  Scenarios <- TogetherGiven
  Start = 2
  MaxTime = 4
INVARIANTS AnswersGrounded AnswersAudited LimitsHold
PROPERTY TasksEnd
CHECK_DEADLOCK FALSE
