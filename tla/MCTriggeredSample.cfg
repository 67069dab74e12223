SPECIFICATION FairSpec
CONSTANTS
  TicksPerMs = 2
  CycleTicks = 1
  WaitMs = 1
  RecheckMs = 3
  Timeout = 1
  ChannelReads = 2
  Deadlines <- MCDeadlines
  PollDeadlines <- MCPollDeadlines
  Budgets <- MCBudgets
  MaxClock = 18
INVARIANTS
  SampleIsItsOwn
  AdmittedTriggerHasTime
PROPERTIES
  PollEndsByDeadline
  SteadyRecheckInterval
  SampleJobEnds
