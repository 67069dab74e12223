SPECIFICATION Spec
CONSTANTS
  TicksPerMs = 3
  CycleTicks = 2
  WaitMs = 1
  RecheckMs = 3
  Timeout = 1
  ChannelReads = 2
  Deadlines <- MCDeadlines
  PollDeadlines <- MCPollDeadlines
  Budgets <- MCBudgets
  MaxClock = 27
INVARIANTS
  LowCvrfIsAFault
