SPECIFICATION Spec
CONSTANTS
  Wrap = 5
  WorkMs <- MCWorkMs
  MarginMs = 3
  Budgets <- MCBudgets
  NoDeadline = NoDeadline
  OwnerMs <- MCOwnerMs
  MaxClock = 16
INVARIANTS
  DeadlineIsTrue
  OwnersResultIsKept
CHECK_DEADLOCK FALSE
