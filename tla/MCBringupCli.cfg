SPECIFICATION Spec
CONSTANTS
  Addresses <- MCAddresses
  Clocks <- MCClocks
  TransferMs = 2
  JobMs = 5
  Budgets <- MCBudgets
INVARIANTS
  NoOrphanJob
  JobsReachTheBus
  FrequencyIsTrusted
  LastProfileIsKept
PROPERTY
  ServicedJobEnds
