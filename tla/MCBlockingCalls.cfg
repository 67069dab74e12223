SPECIFICATION FairSpec
CONSTANTS
  Wrap = 16
  WaitMs = 1
  RecheckMs = 2
  TimeoutMs = 1
  ChannelReads = 2
  JobTransfers = 3
  Timeouts <- MCTimeouts
  SpinLimit = 2
  Never = Never
  MaxClock = 22
INVARIANTS
  SlotIsHandedBack
  GivenUpOnlyWhenStalled
  NoLateTransfer
PROPERTIES
  CallReturns
  OwnerKeepsItsSlot
