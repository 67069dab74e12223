SPECIFICATION TransportSpec
CONSTANTS
  MaxConsecutive = 2
  MaxTotal = 2
  Thresholds <- MCThresholds
  MaxCallbacks = 5
  Addresses <- MCAddresses
  Clocks <- MCClocks
  BadAddress = 9
  BadClock = 9
  Timeouts <- MCTimeouts
  WireTimeout = 2
  LongestTimeout = 2
INVARIANTS
  StateIsDerived
  NotReachedIsTrue
  RightDevice
  HandlesAreAccounted
VIEW LiveView
