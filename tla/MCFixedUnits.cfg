SPECIFICATION Spec
CONSTANTS
  WordBits = 8
  DataShift = 3
  DataBits = 5
  SumShift = 1
  SumBits = 7
  ShuntLsb = 40
  BusLsb = 800
  MaximumBus = 10400
  IntMax = 5000
  Resistances <- MCResistances
  Ranges <- MCRanges
  WindowWidths <- MCWindowWidths
INVARIANTS
  EncodingIsFaithful
  CurrentIsNearest
  ReadingIsConsistent
CHECK_DEADLOCK FALSE
