SPECIFICATION Spec
CONSTANTS
  FloatBits = 8
  MicroPerUnit = 500
  MaxMicroOhms = 2000
  Profiles <- MCProfiles
  SettableModes = {0, 1, 6}
  SettableAveragings = {7}
  SettableTimes = {4}
  SettableChannels = {2}
  SettableLatches <- MCLatches
  SettableMicroOhms = {201}
  LimitWords <- MCLimitWords
  SumWords <- MCSumWords
  UpperWords <- MCUpperWords
  LowerWords <- MCLowerWords
  MaskWords <- MCMaskWords
  ConfigWords <- MCConfigWords
  RawWrites <- MCRawWrites
  StatusBits = {0, 1023}
INVARIANTS
  ProfileStaysValid
  RegistersHoldTheProfile
  HealthyDeviceVerifies
  LegacyViewIsTrue
  ReadingsAreMeasured
