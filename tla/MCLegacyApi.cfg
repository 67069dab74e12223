SPECIFICATION LegacySpec
CONSTANTS
  LastIndex = 2
  MaskIndex = 2
  Settings <- MCSettings
  Limits <- MCLimits
  ResetSetting = "s"
  ResetLimit = "hi"
  Calibrations <- MCCalibrations
  DefaultCalibration = "a"
  Candidates <- MCCandidates
  RequestIds = {1}
  MaxGeneration = 3
  SampleReads = 1
INVARIANTS
  CertaintyIsHonest
  SampleMatchesGeneration
  SampleJobUnderVerifiedConfig
  ReadinessIsAccounted
VIEW LiveView
