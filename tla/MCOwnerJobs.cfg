SPECIFICATION FairSpec
CONSTANTS
  LastIndex = 2
  Settings <- MCSettings
  Limits <- MCLimits
  ResetSetting = "s"
  ResetLimit = "hi"
  Calibrations <- MCCalibrations
  DefaultCalibration = "a"
  Candidates <- MCCandidates
  RequestIds = {1, 2}
  MaxGeneration = 1
  SampleReads = 1
INVARIANTS
  AppliedIsTrue
  EffectIsHonest
PROPERTIES
  CertaintyOnlyByVerification
  ImplementsContract
  ActiveJobEnds
