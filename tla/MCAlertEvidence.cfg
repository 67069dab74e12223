SPECIFICATION AlertSpec
CONSTANTS
  Alerts = {cf, wf}
  CVRF = cvrf
  Levels = {pvf}
INVARIANTS
  EvidenceIsTrue
PROPERTIES
  SampleAlertsAreItsOwn
SYMMETRY FlagSymmetry
