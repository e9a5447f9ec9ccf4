SPECIFICATION SuiteSpec
SYMMETRY Alike
CONSTANTS
  None = None
  Unset = Unset
  k1 = k1
  k2 = k2
  o1 = o1
  o2 = o2
  MaxMishaps = 1
  MaxCrashes = 1
  MaxRestarts = 1
  MaxReboots = 1
INVARIANT ScopeSafe
INVARIANT CaptureSafe
INVARIANT StagingSafe
INVARIANT PublicationSafe
PROPERTY CaptureSteps
CHECK_DEADLOCK FALSE
