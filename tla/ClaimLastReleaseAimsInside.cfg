\* One unit is the distance that counts as motion (what a smaller, micro motion
\* changes is checked by the self_check_probe run); the nut can get far enough for
\* three learning regions.
CONSTANTS
  MotionStart = 1
  MicroMotion = 0
  Noise = 0
  FallbackNoise = 0
  MinMeasured = 1
  MaxError = 0
  Speeds = 2
  Currents = 3
  Ripple = 1
  StrokeTarget = 2
  Forth = {0, 1, 2}
  Back = {1}
  Reach = 4
  MaxExpansion = 5
  MotorWindow = 4
  ReleaseDistance = 2
  SafeMargin = 1
  ProbeWindow = 1
  MinRegions = 3
  AnchorCount = 4
  LearnSpeeds = 1
  MoveSteps = 1
SPECIFICATION Spec
INVARIANT LastReleaseAimsInside
