SPECIFICATION Spec
CONSTANT MotionStart = 2
CONSTANT MicroMotion = 1
CONSTANT Noise = 0
CONSTANT FallbackNoise = 1
CONSTANT MinMeasured = 4
CONSTANT MaxError = 1
CONSTANT Probes = {"breakaway", "shortStroke", "scan", "retry", "learning"}
CONSTANT Goal = 3
CONSTANT Ahead = 3
CONSTANT Behind = 2
CONSTANT Reach = 4
CONSTANT Timeout = 5
CONSTANT HardConfirm = 2
CONSTANT SoftTimeout = 2
CONSTANT SettleTimeout = 2
CONSTANT StillTime = 1
INVARIANT TypeOK
INVARIANT OutcomeIsPossible
INVARIANT StuckStoodStill
INVARIANT UnloadsAtStops
PROPERTY NothingLearntAfterStop
PROPERTY ProbeEnds
PROPERTY StepsAreBounded
