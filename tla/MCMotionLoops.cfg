SPECIFICATION Spec
CONSTANT TheoreticalOpen = 0
CONSTANT TheoreticalClosed = 2
CONSTANT SoftOpen = 0
CONSTANT SoftClosed = 2
CONSTANT SafeOpen = 0
CONSTANT SafeClosed = 1
CONSTANT MaxMotorCurrent = 2
CONSTANT MaxNutSpeed = 2
CONSTANT MaxSpeedChange = 1
CONSTANT OperationCurrent <- MCOperationCurrent
CONSTANT ContactRise = 1
CONSTANT JamRise = 2
CONSTANT SpeedDrop = 0
CONSTANT LimitMargin = 0
CONSTANT Tolerance = 0
CONSTANT ManualTolerance = 0
CONSTANT Threshold = 1
CONSTANT CurrentMargin = 0
CONSTANT ScanStart = 1
CONSTANT ScanStop = 1
CONSTANT BringupMost <- MCBringupMost
CONSTANT BringupUsual <- MCBringupUsual
CONSTANT MotorSpeed = 1
CONSTANT MotorWindow = 2
CONSTANT Asked <- MCAsked
CONSTANT Strokes <- MCStrokes
CONSTANT Currents = {0, 1, 2, 3}
CONSTANT Slide = 1
CONSTANT Anomalies = {1}
CONSTANT Purposes = {"homing", "backoff", "learning", "return", "health", "clamp", "approach", "press", "release", "manual", "jog", "turns"}
CONSTANT Timeout = 3
CONSTANT Confirm = 2
CONSTANT SettleTimeout = 2
CONSTANT StillTime = 1
CONSTANT StaleAfter = 2
CONSTANT Step = 1
INVARIANT TypeOK
INVARIANT EndingsHold
INVARIANT CommandsStayInside
PROPERTY StopsOnStandstill
PROPERTY MotionEnds
PROPERTY StepsAreBounded
