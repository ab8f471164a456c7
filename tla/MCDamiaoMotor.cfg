\* Two threads make every call, on a driver that is fresh or connected, with the
\* smallest queue, which any frame fills.
SPECIFICATION Spec
CONSTANTS
  Callers = {web, worker}
  Calls = {"enable", "disable", "send", "clear", "connect", "disconnect", "probe"}
  QueueSize = 1
INVARIANTS TypeOK EnabledIsHonest NoMotionPastDisable LinksAreSeparate
PROPERTIES FaultFrameIsHeeded CallsReturn
