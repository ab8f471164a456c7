\* A claim of motor_interface.hpp; one thread makes every call.
SPECIFICATION Spec
CONSTANTS
  Callers = {web}
  Calls = {"enable", "disable", "send", "clear", "connect", "disconnect", "probe"}
  QueueSize = 2
PROPERTY
  EnableFailsWhenFaulted
