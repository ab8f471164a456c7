SPECIFICATION Spec
CONSTANT WebActions = {"stop", "disable", "clearFault", "enable", "disconnect", "connect"}
INVARIANT TypeOK
INVARIANT CoherentAtRest
PROPERTY NoMotionAfterStop
PROPERTY SelfCheckEndsUnpowered
PROPERTY CancelEndsSelfCheck
