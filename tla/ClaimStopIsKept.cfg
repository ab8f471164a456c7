SPECIFICATION Spec
CONSTANT WebActions = {"stop"}
INVARIANT StopIsKept
