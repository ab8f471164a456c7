SPECIFICATION Spec
CONSTANT WebActions = {"stop"}
INVARIANT CancelledIsUnpowered
