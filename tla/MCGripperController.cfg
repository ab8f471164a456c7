SPECIFICATION Spec
CONSTANT Reconfigurable = FALSE
CONSTANT HomingBackoff = TRUE
INVARIANT TypeOK
INVARIANT Coherent
PROPERTY MotionContract
PROPERTY OnlyManualMoveStrands
PROPERTY BringupIsIsolated
