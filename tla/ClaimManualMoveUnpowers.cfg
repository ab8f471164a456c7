\* A claim of gripper_controller.hpp.
SPECIFICATION Spec
CONSTANT Reconfigurable = FALSE
CONSTANT HomingBackoff = TRUE
PROPERTY ManualMoveUnpowers
