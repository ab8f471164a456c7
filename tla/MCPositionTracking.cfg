\* A wrap range of four counts; the motor turns four counts either way.
SPECIFICATION Spec
CONSTANTS
  Half = 2
  Reversed = TRUE
  Open = 1
  Middle = 3
  Span = 4
INVARIANTS
  TypeOK
  PositionIsTrue
  CommandsMeetFeedback
