------------------------ MODULE PositionTracking_proof ------------------------
(***************************************************************************)
(* Proofs about PositionTracking, for every wrap range, direction, limits  *)
(* and bound.  Within one link the encoder and the two reading offsets     *)
(* agree (LinkInv); from that what the properties say follows.             *)
(***************************************************************************)
EXTENDS PositionTracking, TLAPS

USE HalfAssumption, LimitsAssumption, SpanAssumption, SignAssumption

\* What has been counted and shown belongs to the link that is open.
CountInv ==
  /\ started => linked
  /\ started => reading - last - moved \in {-(2 * Half), 0, 2 * Half}
  /\ shown.valid /\ linked =>
       started /\ shown.position = angles.shown - angles.origin

\* The reference belongs to it too, and the nut encoder has the same zero.
ReferenceInv ==
  /\ zero = reference
  /\ reference.valid =>
       /\ started
       /\ feedback = angles.feedback - angles.origin
       /\ reference.motor = angles.reference - angles.origin

LinkInv == TypeOK /\ CountsTurns /\ CountInv /\ ReferenceInv /\ StrokeFollowsMotor

-----------------------------------------------------------------------------
(* The operators. *)

\* A reading stays within one turn.
LEMMA RolledTyped ==
  ASSUME NEW r \in Reading, NEW d \in {-1, 1}
  PROVE  /\ Rolled(r + d) \in Reading
         /\ Rolled(r + d) - (r + d) \in {-(2 * Half), 0, 2 * Half}
  BY DEF Rolled, Reading

\* The unwrapped difference of two readings is what the motor has turned
\* between them, if that is less than half a wrap range.
LEMMA UnwrappedIsMoved ==
  ASSUME NEW r \in Reading, NEW l \in Reading,
         NEW m \in (1 - Half)..(Half - 1),
         r - l - m \in {-(2 * Half), 0, 2 * Half}
  PROVE  Unwrapped(r - l) = m
  BY DEF Unwrapped, Reading

\* What a reset leaves is typed.
LEMMA NothingTyped ==
  NoReference \in References /\ 0 \in Reading /\ 0 \in (1 - Half)..(Half - 1)
  BY DEF NoReference, References, Reading

-----------------------------------------------------------------------------
(* The invariant. *)

\* Before the first link nothing is valid and no reference holds.
LEMMA InitEstablishes == Init => LinkInv
<1> SUFFICES ASSUME Init PROVE LinkInv
  OBVIOUS
<1>1. linked \in BOOLEAN /\ started \in BOOLEAN
  BY DEF Init
<1>2. TypeOK
  BY <1>1, NothingTyped DEF Init, TypeOK
<1>3. CountsTurns /\ CountInv /\ ReferenceInv /\ StrokeFollowsMotor
  BY DEF Init, CountsTurns, CountInv, ReferenceInv, StrokeFollowsMotor, NoReference
<1> QED BY <1>2, <1>3 DEF LinkInv

\* The motor turns; what is cached keeps the angle it was taken at.
LEMMA TurnKeeps == ASSUME LinkInv, NEW d \in {-1, 1}, Turn(d) PROVE LinkInv'
<1> USE DEF LinkInv, Turn, driver, encoder, controller
<1>1. /\ reading' \in Reading
      /\ reading' - (reading + d) \in {-(2 * Half), 0, 2 * Half}
  BY RolledTyped DEF TypeOK
<1>2. moved' \in (1 - Half)..(Half - 1) /\ angle' \in Int
  BY DEF TypeOK
<1>3. TypeOK'
  BY <1>1, <1>2 DEF TypeOK
<1>4. CountsTurns'
  BY DEF CountsTurns, TypeOK
<1>5. started' => reading' - last' - moved' \in {-(2 * Half), 0, 2 * Half}
  <2> SUFFICES ASSUME started
               PROVE  reading' - last' - moved' \in {-(2 * Half), 0, 2 * Half}
    OBVIOUS
  <2>1. reading - last - moved \in {-(2 * Half), 0, 2 * Half}
    BY DEF CountInv
  <2>2. moved' = moved + d /\ last' = last
    OBVIOUS
  <2>3. reading' - last' - moved'
          = (reading - last - moved) + (reading' - (reading + d))
    BY <1>1, <2>2 DEF TypeOK, Reading
  <2>4. reading' - last' - moved' < 4 * Half /\ reading' - last' - moved' > -(4 * Half)
    BY <1>1, <1>2, <2>2 DEF TypeOK, Reading
  <2> QED BY <1>1, <2>1, <2>3, <2>4
<1>6. CountInv'
  BY <1>5 DEF CountInv
<1>7. ReferenceInv' /\ StrokeFollowsMotor'
  BY DEF ReferenceInv, StrokeFollowsMotor, Along
<1> QED BY <1>3, <1>4, <1>6, <1>7

\* A sample adds to the count what the motor has turned since the last one.
LEMMA SampleKeeps == ASSUME LinkInv, Sample PROVE LinkInv'
<1> USE DEF LinkInv, Sample, controller, motor
<1>1. started => Unwrapped(reading - last) = moved
  BY UnwrappedIsMoved DEF CountInv, TypeOK
<1>2. TypeOK'
  BY <1>1 DEF TypeOK, Reading
<1>3. CountsTurns'
  BY <1>1 DEF CountsTurns, TypeOK, Reading
<1>4. CountInv'
  BY DEF CountInv, TypeOK, Reading
<1>5. ReferenceInv' /\ StrokeFollowsMotor'
  BY DEF ReferenceInv, StrokeFollowsMotor, CountInv, TypeOK, Along
<1> QED BY <1>2, <1>3, <1>4, <1>5

\* The sample becomes the driver's feedback.
LEMMA StoreKeeps == ASSUME LinkInv, Store PROVE LinkInv'
<1> USE DEF LinkInv, Store, encoder, controller, motor
<1>1. TypeOK'
  BY DEF TypeOK
<1>2. CountsTurns' /\ CountInv'
  BY DEF CountsTurns, CountInv, TypeOK
<1>3. ReferenceInv' /\ StrokeFollowsMotor'
  BY DEF ReferenceInv, StrokeFollowsMotor, TypeOK, Along
<1> QED BY <1>1, <1>2, <1>3

\* A new link starts without feedback, on the encoder disconnect() has reset.
LEMMA ConnectKeeps == ASSUME LinkInv, Connect PROVE LinkInv'
<1> USE DEF LinkInv, Connect, encoder, controller, motor
<1>1. TypeOK'
  BY DEF TypeOK
<1>2. CountsTurns' /\ CountInv'
  BY DEF CountsTurns, CountInv
<1>3. ReferenceInv' /\ StrokeFollowsMotor'
  BY DEF ReferenceInv, StrokeFollowsMotor, Along
<1> QED BY <1>1, <1>2, <1>3

\* The controller reads the feedback and may make its reference of it.
LEMMA UpdateFeedbackKeeps == ASSUME LinkInv, UpdateFeedback PROVE LinkInv'
<1> USE DEF LinkInv, UpdateFeedback, driver, encoder, motor
<1>1. shown.position \in Int /\ shown.position = angles.shown - angles.origin
  BY DEF TypeOK, CountInv
<1>2. FirstReference(shown.position) \in References
  BY <1>1 DEF FirstReference, References
<1>3. /\ reference' = IF reference.valid THEN reference
                      ELSE FirstReference(shown.position)
      /\ zero' = reference'
  BY <1>2 DEF ReferenceInv
<1>4. reference' \in References
  BY <1>2, <1>3 DEF TypeOK
<1>5. stroke' \in Int
  BY <1>1, <1>3, <1>4 DEF StrokeAt, Along, References
<1>6. TypeOK'
  BY <1>1, <1>3, <1>4, <1>5 DEF TypeOK
<1>7. CountsTurns' /\ CountInv'
  BY DEF CountsTurns, CountInv, TypeOK
<1>8. ReferenceInv'
  BY <1>1, <1>3 DEF ReferenceInv, FirstReference, CountInv, TypeOK
<1>9. StrokeFollowsMotor'
  BY <1>1, <1>3, <1>6, <1>8
     DEF StrokeFollowsMotor, ReferenceInv, StrokeAt, Along, TypeOK, References
<1> QED BY <1>6, <1>7, <1>8, <1>9

\* Homing moves reference and zero together.
LEMMA SetOpenZeroReferenceKeeps ==
  ASSUME LinkInv, SetOpenZeroReference PROVE LinkInv'
<1> USE DEF LinkInv, SetOpenZeroReference, OpenZero, ZeroHere, driver, encoder, motor
<1>1. TypeOK'
  BY DEF TypeOK, References
<1>2. CountsTurns' /\ CountInv'
  BY DEF CountsTurns, CountInv, TypeOK
<1>3. ReferenceInv'
  BY DEF ReferenceInv, TypeOK
<1>4. StrokeFollowsMotor'
  BY DEF StrokeFollowsMotor, TypeOK, Along
<1> QED BY <1>1, <1>2, <1>3, <1>4

\* A closed link keeps its feedback, and no reference to measure it by.
LEMMA DisconnectKeeps == ASSUME LinkInv, Disconnect PROVE LinkInv'
<1> USE DEF LinkInv, Disconnect, EncoderReset, motor
<1>1. linked' \in BOOLEAN /\ started' \in BOOLEAN
  OBVIOUS
<1>2. TypeOK'
  BY <1>1, NothingTyped DEF TypeOK
<1>3. CountsTurns' /\ CountInv'
  BY DEF CountsTurns, CountInv
<1>4. ReferenceInv' /\ StrokeFollowsMotor'
  BY DEF ReferenceInv, StrokeFollowsMotor, NoReference
<1> QED BY <1>2, <1>3, <1>4

\* Nothing moves.
LEMMA StutterKeeps == ASSUME LinkInv, UNCHANGED vars PROVE LinkInv'
  BY DEF vars, driver, encoder, controller, motor, LinkInv, TypeOK, CountsTurns,
         CountInv, ReferenceInv, StrokeFollowsMotor, Along

\* The link invariant holds in every state, for every wrap range, direction
\* and limit of the mechanism.
THEOREM Tracked == Spec => []LinkInv
<1>1. LinkInv /\ [Next]_vars => LinkInv'
  BY TurnKeeps, SampleKeeps, StoreKeeps, ConnectKeeps, UpdateFeedbackKeeps,
     SetOpenZeroReferenceKeeps, DisconnectKeeps, StutterKeeps DEF Next
<1> QED BY InitEstablishes, <1>1, PTL DEF Spec

\* The variables stay typed; in particular the drive's reading within one turn.
THEOREM TypeCorrect == Spec => []TypeOK
<1>1. LinkInv => TypeOK
  BY DEF LinkInv
<1> QED BY Tracked, <1>1, PTL

\* The virtual encoder loses no turn, whatever its wrap range, as long as the
\* motor turns by less than half of it between two samples.
THEOREM NoTurnLost == Spec => []CountsTurns
<1>1. LinkInv => CountsTurns
  BY DEF LinkInv
<1> QED BY Tracked, <1>1, PTL

\* The stroke is the reference plus what the motor has turned since, in either
\* direction of the screw.
THEOREM StrokeIsTracked == Spec => []StrokeFollowsMotor
<1>1. LinkInv => StrokeFollowsMotor
  BY DEF LinkInv
<1> QED BY Tracked, <1>1, PTL

\* Together: the position in turns and along the stroke is that of the motor.
THEOREM PositionIsTracked == Spec => []PositionIsTrue
<1>1. LinkInv => PositionIsTrue
  BY DEF LinkInv, PositionIsTrue
<1> QED BY Tracked, <1>1, PTL

\* The controller commands and measures in one coordinate.
THEOREM OneCoordinate == Spec => []CommandsMeetFeedback
<1>1. LinkInv => CommandsMeetFeedback
  <2> SUFFICES ASSUME LinkInv, reference.valid, NEW s \in {Open, Middle}
               PROVE  StrokeAt(zero, MotorFor(reference, s)) = s
    BY DEF CommandsMeetFeedback
  <2>1. zero = reference /\ reference.motor \in Int /\ reference.nut \in Int
    BY DEF LinkInv, ReferenceInv, TypeOK, References
  <2> QED BY <2>1 DEF StrokeAt, MotorFor, Along
<1> QED BY Tracked, <1>1, PTL
=============================================================================
