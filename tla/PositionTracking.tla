-------------------------- MODULE PositionTracking --------------------------
(***************************************************************************)
(* From the motor's single-turn reading to the stroke of the nut: the      *)
(* MultiTurnVirtualEncoder of the driver, the feedback the controller      *)
(* reads, its stroke reference and the LeadScrewNutPositionEncoder, over   *)
(* turns, disconnections and homing.                                       *)
(*                                                                         *)
(* Lengths are counts of the motor; one count moves the nut by one unit,   *)
(* forwards or, if Reversed, backwards.  The controller is configured, its *)
(* calls come from one thread, and connect() is called on a closed link,   *)
(* as the user interface offers it.                                        *)
(***************************************************************************)
EXTENDS Integers

CONSTANTS
  Half,          \* half of wrap_range
  Reversed,      \* effectiveNutPositionDirectionSign() is negative
  Open,          \* theoretical_open_limit
  Middle,        \* provisionalReferenceStroke()
  Span           \* bound of what the motor turns either way

ASSUME HalfAssumption   == Half \in Nat \ {0}
ASSUME LimitsAssumption == Open \in Int /\ Middle \in Int
ASSUME SpanAssumption   == Span \in Nat
ASSUME SignAssumption   == Reversed \in BOOLEAN

VARIABLES
  linked,        \* motor_->isConnected()
  reading,       \* the position the drive reports, in one turn
  started,       \* initialized_ of the virtual encoder
  last,          \* its last_wrapped_position_
  continuous,    \* its continuous_position_
  shown,         \* last_feedback_ of the driver and last_feedback_valid_
  feedback,      \* last_feedback_.position of the controller
  stroke,        \* current_nut_stroke_, the position of the nut encoder
  reference,     \* stroke_reference_valid_, _motor_position_, _nut_stroke_
  zero,          \* zero_initialized_ and the zero of the nut encoder
  angle,         \* history: how far the motor has turned
  moved,         \* history: what of it the virtual encoder has not seen
  angles         \* history: the angle behind shown, feedback and reference,
                 \* and behind a continuous position of 0

encoder    == <<started, last, continuous>>
driver     == <<linked, encoder, shown>>
controller == <<feedback, stroke, reference, zero>>
motor      == <<reading, angle>>
vars       == <<driver, controller, motor, moved, angles>>

Reading == (-Half)..(Half - 1)

References == [valid : BOOLEAN, motor : Int, nut : {0, Open, Middle}]
NoReference == [valid |-> FALSE, motor |-> 0, nut |-> 0]

TypeOK ==
  /\ linked \in BOOLEAN /\ started \in BOOLEAN
  /\ reading \in Reading /\ last \in Reading /\ continuous \in Int
  /\ shown \in [valid : BOOLEAN, position : Int]
  /\ feedback \in Int /\ stroke \in Int
  /\ reference \in References /\ zero \in References
  /\ angle \in Int /\ moved \in (1 - Half)..(Half - 1)
  /\ angles \in [origin : Int, shown : Int, feedback : Int, reference : Int]

Init ==
  /\ linked = FALSE /\ started = FALSE
  /\ shown = [valid |-> FALSE, position |-> 0]
  /\ reading \in Reading /\ last = 0 /\ continuous = 0
  /\ feedback = 0 /\ stroke = 0
  /\ reference = NoReference /\ zero = NoReference
  /\ angle = 0 /\ moved = 0
  /\ angles = [origin |-> 0, shown |-> 0, feedback |-> 0, reference |-> 0]

-----------------------------------------------------------------------------
(* The motor and the driver. *)

Rolled(r) == IF r >= Half THEN r - 2 * Half
             ELSE IF r < -Half THEN r + 2 * Half ELSE r

\* The motor turns, under power or by hand; between two samples by less than
\* half a wrap range, as virtual_encoder.hpp asks.
Turn(d) ==
  /\ angle + d \in (-Span)..Span
  /\ started => moved + d \in (1 - Half)..(Half - 1)
  /\ angle' = angle + d /\ reading' = Rolled(reading + d)
  /\ moved' = IF started THEN moved + d ELSE moved
  /\ UNCHANGED <<driver, controller, angles>>

\* Mutant of Unwrapped: only forward wraps are corrected.
UnwrappedForward(delta) == IF delta < -Half THEN delta + 2 * Half ELSE delta

\* MultiTurnVirtualEncoder::update.
Unwrapped(delta) == IF delta > Half THEN delta - 2 * Half
                    ELSE IF delta < -Half THEN delta + 2 * Half ELSE delta

\* refreshFeedback takes a frame; the first one after connect() starts the
\* count at its own position.
Sample ==
  /\ linked /\ started' = TRUE /\ last' = reading /\ moved' = 0
  /\ continuous' = IF started THEN continuous + Unwrapped(reading - last)
                   ELSE reading
  /\ angles' = IF started THEN angles
               ELSE [angles EXCEPT !.origin = angle - reading]
  /\ UNCHANGED <<linked, shown, controller, motor>>

\* refreshFeedback ends and stores the newest feedback; when it ends with an
\* error, the encoder has counted and nothing is stored.
Store ==
  /\ linked /\ started
  /\ shown' = [valid |-> TRUE, position |-> continuous]
  /\ angles' = [angles EXCEPT !.shown = angle - moved]
  /\ UNCHANGED <<linked, encoder, controller, motor, moved>>

\* DamiaoMotor::connect drops the feedback and resets the virtual encoder,
\* which disconnect() has left reset.  A connect() that fails leaves the link
\* closed.
Connect ==
  /\ ~linked /\ linked' = TRUE /\ shown' = [valid |-> FALSE, position |-> 0]
  /\ UNCHANGED <<encoder, controller, motor, moved, angles>>

-----------------------------------------------------------------------------
(* The controller. *)

Along(x) == IF Reversed THEN -x ELSE x

\* LeadScrewNutPositionEncoder::update, with the zero z, at motor position m.
StrokeAt(z, m) == z.nut + Along(m - z.motor)

\* strokeToReferencedMotorPosition, with the reference r.
MotorFor(r, s) == r.motor + Along(s - r.nut)

\* What initializeStrokeReferenceIfNeeded makes of motor position m.
FirstReference(m) == [valid |-> TRUE, motor |-> m, nut |-> Middle]

\* updateFeedback: the first feedback makes the reference, and with it the
\* zero of the nut encoder, which would also make one of its own.
UpdateFeedback ==
  /\ linked /\ shown.valid
  /\ feedback' = shown.position
  /\ reference' = IF reference.valid THEN reference
                  ELSE FirstReference(shown.position)
  /\ zero' = IF reference.valid /\ zero.valid THEN zero
             ELSE FirstReference(shown.position)
  /\ stroke' = StrokeAt(zero', shown.position)
  /\ angles' = [angles EXCEPT !.feedback = angles.shown,
                   !.reference = IF reference.valid THEN @ ELSE angles.shown]
  /\ UNCHANGED <<driver, motor, moved>>

\* The body of setOpenZeroReference, with the zeros of commands and encoder.
OpenZero(r, z) ==
  /\ linked /\ reference.valid
  /\ reference' = r /\ zero' = z /\ stroke' = r.nut
  /\ angles' = [angles EXCEPT !.reference = angles.feedback]
  /\ UNCHANGED <<driver, feedback, motor, moved>>

ZeroHere(nut) == [valid |-> TRUE, motor |-> feedback, nut |-> nut]

\* Mutants of SetOpenZeroReference: the nut encoder keeps its zero; the stop
\* is taken to be at the present stroke.
SetOpenZeroOfCommands == OpenZero(ZeroHere(Open), zero)
SetOpenZeroAtStroke   == OpenZero(ZeroHere(stroke), ZeroHere(stroke))

\* setOpenZeroReference, when homing has found the open stop with the feedback
\* it waited for.
SetOpenZeroReference == OpenZero(ZeroHere(Open), ZeroHere(Open))

\* The virtual encoder after reset().
EncoderReset == started' = FALSE /\ last' = 0 /\ continuous' = 0 /\ moved' = 0

\* Mutant of Disconnect: the reference outlives the link.
DisconnectKeepsReference ==
  /\ linked' = FALSE /\ EncoderReset
  /\ UNCHANGED <<shown, controller, motor, angles>>

\* disconnect() and resetOperationFlagsForDisconnect, which leave the feedback.
Disconnect ==
  /\ linked' = FALSE /\ EncoderReset
  /\ stroke' = 0 /\ reference' = NoReference /\ zero' = NoReference
  /\ UNCHANGED <<shown, feedback, motor, angles>>

-----------------------------------------------------------------------------

Next == (\E d \in {-1, 1} : Turn(d)) \/ Sample \/ Store \/ Connect
        \/ UpdateFeedback \/ SetOpenZeroReference \/ Disconnect

Spec == Init /\ [][Next]_vars

-----------------------------------------------------------------------------
(* Properties. *)

\* The continuous position has counted exactly what the motor has turned up to
\* the last sample, across any number of wraps in both directions.
CountsTurns == started => continuous = angle - moved - angles.origin

\* While a reference holds, the stroke is off it by what the motor has really
\* turned since, up to the last feedback: through wraps, homing and links that
\* were closed and opened again, with the motor turned by hand in between.
StrokeFollowsMotor ==
  reference.valid =>
    stroke = reference.nut + Along(angles.feedback - angles.reference)

\* The position the controller works with is that of the motor, in turns and along
\* the stroke.
PositionIsTrue == CountsTurns /\ StrokeFollowsMotor

\* A command and the feedback on it use one coordinate: at the motor position
\* commanded for a stroke, the nut encoder shows that stroke.
CommandsMeetFeedback ==
  reference.valid =>
    \A s \in {Open, Middle} : StrokeAt(zero, MotorFor(reference, s)) = s
=============================================================================
