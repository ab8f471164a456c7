---------------------------- MODULE MotionSafety ----------------------------
(***************************************************************************)
(* What DefaultGripperController asks of one command and of one feedback   *)
(* frame: the limits of the operations, the final gate before the motor    *)
(* (SafetyLimiter) and the contact and jam detector.  Strokes, speeds and  *)
(* currents are integers in whatever unit the constants choose; a current  *)
(* is the absolute value of the measured one.                              *)
(***************************************************************************)
EXTENDS Integers

CONSTANTS
  TheoreticalOpen, TheoreticalClosed,   \* config_.mechanism
  SoftOpen, SoftClosed,                 \* profile_.travel_limits.software_*
  SafeOpen, SafeClosed,                 \* profile_.travel_limits.safe_zone_*
  MaxMotorCurrent, MaxNutSpeed,         \* config_.safety
  MaxSpeedChange,         \* max_nut_acceleration over one command_timeout
  OperationCurrent,       \* config_.safety: current limit of each operation
  ContactRise, JamRise,   \* contact_current_rise_threshold, jam_current_threshold
  SpeedDrop, LimitMargin, \* jam_speed_threshold, stroke_limit_margin
  Tolerance,              \* isTargetReached, motorPositionTargetReached
  ManualTolerance,        \* isManualPositioningTargetReached
  Threshold,              \* endpointProgressThreshold
  CurrentMargin,          \* learnedCurrentMargin, also the stall margin
  ScanStart, ScanStop,    \* config_.self_check.min_speed_scan_*
  BringupMost, BringupUsual,   \* config_.motor_bringup: bounds and defaults of
                               \* the two bring-up motions
  MotorSpeed, MotorWindow      \* max_velocity of the motor; P_MAX, 0 if unknown

Operations == {"homing", "learning", "clamp", "manual"}
BringupMotions == {"jog", "turns"}

ASSUME LimitsAssumption ==
  /\ {TheoreticalOpen, TheoreticalClosed, SoftOpen, SoftClosed, SafeOpen,
      SafeClosed} \subseteq Int
  /\ {MaxMotorCurrent, MaxNutSpeed, MaxSpeedChange, ContactRise, JamRise,
      SpeedDrop, LimitMargin, Tolerance, ManualTolerance, Threshold,
      CurrentMargin, ScanStart, ScanStop, MotorSpeed, MotorWindow} \subseteq Nat
  /\ OperationCurrent \in [Operations -> Nat]
  /\ {BringupMost, BringupUsual} \subseteq
       [BringupMotions -> [way : Nat, speed : Nat, current : Nat, time : Nat]]

Directions == {-1, 1}     \* opening, closing

Abs(x) == IF x < 0 THEN -x ELSE x
Least(a, b) == IF a <= b THEN a ELSE b
Most(a, b)  == IF a >= b THEN a ELSE b

\* std::clamp, and clampSymmetric of the limiter.
Clamp(v, lo, hi) == Most(lo, Least(v, hi))
ClampSymmetric(v, limit) == Clamp(v, -limit, limit)

-----------------------------------------------------------------------------
(* Limits of an operation.  learned is learnedMotionCurrent of the         *)
(* direction, 0 when the profile has no friction sample.                   *)

LearnedCurrent(profile, dir) ==
  Most(IF profile[dir].dynamicSamples > 0 THEN profile[dir].dynamic ELSE 0,
       IF profile[dir].staticSamples > 0 THEN profile[dir].static ELSE 0)

Cap(operation) == Least(OperationCurrent[operation], MaxMotorCurrent)

HomingCurrentLimit(learned, configured) ==
  LET cap == Cap("homing")
  IN  IF cap = 0 THEN configured
      ELSE IF learned > 0
      THEN Least(Most(configured, learned + CurrentMargin), cap)
      ELSE Least(configured, cap)

TravelLearningCurrentLimit(learned, configured) ==
  IF learned > 0 /\ Cap("learning") > 0
  THEN Least(Most(configured, learned + CurrentMargin + Most(JamRise, ContactRise)),
             Cap("learning"))
  ELSE Cap("learning")

MotionHealthCurrentLimit(learned) ==
  IF learned > 0 /\ Cap("learning") > 0
  THEN Least(learned + CurrentMargin + ContactRise, Cap("learning"))
  ELSE Cap("learning")

\* currentManualPositioningRange: the software limits once a health check has
\* passed, before that the safe zone of the self-check.
ManualRange(health) ==
  LET a == IF health THEN SoftOpen ELSE SafeOpen
      b == IF health THEN SoftClosed ELSE SafeClosed
  IN  [open |-> Least(a, b), closed |-> Most(a, b), on |-> a # b]

\* resolveManualPositioningSpeed; stable is the largest learned minimum speed.
ManualSpeed(requested, stable, health) ==
  Least(Most(Abs(requested), Most(ScanStart, stable)),
        IF health THEN MaxNutSpeed ELSE Least(ScanStop, MaxNutSpeed))

\* resolveManualPositioningCurrent.
ManualCurrent(requested) ==
  Least(IF requested > 0 THEN requested ELSE OperationCurrent["manual"], Cap("manual"))

-----------------------------------------------------------------------------
(* Bring-up, in the units of the motor: kind is the motion, asked what the    *)
(* caller gave, 0 when nothing.                                               *)

\* limitedMotorBringupJog and limitedMotorBringupPositionMove.
BringupLimited(kind, asked) ==
  LET most     == BringupMost[kind]
      usual    == BringupUsual[kind]
      Given(f) == Least(IF asked[f] > 0 THEN asked[f] ELSE usual[f], most[f])
  IN  [way     |-> ClampSymmetric(IF asked.way = 0 THEN asked.sign * usual.way
                                  ELSE asked.way, most.way),
       speed   |-> Given("speed"), current |-> Given("current"), time |-> Given("time")]

\* motorBringupPositionMoveTimeout; a pulse has its duration.
BringupTime(kind, limited) ==
  IF kind = "jog" \/ limited.time > 0 THEN limited.time
  ELSE LET travel == Abs(limited.way) \div Most(limited.speed, 1)
       IN  Least(travel + Most(1, travel \div 4), BringupMost[kind].time)

\* validateMotorBringupJog and validateMotorBringupPositionMove.
BringupValid(kind, asked) ==
  LET limited == BringupLimited(kind, asked)
  IN  /\ \A f \in DOMAIN BringupMost[kind] : BringupMost[kind][f] > 0
      /\ BringupMost[kind].current <= MaxMotorCurrent
      /\ BringupMost[kind].speed <= MotorSpeed
      /\ limited.way # 0 /\ limited.speed > 0 /\ limited.current > 0
      /\ BringupTime(kind, limited) > 0

\* validateMotorBringupTargetPosition.
InMotorWindow(target) == MotorWindow > 0 => Abs(target) <= MotorWindow

-----------------------------------------------------------------------------
(* The final gate. *)

\* makeSafetyLimitConfig.
SafetyLimits(current, software) ==
  LET open   == IF software THEN SoftOpen ELSE TheoreticalOpen
      closed == IF software THEN SoftClosed ELSE TheoreticalClosed
  IN  [current |-> Least(MaxMotorCurrent, current), open |-> open,
       closed |-> closed, on |-> closed > open, stopOnCurrent |-> TRUE]

\* The custom stroke limits of sendLimitedCommand.
Within(limits, open, closed) ==
  [limits EXCEPT !.open = open, !.closed = closed, !.on = closed > open]

\* The allowed range of sendLimitedPositionCommand.
Allowed(range) ==
  [Within(SafetyLimits(MaxMotorCurrent, FALSE), range.open, range.closed)
     EXCEPT !.on = range.on, !.stopOnCurrent = FALSE]

\* The speed, clamped and then drawn towards the previously commanded one.
LimitSpeed(speed, previous) ==
  LET limited == ClampSymmetric(speed, MaxNutSpeed)
  IN  IF MaxSpeedChange = 0 THEN limited
      ELSE Clamp(limited, previous - MaxSpeedChange, previous + MaxSpeedChange)

\* Mutant of ApplyLimits: the target is clamped and the stop forgotten.
ApplyLimitsWithoutStop(limits, target, speed, current, stroke, previous) ==
  [stop |-> FALSE, target |-> target,
   speed |-> LimitSpeed(speed, previous),
   current |-> ClampSymmetric(current, limits.current)]

\* SafetyLimiter::applyLimits as the controller configures it: leaving the
\* stroke range or exceeding the current asks for an active stop, exceeding the
\* speed or the acceleration does not.
ApplyLimits(limits, target, speed, current, stroke, previous) ==
  LET aim == IF limits.on THEN Clamp(target, Least(limits.open, limits.closed),
                                     Most(limits.open, limits.closed))
             ELSE target
      out == limits.on /\ ( \/ aim # target
                            \/ stroke < Least(limits.open, limits.closed)
                            \/ stroke > Most(limits.open, limits.closed))
      amp == ClampSymmetric(current, limits.current)
  IN  [stop    |-> out \/ (limits.stopOnCurrent /\ amp # current),
       target  |-> aim,
       speed   |-> LimitSpeed(speed, previous),
       current |-> amp]

-----------------------------------------------------------------------------
(* Feedback.  A frame carries the stroke, the absolute nut speed and the   *)
(* absolute motor current.                                                 *)

NearStrokeLimit(stroke, open, closed) ==
  \/ stroke <= Least(open, closed) + LimitMargin
  \/ stroke >= Most(open, closed) - LimitMargin

\* ContactJamDetector::detect with both detections on.  The elapsed time the
\* controller passes equals the minimum detection time.
Detect(frame, commanded, baseline, open, closed) ==
  LET rise    == frame.current - baseline
      dropped == frame.speed <= SpeedDrop /\ Abs(commanded) > SpeedDrop
      limit   == NearStrokeLimit(frame.stroke, open, closed) /\ dropped /\ rise >= JamRise
      jam     == dropped /\ rise >= JamRise
  IN  [limit |-> limit, jam |-> jam,
       contact |-> ~jam /\ dropped /\ rise >= ContactRise]

\* feedbackCurrentExceedsHardLimit.
ExceedsHardLimit(frame) == MaxMotorCurrent > 0 /\ frame.current > MaxMotorCurrent

Reached(stroke, target, speed, tolerance) ==
  IF speed >= 0 THEN stroke >= target - tolerance ELSE stroke <= target + tolerance

\* isTargetReached and isManualPositioningTargetReached.
TargetReached(stroke, target, speed) == Reached(stroke, target, speed, Tolerance)
ManualTargetReached(stroke, target, speed) ==
  Reached(stroke, target, speed, ManualTolerance)

\* motorPositionTargetReached: at the target and at rest.
MotorTargetReached(frame, target) ==
  Abs(frame.stroke - target) <= Tolerance /\ frame.speed = 0

\* madeProgressInCommandDirection.
MadeProgress(stroke, mark, speed) ==
  IF speed < 0 THEN stroke <= mark - Threshold ELSE stroke >= mark + Threshold

\* homingEndpointStallFeedback.
HomingStall(frame, limit) ==
  /\ frame.current >= Most(1, limit - CurrentMargin)
  /\ frame.speed <= SpeedDrop
=============================================================================
