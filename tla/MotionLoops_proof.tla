------------------------- MODULE MotionLoops_proof -------------------------
(***************************************************************************)
(* Proof that no command leaves the limits of its motion, that every       *)
(* ending is one the controller's model expects, that a contact counts     *)
(* only at standstill and that the deadlines bound a motion, whatever the  *)
(* limits are, wherever the mechanism moves and whatever frames arrive.    *)
(***************************************************************************)
EXTENDS MotionLoops, TLAPS

\* The options of a motion that its commands depend on.
Motion(o) ==
  /\ {"target", "speed", "current", "software", "custom", "open", "closed", "manual",
      "time", "bringup"} \subseteq DOMAIN o
  /\ o.target \in Int /\ o.speed \in Int /\ o.open \in Int /\ o.closed \in Int
  /\ o.current \in Nat /\ o.time \in Nat

\* Bring-up asks for what the bounds of the motor allow.
BringupBounded(o) ==
  o.bringup # None => /\ Abs(o.speed) <= MotorSpeed /\ o.current <= MaxMotorCurrent
                      /\ ~o.manual

\* The loops of bring-up and the others do not lead into each other.
Separate ==
  /\ op.bringup \in {None} \union BringupMotions
  /\ pc \in {"command", "send", "wait", "endpoint", "manual", "observe"} => op.bringup = None
  /\ pc \in {"drive", "aim", "jog", "unload", "turns"} => op.bringup # None

IInv ==
  /\ Motion(op) /\ BringupBounded(op) /\ Separate
  /\ seen \in Frames
  /\ previous \in -MaxNutSpeed .. MaxNutSpeed
  /\ CommandsStayInside

-----------------------------------------------------------------------------
(* Constants. *)

\* The limits and times are numbers.
LEMMA Numbers ==
  /\ {TheoreticalOpen, TheoreticalClosed, SoftOpen, SoftClosed, SafeOpen, SafeClosed}
       \subseteq Int
  /\ {MaxMotorCurrent, MaxNutSpeed, MaxSpeedChange, ContactRise, JamRise, SpeedDrop,
      LimitMargin, Tolerance, ManualTolerance, Threshold, CurrentMargin, ScanStart,
      ScanStop, MotorSpeed, MotorWindow, Timeout, Step} \subseteq Nat
  BY LimitsAssumption, LoopAssumption

\* So are the current limits of the operations.
LEMMA Caps ==
  ASSUME NEW o \in Operations
  PROVE  OperationCurrent[o] \in Nat /\ Cap(o) \in Nat
  BY LimitsAssumption DEF Cap, Least

\* Least and Most give one of the two, the smaller and the larger.
LEMMA Extremes ==
  ASSUME NEW a \in Int, NEW b \in Int
  PROVE  /\ Least(a, b) \in {a, b} /\ Least(a, b) <= a /\ Least(a, b) <= b
         /\ Most(a, b) \in {a, b} /\ Most(a, b) >= a /\ Most(a, b) >= b
  BY DEF Least, Most

-----------------------------------------------------------------------------
(* What the operations ask for. *)

\* The options every motion starts from are well-formed.
LEMMA OrdinaryMotion == Motion(Ordinary) /\ Ordinary.bringup = None
  BY Numbers DEF Ordinary, Motion

\* The motions of the workflow have well-formed options and are none of bring-up.
LEMMA WorkflowMotions ==
  ASSUME NEW kind \in {"homing", "backoff", "learning", "return", "health", "clamp",
                       "approach", "press", "release", "manual"},
         NEW s \in Int, NEW o \in Options(kind, s)
  PROVE  Motion(o) /\ o.bringup = None
<1>1. /\ OperationCurrent["homing"] \in Nat /\ OperationCurrent["clamp"] \in Nat
      /\ OperationCurrent["manual"] \in Nat
      /\ Cap("homing") \in Nat /\ Cap("learning") \in Nat /\ Cap("manual") \in Nat
  BY Caps DEF Operations
<1>2. Travel \in Nat /\ Margin \in Nat
  BY Numbers DEF Travel, Margin, Most
<1>3. HomingCurrentLimit(0, 1) \in Nat
  BY <1>1, Numbers DEF HomingCurrentLimit, Least, Most
<1>4. TravelLearningCurrentLimit(0, 1) \in Nat /\ MotionHealthCurrentLimit(0) \in Nat
  BY <1>1, Numbers DEF TravelLearningCurrentLimit, MotionHealthCurrentLimit, Least, Most
<1>5. CASE kind = "homing"
  <2>1. o = HomingSearch(s)
    BY <1>5 DEF Options, BringupMotions
  <2>2. DOMAIN HomingSearch(s) = DOMAIN Ordinary /\ HomingSearch(s).bringup = None
    BY OrdinaryMotion DEF HomingSearch, Motion
  <2>3. /\ HomingSearch(s).target \in Int /\ HomingSearch(s).speed \in Int
        /\ HomingSearch(s).current \in Nat /\ HomingSearch(s).time \in Nat
    BY <1>2, <1>3, OrdinaryMotion DEF HomingSearch, Motion
  <2>4. HomingSearch(s).open \in Int /\ HomingSearch(s).closed \in Int
    BY <1>2, OrdinaryMotion DEF HomingSearch, Motion
  <2> QED BY <2>1, <2>2, <2>3, <2>4, OrdinaryMotion DEF Motion
<1>6. CASE kind = "backoff"
  <2>1. o = HomingRelease
    BY <1>6 DEF Options, BringupMotions
  <2>2. Least(TheoreticalOpen + 1, TheoreticalClosed) \in Int
    BY Numbers, Extremes
  <2> QED BY <1>3, <2>1, <2>2, OrdinaryMotion DEF HomingRelease, Motion
<1>7. CASE kind = "learning"
  <2>1. o = ClosingSearch
    BY <1>7 DEF Options, BringupMotions
  <2> QED BY <1>2, <1>4, <2>1, OrdinaryMotion, Numbers DEF ClosingSearch, Motion
<1>8. CASE kind = "return"
  <2>1. o = OpeningReturn
    BY <1>8 DEF Options, BringupMotions
  <2>2. Least(SoftOpen, TheoreticalOpen - Margin) \in Int
        /\ Most(SoftClosed, TheoreticalOpen + Travel + Margin) \in Int
    BY <1>2, Numbers DEF Least, Most
  <2> QED BY <1>4, <2>1, <2>2, OrdinaryMotion, Numbers DEF OpeningReturn, Motion
<1>9. CASE kind = "health"
  <2>1. o = HealthLeg(s)
    BY <1>9 DEF Options, BringupMotions
  <2> QED BY <1>4, <2>1, OrdinaryMotion, Numbers DEF HealthLeg, Motion
<1>10. ASSUME NEW c \in Nat
       PROVE  Motion(ClampAt(c)) /\ ClampAt(c).bringup = None
  BY OrdinaryMotion, Numbers DEF ClampAt, Motion
<1>11. CASE kind = "clamp"
  <2>1. PICK c \in {OperationCurrent["clamp"], MaxMotorCurrent + 1} : o = ClampAt(c)
    BY <1>11 DEF Options, BringupMotions
  <2>2. c \in Nat
    BY <1>1, Numbers
  <2> QED BY <1>10, <2>1, <2>2
<1>12. CASE kind = "approach"
  <2>1. o = ClampApproach
    BY <1>12 DEF Options, BringupMotions
  <2>2. Least(Most(SoftOpen, SoftClosed - 1), SoftClosed) \in Int
    BY Numbers DEF Least, Most
  <2> QED BY <1>1, <1>10, <2>1, <2>2 DEF ClampApproach, Motion
<1>13. CASE kind = "press"
  <2>1. o = ClampPress
    BY <1>13 DEF Options, BringupMotions
  <2> QED BY <1>1, <1>10, <2>1 DEF ClampPress, Motion
<1>14. CASE kind = "release"
  <2>1. o = ReleaseBack(s)
    BY <1>14 DEF Options, BringupMotions
  <2>2. Most(s - 1, SoftOpen) \in Int
    BY Numbers DEF Most
  <2> QED BY <1>1, <2>1, <2>2, OrdinaryMotion DEF ReleaseBack, Motion
<1>15. CASE kind = "manual"
  <2>0. PICK h \in BOOLEAN :
          \E t \in ManualRange(h).open .. ManualRange(h).closed : o = ManualMove(s, t, h)
    BY <1>15 DEF Options, BringupMotions
  <2>1. PICK t \in ManualRange(h).open .. ManualRange(h).closed : o = ManualMove(s, t, h)
    BY <2>0
  <2>2. ManualRange(h).open \in Int /\ ManualRange(h).closed \in Int
    BY Numbers DEF ManualRange, Least, Most
  <2>3. ManualSpeed(1, 0, h) \in Int
    BY Numbers DEF ManualSpeed, Least, Most, Abs
  <2>4. ManualCurrent(0) \in Nat
    BY <1>1 DEF ManualCurrent, Least
  <2>5. t \in Int
    BY <2>2
  <2> QED BY <2>1, <2>2, <2>3, <2>4, <2>5, OrdinaryMotion DEF ManualMove, Motion
<1> QED BY <1>5, <1>6, <1>7, <1>8, <1>9, <1>11, <1>12, <1>13, <1>14, <1>15

\* Those of bring-up are within the bounds of the motor.
LEMMA BringupMotionsBounded ==
  ASSUME NEW kind \in BringupMotions, NEW a \in Asked, BringupValid(kind, a)
  PROVE  /\ Motion(BringupMove(kind, a)) /\ BringupMove(kind, a).bringup = kind
         /\ BringupBounded(BringupMove(kind, a))
<1> DEFINE l == BringupLimited(kind, a)
<1>1. /\ BringupMost[kind] \in [way : Nat, speed : Nat, current : Nat, time : Nat]
      /\ BringupUsual[kind] \in [way : Nat, speed : Nat, current : Nat, time : Nat]
  BY LimitsAssumption
<1>2. a \in [way : Int, sign : Directions, speed : Int, current : Int, time : Int]
  BY PurposesAssumption
<1>3. /\ l.speed \in Int /\ l.speed <= BringupMost[kind].speed
      /\ l.current \in Int /\ l.current <= BringupMost[kind].current
      /\ l.time \in Int
  BY <1>1, <1>2 DEF BringupLimited, Least
<1>4. l.way \in Int
  BY <1>1, <1>2 DEF BringupLimited, ClampSymmetric, Clamp, Least, Most, Directions
<1>5. /\ l.speed > 0 /\ l.current > 0
      /\ BringupMost[kind].speed <= MotorSpeed
      /\ BringupMost[kind].current <= MaxMotorCurrent
      /\ BringupTime(kind, l) > 0
  BY DEF BringupValid
<1> HIDE DEF l
<1>6. BringupTime(kind, l) \in Int
  <2>1. Most(l.speed, 1) \in Nat \ {0} /\ Abs(l.way) \in Int
    BY <1>3, <1>4 DEF Most, Abs
  <2>2. Abs(l.way) \div Most(l.speed, 1) \in Int
    BY <2>1
  <2>3. ASSUME NEW t \in Int
        PROVE  Least(t + Most(1, t \div 4), BringupMost[kind].time) \in Int
    BY <1>1 DEF Least, Most
  <2> QED BY <1>3, <2>2, <2>3 DEF BringupTime
<1>7. BringupMove(kind, a) =
        [Ordinary EXCEPT !.bringup = kind, !.target = l.way, !.current = l.current,
           !.speed = IF l.way < 0 THEN -l.speed ELSE l.speed, !.time = BringupTime(kind, l)]
  BY DEF BringupMove, l
<1>8. MotorSpeed \in Nat /\ MaxMotorCurrent \in Nat
  BY Numbers
<1>9. l.current \in Nat
  BY <1>3, <1>5
<1>10. ~Ordinary.manual
  BY DEF Ordinary
<1> QED BY <1>1, <1>3, <1>4, <1>5, <1>6, <1>7, <1>8, <1>9, <1>10, OrdinaryMotion
        DEF Motion, BringupBounded, Abs

\* Whatever motion is begun, from wherever, its options are within bounds.
LEMMA InitHolds == Init => IInv
<1> SUFFICES ASSUME Init PROVE IInv
  OBVIOUS
<1>1. seen \in Frames /\ seen.stroke \in Int
  BY LoopAssumption DEF Init, Frames
<1>2. PICK kind \in Purposes : op \in Options(kind, seen.stroke)
  BY DEF Init
<1>3. Motion(op) /\ BringupBounded(op) /\ op.bringup \in {None} \union BringupMotions
  <2>1. CASE kind \in BringupMotions
    <3>1. PICK a \in Asked : BringupValid(kind, a) /\ op = BringupMove(kind, a)
      BY <1>2, <2>1 DEF Options, BringupMotions
    <3> QED BY <2>1, <3>1, BringupMotionsBounded
  <2>2. CASE kind \notin BringupMotions
    BY <1>1, <1>2, <2>2, PurposesAssumption, WorkflowMotions DEF BringupBounded
  <2> QED BY <2>1, <2>2
<1>4. Separate
  BY <1>3 DEF Init, Separate
<1>5. previous \in -MaxNutSpeed .. MaxNutSpeed
  BY Numbers DEF Init
<1>6. CommandsStayInside
  BY DEF Init, CommandsStayInside
<1> QED BY <1>1, <1>3, <1>4, <1>5, <1>6 DEF IInv

-----------------------------------------------------------------------------
(* The limiter. *)

\* A value clamped to an interval lies in it.
LEMMA Clamped ==
  ASSUME NEW v \in Int, NEW lo \in Int, NEW hi \in Int, lo <= hi
  PROVE  Clamp(v, lo, hi) \in lo .. hi /\ (v \in lo .. hi => Clamp(v, lo, hi) = v)
  BY DEF Clamp, Least, Most

\* The speed stays below the limit also when it is drawn to the last one.
LEMMA SpeedLimited ==
  ASSUME NEW speed \in Int, NEW last \in -MaxNutSpeed .. MaxNutSpeed
  PROVE  LimitSpeed(speed, last) \in -MaxNutSpeed .. MaxNutSpeed
  BY Numbers DEF LimitSpeed, ClampSymmetric, Clamp, Least, Most

\* A command that is not stopped keeps its target, which lies inside the range.
LEMMA TargetLimited ==
  ASSUME NEW limits, limits.open \in Int, limits.closed \in Int,
         limits.on => limits.open < limits.closed,
         NEW target \in Int, NEW speed, NEW current, NEW stroke, NEW last,
         ~ApplyLimits(limits, target, speed, current, stroke, last).stop
  PROVE  LET l == ApplyLimits(limits, target, speed, current, stroke, last)
         IN  l.target = target /\ (limits.on => target \in limits.open .. limits.closed)
<1>1. CASE limits.on
  <2>1. Least(limits.open, limits.closed) = limits.open
        /\ Most(limits.open, limits.closed) = limits.closed
    BY <1>1 DEF Least, Most
  <2>2. /\ ApplyLimits(limits, target, speed, current, stroke, last).target
             = Clamp(target, limits.open, limits.closed)
        /\ Clamp(target, limits.open, limits.closed) = target
    BY <1>1, <2>1 DEF ApplyLimits
  <2>3. target \in limits.open .. limits.closed
    BY <1>1, <2>2 DEF Clamp, Least, Most
  <2> QED BY <2>2, <2>3
<1>2. CASE ~limits.on
  BY <1>2 DEF ApplyLimits
<1> QED BY <1>1, <1>2

\* Whatever current is asked for, the motor gets no more than it may have.
LEMMA CurrentLimited ==
  ASSUME NEW limits, limits.current \in Nat, limits.current <= MaxMotorCurrent,
         NEW target, NEW speed, NEW current \in Nat, NEW stroke, NEW last
  PROVE  ApplyLimits(limits, target, speed, current, stroke, last).current <= MaxMotorCurrent
  BY Numbers DEF ApplyLimits, ClampSymmetric, Clamp, Least, Most

\* The limits a motion has.
LEMMA LimitsTyped ==
  ASSUME IInv
  PROVE  /\ Limits.open \in Int /\ Limits.closed \in Int
         /\ Limits.on => Limits.open < Limits.closed
         /\ Limits.current \in Nat /\ Limits.current <= MaxMotorCurrent
<1>1. op.current \in Nat /\ op.open \in Int /\ op.closed \in Int
  BY DEF IInv, Motion
<1>4. Least(MaxMotorCurrent, op.current) \in Nat /\ Least(MaxMotorCurrent, op.current) <= MaxMotorCurrent
  BY <1>1, Numbers DEF Least
<1>2. CASE op.manual
  <2>1. Limits = Allowed([open |-> op.open, closed |-> op.closed, on |-> op.closed > op.open])
    BY <1>2 DEF Limits
  <2>2. /\ Limits.open = op.open /\ Limits.closed = op.closed
        /\ Limits.on <=> op.closed > op.open
        /\ Limits.current = Least(MaxMotorCurrent, MaxMotorCurrent)
    BY <2>1 DEF SafetyLimits, Within, Allowed
  <2> QED BY <1>1, <2>2, Numbers DEF Least
<1>3. CASE ~op.manual
  <2>1. Limits.current = Least(MaxMotorCurrent, op.current)
    BY <1>3 DEF Limits, SafetyLimits, Within
  <2>2. CASE op.custom
    <3>1. /\ Limits.open = op.open /\ Limits.closed = op.closed
          /\ Limits.on <=> op.closed > op.open
      BY <1>3, <2>2 DEF Limits, SafetyLimits, Within
    <3> QED BY <1>1, <1>4, <2>1, <3>1
  <2>3. CASE ~op.custom
    <3>1. Limits = SafetyLimits(op.current, op.software)
      BY <1>3, <2>3 DEF Limits
    <3>2. /\ Limits.open \in Int /\ Limits.closed \in Int
          /\ Limits.on <=> Limits.closed > Limits.open
      BY <3>1, Numbers DEF SafetyLimits
    <3> QED BY <1>4, <2>1, <3>2
  <2> QED BY <2>2, <2>3
<1> QED BY <1>2, <1>3

-----------------------------------------------------------------------------
(* Steps. *)

\* A command of the workflow.
LEMMA SendKeeps ==
  ASSUME IInv, Send
  PROVE  IInv'
<1> DEFINE l == ApplyLimits(Limits, Goal, op.speed, op.current, seen.stroke, previous)
<1>1. /\ pc = "send" /\ UNCHANGED <<op, seen>>
      /\ \/ UNCHANGED <<sent, previous>> /\ pc' = "done"
         \/ /\ ~l.stop /\ pc' \in {"observe", "wait"} /\ previous' = l.speed
            /\ sent' = {[target |-> l.target, speed |-> l.speed, current |-> l.current,
                         from |-> seen.stroke]}
  BY DEF Send, options, frame, End
<1>2. op.bringup = None
  BY <1>1 DEF IInv, Separate
<1>3. CASE UNCHANGED <<sent, previous>> /\ pc' = "done"
  BY <1>1, <1>3 DEF IInv, Separate, CommandsStayInside, Limits
<1>4. CASE /\ ~l.stop /\ pc' \in {"observe", "wait"} /\ previous' = l.speed
           /\ sent' = {[target |-> l.target, speed |-> l.speed, current |-> l.current,
                        from |-> seen.stroke]}
  <2>1. seen.stroke \in Int /\ op.target \in Int /\ op.speed \in Int /\ op.current \in Nat
    BY LoopAssumption DEF IInv, Frames, Motion
  <2>2. Goal \in Int /\ (op.manual => Abs(Goal - seen.stroke) <= Step)
    BY <2>1, Numbers DEF Goal, ClampSymmetric, Clamp, Least, Most, Abs
  <2>3. l.target = Goal /\ (Limits.on => Goal \in Limits.open .. Limits.closed)
    BY <1>4, <2>2, LimitsTyped, TargetLimited
  <2>4. l.current <= MaxMotorCurrent
    BY <2>1, LimitsTyped, CurrentLimited
  <2>5. l.speed \in -MaxNutSpeed .. MaxNutSpeed
    <3>1. l.speed = LimitSpeed(op.speed, previous)
      BY DEF ApplyLimits
    <3> QED BY <2>1, <3>1, SpeedLimited DEF IInv
  <2>6. Abs(l.speed) <= MaxNutSpeed
    BY <2>5, Numbers DEF Abs
  <2> HIDE DEF l
  <2>7. Limits' = Limits
    BY <1>1 DEF Limits
  <2>8. CommandsStayInside'
    <3>1. ASSUME NEW c \in sent'
          PROVE  /\ c.target = Goal /\ c.speed = l.speed /\ c.current = l.current
                 /\ c.from = seen.stroke
      BY <1>4, <2>3, <3>1
    <3>2. ASSUME NEW c \in sent'
          PROVE  /\ Limits'.on => c.target \in Limits'.open .. Limits'.closed
                 /\ Abs(c.speed) <= MaxNutSpeed /\ c.current <= MaxMotorCurrent
                 /\ op.manual => Abs(c.target - c.from) <= Step
      BY <2>2, <2>3, <2>4, <2>6, <2>7, <3>1
    <3>3. op'.bringup = None /\ op' = op
      BY <1>1, <1>2
    <3>4. None # "turns"
      BY DEF None
    <3> SUFFICES ASSUME NEW c \in sent'
                 PROVE  /\ Limits'.on => c.target \in Limits'.open .. Limits'.closed
                        /\ Abs(c.speed) <= MaxNutSpeed /\ c.current <= MaxMotorCurrent
                        /\ op'.manual => Abs(c.target - c.from) <= Step
      BY <3>3, <3>4, Zenon DEF CommandsStayInside
    <3> QED BY <3>2, <3>3
  <2> QED BY <1>1, <1>2, <1>4, <2>5, <2>8 DEF IInv, Separate
<1> QED BY <1>1, <1>3, <1>4


\* A command of bring-up, which nothing limits but its own bounds.
LEMMA AimKeeps ==
  ASSUME IInv, Aim
  PROVE  IInv'
<1>1. /\ pc = "aim" /\ UNCHANGED <<seen, previous>>
      /\ \/ UNCHANGED <<op, sent>> /\ pc' = "done"
         \/ /\ op.bringup = "turns" => InMotorWindow(seen.stroke + op.target)
            /\ op' = [op EXCEPT !.target = seen.stroke + @]
            /\ pc' = op.bringup
            /\ sent' = {[target |-> op'.target, speed |-> op.speed, current |-> op.current,
                         from |-> seen.stroke]}
  BY DEF Aim, frame, End
<1>2. op.bringup # None
  BY <1>1 DEF IInv, Separate
<1>3. CASE UNCHANGED <<op, sent>> /\ pc' = "done"
  BY <1>1, <1>3 DEF IInv, Separate, CommandsStayInside, Limits
<1>4. CASE /\ op.bringup = "turns" => InMotorWindow(seen.stroke + op.target)
           /\ op' = [op EXCEPT !.target = seen.stroke + @]
           /\ pc' = op.bringup
           /\ sent' = {[target |-> op'.target, speed |-> op.speed, current |-> op.current,
                        from |-> seen.stroke]}
  <2>1. seen.stroke \in Int
    BY LoopAssumption DEF IInv, Frames
  <2>2. /\ op'.target = seen.stroke + op.target /\ op'.bringup = op.bringup
        /\ op'.manual = op.manual /\ op'.speed = op.speed /\ op'.current = op.current
        /\ op'.open = op.open /\ op'.closed = op.closed /\ op'.time = op.time
        /\ DOMAIN op' = DOMAIN op
    BY <1>4 DEF IInv, Motion
  <2>3. Motion(op')
    BY <2>1, <2>2 DEF IInv, Motion
  <2>4. BringupBounded(op')
    BY <2>2 DEF IInv, BringupBounded
  <2>5. Separate'
    BY <1>2, <1>4, <2>2 DEF IInv, Separate, BringupMotions
  <2>6. CommandsStayInside'
    <3>1. ASSUME NEW c \in sent'
          PROVE  c.target = op'.target /\ c.speed = op'.speed /\ c.current = op'.current
      BY <1>4, <2>2, <3>1
    <3> QED BY <1>2, <1>4, <2>2, <2>4, <3>1 DEF CommandsStayInside, BringupBounded
  <2> QED BY <1>1, <2>3, <2>4, <2>5, <2>6 DEF IInv
<1> QED BY <1>1, <1>3, <1>4

\* Frames are frames, whichever arrives.
LEMMA FrameTyped ==
  ASSUME seen \in Frames
  PROVE  Follows \subseteq Frames /\ Resting \subseteq Frames
  BY DEF Follows, Resting

\* A step that sends nothing and lets go of the last command or keeps it.
LEMMA SilentKeeps ==
  ASSUME IInv, op' = op, seen' \in Frames, previous' \in {previous, 0},
         sent' \in {{}, sent},
         \/ op.bringup = None /\ pc' \in {"command", "send", "wait", "endpoint", "manual",
                                         "observe", "stop", "settle", "done"}
         \/ op.bringup # None /\ pc' \in {"drive", "aim", "jog", "unload", "turns", "stop",
                                          "settle", "done"}
         \/ pc' \in {"stop", "settle", "done"}
  PROVE  IInv'
<1>1. Limits' = Limits
  BY DEF Limits
<1>2. CommandsStayInside'
  BY <1>1 DEF IInv, CommandsStayInside
<1>3. previous' \in -MaxNutSpeed .. MaxNutSpeed
  BY Numbers DEF IInv
<1> QED BY <1>2, <1>3 DEF IInv, Separate

\* The other steps, one lemma each.
LEMMA TurnOnKeeps ==
  ASSUME IInv, TurnOn
  PROVE  IInv'
<1>1. seen \in Frames
  BY DEF IInv
<1>2. op' = op /\ previous' \in {previous, 0} /\ sent' \in {{}, sent}
  BY DEF TurnOn, options, timers, settling
<1>3. seen' \in Frames
  BY <1>1, FrameTyped DEF TurnOn, frame, Newer, Older, Peek
<1>4. pc = "command" /\ pc' \in {"send", "done"}
  BY DEF TurnOn, End
<1> QED BY <1>2, <1>3, <1>4, SilentKeeps DEF IInv, Separate

\* Wait changes neither the options nor the commands.
LEMMA WaitKeeps ==
  ASSUME IInv, Wait
  PROVE  IInv'
<1>1. seen \in Frames
  BY DEF IInv
<1>2. op' = op /\ previous' \in {previous, 0} /\ sent' \in {{}, sent}
  BY DEF Wait, options, timers, settling, Judge
<1>3. seen' \in Frames
  BY <1>1, FrameTyped DEF Wait, frame, Newer, Older, Peek
<1>4. pc = "wait" /\ pc' \in {"wait", "endpoint", "stop", "done"}
  BY DEF Wait, Judge, End
<1> QED BY <1>2, <1>3, <1>4, SilentKeeps DEF IInv, Separate

\* Nor does the sample at an endpoint, which resets the last speed.
LEMMA EndpointKeeps ==
  ASSUME IInv, Endpoint
  PROVE  IInv'
<1>1. seen \in Frames
  BY DEF IInv
<1>2. op' = op /\ previous' \in {previous, 0} /\ sent' \in {{}, sent}
  BY DEF Endpoint, options, timers, settling
<1>3. seen' \in Frames
  BY <1>1, FrameTyped DEF Endpoint, frame, Newer, Older, Peek
<1>4. pc = "endpoint" /\ pc' = "done"
  BY DEF Endpoint, End
<1> QED BY <1>2, <1>3, <1>4, SilentKeeps DEF IInv, Separate

\* Nor do the disabling and the settle wait.
LEMMA StopMotionKeeps ==
  ASSUME IInv, StopMotion
  PROVE  IInv'
<1>1. seen \in Frames
  BY DEF IInv
<1>2. op' = op /\ previous' \in {previous, 0} /\ sent' \in {{}, sent}
  BY DEF StopMotion, options, timers, settling, Finish
<1>3. seen' \in Frames
  BY <1>1, FrameTyped DEF StopMotion, frame, Newer, Older, Peek
<1>4. pc = "stop" /\ pc' \in {"settle", "done"}
  BY DEF StopMotion, Finish, End
<1> QED BY <1>2, <1>3, <1>4, SilentKeeps DEF IInv, Separate

\* The settle wait only reads.
LEMMA SettleKeeps ==
  ASSUME IInv, Settle
  PROVE  IInv'
<1>1. seen \in Frames
  BY DEF IInv
<1>2. op' = op /\ previous' \in {previous, 0} /\ sent' \in {{}, sent}
  BY DEF Settle, options, timers, settling, Finish, Weigh
<1>3. seen' \in Frames
  BY <1>1, FrameTyped DEF Settle, frame, Newer, Older, Peek
<1>4. pc = "settle" /\ pc' \in {"settle", "done"}
  BY DEF Settle, Finish, Weigh, End
<1> QED BY <1>2, <1>3, <1>4, SilentKeeps DEF IInv, Separate

\* The manual loop begins an iteration.
LEMMA ManualKeeps ==
  ASSUME IInv, Manual
  PROVE  IInv'
<1>1. seen \in Frames
  BY DEF IInv
<1>2. op' = op /\ previous' \in {previous, 0} /\ sent' \in {{}, sent}
  BY DEF Manual, options, timers, settling
<1>3. seen' \in Frames
  BY <1>1, FrameTyped DEF Manual, frame, Newer, Older, Peek
<1>4. pc = "manual" /\ pc' \in {"stop", "command", "done"}
  BY DEF Manual, End
<1> QED BY <1>2, <1>3, <1>4, SilentKeeps DEF IInv, Separate

\* It judges a frame after its command.
LEMMA ObserveKeeps ==
  ASSUME IInv, Observe
  PROVE  IInv'
<1>1. seen \in Frames
  BY DEF IInv
<1>2. op' = op /\ previous' \in {previous, 0} /\ sent' \in {{}, sent}
  BY DEF Observe, options, timers, settling, Judging
<1>3. seen' \in Frames
  BY <1>1, FrameTyped DEF Observe, frame, Newer, Older, Peek
<1>4. pc = "observe" /\ pc' \in {"manual", "stop", "done"}
  BY DEF Observe, Judging, End
<1> QED BY <1>2, <1>3, <1>4, SilentKeeps DEF IInv, Separate

\* A bring-up motion begins: the output is switched on and a frame is read.
LEMMA DriveKeeps ==
  ASSUME IInv, Drive
  PROVE  IInv'
<1>1. seen \in Frames
  BY DEF IInv
<1>2. op' = op /\ previous' \in {previous, 0} /\ sent' \in {{}, sent}
  BY DEF Drive, options, timers, settling
<1>3. seen' \in Frames
  BY <1>1, FrameTyped DEF Drive, frame, Newer, Older, Peek
<1>4. pc = "drive" /\ pc' \in {"aim", "done"}
  BY DEF Drive, End
<1> QED BY <1>2, <1>3, <1>4, SilentKeeps DEF IInv, Separate

\* A jog commands nothing after it was sent.
LEMMA JogKeeps ==
  ASSUME IInv, Jog
  PROVE  IInv'
<1>1. seen \in Frames
  BY DEF IInv
<1>2. op' = op /\ previous' \in {previous, 0} /\ sent' \in {{}, sent}
  BY DEF Jog, options, timers, settling
<1>3. seen' \in Frames
  BY <1>1, FrameTyped DEF Jog, frame, Newer, Older, Peek
<1>4. pc = "jog" /\ pc' \in {"jog", "unload", "done"}
  BY DEF Jog, End
<1> QED BY <1>2, <1>3, <1>4, SilentKeeps DEF IInv, Separate

\* The end of a jog only reads.
LEMMA UnloadKeeps ==
  ASSUME IInv, Unload
  PROVE  IInv'
<1>1. seen \in Frames
  BY DEF IInv
<1>2. op' = op /\ previous' \in {previous, 0} /\ sent' \in {{}, sent}
  BY DEF Unload, options, timers, settling
<1>3. seen' \in Frames
  BY <1>1, FrameTyped DEF Unload, frame, Newer, Older, Peek
<1>4. pc = "unload" /\ pc' = "done"
  BY DEF Unload, End
<1> QED BY <1>2, <1>3, <1>4, SilentKeeps DEF IInv, Separate

\* The turns only watch the command already sent.
LEMMA TurnsKeeps ==
  ASSUME IInv, Turns
  PROVE  IInv'
<1>1. seen \in Frames
  BY DEF IInv
<1>2. op' = op /\ previous' \in {previous, 0} /\ sent' \in {{}, sent}
  BY DEF Turns, options, timers, settling
<1>3. seen' \in Frames
  BY <1>1, FrameTyped DEF Turns, frame, Newer, Older, Peek
<1>4. pc = "turns" /\ pc' \in {"turns", "stop"}
  BY DEF Turns, End
<1> QED BY <1>2, <1>3, <1>4, SilentKeeps DEF IInv, Separate

\* Every step keeps the invariant.
LEMMA StepKeeps == IInv /\ [Next]_vars => IInv'
<1> SUFFICES ASSUME IInv, [Next]_vars PROVE IInv'
  OBVIOUS
<1>1. CASE UNCHANGED vars
  BY <1>1 DEF vars, IInv, Separate, CommandsStayInside, Limits
<1>2. CASE Work
  BY <1>2, TurnOnKeeps, SendKeeps, WaitKeeps, EndpointKeeps, StopMotionKeeps, SettleKeeps,
     ManualKeeps, ObserveKeeps, DriveKeeps, AimKeeps, JogKeeps, UnloadKeeps, TurnsKeeps
     DEF Work
<1> QED BY <1>1, <1>2 DEF Next, Ended

-----------------------------------------------------------------------------

\* The inductive invariant holds of every motion.
THEOREM Inductive == Spec => []IInv
  BY InitHolds, StepKeeps, PTL DEF Spec

\* No command leaves its limits (sendLimitedCommand, sendLimitedPositionCommand and
\* the commands of bring-up).
THEOREM CommandsAreLimited == Spec => []CommandsStayInside
  <1>1. IInv => CommandsStayInside
    BY DEF IInv
  <1> QED BY <1>1, Inductive, PTL

-----------------------------------------------------------------------------
(* How the loops end: what callers may rely on, whatever came in between. *)

\* The loop was entered as the operations enter it.
Begun ==
  /\ start \in GC!Bodies /\ start.ans = "ok" /\ (start.flt => ~start.on)
  /\ op.bringup = None => start.top = "ManualPositioning"

\* Until it ends, the body is the one it was entered with, with the output off
\* or on, or with a fault that was seen.
Live == {GC!Off(start), GC!Energised(start), GC!Tripped(start)}
Carried ==
  /\ pc # "done" => body \in Live
  /\ pc \in {"wait", "endpoint"} => ~start.flt
  /\ pc = "settle" => ~body.on /\ (fresh # None => body \in GC!Observed(GC!Off(start)))

\* Which end of a loop is settled.
Causes == IF op.manual THEN {"reached", "timedOut", "overCurrent", "jam"}
          ELSE {"reached", "contact", "timedOut"}
Caused ==
  /\ pc \in {"wait", "endpoint"} => ~op.manual
  /\ pc \in {"manual", "observe"} => op.manual
  /\ pc \in {"command", "send", "wait", "manual", "observe", "drive", "aim"} => after = None
  /\ pc = "endpoint" => after = "contact"
  /\ pc \in {"stop", "settle"} /\ op.bringup = None => after \in Causes
  /\ pc \in {"jog", "unload"} => op.bringup = "jog"

\* No timer has run longer than the nut has stood still.
Lulled ==
  op.bringup = None => lacking <= lull /\ (~op.manual => stalled <= lull)

Endings == /\ Begun /\ Carried /\ Caused /\ EndingsHold
           /\ body \in GC!Interrupted(start)

\* The other variables have their types.
Typed ==
  /\ pc \in {"command", "send", "wait", "endpoint", "stop", "settle", "manual",
             "observe", "drive", "aim", "jog", "unload", "turns", "done"}
  /\ powered \in BOOLEAN /\ silence \in 0 .. StaleAfter
  /\ clock \in 0 .. Most(op.time, SettleTimeout)
  /\ mark \in Strokes /\ stalled \in Int /\ lacking \in Int /\ still \in Int /\ lull \in Nat
  /\ after \in {None, "reached", "contact", "timedOut", "overCurrent", "jam", "failed"}
  /\ fresh \in {None, "new", "known"}
  /\ result \in {None, "reached", "contact", "timedOut", "safetyStop", "failed"}

\* A body is its top state, its output and its fault.
LEMMA BodyForm ==
  ASSUME NEW b \in GC!Bodies
  PROVE  /\ b = [top |-> b.top, on |-> b.on, flt |-> b.flt, ans |-> b.ans]
         /\ b.on \in BOOLEAN /\ b.flt \in BOOLEAN
  BY DEF GC!Bodies

\* What the motor's calls make of a body.
LEMMA Bodies ==
  ASSUME Begun, NEW b \in Live
  PROVE  /\ GC!Answer(b, "ok") = b
         /\ GC!Off(b) \in {GC!Off(start), GC!Tripped(start)}
         /\ GC!Energised(b) \in Live
         /\ GC!Observed(b) \subseteq Live
         /\ GC!Observed(GC!Off(b)) \subseteq GC!Observed(GC!Off(start))
         /\ GC!Observed(GC!Energised(b)) \subseteq Live
         /\ GC!Halted(b) \in GC!Interrupted(start)
         /\ b \in GC!Interrupted(start)
         /\ GC!Off(b) \in GC!Settled(start) /\ GC!Off(b) \in GC!Interrupted(start)
         /\ b.top = start.top \/ b \in GC!Settled(start)
         /\ GC!Answer(GC!Off(b), "ok") = GC!Off(b) /\ ~GC!Off(b).on
         /\ b.on \/ ~start.flt => ~start.flt /\ GC!Off(b) \in GC!Observed(GC!Off(start))
         /\ GC!Answer(GC!Halted(b), "ok") = GC!Halted(b)
         /\ GC!Halted(b).top = "ActiveStop" /\ GC!Halted(b).on = b.on
<1> DEFINE off == [top |-> start.top, on |-> FALSE, flt |-> FALSE, ans |-> "ok"]
           lit == [top |-> start.top, on |-> TRUE, flt |-> FALSE, ans |-> "ok"]
           dud == [top |-> start.top, on |-> FALSE, flt |-> TRUE, ans |-> "ok"]
           bad == [top |-> "Fault", on |-> FALSE, flt |-> TRUE, ans |-> "ok"]
<1>1. start.flt \in BOOLEAN /\ start.ans = "ok"
  BY BodyForm DEF Begun
<1>2. GC!Tripped(start) = bad
  BY <1>1 DEF GC!Tripped, GC!Body
<1>3. /\ GC!Off(off) = off /\ GC!Off(lit) = off /\ GC!Off(dud) = dud /\ GC!Off(bad) = bad
      /\ GC!Tripped(off) = bad /\ GC!Tripped(lit) = bad /\ GC!Tripped(dud) = bad
      /\ GC!Tripped(bad) = bad
      /\ GC!Answer(off, "ok") = off /\ GC!Answer(lit, "ok") = lit
      /\ GC!Answer(dud, "ok") = dud /\ GC!Answer(bad, "ok") = bad
  BY DEF GC!Off, GC!Output, GC!Tripped, GC!Answer, GC!Body
<1>4. /\ GC!Energised(off) = lit /\ GC!Energised(lit) = lit
      /\ GC!Energised(dud) = dud /\ GC!Energised(bad) = bad
  BY <1>3 DEF GC!Energised, GC!Output, GC!Body
<1>5. /\ GC!Observed(off) = {bad, off} /\ GC!Observed(lit) = {bad, lit}
      /\ GC!Observed(dud) = {bad} /\ GC!Observed(bad) = {bad}
  BY <1>3 DEF GC!Observed
<1>6. /\ GC!Interrupted(start) = Live \union {GC!Halted(l) : l \in Live}
      /\ GC!Settled(start) = {GC!Off(start), GC!Tripped(GC!Off(start))}
  BY DEF Live, GC!Interrupted, GC!Settled, GC!Sampled
<1>7. b \in GC!Interrupted(start) /\ GC!Halted(b) \in GC!Interrupted(start)
  BY <1>6
<1>8. /\ GC!Answer(GC!Halted(b), "ok") = GC!Halted(b)
       /\ GC!Halted(b).top = "ActiveStop" /\ GC!Halted(b).on = b.on
  <2>1. b.ans = "ok"
    BY <1>1 DEF Live, GC!Off, GC!Energised, GC!Output, GC!Tripped, GC!Body
  <2> QED BY <2>1 DEF GC!Halted, GC!Answer, GC!Body
<1>9. /\ ~off.on /\ ~dud.on /\ ~bad.on
       /\ off.top = start.top /\ lit.top = start.top /\ dud.top = start.top
  OBVIOUS
<1>10. CASE start.flt = FALSE
  <2>1. GC!Off(start) = off /\ GC!Energised(start) = lit
    BY <1>1, <1>10 DEF GC!Off, GC!Energised, GC!Output, GC!Body
  <2>2. Live = {off, lit, bad}
    BY <1>2, <2>1 DEF Live
  <2> HIDE DEF off, lit, dud, bad
  <2> QED BY <1>2, <1>3, <1>4, <1>5, <1>6, <1>7, <1>8, <1>9, <1>10, <2>1, <2>2
<1>11. CASE start.flt = TRUE
  <2>1. GC!Off(start) = dud /\ GC!Energised(start) = dud
    BY <1>1, <1>11 DEF GC!Off, GC!Energised, GC!Output, GC!Body
  <2>2. Live = {dud, bad}
    BY <1>2, <2>1 DEF Live
  <2> HIDE DEF off, lit, dud, bad
  <2> QED BY <1>2, <1>3, <1>4, <1>5, <1>6, <1>7, <1>8, <1>9, <1>11, <2>1, <2>2
<1> QED BY <1>1, <1>10, <1>11

\* A body with the output off and what another disable makes of it.
LEMMA SettledBodies ==
  ASSUME Begun, NEW b \in GC!Settled(start)
  PROVE  /\ GC!Settled(b) \subseteq GC!Settled(start)
         /\ GC!Observed(b) \subseteq GC!Observed(GC!Off(start))
         /\ b \in Live /\ b \in GC!Interrupted(start) /\ ~b.on
         /\ GC!Halted(b) \in GC!Interrupted(start)
         /\ GC!Answer(GC!Halted(b), "ok") = GC!Halted(b)
         /\ GC!Halted(b).top = "ActiveStop" /\ ~GC!Halted(b).on
         /\ b.top \notin Latched => b.top = start.top
<1>1. /\ GC!Off(start) \in Live /\ GC!Tripped(GC!Off(start)) = GC!Tripped(start)
      /\ GC!Off(GC!Off(start)) = GC!Off(start)
      /\ GC!Off(GC!Tripped(start)) = GC!Tripped(start)
      /\ GC!Tripped(GC!Tripped(start)) = GC!Tripped(start)
      /\ ~GC!Off(start).on /\ ~GC!Tripped(start).on /\ GC!Tripped(start).flt
      /\ GC!Off(start).top = start.top /\ GC!Tripped(start).top = "Fault"
      /\ GC!Off(start).ans = "ok" /\ GC!Tripped(start).ans = "ok"
  BY DEF Begun, Live, GC!Off, GC!Output, GC!Tripped, GC!Body
<1>2. GC!Settled(start) = {GC!Off(start), GC!Tripped(start)}
  BY <1>1 DEF GC!Settled, GC!Sampled
<1>3. b \in {GC!Off(start), GC!Tripped(start)}
  BY <1>2
<1>4. GC!Off(b) = b /\ GC!Tripped(b) = GC!Tripped(start)
  BY <1>1, <1>3
<1>5. GC!Settled(b) = {b, GC!Tripped(start)}
  BY <1>4 DEF GC!Settled, GC!Sampled
<1>6. /\ GC!Observed(GC!Off(start)) = {GC!Tripped(start)} \union
           (IF GC!Off(start).flt THEN {} ELSE {GC!Off(start)})
      /\ GC!Observed(b) = {GC!Tripped(start)} \union (IF b.flt THEN {} ELSE {b})
  BY <1>1, <1>4 DEF GC!Observed
<1>7. GC!Observed(b) \subseteq GC!Observed(GC!Off(start))
  BY <1>1, <1>3, <1>6
<1>8. b \in Live
  BY <1>3 DEF Live
<1>9. /\ GC!Answer(GC!Halted(b), "ok") = GC!Halted(b) /\ GC!Halted(b).top = "ActiveStop"
      /\ GC!Halted(b).on = b.on
  BY <1>1, <1>3 DEF GC!Answer, GC!Halted, GC!Body
<1>10. b \in GC!Interrupted(start) /\ GC!Halted(b) \in GC!Interrupted(start)
  BY <1>8 DEF Live, GC!Interrupted
<1> QED BY <1>1, <1>2, <1>3, <1>5, <1>7, <1>8, <1>9, <1>10 DEF Latched

\* A body with the output off is settled, and so is one just observed.
LEMMA LiveOff ==
  ASSUME Begun, body \in Live, ~body.on
  PROVE  body \in GC!Settled(start)
<1>1. start.flt => GC!Energised(start) = GC!Off(start)
  BY DEF GC!Energised
<1>2. ~start.flt => GC!Energised(start).on
  BY DEF GC!Energised, GC!Output, GC!Body
<1>3. GC!Tripped(GC!Off(start)) = GC!Tripped(start)
  BY DEF GC!Tripped, GC!Off, GC!Output, GC!Body
<1> QED BY <1>1, <1>2, <1>3 DEF Live, GC!Settled, GC!Sampled

\* A frame read with the output off leaves a settled body.
LEMMA ObservedSettled ==
  ASSUME Begun
  PROVE  GC!Observed(GC!Off(start)) \subseteq GC!Settled(start)
  BY DEF GC!Observed, GC!Settled, GC!Sampled

\* What the loop may end with: an error with whatever it left, in a manual move one
\* that tells a latched state; a result with the output off; in bring-up never
\* anything but the output off.
Rightly ==
  /\ op.bringup = None /\ ~op.manual =>
       \/ result \in {"failed", "safetyStop"} /\ body \in GC!Interrupted(start)
       \/ result \in {"reached", "contact", "timedOut"} /\ body \in GC!Observed(GC!Off(start))
  /\ op.bringup = None /\ op.manual =>
       /\ \/ result = "safetyStop" /\ body \in GC!Interrupted(start) /\ body.top \in Latched
          \/ result = "failed" /\ body \in GC!Interrupted(start) /\ body.top \notin Latched
          \/ result = "failed" /\ body \in GC!Settled(start)
          \/ result = "reached" /\ body \in GC!Observed(GC!Off(start))
  /\ op.manual /\ after \in {"overCurrent", "jam"} => body.top = "ActiveStop" /\ ~body.on
  /\ op.bringup # None =>
       /\ body \in GC!Settled(start)
       /\ op.bringup = "turns" /\ result = "reached" => start.top \notin Latched

\* That is what the callers rely on.
LEMMA RightEndings ==
  Begun /\ Rightly => EndingsHold
<1> SUFFICES ASSUME Begun, Rightly PROVE EndingsHold
  OBVIOUS
<1>1. OverCurrentLatches /\ BringupEndsUnpowered
  BY DEF Rightly, OverCurrentLatches, BringupEndsUnpowered
<1>2. SUFFICES ASSUME pc = "done", op.bringup = None PROVE EndsAsPromised
  BY <1>1 DEF EndingsHold, EndsAsPromised
<1>3. GC!Latched = Latched
  BY DEF GC!Latched, Latched
<1>4. CASE op.manual
  <2>1. Outcome = result
    BY <1>4 DEF Outcome
  <2>2. GC!Positioning(start) =
          {GC!Answer(i, IF i.top \in Latched THEN "safetyStop" ELSE "failed") :
             i \in GC!Interrupted(start)} \union
          {GC!Answer(s, "failed") : s \in GC!Settled(start)} \union
          {GC!Answer(o, "reached") : o \in GC!Observed(GC!Off(start))}
    BY <1>3 DEF GC!Positioning
  <2>3. \/ result = "safetyStop" /\ body \in GC!Interrupted(start) /\ body.top \in Latched
        \/ result = "failed" /\ body \in GC!Interrupted(start) /\ body.top \notin Latched
        \/ result = "failed" /\ body \in GC!Settled(start)
        \/ result = "reached" /\ body \in GC!Observed(GC!Off(start))
    BY <1>2, <1>4 DEF Rightly
  <2> QED BY <1>4, <2>1, <2>2, <2>3 DEF EndsAsPromised
<1>5. CASE ~op.manual
  <2>1. GC!Motion(start) =
          {GC!Answer(i, "error") : i \in GC!Interrupted(start)} \union
          {GC!Answer(o, a) : o \in GC!Observed(GC!Off(start)),
                             a \in {"reached", "contact", "timedOut"}}
    BY <1>2, <1>3 DEF GC!Motion, Begun, Latched
  <2>2. Outcome = IF result \in {"failed", "safetyStop"} THEN "error" ELSE result
    BY <1>5 DEF Outcome
  <2>3. \/ result \in {"failed", "safetyStop"} /\ body \in GC!Interrupted(start)
        \/ result \in {"reached", "contact", "timedOut"} /\ body \in GC!Observed(GC!Off(start))
    BY <1>2, <1>5 DEF Rightly
  <2>4. CASE result \in {"failed", "safetyStop"} /\ body \in GC!Interrupted(start)
    BY <1>5, <2>1, <2>2, <2>4 DEF EndsAsPromised
  <2>5. CASE result \in {"reached", "contact", "timedOut"} /\ body \in GC!Observed(GC!Off(start))
    <3>1. Outcome = result
      BY <2>2, <2>5
    <3>2. GC!Answer(body, result) \in GC!Motion(start)
      BY <2>1, <2>5
    <3> QED BY <1>5, <3>1, <3>2 DEF EndsAsPromised
  <2> QED BY <2>3, <2>4, <2>5
<1> QED BY <1>4, <1>5

\* An answer already given stays.
LEMMA Answered ==
  ASSUME Begun
  PROVE  \A b \in GC!Interrupted(start) \union GC!Settled(start)
                    \union GC!Observed(GC!Off(start)) :
           GC!Answer(b, "ok") = b /\ b.ans = "ok" /\ b \in GC!Bodies
<1> DEFINE Ok(b) == GC!Answer(b, "ok") = b /\ b.ans = "ok" /\ b \in GC!Bodies
<1>1. /\ start.top \in GC!States /\ start.on \in BOOLEAN /\ start.flt \in BOOLEAN
      /\ start.ans = "ok" /\ "ok" \in GC!Answers
      /\ "Fault" \in GC!States /\ "ActiveStop" \in GC!States
  BY DEF Begun, GC!Bodies, GC!States, GC!Latched, GC!Answers, GC!Replies
<1>2. ASSUME NEW top \in GC!States, NEW on \in BOOLEAN, NEW flt \in BOOLEAN
      PROVE  Ok(GC!Body(top, on, flt, "ok"))
  <2>1. GC!Body(top, on, flt, "ok") = [top |-> top, on |-> on, flt |-> flt, ans |-> "ok"]
    BY DEF GC!Body
  <2> QED BY <1>1, <2>1 DEF GC!Answer, GC!Body, GC!Bodies
<1>3. Ok(GC!Off(start)) /\ Ok(GC!Tripped(start))
  BY <1>1, <1>2 DEF GC!Off, GC!Output, GC!Tripped
<1>4. Ok(GC!Energised(start))
  BY <1>1, <1>2, <1>3 DEF GC!Energised, GC!Output
<1>5. ASSUME NEW b, Ok(b)
      PROVE  Ok(GC!Halted(b)) /\ Ok(GC!Tripped(b))
  <2>1. b.on \in BOOLEAN /\ b.flt \in BOOLEAN /\ b.ans = "ok"
    BY <1>5 DEF GC!Bodies
  <2>2. GC!Halted(b) = GC!Body("ActiveStop", b.on, b.flt, "ok")
        /\ GC!Tripped(b) = GC!Body("Fault", FALSE, TRUE, "ok")
    BY <2>1 DEF GC!Halted, GC!Tripped
  <2>3. Ok(GC!Body("ActiveStop", b.on, b.flt, "ok"))
    BY <1>1, <1>2, <2>1
  <2>4. Ok(GC!Body("Fault", FALSE, TRUE, "ok"))
    BY <1>1, <1>2
  <2> HIDE DEF Ok
  <2> QED BY <2>2, <2>3, <2>4
<1>6. ASSUME NEW b \in GC!Interrupted(start)
      PROVE  Ok(b)
  <2>1. CASE b \in {GC!Off(start), GC!Energised(start), GC!Tripped(start)}
    BY <1>3, <1>4, <2>1
  <2>2. CASE b \in {GC!Halted(l) : l \in {GC!Off(start), GC!Energised(start), GC!Tripped(start)}}
    <3>1. PICK l \in {GC!Off(start), GC!Energised(start), GC!Tripped(start)} : b = GC!Halted(l)
      BY <2>2
    <3>2. Ok(l)
      BY <1>3, <1>4
    <3>3. Ok(GC!Halted(l))
      BY <1>5, <3>2
    <3> QED BY <3>1, <3>3
  <2> QED BY <2>1, <2>2 DEF GC!Interrupted
<1>7. Ok(GC!Tripped(GC!Off(start)))
  BY <1>3, <1>5
<1>8. ASSUME NEW b \in GC!Settled(start) \union GC!Observed(GC!Off(start))
      PROVE  Ok(b)
  <2>1. b \in {GC!Off(start), GC!Tripped(GC!Off(start))}
    BY DEF GC!Settled, GC!Sampled, GC!Observed
  <2> QED BY <1>3, <1>7, <2>1
<1> QED BY <1>6, <1>8

\* Whatever a loop can be left with was interrupted somewhere.
LEMMA AnyBody ==
  Begun => GC!Settled(start) \union GC!Observed(GC!Off(start)) \subseteq GC!Interrupted(start)
  BY SettledBodies, ObservedSettled

\* The same of the next state.
LEMMA AnyBodyNext ==
  (Begun => GC!Settled(start) \union GC!Observed(GC!Off(start)) \subseteq GC!Interrupted(start))'
  BY AnyBody, PTL

\* The same of the next state.
LEMMA RightEndingsNext == (Begun /\ Rightly => EndingsHold)'
  BY RightEndings, PTL

\* A step that ends the loop as its callers rely on.
LEMMA Ends ==
  ASSUME Endings, pc' = "done", op' = op, start' = start, Rightly'
  PROVE  Endings'
<1>1. Begun'
  BY DEF Endings, Begun
<1>2. Carried' /\ Caused'
  BY DEF Carried, Caused
<1>3. body' \in GC!Interrupted(start)' \union GC!Settled(start)' \union
                GC!Observed(GC!Off(start))'
  BY DEF Rightly
<1>4. body' \in GC!Interrupted(start)'
  BY <1>1, <1>3, AnyBodyNext
<1> QED BY <1>1, <1>2, <1>4, RightEndingsNext DEF Endings

\* A step that goes on.
LEMMA GoesOn ==
  ASSUME Endings, pc' # "done", op'.bringup = op.bringup, op'.manual = op.manual,
         start' = start, Carried', Caused'
  PROVE  Endings'
<1>1. body' \in Live'
  BY DEF Carried
<1>2. body' \in GC!Interrupted(start)'
  BY <1>1 DEF Live, GC!Interrupted
<1> QED BY <1>2 DEF Endings, Begun, EndingsHold, EndsAsPromised, OverCurrentLatches,
           BringupEndsUnpowered

\* The command.
LEMMA TurnOnEnds ==
  ASSUME IInv, Endings, TurnOn
  PROVE  Endings'
<1>1. body \in Live /\ Begun /\ after = None /\ op.bringup = None /\ pc = "command"
  BY DEF TurnOn, Endings, Carried, Caused, IInv, Separate
<1>2. UNCHANGED <<op, start, after>>
  BY DEF TurnOn, options, settling
<1>3. CASE Latch /\ End(body, "safetyStop")
  <2>1. Rightly'
    BY <1>1, <1>2, <1>3, Bodies DEF Endings, Rightly, End, Latch, None
  <2> QED BY <1>2, <1>3, <2>1, Ends DEF End
<1>4. CASE ~Latch /\ body.on /\ pc' = "send" /\ UNCHANGED body
  BY <1>1, <1>2, <1>4, GoesOn DEF Carried, Caused, Live
<1>5. CASE ~Latch /\ ~body.on /\ End(GC!Off(body), "failed")
  <2>1. Rightly'
    BY <1>1, <1>2, <1>5, Bodies, Answered DEF Endings, Rightly, End, Latch, None
  <2> QED BY <1>2, <1>5, <2>1, Ends DEF End
<1>6. CASE pc' = "send" /\ Peek(GC!Energised(body), {~body.flt}, Follows)
  <2>0. body' \in {GC!Energised(body)} \union GC!Observed(GC!Energised(body))
    BY <1>6 DEF Peek
  <2>1. body' \in Live
    BY <1>1, <2>0, Bodies
  <2> QED BY <1>1, <1>2, <1>6, <2>1, GoesOn DEF Carried, Caused, Live
<1> QED BY <1>3, <1>4, <1>5, <1>6 DEF TurnOn

\* The command is written, stopped or refused.
LEMMA SendEnds ==
  ASSUME IInv, Endings, Send
  PROVE  Endings'
<1>1. body \in Live /\ after = None /\ op.bringup = None /\ Begun
  BY DEF Send, Endings, Carried, Caused, IInv, Separate
<1>2. UNCHANGED <<op, start, after>>
  BY DEF Send, options, settling
<1>3. CASE End(GC!Halted(body), "safetyStop")
  <2>1. Rightly'
    BY <1>1, <1>2, <1>3, Bodies DEF Rightly, End, Latched, None
  <2> QED BY <1>2, <1>3, <2>1, Ends DEF End
<1>4. CASE End(body, IF Latch THEN "safetyStop" ELSE "failed")
  <2>1. Rightly'
    BY <1>1, <1>2, <1>4, Bodies DEF Rightly, End, Latch, None
  <2> QED BY <1>2, <1>4, <2>1, Ends DEF End
<1>5. CASE body.on /\ pc' = (IF op.manual THEN "observe" ELSE "wait") /\ UNCHANGED body
  <2>1. ~start.flt
    BY <1>1, <1>5, Bodies
  <2>2. Carried'
    BY <1>1, <1>2, <1>5, <2>1 DEF Carried, Live
  <2>3. Caused'
    BY <1>1, <1>2, <1>5 DEF Caused
  <2> QED BY <1>2, <1>5, <2>2, <2>3, GoesOn
<1> QED BY <1>3, <1>4, <1>5 DEF Send

\* The sample at an endpoint.
LEMMA EndpointEnds ==
  ASSUME IInv, Endings, Endpoint
  PROVE  Endings'
<1>1. /\ body \in Live /\ ~start.flt /\ after = "contact" /\ op.bringup = None /\ ~op.manual
      /\ Begun
  BY DEF Endpoint, Endings, Carried, Caused, IInv, Separate
<1>2. UNCHANGED <<op, start, after>> /\ pc' = "done"
  BY DEF Endpoint, options, settling, End
<1>3. CASE End(GC!Off(body), "failed")
  BY <1>1, <1>2, <1>3, Bodies, Ends DEF Rightly, End
<1>4. CASE result' = after /\ body' \in {GC!Off(body)} \union GC!Observed(GC!Off(body))
  BY <1>1, <1>2, <1>4, Bodies, Ends DEF Rightly
<1> QED BY <1>3, <1>4 DEF Endpoint

\* The answer to the settle wait.
LEMMA FinishEnds ==
  ASSUME IInv, Endings, pc \in {"stop", "settle"}, UNCHANGED <<op, start, after>>,
         NEW b \in GC!Settled(start), NEW ok \in BOOLEAN, NEW error, Finish(b, ok, error),
         ok => /\ b \in GC!Observed(GC!Off(start))
               /\ op.bringup # None => start.top \notin Latched,
         ~ok => error = "failed" \/ (error = "safetyStop" /\ b.top \in Latched)
  PROVE  Endings'
<1>1. Begun /\ (op.bringup = None => after \in Causes)
  BY DEF Endings, Caused
<1>2. GC!Answer(b, "ok") = b
  BY <1>1, Answered
<1>3. CASE op.manual /\ after \in {"overCurrent", "jam"} /\ op.bringup = None
  <2>1. PICK d \in IF ok THEN {b} ELSE GC!Settled(b) : End(GC!Halted(d), "safetyStop")
    BY <1>3 DEF Finish
  <2>2. d \in GC!Settled(start)
    BY <1>1, <2>1, SettledBodies
  <2>3. /\ GC!Halted(d) \in GC!Interrupted(start) /\ GC!Halted(d).top = "ActiveStop"
        /\ GC!Answer(GC!Halted(d), "ok") = GC!Halted(d) /\ ~GC!Halted(d).on
    BY <1>1, <2>2, SettledBodies
  <2>4. Rightly' /\ pc' = "done"
    BY <1>3, <2>1, <2>3 DEF Rightly, End, Latched
  <2> QED BY <2>4, Ends
<1>4. CASE op.manual /\ after \notin {"overCurrent", "jam"} /\ op.bringup = None
  <2>1. after \in {"reached", "timedOut"}
    BY <1>1, <1>4 DEF Causes
  <2>2. CASE End(b, "failed")
    <3>1. Rightly' /\ pc' = "done"
      BY <1>2, <1>4, <2>2 DEF Rightly, End
    <3> QED BY <3>1, Ends
  <2>3. CASE after = "reached" /\ End(b, IF ok THEN after ELSE error)
    <3>1. b \in GC!Interrupted(start)
      BY <1>1, SettledBodies
    <3>2. Rightly' /\ pc' = "done"
      BY <1>2, <1>4, <2>3, <3>1 DEF Rightly, End
    <3> QED BY <3>2, Ends
  <2> QED BY <1>4, <2>1, <2>2, <2>3 DEF Finish
<1>5. CASE ~op.manual /\ op.bringup = None
  <2>1. after \in {"reached", "contact", "timedOut"}
    BY <1>1, <1>5 DEF Causes
  <2>2. End(b, IF ok THEN after ELSE error)
    BY <1>5 DEF Finish
  <2>3. b \in GC!Interrupted(start)
    BY <1>1, SettledBodies
  <2>4. Rightly' /\ pc' = "done"
    BY <1>2, <1>5, <2>1, <2>2, <2>3 DEF Rightly, End
  <2> QED BY <2>4, Ends
<1>6. CASE op.bringup # None /\ ~op.manual
  <2>1. End(b, TurnsResult(ok, error))
    BY <1>6 DEF Finish
  <2>2. ~ok => TurnsResult(ok, error) # "reached"
    BY DEF TurnsResult
  <2>3. Rightly' /\ pc' = "done"
    BY <1>2, <1>6, <2>1, <2>2 DEF Rightly, End
  <2> QED BY <2>3, Ends
<1>7. op.bringup # None => ~op.manual
  BY DEF IInv, BringupBounded
<1> QED BY <1>3, <1>4, <1>5, <1>6, <1>7

\* The disable of the settle wait.
LEMMA StopMotionEnds ==
  ASSUME IInv, Typed, Endings, StopMotion
  PROVE  Endings'
<1>1. body \in Live /\ Begun /\ pc = "stop" /\ UNCHANGED <<op, start, after>>
  BY DEF StopMotion, Endings, Carried, options
<1>2. CASE Finish(GC!Off(body), FALSE, "failed")
  BY <1>1, <1>2, Bodies, FinishEnds
<1>3. CASE /\ pc' = "settle" /\ Peek(GC!Off(body), {body.on}, Resting)
           /\ fresh' = IF silence' = 0 /\ ~UNCHANGED frame THEN "new" ELSE None
  <2>1. \/ UNCHANGED <<seen, powered>> /\ silence' = silence + 1 /\ body' = GC!Off(body)
        \/ UNCHANGED <<seen, powered, silence>> /\ body' = GC!Off(body)
        \/ body' \in GC!Observed(GC!Off(body))
    BY <1>3 DEF Peek, Older
  <2>2. silence + 1 # 0
    BY LoopAssumption DEF Typed
  <2>3. fresh' # None => body' \in GC!Observed(GC!Off(body))
    BY <1>3, <2>1, <2>2 DEF frame, None
  <2>4. body' \in GC!Settled(start)
    BY <1>1, <2>1, Bodies, ObservedSettled
  <2>5. Carried'
    BY <1>1, <1>3, <2>3, <2>4, Bodies, SettledBodies DEF Carried, Live
  <2>6. Caused'
    BY <1>1, <1>3 DEF Caused, Causes, Endings
  <2> QED BY <1>1, <1>3, <2>5, <2>6, GoesOn
<1> QED BY <1>2, <1>3 DEF StopMotion

\* One iteration of the settle wait.
LEMMA SettleEnds ==
  ASSUME IInv, Endings, Settle
  PROVE  Endings'
<1>1. /\ body \in Live /\ Begun /\ pc = "settle" /\ UNCHANGED <<op, start, after>>
      /\ ~body.on /\ (fresh # None => body \in GC!Observed(GC!Off(start)))
  BY DEF Settle, Endings, Carried, options
<1>2. body \in GC!Settled(start)
  BY <1>1, LiveOff
<1>3. CASE Latch /\ Finish(body, FALSE, "safetyStop")
  BY <1>1, <1>2, <1>3, FinishEnds DEF Latch
<1>4. CASE Finish(body, FALSE, "failed")
  BY <1>1, <1>2, <1>4, FinishEnds
<1>5. ASSUME NEW f, NEW newer \in BOOLEAN, NEW b, ~Latch, Weigh(f, newer, b),
             b \in IF newer THEN GC!Observed(body) ELSE {body}
      PROVE  Endings'
  <2>1. b \in GC!Settled(start)
    BY <1>1, <1>2, <1>5, SettledBodies, ObservedSettled
  <2>2. newer \/ fresh # None => b \in GC!Observed(GC!Off(start))
    BY <1>1, <1>2, <1>5, SettledBodies
  <2>3. op.bringup # None => start.top \notin Latched
    BY <1>1, <1>2, <1>5, SettledBodies DEF Latch
  <2>4. CASE Finish(b, TRUE, None) /\ (newer \/ fresh # None)
    BY <1>1, <2>1, <2>2, <2>3, <2>4, FinishEnds
  <2>5. CASE Finish(b, FALSE, "failed")
    BY <1>1, <2>1, <2>5, FinishEnds
  <2>6. CASE body' = b /\ UNCHANGED pc /\ fresh' = IF newer \/ fresh # None THEN "known" ELSE None
    <3>1. Carried'
      BY <1>1, <2>1, <2>2, <2>6, SettledBodies DEF Carried, Live
    <3>2. Caused'
      BY <1>1, <2>6 DEF Caused, Causes, Endings
    <3> QED BY <1>1, <2>6, <3>1, <3>2, GoesOn
  <2> QED BY <1>5, <2>4, <2>5, <2>6 DEF Weigh
<1>6. CASE ~Latch /\ Weigh(seen, FALSE, body)
  BY <1>5, <1>6
<1>7. CASE ~Latch /\ \E f \in Resting, b \in GC!Observed(body) : Weigh(f, TRUE, b)
  BY <1>5, <1>7
<1> QED BY <1>3, <1>4, <1>6, <1>7 DEF Settle

\* One iteration of runMotionUntil.
LEMMA WaitEnds ==
  ASSUME IInv, Endings, Wait
  PROVE  Endings'
<1>1. /\ body \in Live /\ Begun /\ pc = "wait" /\ UNCHANGED <<op, start>> /\ ~start.flt
      /\ op.bringup = None /\ ~op.manual /\ after = None
  BY DEF Wait, Endings, Carried, Caused, IInv, Separate, options
<1>2. ASSUME NEW f, NEW b \in Live, Judge(f, b)
      PROVE  Endings'
  <2>1. CASE End(GC!Halted(b), "safetyStop") /\ UNCHANGED after
    <3>1. Rightly' /\ pc' = "done"
      BY <1>1, <2>1, Bodies DEF Rightly, End
    <3> QED BY <1>1, <3>1, Ends
  <2>2. CASE /\ pc' \in {"endpoint", "stop"} /\ after' = "contact" /\ body' = b
    <3>1. Carried' /\ Caused'
      BY <1>1, <2>2 DEF Carried, Live, Caused, Causes
    <3> QED BY <1>1, <2>2, <3>1, GoesOn
  <2>3. CASE pc' = "stop" /\ after' = "reached" /\ body' = b
    <3>1. Carried' /\ Caused'
      BY <1>1, <2>3 DEF Carried, Live, Caused, Causes
    <3> QED BY <1>1, <2>3, <3>1, GoesOn
  <2>4. CASE UNCHANGED <<pc, after>> /\ body' = b
    <3>1. Carried' /\ Caused'
      BY <1>1, <2>4 DEF Carried, Live, Caused, Causes
    <3> QED BY <1>1, <2>4, <3>1, GoesOn
  <2> QED BY <1>2, <2>1, <2>2, <2>3, <2>4 DEF Judge
<1>3. CASE pc' = "stop" /\ after' = "timedOut" /\ UNCHANGED body
  <2>1. Carried' /\ Caused'
    BY <1>1, <1>3 DEF Carried, Live, Caused, Causes
  <2> QED BY <1>1, <1>3, <2>1, GoesOn
<1>4. ASSUME NEW a \in {"safetyStop", "failed"}, End(body, a), UNCHANGED after
      PROVE  Endings'
  <2>1. Rightly' /\ pc' = "done"
    BY <1>1, <1>4, Bodies DEF Rightly, End
  <2> QED BY <1>1, <2>1, Ends
<1>5. CASE Judge(seen, body)
  BY <1>1, <1>2, <1>5
<1>6. CASE \E f \in Follows, b \in GC!Observed(body) : Judge(f, b)
  BY <1>1, <1>2, <1>6, Bodies
<1> QED BY <1>3, <1>4, <1>5, <1>6 DEF Wait

\* The manual loop: the top of an iteration and the rest of it.
LEMMA ManualEnds ==
  ASSUME IInv, Endings, Manual
  PROVE  Endings'
<1>1. /\ body \in Live /\ Begun /\ pc = "manual" /\ UNCHANGED <<op, start>>
      /\ op.bringup = None /\ op.manual /\ after = None
  BY DEF Manual, Endings, Carried, Caused, IInv, Separate, options
<1>2. CASE Latch /\ End(body, "safetyStop") /\ UNCHANGED after
  <2>1. Rightly' /\ pc' = "done"
    BY <1>1, <1>2, Bodies DEF Rightly, End, Latch, None
  <2> QED BY <1>1, <2>1, Ends
<1>3. CASE /\ UNCHANGED body
           /\ \/ pc' = "stop" /\ after' \in {"timedOut", "reached"}
              \/ pc' = "command" /\ UNCHANGED after
  <2>1. Carried' /\ Caused'
    BY <1>1, <1>3 DEF Carried, Live, Caused, Causes
  <2> QED BY <1>1, <1>3, <2>1, GoesOn
<1> QED BY <1>2, <1>3 DEF Manual

\* It judges the frame after its command.
LEMMA ObserveEnds ==
  ASSUME IInv, Endings, Observe
  PROVE  Endings'
<1>1. /\ body \in Live /\ Begun /\ pc = "observe" /\ UNCHANGED <<op, start>>
      /\ op.bringup = None /\ op.manual /\ after = None
  BY DEF Observe, Endings, Carried, Caused, IInv, Separate, options
<1>2. CASE End(body, "failed") /\ UNCHANGED after
  <2>1. body \in GC!Settled(start) \/ (body \in GC!Interrupted(start) /\ body.top \notin Latched)
    BY <1>1, Bodies DEF Begun, Latched
  <2>2. Rightly' /\ pc' = "done"
    BY <1>1, <1>2, <2>1, Bodies DEF Rightly, End, None
  <2> QED BY <1>1, <2>2, Ends
<1>3. ASSUME NEW f, NEW b \in Live, Judging(f), body' = b
      PROVE  Endings'
  <2>1. ManualVerdict(f) \in {"overCurrent", "jam", "reached", None}
    BY DEF ManualVerdict
  <2>2. pc' \in {"manual", "stop"} /\ (pc' = "stop" => ManualVerdict(f) # None)
        /\ after' = ManualVerdict(f) /\ (pc' = "manual" => after' = None)
    BY <1>3 DEF Judging
  <2>3. Carried' /\ Caused'
    BY <1>1, <1>3, <2>1, <2>2 DEF Carried, Live, Caused, Causes
  <2> QED BY <1>1, <2>2, <2>3, GoesOn
<1>4. CASE Judging(seen) /\ UNCHANGED body
  BY <1>1, <1>3, <1>4
<1>5. CASE \E f \in Follows, b \in GC!Observed(body) : Judging(f) /\ body' = b
  BY <1>1, <1>3, <1>5, Bodies
<1> QED BY <1>2, <1>4, <1>5 DEF Observe

\* In bring-up an error leaves the output off.
LEMMA BringupEnds ==
  ASSUME IInv, Endings, NEW b \in Live, NEW a, End(GC!Off(b), a), op.bringup # None,
         UNCHANGED <<op, start>>, op.bringup = "turns" => a # "reached"
  PROVE  Endings'
<1>1. Begun /\ ~op.manual
  BY DEF Endings, IInv, BringupBounded
<1>2. Rightly' /\ pc' = "done"
  BY <1>1, Bodies DEF Rightly, End
<1> QED BY <1>2, Ends

\* The output and the first frame.
LEMMA DriveEnds ==
  ASSUME IInv, Endings, Drive
  PROVE  Endings'
<1>1. /\ body \in Live /\ Begun /\ pc = "drive" /\ UNCHANGED <<op, start, after>>
      /\ op.bringup # None /\ after = None
  BY DEF Drive, Endings, Carried, Caused, IInv, Separate, options, settling
<1>2. CASE End(GC!Off(body), "failed")
  BY <1>1, <1>2, BringupEnds
<1>3. CASE /\ pc' = "aim"
           /\ \E m \in {body, GC!Energised(body)} : body' \in {m} \union GC!Observed(m)
  <2>1. body' \in Live
    BY <1>1, <1>3, Bodies
  <2>2. Carried' /\ Caused'
    BY <1>1, <1>3, <2>1 DEF Carried, Live, Caused, Causes
  <2> QED BY <1>1, <1>3, <2>2, GoesOn
<1>4. End(GC!Off(body), "failed") \/
      /\ pc' = "aim"
      /\ \E m \in {body, GC!Energised(body)} : body' \in {m} \union GC!Observed(m)
  BY DEF Drive
<1> QED BY <1>2, <1>3, <1>4

\* The command of bring-up.
LEMMA AimEnds ==
  ASSUME IInv, Endings, Aim
  PROVE  Endings'
<1>1. /\ body \in Live /\ Begun /\ pc = "aim" /\ UNCHANGED <<start, after>>
      /\ op.bringup # None /\ op.bringup \in BringupMotions
  BY DEF Aim, Endings, Carried, IInv, Separate, settling
<1>2. CASE End(GC!Off(body), "failed") /\ UNCHANGED op
  BY <1>1, <1>2, BringupEnds
<1>3. CASE /\ UNCHANGED body /\ op' = [op EXCEPT !.target = seen.stroke + @]
           /\ pc' = op.bringup
  <2>1. op'.bringup = op.bringup /\ op'.manual = op.manual
    BY <1>3 DEF IInv, Motion
  <2>2. pc' \in {"jog", "turns"}
    BY <1>1, <1>3 DEF BringupMotions
  <2>3. Carried' /\ Caused'
    BY <1>1, <1>3, <2>1, <2>2 DEF Carried, Live, Caused, Causes
  <2> QED BY <1>1, <2>1, <2>2, <2>3, GoesOn
<1> QED BY <1>2, <1>3 DEF Aim

\* The pulse of a jog.
LEMMA JogEnds ==
  ASSUME IInv, Endings, Jog
  PROVE  Endings'
<1>1. /\ body \in Live /\ Begun /\ pc = "jog" /\ UNCHANGED <<op, start>>
      /\ op.bringup = "jog" /\ op.bringup # None
  BY DEF Jog, Endings, Carried, Caused, IInv, Separate, options, None
<1>2. CASE End(GC!Off(body), "failed")
  BY <1>1, <1>2, BringupEnds
<1>3. CASE pc' \in {"jog", "unload"} /\ body' \in {body} \union GC!Observed(body)
  <2>1. body' \in Live
    BY <1>1, <1>3, Bodies
  <2>2. Carried' /\ Caused'
    BY <1>1, <1>3, <2>1 DEF Carried, Live, Caused, Causes
  <2> QED BY <1>1, <1>3, <2>2, GoesOn
<1> QED BY <1>1, <1>2, <1>3 DEF Jog

\* Its end.
LEMMA UnloadEnds ==
  ASSUME IInv, Endings, Unload
  PROVE  Endings'
<1>1. /\ body \in Live /\ Begun /\ pc = "unload" /\ UNCHANGED <<op, start>>
      /\ op.bringup # None
  BY DEF Unload, Endings, Carried, IInv, Separate, options
<1>2. CASE End(GC!Off(body), "failed")
  BY <1>1, <1>2, BringupEnds
<1>3. ASSUME NEW b \in {body} \union GC!Observed(body), NEW a, End(GC!Off(b), a)
      PROVE  Endings'
  <2>1. b \in Live
    BY <1>1, Bodies
  <2>2. op.bringup = "jog"
    BY DEF Unload, Endings, Caused
  <2> QED BY <1>1, <1>3, <2>1, <2>2, BringupEnds
<1> QED BY <1>2, <1>3 DEF Unload

\* The turns.
LEMMA TurnsEnds ==
  ASSUME IInv, Endings, Turns
  PROVE  Endings'
<1>1. /\ body \in Live /\ Begun /\ pc = "turns" /\ UNCHANGED <<op, start>> /\ op.bringup # None
  BY DEF Turns, Endings, Carried, IInv, Separate, options
<1>2. pc' \in {"turns", "stop"} /\ body' \in {body} \union GC!Observed(body)
  BY <1>1 DEF Turns
<1>3. body' \in Live
  BY <1>1, <1>2, Bodies
<1>4. Carried' /\ Caused'
  BY <1>1, <1>2, <1>3 DEF Carried, Live, Caused, Causes
<1> QED BY <1>1, <1>2, <1>4, GoesOn

\* The loop is entered with a body of its operation.
LEMMA BeginsRight == Init => Begun
<1> SUFFICES ASSUME Init PROVE Begun
  OBVIOUS
<1>1. PICK top \in IF op.bringup = None THEN {"ManualPositioning"}
                   ELSE {"Disabled", "ActiveStop"},
           on \in BOOLEAN, flt \in BOOLEAN :
        start = GC!Body(top, on, flt, "ok")
  BY DEF Init
<1>2. top \in GC!States /\ "ok" \in GC!Answers
  BY <1>1 DEF GC!States, GC!ActiveMotion, GC!Latched, GC!Answers, GC!Replies
<1>3. start \in GC!Bodies /\ start.ans = "ok" /\ start.top = top
  BY <1>1, <1>2 DEF GC!Body, GC!Bodies
<1>4. start.flt => ~start.on
  BY DEF Init
<1> QED BY <1>1, <1>3, <1>4 DEF Begun

\* No end is promised before it is there.
LEMMA EndingsBegin == Init => Endings
<1> SUFFICES ASSUME Init PROVE Endings
  OBVIOUS
<1>1. Begun
  BY BeginsRight
<1>2. body = start /\ after = None
      /\ pc = IF op.bringup # None THEN "drive" ELSE IF op.manual THEN "manual" ELSE "command"
  BY DEF Init
<1>3. start \in Live
  <2>1. /\ start.on \in BOOLEAN /\ start.flt \in BOOLEAN /\ start.ans = "ok"
        /\ start = [top |-> start.top, on |-> start.on, flt |-> start.flt, ans |-> start.ans]
    BY <1>1, BodyForm DEF Begun
  <2>2. CASE start.on = FALSE
    BY <2>1, <2>2 DEF Live, GC!Off, GC!Output, GC!Body
  <2>3. CASE start.on = TRUE
    <3>1. start.flt = FALSE
      BY <1>1, <2>1, <2>3 DEF Begun
    <3> QED BY <2>1, <2>3, <3>1 DEF Live, GC!Energised, GC!Output, GC!Body
  <2> QED BY <2>1, <2>2, <2>3
<1>4. Carried /\ Caused /\ body \in GC!Interrupted(start)
  BY <1>1, <1>2, <1>3, Bodies DEF Carried, Caused
<1>5. EndingsHold
  BY <1>2 DEF EndingsHold, EndsAsPromised, OverCurrentLatches, BringupEndsUnpowered
<1> QED BY <1>1, <1>4, <1>5 DEF Endings

\* Every step keeps what is promised.
LEMMA StepEnds == IInv /\ Typed /\ Endings /\ [Next]_vars => Endings'
<1> SUFFICES ASSUME IInv, Typed, Endings, [Next]_vars PROVE Endings'
  OBVIOUS
<1>1. CASE UNCHANGED vars
  BY <1>1 DEF vars, timers, settling, Endings, Begun, Carried, Live, Caused, Causes, EndingsHold,
     EndsAsPromised, OverCurrentLatches, BringupEndsUnpowered, Outcome
<1>2. CASE Work
  BY <1>2, TurnOnEnds, SendEnds, WaitEnds, EndpointEnds, StopMotionEnds, SettleEnds,
     ManualEnds, ObserveEnds, DriveEnds, AimEnds, JogEnds, UnloadEnds, TurnsEnds
     DEF Work
<1> QED BY <1>1, <1>2 DEF Next, Ended

-----------------------------------------------------------------------------
(* Types. *)

\* A body of the loops is one of the controller's.
LEMMA BodyTyped ==
  Endings => body \in GC!Bodies /\ body.ans = "ok" /\ start \in GC!Bodies
  BY Answered DEF Endings, Begun

\* Its output and its fault are on or off.
LEMMA BodyFields ==
  ASSUME Endings
  PROVE  body.on \in BOOLEAN /\ (~body.flt) \in BOOLEAN
  BY BodyTyped DEF GC!Bodies

\* A frame that arrives is fresh; one that does not ages until it is stale.
LEMMA FramesTyped ==
  ASSUME Typed, Endings, Work
  PROVE  powered' \in BOOLEAN /\ silence' \in 0 .. StaleAfter
<1>1. body.on \in BOOLEAN /\ (~body.flt) \in BOOLEAN /\ FALSE \in BOOLEAN
  BY BodyFields
<1>2. powered \in BOOLEAN /\ silence \in 0 .. StaleAfter /\ StaleAfter \in Nat
  BY LoopAssumption DEF Typed
<1>3. ASSUME UNCHANGED frame
      PROVE  powered' \in BOOLEAN /\ silence' \in 0 .. StaleAfter
  BY <1>2, <1>3 DEF frame
<1>4. ASSUME ~Stale, Older
      PROVE  powered' \in BOOLEAN /\ silence' \in 0 .. StaleAfter
  BY <1>2, <1>4 DEF Stale, Older
<1>5. ASSUME NEW f, NEW on \in BOOLEAN, Newer(f, on)
      PROVE  powered' \in BOOLEAN /\ silence' \in 0 .. StaleAfter
  BY <1>2, <1>5 DEF Newer
<1>6. ASSUME NEW b, NEW also \in {{body.on}, {~body.flt}}, NEW frames, Peek(b, also, frames)
      PROVE  powered' \in BOOLEAN /\ silence' \in 0 .. StaleAfter
  BY <1>1, <1>3, <1>4, <1>5, <1>6 DEF Peek, frame
<1>7. CASE TurnOn
  BY <1>3, <1>6, <1>7 DEF TurnOn
<1>8. CASE Send \/ Manual \/ Aim
  BY <1>3, <1>8 DEF Send, Manual, Aim
<1>9. CASE Wait
  BY <1>1, <1>3, <1>4, <1>5, <1>9 DEF Wait
<1>10. CASE Endpoint
  BY <1>1, <1>3, <1>4, <1>5, <1>10 DEF Endpoint
<1>11. CASE StopMotion
  BY <1>3, <1>6, <1>11 DEF StopMotion
<1>12. CASE Settle
  BY <1>1, <1>3, <1>4, <1>5, <1>12 DEF Settle
<1>13. CASE Observe
  BY <1>1, <1>3, <1>4, <1>5, <1>13 DEF Observe
<1>14. CASE Jog
  BY <1>1, <1>3, <1>4, <1>5, <1>14 DEF Jog
<1>15. CASE Unload
  BY <1>1, <1>3, <1>4, <1>5, <1>15 DEF Unload
<1>16. CASE Turns
  BY <1>1, <1>3, <1>4, <1>5, <1>16 DEF Turns
<1>17. CASE Drive
  <2>1. body.on => body.on \in BOOLEAN
    BY <1>1
  <2>2. GC!Energised(body).on \in BOOLEAN
    <3>1. GC!Energised(body).on \in {TRUE, FALSE}
      BY DEF GC!Energised, GC!Off, GC!Output, GC!Body
    <3> QED BY <3>1
  <2>3. (IF body.on THEN body ELSE GC!Energised(body)).on \in BOOLEAN
    BY <1>1, <2>2
  <2> QED BY <1>3, <1>4, <1>5, <1>17, <2>3 DEF Drive
<1> QED BY <1>7, <1>8, <1>9, <1>10, <1>11, <1>12, <1>13, <1>14, <1>15, <1>16, <1>17 DEF Work

\* Whatever the timers and the clock were, they count on or begin anew.
LEMMA Counting ==
  ASSUME IInv, Typed
  PROVE  /\ Later \in 0 .. Most(op.time, SettleTimeout)
         /\ 0 \in 0 .. Most(op.time, SettleTimeout)
         /\ \A timer \in Int : Tick(timer) \in Int
         /\ Off \in Int /\ lull + 1 \in Nat /\ Follows \union Resting \subseteq Frames
         /\ \A f \in Frames : f.stroke \in Strokes
<1>1. op.time \in Nat /\ SettleTimeout \in Nat
  BY LoopAssumption DEF IInv, Motion
<1>2. Most(op.time, SettleTimeout) \in Nat
  BY <1>1 DEF Most
<1>3. Later \in 0 .. Most(op.time, SettleTimeout)
  BY <1>2 DEF Later, Least, Typed
<1> QED BY <1>2, <1>3, FrameTyped DEF Tick, Off, IInv, Typed, Frames

\* The timers of any step.
LEMMA TimersTyped ==
  ASSUME IInv, Typed, Work, seen' \in Frames
  PROVE  /\ clock' \in 0 .. Most(op.time, SettleTimeout) /\ op'.time = op.time
         /\ mark' \in Strokes /\ stalled' \in Int /\ lacking' \in Int /\ still' \in Int
         /\ lull' \in Nat
<1> DEFINE Fine == /\ clock' \in 0 .. Most(op.time, SettleTimeout) /\ op'.time = op.time
                   /\ mark' \in Strokes /\ stalled' \in Int /\ lacking' \in Int
                   /\ still' \in Int /\ lull' \in Nat
<1>1. /\ clock \in 0 .. Most(op.time, SettleTimeout) /\ mark \in Strokes
      /\ stalled \in Int /\ lacking \in Int /\ still \in Int /\ lull \in Nat /\ 0 \in Int
      /\ 0 \in Nat /\ seen.stroke \in Strokes /\ seen'.stroke \in Strokes /\ seen \in Frames
  BY Counting DEF Typed, IInv
<1>2. ASSUME UNCHANGED <<clock, mark, stalled, lacking, still, lull>>, op'.time = op.time
      PROVE  Fine
  BY <1>1, <1>2
<1>3. CASE TurnOn \/ Send \/ Manual \/ Endpoint \/ Drive \/ Unload
  BY <1>2, <1>3 DEF TurnOn, Send, Manual, Endpoint, Drive, Unload, timers, settling, options
<1>4. CASE Aim
  <2>1. op'.time = op.time /\ UNCHANGED <<clock, stalled, lacking, still, lull>>
        /\ mark' \in {mark, seen.stroke}
    BY <1>4 DEF Aim, settling, IInv, Motion
  <2> QED BY <1>1, <2>1
<1>5. ASSUME NEW f \in Frames, NEW b, Judge(f, b)
      PROVE  mark' \in Strokes /\ stalled' \in Int /\ lacking' \in Int /\ lull' \in Nat
  <2>1. mark' \in {f.stroke, mark} /\ lull' \in {lull + 1, 0}
    BY <1>5 DEF Judge
  <2>2. stalled' \in {0, Tick(stalled), Off}
    BY <1>5 DEF Judge, StallTimer
  <2>3. lacking' \in {Tick(Off), Tick(lacking), Off}
    BY <1>5 DEF Judge, Lacking
  <2> QED BY <1>1, <2>1, <2>2, <2>3, Counting
<1>6. CASE Wait
  <2>1. op' = op /\ still' = still
    BY <1>6 DEF Wait, options
  <2>2. CASE UNCHANGED timers
    BY <1>2, <2>1, <2>2 DEF timers
  <2>3. CASE clock' = Later /\ Judge(seen, body)
    BY <1>1, <1>5, <2>1, <2>3, Counting
  <2>4. CASE clock' = Later /\ \E f \in Follows, b \in GC!Observed(body) : Judge(f, b)
    <3>1. PICK f \in Follows, b \in GC!Observed(body) : Judge(f, b)
      BY <2>4
    <3>2. f \in Frames
      BY Counting
    <3>3. mark' \in Strokes /\ stalled' \in Int /\ lacking' \in Int /\ lull' \in Nat
      BY <1>5, <3>1, <3>2
    <3> QED BY <1>1, <2>1, <2>4, <3>3, Counting
  <2> QED BY <1>6, <2>2, <2>3, <2>4 DEF Wait
<1>7. CASE StopMotion
  <2>1. op' = op /\ lull' = lull
    BY <1>7 DEF StopMotion, options
  <2>2. \/ UNCHANGED <<clock, mark, stalled, lacking, still>>
        \/ /\ mark' = seen'.stroke
           /\ clock' = 0 /\ stalled' = Off /\ lacking' = Off /\ still' = Off
    BY <1>7 DEF StopMotion
  <2> QED BY <1>1, <2>1, <2>2, Counting
<1>8. CASE Settle
  <2>1. op' = op /\ UNCHANGED <<mark, stalled, lacking, lull>>
    BY <1>8 DEF Settle, options
  <2>2. ASSUME NEW f, NEW newer, NEW b, Weigh(f, newer, b)
        PROVE  clock' = Later /\ still' \in {Tick(still), Off, still}
    BY <2>2 DEF Weigh
  <2>3. UNCHANGED <<clock, still>> \/ (clock' = Later /\ still' \in {Tick(still), Off, still})
    BY <1>8, <2>2 DEF Settle
  <2> QED BY <1>1, <2>1, <2>3, Counting
<1>9. CASE Observe
  <2>1. op' = op /\ UNCHANGED still /\ clock' = Later
    BY <1>9 DEF Observe, options
  <2>2. ASSUME NEW f \in Frames, Judging(f)
        PROVE  mark' \in Strokes /\ stalled' \in Int /\ lacking' \in Int /\ lull' \in Nat
    <3>1. mark' \in {f.stroke, mark} /\ lull' \in {lull + 1, 0}
      BY <2>2 DEF Judging
    <3>2. stalled' \in {Tick(stalled), Off} /\ lacking' \in {Tick(lacking), Off}
      BY <2>2 DEF Judging
    <3> QED BY <1>1, <3>1, <3>2, Counting
  <2>3. \/ UNCHANGED <<mark, stalled, lacking, lull>>
        \/ \E f \in Frames : Judging(f)
    BY <1>1, <1>9, Counting DEF Observe
  <2> QED BY <1>1, <2>1, <2>2, <2>3, Counting
<1>10. CASE Jog
  <2>1. op' = op /\ UNCHANGED <<mark, stalled, lacking, lull, still>> /\ clock' \in {clock, Later}
    BY <1>10 DEF Jog, options
  <2> QED BY <1>1, <2>1, Counting
<1>11. CASE Turns
  <2>1. op' = op /\ UNCHANGED <<mark, lacking, lull, still>> /\ clock' \in {clock, Later}
        /\ stalled' \in {stalled, Tick(stalled), Off}
    BY <1>11 DEF Turns, options
  <2> QED BY <1>1, <2>1, Counting
<1> QED BY <1>3, <1>4, <1>6, <1>7, <1>8, <1>9, <1>10, <1>11 DEF Work

\* What the settle wait is answered with.
LEMMA FinishTyped ==
  ASSUME IInv, Endings, pc \in {"stop", "settle"}, UNCHANGED <<op, after>>,
         NEW b, NEW ok \in BOOLEAN, NEW error, ok \/ error \in {"failed", "safetyStop"},
         Finish(b, ok, error)
  PROVE  /\ pc' = "done"
         /\ result' \in {"reached", "contact", "timedOut", "safetyStop", "failed"}
<1>1. op.bringup = None => after \in Causes
  BY DEF Endings, Caused
<1>2. op.bringup # None => ~op.manual
  BY DEF IInv, BringupBounded
<1>3. CASE op.bringup # None
  <2>1. End(b, TurnsResult(ok, error))
    BY <1>2, <1>3 DEF Finish
  <2>2. TurnsResult(ok, error) \in {"reached", "timedOut", "safetyStop", "failed"}
    BY DEF TurnsResult
  <2> QED BY <2>1, <2>2 DEF End
<1>4. CASE op.bringup = None /\ op.manual
  <2>1. after \in {"reached", "timedOut", "overCurrent", "jam"}
    BY <1>1, <1>4 DEF Causes
  <2> QED BY <1>4, <2>1 DEF Finish, End
<1>5. CASE op.bringup = None /\ ~op.manual
  <2>1. after \in {"reached", "contact", "timedOut"}
    BY <1>1, <1>5 DEF Causes
  <2> QED BY <1>5, <2>1 DEF Finish, End
<1> QED BY <1>3, <1>4, <1>5

\* The control of any step.
LEMMA ControlTyped ==
  ASSUME IInv, Typed, Endings, Work
  PROVE  /\ pc' \in {"command", "send", "wait", "endpoint", "stop", "settle", "manual",
                     "observe", "drive", "aim", "jog", "unload", "turns", "done"}
         /\ after' \in {None, "reached", "contact", "timedOut", "overCurrent", "jam", "failed"}
         /\ fresh' \in {None, "new", "known"}
         /\ result' \in {None, "reached", "contact", "timedOut", "safetyStop", "failed"}
<1>1. CASE TurnOn \/ Send
  BY <1>1 DEF TurnOn, Send, End, Typed, settling
<1>2. CASE Wait
  BY <1>2 DEF Wait, Judge, End, Typed
<1>3. CASE Endpoint
  <2>1. after = "contact"
    BY <1>3 DEF Endpoint, Endings, Caused
  <2> QED BY <1>3, <2>1 DEF Endpoint, End, Typed, settling
<1>4. CASE StopMotion
  <2>1. pc = "stop" /\ UNCHANGED <<op, after>> /\ fresh' \in {fresh, "new", None}
    BY <1>4 DEF StopMotion, options
  <2>2. \/ Finish(GC!Off(body), FALSE, "failed")
        \/ pc' = "settle" /\ UNCHANGED result
    BY <1>4 DEF StopMotion
  <2> QED BY <2>1, <2>2, FinishTyped DEF Typed
<1>5. CASE Settle
  <2>1. pc = "settle" /\ UNCHANGED <<op, after>>
    BY <1>5 DEF Settle, options
  <2>2. ASSUME NEW f, NEW newer \in BOOLEAN, NEW b, Weigh(f, newer, b)
        PROVE  /\ fresh' \in {"known", None}
               /\ \/ UNCHANGED <<pc, result>>
                  \/ /\ pc' = "done"
                     /\ result' \in {"reached", "contact", "timedOut", "safetyStop", "failed"}
    <3>1. \/ Finish(b, TRUE, None) \/ Finish(b, FALSE, "failed") \/ UNCHANGED <<pc, result>>
      BY <2>2 DEF Weigh
    <3>2. fresh' \in {"known", None}
      BY <2>2 DEF Weigh
    <3> QED BY <2>1, <3>1, <3>2, FinishTyped
  <2>3. CASE Finish(body, FALSE, "safetyStop") /\ UNCHANGED fresh
    BY <2>1, <2>3, FinishTyped DEF Typed
  <2>4. CASE Finish(body, FALSE, "failed") /\ UNCHANGED fresh
    BY <2>1, <2>4, FinishTyped DEF Typed
  <2>5. CASE \E f \in {seen} \union Resting, b \in {body} \union GC!Observed(body),
                newer \in BOOLEAN : Weigh(f, newer, b)
    BY <2>1, <2>2, <2>5 DEF Typed
  <2> QED BY <1>5, <2>3, <2>4, <2>5 DEF Settle
<1>6. CASE Manual
  BY <1>6 DEF Manual, End, Typed
<1>7. CASE Observe
  <2>1. ASSUME NEW f, Judging(f)
        PROVE  /\ pc' \in {"manual", "stop"}
               /\ after' \in {None, "reached", "overCurrent", "jam"}
    BY <2>1 DEF Judging, ManualVerdict
  <2> QED BY <1>7, <2>1 DEF Observe, End, Typed
<1>8. CASE Drive
  BY <1>8 DEF Drive, End, Typed, settling
<1>9. CASE Aim
  BY <1>9 DEF Aim, End, Typed, settling, IInv, Separate, BringupMotions
<1>10. CASE Jog
  BY <1>10 DEF Jog, End, Typed
<1>11. CASE Unload
  BY <1>11 DEF Unload, End, Typed, settling
<1>12. CASE Turns
  <2>1. TurnsVerdict(seen') \in {"overCurrent", "reached", None}
    BY DEF TurnsVerdict
  <2> QED BY <1>12, <2>1 DEF Turns, Typed
<1> QED BY <1>1, <1>2, <1>3, <1>4, <1>5, <1>6, <1>7, <1>8, <1>9, <1>10, <1>11, <1>12 DEF Work

\* At first.
LEMMA TypesBegin == Init => Typed
<1> SUFFICES ASSUME Init PROVE Typed
  OBVIOUS
<1>1. /\ start \in GC!Bodies /\ body = start /\ powered = body.on
  BY BeginsRight DEF Begun, Init
<1>2. powered \in BOOLEAN
  BY <1>1 DEF GC!Bodies
<1>3. Most(op.time, SettleTimeout) \in Nat
  BY InitHolds, LoopAssumption DEF IInv, Motion, Most
<1>4. seen.stroke \in Strokes
  BY DEF Init, Frames
<1> QED BY <1>2, <1>3, <1>4, LoopAssumption DEF Init, Typed, Off, None

\* Every step keeps the types.
LEMMA StepTyped == IInv /\ Typed /\ Endings /\ [Next]_vars => Typed'
<1> SUFFICES ASSUME IInv, Typed, Endings, [Next]_vars PROVE Typed'
  OBVIOUS
<1>1. CASE UNCHANGED vars
  BY <1>1 DEF vars, timers, settling, Typed
<1>2. CASE Work
  <2>1. seen' \in Frames
    BY <1>2, StepKeeps DEF Next, IInv
  <2> QED BY <1>2, <2>1, FramesTyped, TimersTyped, ControlTyped DEF Typed
<1> QED BY <1>1, <1>2 DEF Next, Ended

-----------------------------------------------------------------------------
(* Standstill. *)

\* A timer that runs is at most one ahead of what it was.
LEMMA TickOne ==
  ASSUME NEW timer \in Int, NEW most \in Nat, timer <= most
  PROVE  Tick(timer) <= most + 1 /\ Tick(Off) = 0 /\ Off <= most /\ Off <= 0
  BY DEF Tick, Off

\* Each frame of runMotionUntil that lets a timer run counts as standstill.
LEMMA JudgeLulled ==
  ASSUME Typed, Lulled, pc = "wait", op.bringup = None, ~op.manual, NEW f, NEW b, Judge(f, b)
  PROVE  /\ lacking' <= lull' /\ stalled' <= lull'
         /\ pc' \in {"stop", "endpoint"} /\ after' = "contact" /\ op.needNoProgress
            /\ ~(op.allowContact /\ TargetReached(f.stroke, op.target, op.speed))
              => lull' >= Confirm
<1>1. /\ stalled \in Int /\ lacking \in Int /\ lull \in Nat /\ Confirm \in Nat
      /\ lacking <= lull /\ stalled <= lull
  BY LoopAssumption DEF Typed, Lulled
<1>2. /\ Tick(stalled) <= lull + 1 /\ Tick(lacking) <= lull + 1 /\ Tick(Off) = 0
      /\ Off <= 0 /\ Off <= lull + 1 /\ 0 <= lull + 1
  BY <1>1, TickOne
<1>3. Lacking(f) <= lull'
  <2>1. CASE Advanced(f)
    <3>1. Lacking(f) \in {Tick(Off), Off} /\ lull' = 0
      BY <1>2, <2>1 DEF Judge, Lacking
    <3> QED BY <1>2, <3>1
  <2>2. CASE ~Advanced(f) /\ Hit(f)
    <3>1. Lacking(f) \in {Tick(lacking), Off} /\ lull' = lull + 1
      BY <2>2, <1>2 DEF Judge, Lacking
    <3> QED BY <1>2, <3>1
  <2>3. CASE ~Hit(f)
    <3>1. Lacking(f) = Off /\ lull' \in {0, lull + 1}
      BY <1>2, <2>3 DEF Judge, Lacking
    <3> QED BY <1>2, <3>1
  <2> QED BY <2>1, <2>2, <2>3
<1>4. StallTimer(f) <= lull'
  <2>1. CASE Stalled(f) /\ Advanced(f)
    <3>1. StallTimer(f) = 0 /\ lull' = 0
      BY <1>2, <2>1 DEF Judge, StallTimer
    <3> QED BY <3>1
  <2>2. CASE Stalled(f) /\ ~Advanced(f)
    <3>1. StallTimer(f) = Tick(stalled) /\ lull' = lull + 1
      BY <1>2, <2>2 DEF Judge, StallTimer
    <3> QED BY <1>2, <3>1
  <2>3. CASE ~Stalled(f)
    <3>1. StallTimer(f) = Off /\ lull' \in {0, lull + 1}
      BY <1>2, <2>3 DEF Judge, StallTimer
    <3> QED BY <1>2, <3>1
  <2> QED BY <2>1, <2>2, <2>3
<1>5. lacking' = Lacking(f) /\ stalled' = StallTimer(f)
  BY DEF Judge
<1>6. ASSUME pc' \in {"stop", "endpoint"}, after' = "contact", op.needNoProgress,
             ~(op.allowContact /\ TargetReached(f.stroke, op.target, op.speed))
      PROVE  lull' >= Confirm
  <2>1. Stops(f, Sure(f))
    BY <1>6 DEF Judge, End
  <2>2. CASE StallStop(f)
    <3>1. StallTimer(f) >= Confirm /\ StallTimer(f) \in Int /\ lull' \in Int
      BY <1>1, <2>2 DEF StallStop, Confirmed, StallTimer, Tick, Off, Judge
    <3> QED BY <1>1, <1>4, <3>1
  <2>3. CASE ~StallStop(f)
    <3>1. Sure(f)
      BY <1>6, <2>1, <2>3 DEF Stops, JamStop, ContactStop, ForceStop
    <3>2. Lacking(f) >= Confirm /\ Lacking(f) \in Int /\ lull' \in Int
      BY <1>1, <1>6, <3>1 DEF Sure, Confirmed, Lacking, Tick, Off, Judge
    <3> QED BY <1>1, <1>3, <3>2
  <2> QED BY <2>2, <2>3
<1> QED BY <1>3, <1>4, <1>5, <1>6

\* So does each frame of the manual loop.
LEMMA JudgingLulled ==
  ASSUME Typed, Lulled, op.bringup = None, NEW f, Judging(f)
  PROVE  /\ lacking' <= lull'
         /\ after' = "jam" => lull' >= Confirm
<1>1. /\ lacking \in Int /\ lull \in Nat /\ Confirm \in Nat /\ lacking <= lull
  BY LoopAssumption DEF Typed, Lulled
<1>2. Tick(lacking) <= lull + 1 /\ Tick(lacking) \in Int /\ Off <= 0
  BY <1>1, TickOne DEF Tick
<1>3. CASE ManualProgress(f)
  <2>1. lacking' = Off /\ lull' = 0
    BY <1>3 DEF Judging
  <2>2. after' # "jam"
    BY <1>3 DEF Judging, ManualVerdict, None
  <2> QED BY <1>2, <2>1, <2>2
<1>4. CASE ~ManualProgress(f)
  <2>1. lacking' = Tick(lacking) /\ lull' = lull + 1
    BY <1>4 DEF Judging
  <2>2. after' = "jam" => Tick(lacking) >= Confirm
    BY DEF Judging, ManualVerdict, Confirmed, None
  <2> QED BY <1>1, <1>2, <2>1, <2>2
<1> QED BY <1>3, <1>4

\* How a motion that asks for standstill may be stopped by contact or jam.
ConfirmedStop ==
  (/\ pc \in {"wait", "observe"} /\ pc' \in {"stop", "endpoint"}
   /\ after' \in {"contact", "jam"} /\ (op.needNoProgress \/ op.manual)
   /\ ~(op.allowContact /\ TargetReached(seen'.stroke, op.target, op.speed)))
  => lull' >= Confirm

\* What a step may do to the timers and to the count of frames at standstill, and
\* how it may end a motion.
LEMMA StandstillStep ==
  ASSUME IInv, Typed, Endings, Lulled, Work
  PROVE  Lulled' /\ ConfirmedStop
<1>1. ASSUME UNCHANGED op, UNCHANGED <<stalled, lacking, lull>>
      PROVE  Lulled'
  BY <1>1 DEF Lulled
<1>2. CASE TurnOn \/ Send \/ Manual \/ Endpoint \/ Drive \/ Unload \/ Jog \/ Settle
  <2>1. UNCHANGED op /\ UNCHANGED <<stalled, lacking, lull>> /\ pc \notin {"wait", "observe"}
    BY <1>2 DEF TurnOn, Send, Manual, Endpoint, Drive, Unload, Jog, Settle, options, timers
  <2> QED BY <1>1, <2>1 DEF ConfirmedStop
<1>3. CASE Aim \/ Turns
  <2>1. op.bringup # None /\ op'.bringup = op.bringup /\ pc \notin {"wait", "observe"}
    BY <1>3 DEF Aim, Turns, options, IInv, Separate, Motion
  <2> QED BY <2>1 DEF Lulled, ConfirmedStop
<1>4. CASE StopMotion
  <2>1. op' = op /\ lull' = lull /\ pc = "stop"
        /\ (UNCHANGED <<stalled, lacking>> \/ (stalled' = Off /\ lacking' = Off))
    BY <1>4 DEF StopMotion, options
  <2>2. Off <= lull
    BY DEF Off, Typed
  <2> QED BY <2>1, <2>2 DEF Lulled, ConfirmedStop
<1>5. CASE Wait
  <2>1. op' = op /\ pc = "wait" /\ op.bringup = None /\ ~op.manual
    BY <1>5 DEF Wait, options, IInv, Separate, Endings, Caused
  <2>2. \/ UNCHANGED timers /\ after' \notin {"contact", "jam"}
        \/ UNCHANGED timers /\ pc' = "done"
        \/ Older /\ Judge(seen, body)
        \/ \E f \in Follows, b \in GC!Observed(body) : Newer(f, body.on) /\ Judge(f, b)
    BY <1>5 DEF Wait, End
  <2>3. CASE UNCHANGED timers /\ (after' \notin {"contact", "jam"} \/ pc' = "done")
    BY <1>1, <2>1, <2>3 DEF timers, ConfirmedStop
  <2>4. ASSUME NEW f, NEW b, Judge(f, b), seen' = f
        PROVE  Lulled' /\ ConfirmedStop
    <3>1. lacking' <= lull' /\ stalled' <= lull'
      BY <2>1, <2>4, JudgeLulled
    <3>2. Lulled'
      BY <3>1 DEF Lulled
    <3>3. after' # "jam" \/ pc' \notin {"stop", "endpoint"}
      BY <2>1, <2>4 DEF Judge, End
    <3>4. pc' \in {"stop", "endpoint"} /\ after' = "contact" /\ op.needNoProgress
          /\ ~(op.allowContact /\ TargetReached(f.stroke, op.target, op.speed))
            => lull' >= Confirm
      BY <2>1, <2>4, JudgeLulled
    <3>5. seen'.stroke = f.stroke
      BY <2>4
    <3> QED BY <2>1, <3>2, <3>3, <3>4, <3>5 DEF ConfirmedStop
  <2> QED BY <2>2, <2>3, <2>4 DEF Older, Newer
<1>6. CASE Observe
  <2>1. op' = op /\ pc = "observe" /\ op.bringup = None /\ op.manual
    BY <1>6 DEF Observe, options, IInv, Separate, Endings, Caused
  <2>2. \/ UNCHANGED <<stalled, lacking, lull>> /\ pc' = "done"
        \/ \E f : Judging(f)
    BY <1>6 DEF Observe, End
  <2>3. CASE UNCHANGED <<stalled, lacking, lull>> /\ pc' = "done"
    BY <1>1, <2>1, <2>3 DEF ConfirmedStop
  <2>4. ASSUME NEW f, Judging(f)
        PROVE  Lulled' /\ ConfirmedStop
    <3>1. lacking' <= lull' /\ (after' = "jam" => lull' >= Confirm)
      BY <2>1, <2>4, JudgingLulled
    <3>2. after' # "contact"
      BY <2>4 DEF Judging, ManualVerdict, None
    <3> QED BY <2>1, <3>1, <3>2 DEF Lulled, ConfirmedStop
  <2> QED BY <2>2, <2>3, <2>4
<1> QED BY <1>2, <1>3, <1>4, <1>5, <1>6 DEF Work

\* At first the nut is not known to stand.
LEMMA LulledBegins == Init => Lulled
  BY DEF Init, Lulled, Off

\* The invariant with the ends, the types and the timers.
Whole == IInv /\ Typed /\ Endings /\ Lulled

\* It holds of every motion.
LEMMA WholeInductive == Spec => []Whole
<1>1. Init => Whole
  BY InitHolds, TypesBegin, EndingsBegin, LulledBegins DEF Whole
<1>2. Whole /\ [Next]_vars => Whole'
  <2> SUFFICES ASSUME Whole, [Next]_vars PROVE Whole'
    OBVIOUS
  <2>1. IInv' /\ Typed' /\ Endings'
    BY StepKeeps, StepTyped, StepEnds DEF Whole
  <2>2. CASE UNCHANGED vars
    BY <2>1, <2>2 DEF Whole, Lulled, vars, timers
  <2>3. CASE Work
    BY <2>1, <2>3, StandstillStep DEF Whole
  <2> QED BY <2>1, <2>2, <2>3 DEF Next, Ended
<1> QED BY <1>1, <1>2, PTL DEF Spec

\* The variables of the loops keep their types; the clock stops at the later of the
\* two deadlines and no frame that is used is older than feedback_stale_timeout.
THEOREM TypeCorrect == Spec => []TypeOK
<1>1. Whole => TypeOK
  <2> SUFFICES ASSUME Whole PROVE TypeOK
    OBVIOUS
  <2>1. body \in GC!Bodies /\ body.ans = "ok" /\ start \in GC!Bodies
    BY BodyTyped DEF Whole
  <2>2. Typed /\ seen \in Frames
    BY DEF Whole, IInv
  <2> QED BY <2>1, <2>2 DEF Typed, TypeOK
<1> QED BY <1>1, WholeInductive, PTL

\* Every way out of the loops leaves what its caller relies on.
THEOREM EndingsAreRight == Spec => []EndingsHold
<1>1. Whole => EndingsHold
  BY DEF Whole, Endings
<1> QED BY <1>1, WholeInductive, PTL

\* Contact, endpoint and jam end a motion only at standstill.
THEOREM StandstillIsConfirmed == Spec => StopsOnStandstill
<1>1. Whole /\ [Next]_vars => [ConfirmedStop]_vars
  BY StandstillStep DEF Whole, Next, Ended
<1>2. Spec => [][ConfirmedStop]_vars
  BY <1>1, WholeInductive, PTL DEF Spec
<1> QED BY <1>2 DEF StopsOnStandstill, ConfirmedStop

-----------------------------------------------------------------------------
(* A motion ends by its deadlines. *)

\* The manual loop sends a step only before its deadline.
Running == pc \in {"command", "send", "observe"} /\ op.manual => clock < op.time

\* What is left at each place.
Remaining ==
  /\ pc = "done" => Left = 0
  /\ pc \in {"endpoint", "unload"} => Left = 1
  /\ pc = "settle" => Left = SettleTimeout - Least(clock, SettleTimeout) + 1
  /\ pc = "stop" => Left = SettleTimeout + 2
  /\ pc \in {"wait", "turns", "jog"} => Left = SettleTimeout + 3 + Periods
  /\ pc = "aim" => Left = SettleTimeout + 4 + Periods
  /\ pc = "drive" => Left = SettleTimeout + 5 + Periods
  /\ pc = "manual" => Left = SettleTimeout + 3 + 4 * Periods
  /\ pc = "observe" => Left = SettleTimeout + 4 * Periods
  /\ pc = "send" /\ op.manual => Left = SettleTimeout + 1 + 4 * Periods
  /\ pc = "send" /\ ~op.manual => Left = SettleTimeout + 4 + Periods
  /\ pc = "command" /\ op.manual => Left = SettleTimeout + 2 + 4 * Periods
  /\ pc = "command" /\ ~op.manual => Left = SettleTimeout + 5 + Periods

\* By definition.
LEMMA LeftIs == Remaining
  BY DEF Remaining, Left

\* A period of the settle wait before its deadline, or of a loop before the motion's,
\* leaves one fewer.
LEMMA PeriodsLeft ==
  ASSUME IInv, Typed
  PROVE  /\ SettleTimeout \in Nat /\ Periods \in 0 .. op.time
         /\ op'.time = op.time /\ clock' = clock => Periods' = Periods
         /\ op'.time = op.time /\ clock' = Later /\ clock < op.time
              => Periods > 0 /\ Periods' = Periods - 1
         /\ SettleTimeout - Least(clock, SettleTimeout) \in Nat
         /\ clock' = Later /\ clock < SettleTimeout
              => SettleTimeout - Least(clock, SettleTimeout) > 0
                 /\ SettleTimeout - Least(clock', SettleTimeout)
                      = SettleTimeout - Least(clock, SettleTimeout) - 1
         /\ clock' = 0 => SettleTimeout - Least(clock', SettleTimeout) = SettleTimeout
<1>1. op.time \in Nat /\ SettleTimeout \in Nat
  BY LoopAssumption DEF IInv, Motion
<1>2. Most(op.time, SettleTimeout) \in Nat
  BY <1>1 DEF Most
<1>3. clock \in Nat
  BY <1>2 DEF Typed
<1>4. clock < op.time \/ clock < SettleTimeout => Later = clock + 1
  BY <1>1, <1>3 DEF Later, Least, Most
<1>5. Periods = op.time - Least(clock, op.time)
      /\ Periods' = op'.time - Least(clock', op'.time)
  BY DEF Periods
<1> QED BY <1>1, <1>3, <1>4, <1>5 DEF Least

\* The way a motion goes on from each place, and what its clock does.
LEMMA Ways ==
  ASSUME IInv, Typed, Endings, Running, Work
  PROVE  \/ pc # "done" /\ pc' = "done"
         \/ pc = "command" /\ pc' = "send" /\ op' = op /\ clock' = clock
         \/ /\ pc = "send" /\ pc' = IF op.manual THEN "observe" ELSE "wait"
            /\ op' = op /\ clock' = clock
         \/ pc \in {"wait", "turns", "manual", "observe"} /\ pc' = "stop"
         \/ pc = "wait" /\ pc' = "endpoint"
         \/ pc = "jog" /\ pc' = "unload"
         \/ /\ pc \in {"wait", "turns", "jog"} /\ pc' = pc /\ op' = op
            /\ clock < op.time /\ clock' = Later
         \/ /\ pc = "manual" /\ pc' = "command" /\ op' = op /\ op.manual
            /\ clock < op.time /\ clock' = clock
         \/ /\ pc = "observe" /\ pc' = "manual" /\ op' = op
            /\ clock < op.time /\ clock' = Later
         \/ pc = "stop" /\ pc' = "settle" /\ clock' = 0
         \/ pc = "settle" /\ pc' = "settle" /\ clock < SettleTimeout /\ clock' = Later
         \/ pc = "drive" /\ pc' = "aim" /\ op' = op /\ clock' = clock
         \/ pc = "aim" /\ pc' \in {"jog", "turns"} /\ op'.time = op.time /\ clock' = clock
<1>1. CASE TurnOn
  BY <1>1 DEF TurnOn, End, options, timers
<1>2. CASE Send
  BY <1>2 DEF Send, End, options, timers
<1>3. CASE Wait
  <2>1. pc = "wait" /\ op' = op
    BY <1>3 DEF Wait, options
  <2>2. ASSUME NEW f, NEW b, Judge(f, b)
        PROVE  pc' \in {"done", "endpoint", "stop", pc}
    BY <2>2 DEF Judge, End
  <2> QED BY <1>3, <2>1, <2>2 DEF Wait, End
<1>4. CASE Endpoint
  BY <1>4 DEF Endpoint, End
<1>5. CASE StopMotion
  <2>1. pc = "stop" /\ UNCHANGED <<op, after>>
    BY <1>5 DEF StopMotion, options
  <2> QED BY <1>5, <2>1, FinishTyped DEF StopMotion
<1>6. CASE Settle
  <2>1. pc = "settle" /\ UNCHANGED <<op, after>>
    BY <1>6 DEF Settle, options
  <2>2. ASSUME NEW f, NEW newer \in BOOLEAN, NEW b, Weigh(f, newer, b)
        PROVE  pc' = "done" \/ (pc' = pc /\ clock < SettleTimeout /\ clock' = Later)
    <3>1. \/ Finish(b, TRUE, None) \/ Finish(b, FALSE, "failed")
          \/ ~Late /\ pc' = pc /\ clock' = Later
      BY <2>2 DEF Weigh
    <3>2. ~Late => clock < SettleTimeout
      <4>1. op.time \in Nat /\ SettleTimeout \in Nat
        BY LoopAssumption DEF IInv, Motion
      <4>2. clock \in Int
        BY <4>1 DEF Typed, Most
      <4> QED BY <4>1, <4>2 DEF Late
    <3> QED BY <2>1, <3>1, <3>2, FinishTyped
  <2>3. \/ Finish(body, FALSE, "safetyStop") \/ Finish(body, FALSE, "failed")
        \/ \E f \in {seen} \union Resting, b \in {body} \union GC!Observed(body),
              newer \in BOOLEAN : Weigh(f, newer, b)
    BY <1>6 DEF Settle
  <2> QED BY <2>1, <2>2, <2>3, FinishTyped
<1>7. CASE Manual
  BY <1>7 DEF Manual, End, options, timers, Endings, Caused
<1>8. CASE Observe
  <2>1. pc = "observe" /\ op' = op /\ clock' = Later
    BY <1>8 DEF Observe, options
  <2>2. clock < op.time
    BY <2>1 DEF Running, Endings, Caused
  <2>3. ASSUME NEW f, Judging(f) PROVE pc' \in {"manual", "stop"}
    BY <2>3 DEF Judging
  <2> QED BY <1>8, <2>1, <2>2, <2>3 DEF Observe, End
<1>9. CASE Drive
  BY <1>9 DEF Drive, End, options, timers
<1>10. CASE Aim
  <2>1. pc = "aim" /\ clock' = clock
    BY <1>10 DEF Aim
  <2>2. CASE End(GC!Off(body), "failed")
    BY <2>1, <2>2 DEF End
  <2>3. CASE pc' = op.bringup /\ op' = [op EXCEPT !.target = seen.stroke + @]
    <3>1. op.bringup \in {"jog", "turns"}
      BY <2>1 DEF IInv, Separate, BringupMotions
    <3>2. op'.time = op.time
      BY <2>3
    <3> QED BY <2>1, <2>3, <3>1, <3>2
  <2> QED BY <1>10, <2>2, <2>3 DEF Aim
<1>11. CASE Jog
  BY <1>11 DEF Jog, End, options
<1>12. CASE Unload
  BY <1>12 DEF Unload, End
<1>13. CASE Turns
  BY <1>13 DEF Turns, options
<1> QED BY <1>1, <1>2, <1>3, <1>4, <1>5, <1>6, <1>7, <1>8, <1>9, <1>10, <1>11, <1>12, <1>13
        DEF Work

\* The manual loop looks at its deadline before every step.
LEMMA RunsInTime == Spec => []Running
<1>1. Init => Running
  BY DEF Init, Running
<1>2. Whole /\ Running /\ [Next]_vars => Running'
  <2> SUFFICES ASSUME Whole, Running, [Next]_vars PROVE Running'
    OBVIOUS
  <2>1. CASE UNCHANGED vars
    BY <2>1 DEF Running, vars, timers
  <2>2. CASE Work
    BY <2>2, Ways DEF Whole, Running
  <2> QED BY <2>1, <2>2 DEF Next, Ended
<1> QED BY <1>1, <1>2, WholeInductive, PTL DEF Spec

\* A step of the loops uses up what is left, wherever it leads.
LEMMA StepCounts ==
  ASSUME IInv, Typed, Endings, Running, Work, Remaining, Remaining'
  PROVE  Left' \in 0 .. Left - 1
<1> DEFINE wait == SettleTimeout - Least(clock, SettleTimeout)
           later == SettleTimeout - Least(clock', SettleTimeout)
<1>1. /\ SettleTimeout \in Nat /\ Periods \in Nat /\ wait \in Nat
      /\ op.time \in Nat
  BY PeriodsLeft DEF IInv, Motion
<1>2. op' = op => op'.time = op.time
  OBVIOUS
<1>3. pc = "settle" => Left = wait + 1
  BY DEF Remaining
<1>4. pc' = "settle" => Left' = later + 1
  BY DEF Remaining
<1>5. clock' = Later /\ clock < SettleTimeout => wait > 0 /\ later = wait - 1
  BY PeriodsLeft
<1>6. clock' = 0 => later = SettleTimeout
  BY PeriodsLeft
<1> HIDE DEF wait, later
<1>7. /\ op'.time = op.time /\ clock' = clock => Periods' = Periods
      /\ op'.time = op.time /\ clock' = Later /\ clock < op.time
           => Periods > 0 /\ Periods' = Periods - 1
  BY PeriodsLeft
<1>8. pc = "observe" => Periods > 0
  <2>1. pc = "observe" => clock < op.time
    BY DEF Running, Endings, Caused
  <2>2. clock < op.time => Periods > 0
    <3>1. clock \in Int
      BY <1>1 DEF Typed, Most
    <3> QED BY <1>1, <2>1, <3>1 DEF Periods, Least
  <2> QED BY <2>1, <2>2
<1>9. CASE pc # "done" /\ pc' = "done"
  <2>1. Left' = 0
    BY <1>9 DEF Remaining
  <2>2. CASE pc \in {"command", "send"}
    <3>1. CASE op.manual
      BY <1>1, <2>1, <2>2, <3>1 DEF Remaining
    <3>2. CASE ~op.manual
      BY <1>1, <2>1, <2>2, <3>2 DEF Remaining
    <3> QED BY <3>1, <3>2
  <2>3. CASE pc \in {"wait", "endpoint", "stop", "settle", "manual", "observe", "drive",
                     "aim", "jog", "unload", "turns"}
    BY <1>1, <1>3, <1>8, <2>1, <2>3 DEF Remaining
  <2> QED BY <1>9, <2>2, <2>3 DEF Typed
<1>10. CASE pc = "command" /\ pc' = "send" /\ op' = op /\ clock' = clock
  <2>1. CASE op.manual
    BY <1>1, <1>7, <1>10, <2>1 DEF Remaining
  <2>2. CASE ~op.manual
    BY <1>1, <1>7, <1>10, <2>2 DEF Remaining
  <2> QED BY <2>1, <2>2
<1>11. CASE /\ pc = "send" /\ pc' = IF op.manual THEN "observe" ELSE "wait"
            /\ op' = op /\ clock' = clock
  <2>1. CASE op.manual
    <3>1. clock < op.time
      BY <1>11, <2>1 DEF Running
    <3>2. clock \in Int
      BY <1>1 DEF Typed, Most
    <3>3. Periods > 0
      BY <1>1, <3>1, <3>2 DEF Periods, Least
    <3> QED BY <1>1, <1>7, <1>11, <2>1, <3>3 DEF Remaining
  <2>2. CASE ~op.manual
    BY <1>1, <1>7, <1>11, <2>2 DEF Remaining
  <2> QED BY <2>1, <2>2
<1>12. CASE pc \in {"wait", "turns", "manual", "observe"} /\ pc' = "stop"
  BY <1>1, <1>8, <1>12 DEF Remaining
<1>13. CASE (pc = "wait" /\ pc' = "endpoint") \/ (pc = "jog" /\ pc' = "unload")
  BY <1>1, <1>13 DEF Remaining
<1>14. CASE /\ pc \in {"wait", "turns", "jog"} /\ pc' = pc /\ op' = op
            /\ clock < op.time /\ clock' = Later
  BY <1>1, <1>7, <1>14 DEF Remaining
<1>15. CASE /\ pc = "manual" /\ pc' = "command" /\ op' = op /\ op.manual
            /\ clock < op.time /\ clock' = clock
  BY <1>1, <1>7, <1>15 DEF Remaining
<1>16. CASE /\ pc = "observe" /\ pc' = "manual" /\ op' = op
            /\ clock < op.time /\ clock' = Later
  BY <1>1, <1>7, <1>16 DEF Remaining
<1>17. CASE pc = "stop" /\ pc' = "settle" /\ clock' = 0
  BY <1>1, <1>4, <1>6, <1>17 DEF Remaining
<1>18. CASE pc = "settle" /\ pc' = "settle" /\ clock < SettleTimeout /\ clock' = Later
  BY <1>1, <1>3, <1>4, <1>5, <1>18
<1>19. CASE pc = "drive" /\ pc' = "aim" /\ op' = op /\ clock' = clock
  BY <1>1, <1>7, <1>19 DEF Remaining
<1>20. CASE pc = "aim" /\ pc' \in {"jog", "turns"} /\ op'.time = op.time /\ clock' = clock
  BY <1>1, <1>7, <1>20 DEF Remaining
<1> QED BY <1>9, <1>10, <1>11, <1>12, <1>13, <1>14, <1>15, <1>16, <1>17, <1>18, <1>19,
           <1>20, Ways

\* No motion takes more steps than its deadline and that of the settle wait allow,
\* whatever the mechanism and the link do: neither progress, a contact that comes and
\* goes nor a late frame puts a deadline off.
THEOREM StepsAreCounted == Spec => StepsAreBounded
<1>1. Remaining
  BY LeftIs
<1>2. Whole /\ Running /\ [Next]_vars /\ Remaining /\ Remaining' =>
        [Left' \in 0 .. Left - 1]_vars
  BY StepCounts DEF Whole, Next, Ended
<1> QED BY <1>1, <1>2, WholeInductive, RunsInTime, PTL DEF Spec, StepsAreBounded
=============================================================================
