----------------------------- MODULE MotionLoops -----------------------------
(***************************************************************************)
(* The feedback loops that drive a motion of DefaultGripperController:     *)
(* runMotionUntil, which sends one command and watches it, and             *)
(* runManualPositioningUntil, which sends one small step per period, and   *)
(* the loops of the two bring-up motions; they end in                      *)
(* stopAndWaitForSettledFeedback or with the error of a call.  One step is *)
(* one iteration of a loop; time is counted in iterations.  The mechanism  *)
(* moves as it likes and a frame may be missing, hold a fault or arrive    *)
(* between two calls of the controller.                                    *)
(***************************************************************************)
EXTENDS MotionSafety, GripperTopState

CONSTANTS
  Strokes,          \* the strokes the mechanism can be at
  Currents,         \* the currents feedback can show
  Slide,            \* how far the nut moves in one period
  Anomalies,        \* strokes inside a known friction anomaly
  Purposes,         \* the motions asked for, see Options
  Asked,            \* commands for the bring-up motions
  Timeout,          \* motionTimeoutFor
  Confirm,          \* jam_confirm_time, no_progress_confirm_time and
                    \* contact_detection_time
  SettleTimeout, StillTime,   \* motion_settle_timeout, motion_settle_stable_time
  StaleAfter,       \* feedback_stale_timeout of the motor
  Step              \* the largest step of a manual command

ASSUME LoopAssumption ==
  /\ Strokes \subseteq Int /\ Currents \subseteq Nat
  /\ Anomalies \subseteq Strokes
  /\ {Slide, Timeout, Confirm, SettleTimeout, StillTime, StaleAfter, Step} \subseteq Nat

ASSUME PurposesAssumption ==
  /\ Purposes \subseteq {"homing", "backoff", "learning", "return", "health", "clamp",
                         "approach", "press", "release", "manual"} \union BringupMotions
  /\ Asked \subseteq [way : Int, sign : Directions, speed : Int, current : Int, time : Int]

VARIABLES
  op,           \* MotionWaitOptions
  start,        \* body the loop was entered with
  body,         \* top state, output, motor fault
  pc,           \* what the loop does next
  seen,         \* last_feedback_
  powered,      \* that frame was sampled with the output on
  silence,      \* iterations since the last frame
  clock,        \* iterations of the loop
  mark,         \* endpoint_, contact_ and manual progress reference
  stalled,      \* endpoint_stall timer, over_current timer in the manual loop
  lacking,      \* no_progress timer
  previous,     \* previous_commanded_nut_speed_
  sent,         \* the command the last step wrote to the motor, if any
  after,        \* what the settle wait concludes
  fresh,        \* the settle wait has seen a frame newer than the stop
  still,        \* still timer
  result,       \* how the loop ended
  lull          \* frames read since the motion last advanced without contact

timers == <<clock, mark, stalled, lacking, lull>>
settling == <<after, fresh, still>>
vars == <<op, start, body, pc, seen, powered, silence, timers, previous, sent,
          settling, result>>

Off == -1        \* a timer that is not running
None == "none"

\* The bodies and what they can be left as come from the controller's model.
GC == INSTANCE GripperController WITH
        Reconfigurable <- FALSE, HomingBackoff <- TRUE,
        topState <- body.top, enabled <- body.on, motorFault <- body.flt,
        configured <- TRUE, connected <- TRUE, cancel <- FALSE, bringup <- FALSE,
        preChecked <- TRUE, homed <- TRUE, learned <- TRUE, health <- TRUE,
        limits <- "learned", seed <- None, reply <- "ok", ran <- None

Frames == [stroke : Strokes, speed : {0, 1}, current : Currents]

-----------------------------------------------------------------------------
(* The motions of the operations, from stroke s.                           *)

Ordinary == [target |-> 0, speed |-> 1, current |-> 0, software |-> FALSE,
             stopOnContact |-> FALSE, allowContact |-> FALSE, force |-> 0,
             custom |-> FALSE, open |-> 0, closed |-> 0, allowJam |-> FALSE,
             needNoProgress |-> FALSE, suppress |-> FALSE, manual |-> FALSE,
             time |-> Timeout, bringup |-> None]

Margin == Most(Tolerance, 1)
Travel == Most(0, TheoreticalClosed - TheoreticalOpen)

\* homeOpenStop: a search for the open stop over more than the travel, with its
\* own window around it.
HomingSearch(s) ==
  [Ordinary EXCEPT !.target = s - Travel, !.speed = -1,
     !.current = HomingCurrentLimit(0, 1),
     !.stopOnContact = TRUE, !.allowContact = TRUE, !.allowJam = TRUE,
     !.needNoProgress = TRUE,
     !.custom = TRUE, !.open = s - Travel - Margin, !.closed = s + Margin]

\* The release from the open stop.
HomingRelease ==
  [Ordinary EXCEPT !.target = Least(TheoreticalOpen + 1, TheoreticalClosed),
     !.current = HomingCurrentLimit(0, 1)]

\* learnTravelLimits: the search for the closed stop, which jam ends.
ClosingSearch ==
  [Ordinary EXCEPT !.target = TheoreticalOpen + Travel,
     !.current = TravelLearningCurrentLimit(0, 1),
     !.stopOnContact = TRUE, !.allowJam = TRUE, !.needNoProgress = TRUE,
     !.custom = TRUE, !.open = TheoreticalOpen - Margin,
     !.closed = TheoreticalOpen + Travel + Margin]

\* The way back to the open limit.
OpeningReturn ==
  [Ordinary EXCEPT !.target = SoftOpen, !.speed = -1,
     !.current = TravelLearningCurrentLimit(0, 1), !.custom = TRUE,
     !.open = Least(SoftOpen, TheoreticalOpen - Margin),
     !.closed = Most(SoftClosed, TheoreticalOpen + Travel + Margin)]

\* runMotionHealthCheck: the closing leg of a window at the current stroke.
HealthLeg(s) ==
  [Ordinary EXCEPT !.target = s + 1, !.current = MotionHealthCurrentLimit(0),
     !.software = TRUE, !.custom = TRUE, !.open = SoftOpen, !.closed = SoftClosed]

\* clampBySpeed, with a current the caller chooses.
ClampAt(current) ==
  [Ordinary EXCEPT !.target = SoftClosed, !.current = current, !.software = TRUE,
     !.stopOnContact = TRUE, !.allowContact = TRUE, !.needNoProgress = TRUE,
     !.suppress = TRUE]

\* clampByForce: the approach, and the motion that also ends at the force.
ClampApproach ==
  [ClampAt(OperationCurrent["clamp"]) EXCEPT
     !.target = Least(Most(SoftOpen, SoftClosed - 1), SoftClosed)]
ClampPress ==
  [ClampAt(OperationCurrent["clamp"]) EXCEPT !.force = OperationCurrent["clamp"]]

ReleaseBack(s) ==
  [Ordinary EXCEPT !.target = Most(s - 1, SoftOpen), !.speed = -1,
     !.current = OperationCurrent["homing"], !.software = TRUE]

\* moveToNutStroke: any target inside the allowed range.
ManualMove(s, target, health) ==
  [Ordinary EXCEPT !.target = target, !.manual = TRUE,
     !.speed = IF target >= s THEN ManualSpeed(1, 0, health)
               ELSE -ManualSpeed(1, 0, health),
     !.current = ManualCurrent(0),
     !.open = ManualRange(health).open, !.closed = ManualRange(health).closed]

\* jogMotorBringup and moveMotorBringupRelativeTurns.  Here a stroke stands for
\* the motor position; target is relative until the motion begins.
BringupMove(kind, asked) ==
  LET l == BringupLimited(kind, asked)
  IN  [Ordinary EXCEPT !.bringup = kind, !.target = l.way, !.current = l.current,
         !.speed = IF l.way < 0 THEN -l.speed ELSE l.speed, !.time = BringupTime(kind, l)]

Options(kind, s) ==
  CASE kind = "homing"   -> {HomingSearch(s)}
    [] kind = "backoff"  -> {HomingRelease}
    [] kind = "learning" -> {ClosingSearch}
    [] kind = "return"   -> {OpeningReturn}
    [] kind = "health"   -> {HealthLeg(s)}
    [] kind = "clamp"    -> {ClampAt(c) : c \in {OperationCurrent["clamp"],
                                                    MaxMotorCurrent + 1}}
    [] kind = "approach" -> {ClampApproach}
    [] kind = "press"    -> {ClampPress}
    [] kind = "release"  -> {ReleaseBack(s)}
    [] kind = "manual"   -> UNION {{ManualMove(s, t, h) :
                               t \in ManualRange(h).open .. ManualRange(h).closed} :
                               h \in BOOLEAN}
    [] kind \in BringupMotions ->
         {BringupMove(kind, a) : a \in {a \in Asked : BringupValid(kind, a)}}

-----------------------------------------------------------------------------
(* Pieces of a step. *)

Latch == body.top \in Latched

\* The frames that can follow the last one.
Follows == {f \in Frames : Abs(f.stroke - seen.stroke) <= Slide}

\* Once the motion is to end nothing looks at the current any more.
Resting == {f \in Follows : f.current = 0}

\* updateFeedback finds a newer frame, sampled with the output on or off, ...
Newer(f, on) == seen' = f /\ powered' = on /\ silence' = 0

\* ... or the one it had, which in time is too old.
Older == UNCHANGED <<seen, powered>> /\ silence' = silence + 1
Stale == silence >= StaleAfter

\* The same after a call that has left body b, an error being ignored.
Peek(b, poweredToo, frames) ==
  \/ Older /\ body' = b /\ ~Stale
  \/ Stale /\ UNCHANGED <<seen, powered, silence>> /\ body' = b
  \/ \E f \in frames, on \in {FALSE} \union poweredToo, o \in GC!Observed(b) :
       Newer(f, on) /\ body' = o

End(b, a) == pc' = "done" /\ body' = GC!Answer(b, "ok") /\ result' = a

\* Mutant of Later: every iteration sets its deadline anew.
LaterAnew == 0

\* The clock stops counting once both deadlines have passed.
Later == Least(clock + 1, Most(op.time, SettleTimeout))

Tick(timer) == IF timer = Off THEN 0 ELSE timer + 1
Confirmed(timer) == timer # Off /\ timer >= Confirm

frame == <<seen, powered, silence>>
options == <<op, start>>

-----------------------------------------------------------------------------
Init ==
  /\ seen \in {f \in Frames : f.speed = 0 /\ f.current = 0}
  /\ op \in UNION {Options(k, seen.stroke) : k \in Purposes}
  /\ start \in {GC!Body(top, on, flt, "ok") :
                  top \in IF op.bringup = None THEN {"ManualPositioning"}
                          ELSE {"Disabled", "ActiveStop"},
                  on, flt \in BOOLEAN}
  /\ start.flt => ~start.on
  /\ body = start
  /\ pc = IF op.bringup # None THEN "drive" ELSE IF op.manual THEN "manual" ELSE "command"
  /\ powered = body.on /\ silence = 0
  /\ clock = 0 /\ mark = seen.stroke /\ stalled = Off /\ lacking = Off /\ lull = 0
  /\ previous \in {0} \union (IF op.bringup = None THEN {-MaxNutSpeed} ELSE {})
  /\ sent = {} /\ after = None /\ fresh = None /\ still = Off /\ result = None

(* One command: sendLimitedCommand and sendLimitedPositionCommand.          *)

\* checkOperationCancelled and ensureMotorOutputEnabled.
TurnOn ==
  /\ pc = "command"
  /\ UNCHANGED <<options, timers, previous, sent, settling>>
  /\ \/ Latch /\ End(body, "safetyStop") /\ UNCHANGED frame
     \/ ~Latch /\ body.on /\ pc' = "send" /\ UNCHANGED <<body, result, frame>>
     \/ ~Latch /\ ~body.on /\ End(GC!Off(body), "failed") /\ UNCHANGED frame
     \/ /\ ~Latch /\ ~body.on /\ pc' = "send" /\ UNCHANGED result
        /\ Peek(GC!Energised(body), {~body.flt}, Follows)

\* The manual loop asks for a step towards the target, the other for all of it.
Goal == IF op.manual
        THEN seen.stroke + ClampSymmetric(op.target - seen.stroke, Step)
        ELSE op.target

Limits == IF op.manual
          THEN Allowed([open |-> op.open, closed |-> op.closed, on |-> op.closed > op.open])
          ELSE LET l == SafetyLimits(op.current, op.software)
               IN  IF op.custom THEN Within(l, op.open, op.closed) ELSE l

\* The limiter, another check for a cancel request, the write, which fails on a
\* motor that is not enabled.
Send ==
  LET l == ApplyLimits(Limits, Goal, op.speed, op.current, seen.stroke, previous)
  IN  /\ pc = "send"
      /\ UNCHANGED <<options, frame, timers, settling>>
      /\ \/ /\ l.stop /\ End(GC!Halted(body), "safetyStop")
            /\ UNCHANGED <<sent, previous>>
         \/ /\ ~l.stop /\ UNCHANGED <<sent, previous>>
            /\ End(body, IF Latch THEN "safetyStop" ELSE "failed")
         \/ /\ ~l.stop /\ ~Latch /\ body.on
            /\ sent' = {[target |-> l.target, speed |-> l.speed, current |-> l.current,
                         from |-> seen.stroke]}
            /\ previous' = l.speed
            /\ pc' = IF op.manual THEN "observe" ELSE "wait"
            /\ UNCHANGED <<body, result>>

-----------------------------------------------------------------------------
(* runMotionUntil. *)

\* evaluateContactInRange, evaluateContact.
Contact(f) == IF op.custom THEN Detect(f, op.speed, 0, op.open, op.closed)
              ELSE Detect(f, op.speed, 0, SoftOpen, SoftClosed)

ForceReached(f) == op.force > 0 /\ f.current >= op.force - CurrentMargin
Advanced(f) == /\ op.needNoProgress \/ op.allowJam
               /\ MadeProgress(f.stroke, mark, op.speed)
Stalled(f)  == op.allowJam /\ HomingStall(f, op.current)
Hit(f)      == LET c == Contact(f)
               IN  c.jam \/ c.limit \/ ForceReached(f) \/ (op.stopOnContact /\ c.contact)
InAnomaly(f) == op.suppress /\ f.stroke \in Anomalies

\* A contact is set aside inside a known friction anomaly while the nut still
\* advances and the current is below the hard limit.
Suppressed(f) == /\ InAnomaly(f) /\ Hit(f) /\ op.needNoProgress /\ Advanced(f)
                 /\ ~ExceedsHardLimit(f)

\* Mutant of Lacking: progress does not reset the timer.
LackingThroughout(f) ==
  IF op.needNoProgress /\ Hit(f) /\ ~Suppressed(f) THEN Tick(lacking) ELSE Off

\* The no_progress timer after this frame.
Lacking(f) ==
  LET before == IF Advanced(f) THEN Off ELSE lacking
  IN  IF op.needNoProgress /\ Hit(f) /\ ~Suppressed(f) THEN Tick(before) ELSE Off

\* contact_stop_confirmed: the first frame with a contact never is.
Sure(f) == /\ Hit(f) /\ ~Suppressed(f)
           /\ op.needNoProgress =>
                LET timer == Lacking(f) IN timer > 0 /\ Confirmed(timer)

\* A force that is not confirmed counts only at the target, and inside an
\* anomaly not even there.
ForceStop(f, sure) ==
  /\ ForceReached(f) /\ ~Suppressed(f)
  /\ \/ sure
     \/ /\ op.allowContact /\ TargetReached(f.stroke, op.target, op.speed)
        /\ ~(InAnomaly(f) /\ op.needNoProgress)

TargetStop(f, sure) ==
  /\ TargetReached(f.stroke, op.target, op.speed) /\ ~Suppressed(f)
  /\ ~(op.allowContact /\ InAnomaly(f) /\ op.needNoProgress /\ ForceReached(f) /\ ~sure)

JamStop(f, sure)     == sure /\ (Contact(f).jam \/ Contact(f).limit)
ContactStop(f, sure) == sure /\ op.stopOnContact /\ Contact(f).contact

StallTimer(f) ==
  IF Stalled(f) THEN IF Advanced(f) THEN 0 ELSE Tick(stalled) ELSE Off
StallStop(f) == Confirmed(StallTimer(f))

Stops(f, sure) ==
  StallStop(f) \/ JamStop(f, sure) \/ ContactStop(f, sure) \/ ForceStop(f, sure)

\* What the loop does on frame f, body b being what the read left: an unexpected
\* jam forces ActiveStop, an expected end is sampled at once, any other settles.
Judge(f, b) ==
  /\ mark' = IF Advanced(f) THEN f.stroke ELSE mark
  /\ stalled' = StallTimer(f) /\ lacking' = Lacking(f)
  /\ lull' = IF (Hit(f) \/ Stalled(f)) /\ ~Advanced(f) THEN lull + 1 ELSE 0
  /\ LET sure   == Sure(f)
         jam    == JamStop(f, sure) /\ ~op.allowJam
         stops  == Stops(f, sure)
         target == TargetStop(f, sure)
     IN  \/ jam /\ End(GC!Halted(b), "safetyStop") /\ UNCHANGED after
         \/ /\ stops /\ ~jam
            /\ pc' = (IF op.allowJam THEN "endpoint" ELSE "stop") /\ after' = "contact"
            /\ body' = b /\ UNCHANGED result
         \/ /\ ~stops /\ target
            /\ pc' = "stop" /\ after' = "reached"
            /\ body' = b /\ UNCHANGED result
         \/ ~stops /\ ~target /\ body' = b /\ UNCHANGED <<pc, after, result>>

Wait ==
  /\ pc = "wait"
  /\ UNCHANGED <<options, previous, fresh, still>> /\ sent' = {}
  /\ \/ /\ clock >= op.time /\ pc' = "stop" /\ after' = "timedOut"
        /\ UNCHANGED <<frame, timers, body, result>>
     \/ /\ clock < op.time /\ Latch /\ End(body, "safetyStop")
        /\ UNCHANGED <<frame, timers, after>>
     \/ /\ clock < op.time /\ ~Latch /\ Stale /\ End(body, "failed")
        /\ UNCHANGED <<frame, timers, after>>
     \/ /\ clock < op.time /\ ~Latch /\ ~Stale /\ Older
        /\ clock' = Later /\ Judge(seen, body)
     \/ /\ clock < op.time /\ ~Latch /\ clock' = Later
        /\ \E f \in Follows, b \in GC!Observed(body) :
             Newer(f, body.on) /\ Judge(f, b)

-----------------------------------------------------------------------------
(* The ways out: completeEndpointMotion, which samples once, and           *)
(* stopAndWaitForSettledFeedback.                                          *)

\* disableAndSampleEndpointFeedback.  Whatever frame is there is the result.
Endpoint ==
  /\ pc = "endpoint"
  /\ UNCHANGED <<options, timers, sent, settling>> /\ previous' = 0
  /\ \/ body.on /\ End(GC!Off(body), "failed") /\ UNCHANGED frame
     \/ Stale /\ End(GC!Off(body), "failed") /\ UNCHANGED frame
     \/ /\ pc' = "done" /\ result' = after
        /\ \/ ~Stale /\ Older /\ body' = GC!Off(body)
           \/ \E f \in Resting, on \in {FALSE, body.on} :
                Newer(f, on) /\ body' \in GC!Observed(GC!Off(body))

\* Mutant of Finish: a manual move that was stopped reports why, and not an error.
FinishReportsCause(b, ok, error) ==
  IF op.manual /\ after \in {"overCurrent", "jam"} THEN End(GC!Halted(b), after)
  ELSE End(b, IF ok THEN after ELSE error)

\* What the turns report: a read error in the loop, the error of the settle wait,
\* too much current, and the target if the motor rests there in the end.
TurnsResult(ok, error) ==
  IF after = "failed" \/ ~ok THEN IF after = "failed" THEN after ELSE error
  ELSE IF after = "overCurrent" THEN "safetyStop"
  ELSE IF after = "reached" \/ MotorTargetReached(seen', op.target) THEN "reached"
  ELSE "timedOut"

\* The loop's answer to the settle wait.  A manual move that was stopped for
\* its current or a jam is latched however the wait went, after another
\* disableAfterMotion when it failed.
Finish(b, ok, error) ==
  IF op.manual /\ after \in {"overCurrent", "jam"}
  THEN \E d \in IF ok THEN {b} ELSE GC!Settled(b) : End(GC!Halted(d), "safetyStop")
  ELSE IF op.manual /\ after = "timedOut" THEN End(b, "failed")
  ELSE IF op.bringup # None THEN End(b, TurnsResult(ok, error))
  ELSE End(b, IF ok THEN after ELSE error)

\* Mutant of StopMotion: the output is left on while the nut settles.
StopMotionUnderPower ==
  /\ pc = "stop" /\ pc' = "settle" /\ UNCHANGED <<options, sent, after, lull, result, frame>>
  /\ body' = body /\ previous' = 0 /\ fresh' = None
  /\ mark' = seen.stroke /\ clock' = 0 /\ stalled' = Off /\ lacking' = Off /\ still' = Off

\* The disableAfterMotion of the settle wait.  A frame that arrived since the
\* loop's last read counts as newer, also when the output was still on.
StopMotion ==
  /\ pc = "stop"
  /\ UNCHANGED <<options, sent, after, lull>> /\ previous' = 0
  /\ \/ /\ body.on /\ Finish(GC!Off(body), FALSE, "failed")
        /\ UNCHANGED <<frame, clock, mark, stalled, lacking, fresh, still>>
     \/ /\ pc' = "settle" /\ UNCHANGED result
        /\ Peek(GC!Off(body), {body.on}, Resting)
        /\ fresh' = IF silence' = 0 /\ ~UNCHANGED frame THEN "new" ELSE None
        /\ mark' = seen'.stroke
        /\ clock' = 0 /\ stalled' = Off /\ lacking' = Off /\ still' = Off

\* The nut has left the place where it was stopped and reads no speed: taken
\* for the instant move of a simulated motor.
InstantMove(f) == f.speed = 0 /\ Abs(f.stroke - mark) >= Threshold

\* Still by its speed or by two different frames with the same stroke.
IsStill(f, newer) ==
  f.speed = 0 \/ (newer /\ fresh = "known" /\ f.stroke = seen.stroke)

\* The settle deadline.
Late == clock >= SettleTimeout

\* One iteration of the wait on frame f.
Weigh(f, newer, b) ==
  LET timer == IF IsStill(f, newer) THEN Tick(still) ELSE Off
      known == newer \/ fresh # None
  IN  /\ clock' = Later
      /\ fresh' = IF known THEN "known" ELSE None
      /\ still' = IF known THEN timer ELSE still
      /\ \/ /\ known /\ (InstantMove(f) \/ (timer # Off /\ timer >= StillTime))
            /\ Finish(b, TRUE, None)
         \/ /\ ~(known /\ (InstantMove(f) \/ (timer # Off /\ timer >= StillTime)))
            /\ IF Late THEN Finish(b, FALSE, "failed")
               ELSE body' = b /\ UNCHANGED <<pc, result>>

Settle ==
  /\ pc = "settle"
  /\ UNCHANGED <<options, previous, sent, after, mark, stalled, lacking, lull>>
  /\ \/ /\ Latch /\ Finish(body, FALSE, "safetyStop")
        /\ UNCHANGED <<frame, clock, fresh, still>>
     \/ /\ ~Latch /\ Stale /\ Finish(body, FALSE, "failed")
        /\ UNCHANGED <<frame, clock, fresh, still>>
     \/ ~Latch /\ ~Stale /\ Older /\ Weigh(seen, FALSE, body)
     \/ ~Latch /\ \E f \in Resting, b \in GC!Observed(body) :
                    Newer(f, FALSE) /\ Weigh(f, TRUE, b)

-----------------------------------------------------------------------------
(* runManualPositioningUntil. *)

\* The top of the loop: deadline, cancel, target.
Manual ==
  /\ pc = "manual"
  /\ UNCHANGED <<options, frame, timers, previous, sent, fresh, still>>
  /\ \/ /\ clock >= op.time /\ pc' = "stop" /\ after' = "timedOut"
        /\ UNCHANGED <<body, result>>
     \/ clock < op.time /\ Latch /\ End(body, "safetyStop") /\ UNCHANGED after
     \/ /\ clock < op.time /\ ~Latch /\ UNCHANGED <<body, result>>
        /\ \/ /\ ManualTargetReached(seen.stroke, op.target, op.speed)
              /\ pc' = "stop" /\ after' = "reached"
           \/ /\ ~ManualTargetReached(seen.stroke, op.target, op.speed)
              /\ pc' = "command" /\ UNCHANGED after

\* The manual loop takes any advance for progress.
ManualProgress(f) == IF op.speed < 0 THEN f.stroke < mark ELSE f.stroke > mark

\* Too much current for too long, or beyond the hard limit; a jam only after
\* the nut has stood still; the target.
ManualVerdict(f) ==
  LET over == f.current > op.current
      jam  == Contact(f).jam \/ Contact(f).limit
  IN  IF (over /\ Confirmed(Tick(stalled))) \/ ExceedsHardLimit(f) THEN "overCurrent"
      ELSE IF jam /\ ~ManualProgress(f) /\ Confirmed(Tick(lacking)) THEN "jam"
      ELSE IF ManualTargetReached(f.stroke, op.target, op.speed) THEN "reached"
      ELSE None

Judging(f) ==
  /\ stalled' = IF f.current > op.current THEN Tick(stalled) ELSE Off
  /\ lacking' = IF ManualProgress(f) THEN Off ELSE Tick(lacking)
  /\ mark' = IF ManualProgress(f) THEN f.stroke ELSE mark
  /\ lull' = IF ManualProgress(f) THEN 0 ELSE lull + 1
  /\ after' = ManualVerdict(f)
  /\ pc' = IF ManualVerdict(f) = None THEN "manual" ELSE "stop"

\* The rest of the loop: the wait, the read, the verdict.
Observe ==
  /\ pc = "observe" /\ clock' = Later
  /\ UNCHANGED <<options, previous, fresh, still>> /\ sent' = {}
  /\ \/ Stale /\ End(body, "failed") /\ UNCHANGED <<frame, mark, stalled, lacking, lull, after>>
     \/ ~Stale /\ Older /\ Judging(seen) /\ UNCHANGED <<body, result>>
     \/ \E f \in Follows, b \in GC!Observed(body) :
          Newer(f, body.on) /\ Judging(f) /\ body' = b /\ UNCHANGED result

-----------------------------------------------------------------------------
(* jogMotorBringup and moveMotorBringupRelativeTurns: their commands pass     *)
(* neither the limiter nor a cancel check.                                    *)

\* The output on and a frame.  A failed enable() or read leaves it off.
Drive ==
  /\ pc = "drive" /\ UNCHANGED <<options, timers, previous, sent, settling>>
  /\ LET m == IF body.on THEN body ELSE GC!Energised(body)
     IN  \/ End(GC!Off(body), "failed") /\ UNCHANGED frame
         \/ /\ pc' = "aim" /\ UNCHANGED result /\ ~Stale
            /\ \/ Older /\ body' = m
               \/ \E f \in Follows, b \in GC!Observed(m) :
                    Newer(f, m.on) /\ body' = b

\* The check of the target and the write, which fails on a motor that is off.
Aim ==
  /\ pc = "aim"
  /\ UNCHANGED <<start, frame, clock, stalled, lacking, lull, previous, settling>>
  /\ \/ End(GC!Off(body), "failed") /\ UNCHANGED <<op, mark, sent>>
     \/ /\ body.on /\ UNCHANGED <<body, result>>
        /\ op.bringup = "turns" => InMotorWindow(seen.stroke + op.target)
        /\ op' = [op EXCEPT !.target = seen.stroke + @]
        /\ mark' = seen.stroke /\ pc' = op.bringup
        /\ sent' = {[target |-> op'.target, speed |-> op.speed, current |-> op.current,
                     from |-> seen.stroke]}

\* A pulse ends with its time or with the first frame above its current.
Jog ==
  /\ pc = "jog" /\ sent' = {}
  /\ UNCHANGED <<options, mark, stalled, lacking, lull, previous, fresh, still>>
  /\ \/ /\ clock >= op.time /\ pc' = "unload" /\ after' = "timedOut"
        /\ UNCHANGED <<frame, clock, body, result>>
     \/ /\ clock < op.time /\ Stale /\ End(GC!Off(body), "failed")
        /\ UNCHANGED <<frame, clock, after>>
     \/ /\ clock < op.time /\ ~Stale /\ clock' = Later /\ UNCHANGED result
        /\ \/ Older /\ body' = body
           \/ \E f \in Follows, b \in GC!Observed(body) : Newer(f, body.on) /\ body' = b
        /\ IF seen'.current > op.current
           THEN pc' = "unload" /\ after' = "overCurrent"
           ELSE UNCHANGED <<pc, after>>

\* Its last frame, the disable and the distance, which is too small if the motor
\* stands where it began.
Unload ==
  /\ pc = "unload"
  /\ UNCHANGED <<options, timers, previous, sent, settling>>
  /\ \/ End(GC!Off(body), "failed") /\ UNCHANGED frame
     \/ /\ ~Stale
        /\ \E f \in Resting \union {seen}, b \in {body} \union GC!Observed(body) :
             /\ \/ f = seen /\ b = body /\ Older
                \/ f \in Resting /\ b \in GC!Observed(body) /\ Newer(f, body.on)
             /\ End(GC!Off(b), IF after = "overCurrent" THEN "safetyStop"
                               ELSE IF f.stroke = mark THEN "failed" ELSE "reached")

\* What a frame means for the turns.
TurnsVerdict(f) ==
  IF ExceedsHardLimit(f) \/ (f.current > op.current /\ Confirmed(Tick(stalled)))
  THEN "overCurrent"
  ELSE IF MotorTargetReached(f, op.target) THEN "reached" ELSE None

\* One iteration.  A fault that is read does not end the loop.
Turns ==
  /\ pc = "turns" /\ sent' = {}
  /\ UNCHANGED <<options, mark, lacking, lull, previous, fresh, still, result>>
  /\ \/ /\ clock >= op.time /\ pc' = "stop" /\ after' = "timedOut"
        /\ UNCHANGED <<frame, clock, stalled, body>>
     \/ /\ clock < op.time /\ Stale /\ pc' = "stop" /\ after' = "failed"
        /\ UNCHANGED <<frame, clock, stalled, body>>
     \/ /\ clock < op.time /\ ~Stale /\ clock' = Later
        /\ \/ Older /\ body' = body
           \/ \E f \in Follows, b \in GC!Observed(body) : Newer(f, body.on) /\ body' = b
        /\ stalled' = IF seen'.current > op.current THEN Tick(stalled) ELSE Off
        /\ after' = TurnsVerdict(seen')
        /\ pc' = IF after' = None THEN pc ELSE "stop"

Ended == pc = "done" /\ UNCHANGED vars

Work == \/ TurnOn \/ Send \/ Wait \/ Endpoint \/ StopMotion \/ Settle \/ Manual \/ Observe
        \/ Drive \/ Aim \/ Jog \/ Unload \/ Turns
Next == Work \/ Ended

\* The loops run in the caller's thread and sleep a bounded time.
Spec == Init /\ [][Next]_vars /\ WF_vars(Work)

-----------------------------------------------------------------------------
(* Properties. *)

TypeOK ==
  /\ pc \in {"command", "send", "wait", "endpoint", "stop", "settle", "manual",
             "observe", "drive", "aim", "jog", "unload", "turns", "done"}
  /\ body \in GC!Bodies /\ body.ans = "ok" /\ start \in GC!Bodies
  /\ seen \in Frames /\ powered \in BOOLEAN /\ silence \in 0 .. StaleAfter
  /\ clock \in 0 .. Most(op.time, SettleTimeout)
  /\ mark \in Strokes /\ {stalled, lacking, still} \subseteq Int /\ lull \in Nat
  /\ after \in {None, "reached", "contact", "timedOut", "overCurrent", "jam", "failed"}
  /\ fresh \in {None, "new", "known"}
  /\ result \in {None, "reached", "contact", "timedOut", "safetyStop", "failed"}

\* What the caller makes of the result.
Outcome == IF op.manual \/ result \notin {"safetyStop", "failed"} THEN result
           ELSE "error"

\* Every way out of the loops leaves top state, output and fault as the
\* operations that call them rely on: a result that is not an error is reported
\* only with the output off, an error never in a state that a stop or a fault
\* does not explain (Motion and Positioning of the controller's model).
EndsAsPromised ==
  pc = "done" /\ op.bringup = None =>
    GC!Answer(body, Outcome) \in IF op.manual THEN GC!Positioning(start)
                                ELSE GC!Motion(start)

\* Bring-up, whose commands nothing stops, ends with the output off and in the
\* state it began in unless a fault was seen; turns that were begun in a latched
\* state are never reported done.  A fault that a
\* jog or the last frame meets may be.
BringupEndsUnpowered ==
  pc = "done" /\ op.bringup # None =>
    /\ body \in GC!Settled(start)
    /\ op.bringup = "turns" /\ result = "reached" => start.top \notin Latched

\* A manual move that found too much current or a jam ends latched in
\* ActiveStop and unpowered, whatever happens while the nut settles.
OverCurrentLatches ==
  pc = "done" /\ op.manual /\ after \in {"overCurrent", "jam"} =>
    body.top = "ActiveStop" /\ ~body.on

\* Every ending keeps what its caller relies on.
EndingsHold == EndsAsPromised /\ OverCurrentLatches /\ BringupEndsUnpowered

\* A contact, an endpoint or a jam ends a motion that asks for standstill only
\* after the nut has stopped advancing for the whole confirmation time, however
\* contact, current peaks and progress alternate; the force at the target is
\* the exception the clamp makes.
StopsOnStandstill ==
  [][/\ pc \in {"wait", "observe"} /\ pc' \in {"stop", "endpoint"}
     /\ after' \in {"contact", "jam"} /\ (op.needNoProgress \/ op.manual)
     /\ ~(op.allowContact /\ TargetReached(seen'.stroke, op.target, op.speed))
     => lull' >= Confirm]_vars

\* Whatever speed an abandoned motion has left behind, whatever the mechanism
\* does and wherever the target lies, a command that reaches the motor stays
\* inside the stroke range, the speed and the current of its motion, and a
\* manual one within a step of where the nut was last seen.  What bring-up sends
\* past the limiter stays inside the bounds of the motor.
CommandsStayInside ==
  \A c \in sent :
    /\ op.bringup = None =>
         /\ Limits.on => c.target \in Limits.open .. Limits.closed
         /\ Abs(c.speed) <= MaxNutSpeed
    /\ op.bringup = "turns" => InMotorWindow(c.target)
    /\ op.bringup # None => Abs(c.speed) <= MotorSpeed
    /\ c.current <= MaxMotorCurrent
    /\ op.manual => Abs(c.target - c.from) <= Step

\* The steps a motion has left at most: what is left of its own deadline, four steps
\* to a period of the manual loop, and of the settle wait.
Periods == op.time - Least(clock, op.time)
Left ==
  CASE pc = "done"                     -> 0
    [] pc \in {"endpoint", "unload"}   -> 1
    [] pc = "settle"                   -> SettleTimeout - Least(clock, SettleTimeout) + 1
    [] pc = "stop"                     -> SettleTimeout + 2
    [] pc \in {"wait", "turns", "jog"} -> SettleTimeout + 3 + Periods
    [] pc = "aim"                      -> SettleTimeout + 4 + Periods
    [] pc = "drive"                    -> SettleTimeout + 5 + Periods
    [] pc = "manual"                   -> SettleTimeout + 3 + 4 * Periods
    [] pc = "observe"                  -> SettleTimeout + 4 * Periods
    [] pc = "send" -> IF op.manual THEN SettleTimeout + 1 + 4 * Periods
                                   ELSE SettleTimeout + 4 + Periods
    [] pc = "command" -> IF op.manual THEN SettleTimeout + 2 + 4 * Periods
                                      ELSE SettleTimeout + 5 + Periods

\* Every step uses one up and nothing gives any back: neither progress, a contact
\* that comes and goes, nor a frame that is late moves a deadline.
StepsAreBounded == [][Left' \in 0 .. Left - 1]_vars

\* Every loop ends, also when no frame ever arrives or the mechanism never stops.
MotionEnds == <>(pc = "done")

\* The comment on stopAndWaitForSettledFeedback: motion results "are sampled
\* after output is disabled", so that no in-flight frame becomes a final
\* position.  A frame from before the disable that the loop had not read yet
\* is newer than the cached one, and final if the motor then stays silent.
SettledAfterStop ==
  pc = "done" /\ result \in {"reached", "contact"} /\ ~op.allowJam => ~powered
=============================================================================
