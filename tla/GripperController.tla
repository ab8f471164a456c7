-------------------------- MODULE GripperController --------------------------
(***************************************************************************)
(* DefaultGripperController (controller/gripper_controller.cpp) called by  *)
(* one thread: each public operation is one action, with one disjunct per  *)
(* way it returns.  What the motor, the mechanism and the transport do     *)
(* during an operation is a choice among the bodies (top state, motor      *)
(* output, motor fault) the operation can be left with.  The stop that     *)
(* arrives while a self-check runs in another thread is the subject of     *)
(* SelfCheckCancellation.                                                  *)
(***************************************************************************)
EXTENDS GripperTopState

CONSTANTS
  Reconfigurable,   \* configure() is called again later; the application
                    \* calls it once, before anything else
  HomingBackoff     \* config_.homing.backoff_distance > 0

ASSUME SwitchesAssumption == /\ Reconfigurable \in BOOLEAN
                             /\ HomingBackoff \in BOOLEAN

VARIABLES
  topState,      \* state_machine_.state()
  configured,    \* configured_
  connected,     \* motor_->isConnected()
  enabled,       \* motor_->isEnabled()
  motorFault,    \* the motor reports a fault frame
  cancel,        \* operation_cancel_requested_
  bringup,       \* motor_bringup_active_
  preChecked,    \* pre_self_check_completed_
  homed,         \* homed_
  learned,       \* travel_limits_learned_
  health,        \* motion_health_checked_
  limits,        \* where profile_.travel_limits come from
  seed,          \* the travel limits in the learned_profile_path file
  reply,         \* what the last call returned
  ran            \* the motion the last call drove the motor through

flags == <<preChecked, homed, learned, health>>
body  == <<topState, enabled, motorFault>>
link  == <<configured, connected>>
profile == <<limits, seed>>
vars  == <<body, link, cancel, bringup, flags, profile, reply, ran>>

\* "stale": recorded before the stroke reference last moved.
LimitSources == {"conservative", "lowConfidence", "learned", "stale"}
SeedSources  == LimitSources \union {"none"}
Motions == {"none", "jog", "preSelfCheck", "homing", "learning", "healthCheck",
            "clamp", "release", "manualMove"}
Replies == {"ok", "error", "rejected"}

TypeOK ==
  /\ topState \in States
  /\ limits \in LimitSources
  /\ seed \in SeedSources
  /\ reply \in Replies
  /\ ran \in Motions
  /\ configured \in BOOLEAN /\ connected \in BOOLEAN
  /\ enabled \in BOOLEAN /\ motorFault \in BOOLEAN
  /\ cancel \in BOOLEAN /\ bringup \in BOOLEAN
  /\ preChecked \in BOOLEAN /\ homed \in BOOLEAN
  /\ learned \in BOOLEAN /\ health \in BOOLEAN

Init ==
  /\ topState = "Disconnected" /\ enabled = FALSE /\ motorFault = FALSE
  /\ configured = FALSE /\ connected = FALSE
  /\ cancel = FALSE /\ bringup = FALSE
  /\ preChecked = FALSE /\ homed = FALSE /\ learned = FALSE /\ health = FALSE
  /\ limits = "conservative" /\ seed \in {"none", "stale"}
  /\ reply = "ok" /\ ran = "none"

-----------------------------------------------------------------------------
(* Bodies: what the helpers of the controller make of the top state and    *)
(* the motor, and the answer they return.                                  *)

Answers == Replies \union
           {"begun", "reached", "contact", "timedOut", "safetyStop", "failed"}
Bodies == [top : States, on : BOOLEAN, flt : BOOLEAN, ans : Answers]

Body(top, on, flt, ans) == [top |-> top, on |-> on, flt |-> flt, ans |-> ans]
Here == Body(topState, enabled, motorFault, "ok")

To(b, e)      == Body(Dispatch(b.top, e), b.on, b.flt, b.ans)
Answer(b, a)  == Body(b.top, b.on, b.flt, a)
Output(b, on) == Body(b.top, on, b.flt, b.ans)
Off(b)        == Output(b, FALSE)

\* A fault frame: the motor drops its output and updateFeedback forces Fault.
Tripped(b) == Body("Fault", FALSE, TRUE, b.ans)

\* forceActiveStop, which overwrites a Fault.
Halted(b) == Body("ActiveStop", b.on, b.flt, b.ans)

\* updateFeedback that read a frame; and one whose read error is ignored.
Observed(b) == {Tripped(b)} \union (IF b.flt THEN {} ELSE {b})
Sampled(b)  == {b, Tripped(b)}

\* disableAfterMotion: isEnabled() is false afterwards even when the disable
\* frame could not be written.
Settled(b) == Sampled(Off(b))

\* The output on, unless the motor holds a fault: then it is off again by the
\* time the first fresh frame arrives.
Energised(b) == IF b.flt THEN Off(b) ELSE Output(b, TRUE)

\* MotorInterface::enable; on an error enabled_ is cleared.
EnableMotor(b) == {Energised(b), Answer(Off(b), "error")}

\* enable(), once the link and the bring-up mode have been checked.
Enabling(b) ==
  IF b.top \in Latched THEN {Answer(b, "error")}
  ELSE LET checked  == To(To(b, "HardwareCheckRequested"), "HardwareCheckPassed")
           prepared == To(IF b.top = "Connected" THEN checked ELSE b,
                          "ModeSwitchSucceeded")
           Arrive(m) ==
             IF m.ans # "ok" THEN {To(m, "EnableFailed")}
             ELSE IF Accepts(m.top, "EnableSucceeded") \/ m.top = "Enabled"
             THEN Sampled(To(m, "EnableSucceeded"))
             ELSE {Answer(m, "rejected")}
       IN  UNION {Arrive(m) : m \in EnableMotor(prepared)}

\* Mutant of EnsureEnabled: bring-up mode does not refuse.
EnsureEnabledInBringup(b) ==
  IF b.top \in Latched \/ ~configured \/ ~connected
    THEN {Answer(b, "error")}
  ELSE IF b.on THEN {b} ELSE Enabling(b)

\* ensureEnabled, the cancel request having been cleared by the caller.
EnsureEnabled(b) ==
  IF b.top \in Latched \/ ~configured \/ ~connected \/ bringup
    THEN {Answer(b, "error")}
  ELSE IF b.on THEN {b}
  ELSE IF b.top = "Ready"
    THEN UNION {IF m.ans = "ok" THEN Sampled(m) ELSE {m} : m \in EnableMotor(b)}
  ELSE Enabling(b)

\* What a stretch of motor work interrupted anywhere leaves behind: output on
\* or off, a fault frame seen, a stop forced by the safety limiter or by jam
\* feedback.
Interrupted(b) ==
  LET live == {Off(b), Energised(b), Tripped(b)}
  IN  live \union {Halted(l) : l \in live}

\* runMotionUntil.  A result that is not an error was sampled after the motor
\* was disabled; the error paths leave the disabling to the caller.
Motion(b) ==
  IF b.top \in Latched THEN {Answer(b, "error")}
  ELSE {Answer(i, "error") : i \in Interrupted(b)} \union
       {Answer(o, a) : o \in Observed(Off(b)),
                       a \in {"reached", "contact", "timedOut"}}

-----------------------------------------------------------------------------
(* Leaving an operation. *)

Return(b, a) == /\ topState' = b.top /\ enabled' = b.on /\ motorFault' = b.flt
                /\ reply' = a

\* The call returned before any motion: nothing but the body has changed.
Refuse(b) == /\ Return(b, IF b.ans = "ok" THEN "error" ELSE b.ans)
             /\ ran' = "none"
             /\ UNCHANGED <<flags, profile>>

\* Mutant of Abandon: the Failed event is missing.
AbandonSilently(b, e) == \E s \in Settled(b) : Return(s, "error")

\* The failure tail of an operation: disableAfterMotion, then its Failed event.
Abandon(b, e) == \E s \in Settled(b) : Return(To(s, e), "error")

\* Mutant of Begun: the gate is not checked.
BegunUngated(gate, request) ==
  LET Enter(b) == IF b.ans # "ok" THEN b
                  ELSE IF ~Accepts(b.top, request) THEN Answer(b, "rejected")
                  ELSE Answer(To(b, request), "begun")
  IN  {Enter(b) : b \in EnsureEnabled(Here)}

\* clearOperationCancel, ensureEnabled, the operation's gate, its Requested
\* event: the bodies with which the operation has begun or been refused.
Begun(gate, request) ==
  LET Enter(b) == IF b.ans # "ok" THEN b
                  ELSE IF ~gate THEN Answer(b, "error")
                  ELSE IF ~Accepts(b.top, request) THEN Answer(b, "rejected")
                  ELSE Answer(To(b, request), "begun")
  IN  {Enter(b) : b \in EnsureEnabled(Here)}
-----------------------------------------------------------------------------
(* Configuration and connection. *)

\* resetOperationFlagsForDisconnect / a new stroke reference: limits recorded
\* before, also those in the seed file, are no longer in the coordinates
\* commands will use.
Moved(source) == IF source \in {"none", "conservative"} THEN source ELSE "stale"
Rebase == limits' = Moved(limits) /\ seed' = Moved(seed)

\* saveSelfCheckSeed: without a path or a writable file nothing is saved.
SaveSeed(source) == seed' \in {seed, source}

\* Rejected while a motion is running, which no caller of this thread can see.
Configure ==
  /\ Reconfigurable \/ ~configured
  /\ topState \notin ActiveMotion
  /\ configured' = TRUE /\ topState' = "Disconnected"
  /\ limits' = "conservative" /\ bringup' = FALSE
  /\ seed' = Moved(seed)
  /\ reply' = "ok" /\ ran' = "none"
  /\ UNCHANGED <<connected, enabled, motorFault, cancel, flags>>

\* A failed connect() of the motor leaves it closed, a successful one always
\* leaves it connected, also when the state machine then rejects the event.
Connect ==
  /\ UNCHANGED <<configured, cancel, bringup>>
  /\ \/ ~configured /\ connected' = connected /\ Refuse(Answer(Here, "error"))
     \/ /\ configured /\ connected' = FALSE
        /\ Refuse(Answer(To(Off(Here), "ConnectFailed"), "error"))
     \/ /\ configured /\ connected' = TRUE
        /\ ran' = "none" /\ UNCHANGED <<flags, profile>>
        /\ Return(To(Off(Here), "ConnectSucceeded"),
                  IF Accepts(topState, "ConnectSucceeded") THEN "ok" ELSE "rejected")

Disconnect ==
  /\ cancel' = TRUE /\ connected' = FALSE /\ bringup' = FALSE
  /\ preChecked' = FALSE /\ homed' = FALSE /\ learned' = FALSE /\ health' = FALSE
  /\ Rebase
  /\ ran' = "none"
  /\ \E a \in {"ok", "error"} : Return(To(Off(Here), "DisconnectRequested"), a)
  /\ UNCHANGED configured

Enable ==
  /\ ran' = "none" /\ UNCHANGED <<link, bringup, flags, profile>>
  /\ \/ /\ ~configured \/ ~connected \/ bringup
        /\ Return(Here, "error") /\ UNCHANGED cancel
     \/ /\ configured /\ connected /\ ~bringup
        /\ cancel' = (cancel /\ topState \in Latched)
        /\ \E b \in Enabling(Here) : Return(b, b.ans)

\* A disable frame that cannot be written returns before any dispatch.
Disable ==
  /\ cancel' = TRUE /\ ran' = "none" /\ UNCHANGED <<link, bringup, flags, profile>>
  /\ \/ connected /\ enabled /\ Return(Off(Here), "error")
     \/ LET asked == IF topState \in {"Ready", "Unloading"}
                     THEN To(To(Off(Here), "DisableRequested"), "DisableCompleted")
                     ELSE IF topState # "Disconnected"
                     THEN To(Off(Here), "DisableRequested")
                     ELSE Off(Here)
        IN  \E b \in IF connected THEN Sampled(asked) ELSE {asked} : Return(b, "ok")

-----------------------------------------------------------------------------
(* Self-check, homing, learning and health check. *)

\* Mutant of Loaded: a missing seed file is loaded as well.
LoadedAlways == seed

\* The travel limits after loadSelfCheckSeedIfAvailable, before any probe.
Loaded == IF seed = "none" THEN limits ELSE seed

\* The phases, from the begun body b: a phase fails, a stop aborts it, or it
\* completes and the output is disabled, unless the mechanism does not settle.
SelfCheckRuns(b) ==
  /\ ran' = "preSelfCheck" /\ UNCHANGED <<homed, learned, health>>
  /\ \E w \in Interrupted(b) :
       \/ /\ \/ Abandon(w, "PreSelfCheckFailed")
             \/ w.top \in Latched /\ Abandon(w, "StopRequested")
          /\ limits' = Loaded /\ UNCHANGED <<preChecked, seed>>
       \/ /\ w.top \notin Latched
          /\ preChecked' = TRUE
          /\ limits' = "lowConfidence" /\ SaveSeed("lowConfidence")
          /\ LET done == To(w, "PreSelfCheckSucceeded")
             IN  \/ \E s \in Observed(Off(done)) :
                      Return(To(s, "DisableRequested"), "ok")
                 \/ Abandon(done, "ActiveStopTriggered")

RunPreSelfCheck ==
  /\ cancel' = FALSE /\ UNCHANGED <<link, bringup>>
  /\ \E b \in Begun(TRUE, "PreSelfCheckRequested") :
       \/ b.ans # "begun" /\ Refuse(b)
       \/ b.ans = "begun" /\ SelfCheckRuns(b)

\* The open zero is moved as soon as the stop is found, before the backoff
\* from it can fail.
HomingRuns(b) ==
  /\ ran' = "homing" /\ UNCHANGED <<preChecked, learned, health>>
  /\ \E m \in Motion(b) :
       \/ /\ m.ans # "contact" /\ Abandon(m, "HomingFailed")
          /\ UNCHANGED <<homed, profile>>
       \/ /\ m.ans \in {"contact", "timedOut"} /\ Rebase
          /\ \E r \in IF HomingBackoff THEN Motion(m)
                      ELSE {Answer(s, "reached") : s \in Settled(m)} :
               \/ /\ r.ans \in {"error", "timedOut"}
                  /\ Abandon(r, "HomingFailed") /\ UNCHANGED homed
               \/ /\ r.ans \in {"reached", "contact"}
                  /\ Return(To(r, "HomingSucceeded"), "ok")
                  /\ homed' = TRUE

HomeOpenStop ==
  /\ cancel' = FALSE /\ UNCHANGED <<link, bringup>>
  /\ \E b \in Begun(preChecked, "HomingRequested") :
       \/ b.ans # "begun" /\ Refuse(b)
       \/ b.ans = "begun" /\ HomingRuns(b)

\* The learned limits enter the profile before the backoff to the open limit;
\* the flag only after it.  Too little travel, or limits out of order, fail.
LearningRuns(b) ==
  /\ ran' = "learning" /\ UNCHANGED <<preChecked, homed, health>>
  /\ \E m \in Motion(b) :
       \/ /\ \/ Abandon(m, "TravelLearningFailed")
             \/ /\ m.ans \in {"reached", "contact"}
                /\ Return(To(m, "TravelLearningFailed"), "error")
          /\ UNCHANGED <<learned, profile>>
       \/ /\ m.ans \in {"reached", "contact"} /\ limits' = "learned"
          /\ \E r \in Motion(m) :
               \/ /\ r.ans \in {"error", "timedOut"}
                  /\ Abandon(r, "TravelLearningFailed")
                  /\ UNCHANGED <<learned, seed>>
               \/ /\ r.ans \in {"reached", "contact"}
                  /\ learned' = TRUE /\ SaveSeed("learned")
                  /\ \E s \in Settled(r) :
                       Return(To(s, "TravelLearningSucceeded"), "ok")

LearnTravelLimits ==
  /\ cancel' = FALSE /\ UNCHANGED <<link, bringup>>
  /\ \E b \in Begun(homed, "TravelLearningRequested") :
       \/ b.ans # "begun" /\ Refuse(b)
       \/ b.ans = "begun" /\ LearningRuns(b)

HealthCheckRuns(b) ==
  /\ ran' = "healthCheck" /\ UNCHANGED <<preChecked, homed, learned, limits>>
  /\ \E h \in Settled(b) : \E m \in Motion(h) :
       \/ /\ Abandon(m, "MotionHealthCheckFailed")
          /\ UNCHANGED <<health, seed>>
       \/ /\ m.ans \in {"reached", "contact"}
          /\ health' = TRUE /\ SaveSeed(limits)
          /\ \E s \in Settled(m) :
               Return(To(s, "MotionHealthCheckSucceeded"), "ok")

RunMotionHealthCheck ==
  /\ cancel' = FALSE /\ UNCHANGED <<link, bringup>>
  /\ \E b \in Begun(learned, "MotionHealthCheckRequested") :
       \/ b.ans # "begun" /\ Refuse(b)
       \/ b.ans = "begun" /\ HealthCheckRuns(b)

-----------------------------------------------------------------------------
(* Work. *)

\* Enabled to Ready without a health check run: requireReadyForWork replays
\* the events when the flag is set, release() whenever it is Enabled.
ReplayHealthCheck(b) ==
  IF b.top = "Enabled"
  THEN To(To(b, "MotionHealthCheckRequested"), "MotionHealthCheckSucceeded")
  ELSE b

\* requireReadyForWork and ClampRequested.
ClampBegun ==
  LET Armed(b) == IF b.top = "Disabled" THEN To(b, "EnableSucceeded") ELSE b
      Enter(b) ==
        LET r == IF health THEN ReplayHealthCheck(Armed(b)) ELSE b
        IN  IF b.ans # "ok" THEN b
            ELSE IF ~learned THEN Answer(b, "error")
            ELSE IF r.top # "Ready" THEN Answer(r, "error")
            ELSE Answer(To(r, "ClampRequested"), "begun")
  IN  {Enter(b) : b \in EnsureEnabled(Here)}

\* A clamp whose motions end other than in success is disabled and fails.
ClampRuns(motions, success) ==
  /\ ran' = "clamp"
  /\ \E m \in motions :
       \/ m.ans \notin success /\ Abandon(m, "ClampFailed")
       \/ /\ m.ans \in success
          /\ Return(To(To(m, "ClampCompleted"), "DisableCompleted"), "ok")

\* A fast approach, if the object is far, then the force-limited motion.
ApproachAndPress(b) ==
  Motion(b) \union UNION {Motion(a) : a \in {m \in Motion(b) : m.ans = "reached"}}

ClampByForce ==
  /\ cancel' = FALSE /\ UNCHANGED <<link, bringup, flags, profile>>
  /\ \E b \in ClampBegun :
       \/ b.ans # "begun" /\ Refuse(b)
       \/ b.ans = "begun" /\ ClampRuns(ApproachAndPress(b), {"contact"})

ClampBySpeed ==
  /\ cancel' = FALSE /\ UNCHANGED <<link, bringup, flags, profile>>
  /\ \E b \in ClampBegun :
       \/ b.ans # "begun" /\ Refuse(b)
       \/ b.ans = "begun" /\ ClampRuns(Motion(b), {"contact", "reached"})

ReleaseRuns(b) ==
  /\ ran' = "release"
  /\ \E m \in Motion(To(b, "ReleaseRequested")) :
       \/ /\ m.ans \in {"error", "timedOut"}
          /\ Abandon(m, "ReleaseFailed")
       \/ /\ m.ans \in {"reached", "contact"}
          /\ Return(To(To(To(m, "ReleaseCompleted"), "DisableRequested"),
                       "DisableCompleted"), "ok")

Release ==
  /\ cancel' = FALSE /\ UNCHANGED <<link, bringup, flags, profile>>
  /\ \/ /\ ~configured \/ ~connected \/ bringup
        /\ Refuse(Answer(Here, "error"))
     \/ /\ configured /\ connected /\ ~bringup
        /\ \E e \in IF enabled THEN {Here} ELSE Enabling(Here) :
           LET r == ReplayHealthCheck(e)
           IN  \/ e.ans # "ok" /\ Refuse(e)
               \/ /\ e.ans = "ok" /\ ~Accepts(r.top, "ReleaseRequested")
                  /\ Refuse(Answer(r, "rejected"))
               \/ /\ e.ans = "ok" /\ Accepts(r.top, "ReleaseRequested")
                  /\ ReleaseRuns(r)

\* runManualPositioningUntil.  Cancel, command and feedback errors return with
\* the output as it is; a latched state makes the error a safety stop.
Positioning(b) ==
  {Answer(i, IF i.top \in Latched THEN "safetyStop" ELSE "failed") :
     i \in Interrupted(b)} \union
  {Answer(s, "failed") : s \in Settled(b)} \union
  {Answer(o, "reached") : o \in Observed(Off(b))}

\* Only a safety stop fails the move; any other end completes and unloads it.
ManualMoveRuns(b) ==
  /\ ran' = "manualMove"
  /\ \E m \in Positioning(To(b, "MoveNutStrokeRequested")) :
       \/ /\ m.ans = "safetyStop"
          /\ Return(To(m, "MoveNutStrokeFailed"), "error")
       \/ /\ m.ans # "safetyStop"
          /\ Return(To(To(m, "MoveNutStrokeCompleted"), "DisableCompleted"),
                    IF m.ans = "reached" THEN "ok" ELSE "error")

\* requireManualPositioningPreconditions, the range and parameter checks, and
\* prepareManualPositioningOutput.
MoveToNutStroke ==
  /\ cancel' = FALSE /\ UNCHANGED <<link, bringup, flags, profile>>
  /\ \/ Refuse(Answer(Here, "error"))    \* or the target is out of range
     \/ /\ configured /\ connected /\ ~bringup /\ preChecked
        /\ topState \in {"Disabled", "Enabled", "Ready"}
        /\ \E e \in EnsureEnabled(Here) :
           LET p == IF e.top = "Disabled" THEN To(e, "EnableSucceeded") ELSE e
           IN  \/ e.ans # "ok" /\ Refuse(e)
               \/ /\ e.ans = "ok" /\ p.top \notin {"Enabled", "Ready"}
                  /\ Refuse(Answer(p, "error"))
               \/ /\ e.ans = "ok" /\ p.top \in {"Enabled", "Ready"}
                  /\ ManualMoveRuns(p)

-----------------------------------------------------------------------------
(* Stop, recovery, feedback. *)

Stop ==
  /\ cancel' = TRUE /\ ran' = "none"
  /\ Return(To(Off(Here), "StopRequested"), "error")
  /\ UNCHANGED <<link, bringup, flags, profile>>

\* The clear frame may fail (then the motor is not disabled either) or be sent
\* and not clear the cause.  The cancel request stays set.
ClearFault ==
  /\ ran' = "none"
  /\ \E m \in IF connected THEN {Here, Off(Here), Body(topState, FALSE, FALSE, "ok")}
              ELSE {Here} :
       Return(IF topState \in Latched THEN To(m, "FaultCleared") ELSE m, "ok")
  /\ UNCHANGED <<link, cancel, bringup, flags, profile>>

Update ==
  /\ ran' = "none" /\ UNCHANGED <<link, cancel, bringup, flags, profile>>
  /\ \/ connected /\ Return(Here, "error")
     \/ \E b \in IF connected THEN Observed(Here) ELSE {Here} : Return(b, "ok")

-----------------------------------------------------------------------------
(* Motor bring-up. *)

\* Refused without the link or the unloaded confirmation.
EnterMotorBringupMode ==
  /\ UNCHANGED <<link, cancel>>
  /\ \/ Refuse(Answer(Here, "error")) /\ UNCHANGED bringup
     \/ /\ configured /\ connected /\ topState \notin ActiveMotion
        /\ \/ enabled /\ Refuse(Answer(Off(Here), "error")) /\ UNCHANGED bringup
           \/ /\ Return(Off(Here), "ok") /\ bringup' = TRUE
              /\ ran' = "none" /\ UNCHANGED <<flags, profile>>

\* Mutant of ExitMotorBringupMode: the output is left to the next operation.
ExitMotorBringupModeUnderPower ==
  /\ bringup' = FALSE /\ Return(Here, "ok") /\ ran' = "none"
  /\ UNCHANGED <<link, cancel, flags, profile>>

ExitMotorBringupMode ==
  /\ UNCHANGED <<link, cancel>>
  /\ \/ /\ connected /\ enabled /\ UNCHANGED bringup
        /\ Refuse(Answer(Off(Here), "error"))
     \/ /\ Return(IF connected THEN Off(Here) ELSE Here, "ok")
        /\ bringup' = FALSE /\ ran' = "none" /\ UNCHANGED <<flags, profile>>

\* requireMotorBringupActive.  A latched state does not refuse bring-up.
BringupActive == configured /\ connected /\ bringup /\ topState \notin ActiveMotion

\* A bring-up call: refused outside the mode, otherwise left with one of bodies.
BringupCall(bodies, motion) ==
  /\ UNCHANGED <<link, cancel, bringup, flags, profile>>
  /\ \/ ~BringupActive /\ Refuse(Answer(Here, "error"))
     \/ BringupActive /\ ran' = motion /\ \E b \in bodies : Return(b, b.ans)

RefreshMotorBringupFeedback ==
  BringupCall(Observed(Here) \union {Answer(Here, "error")}, "none")

EnableMotorBringupOutput ==
  BringupCall(UNION {IF m.ans = "ok" THEN Sampled(m) ELSE {m} : m \in EnableMotor(Here)},
              "none")

DisableMotorBringupOutput ==
  BringupCall(Settled(Here) \union {Answer(Off(Here), "error")}, "none")

\* jogMotorBringup and moveMotorBringupRelativeTurns: whatever happens after
\* the output is enabled, it is disabled again.  The settle wait of the turns
\* reports a cancel request left over from an earlier stop or disable.
BringupMotion(answers) ==
  \/ BringupCall({Answer(Here, "error")}, "none")          \* invalid command
  \/ BringupCall({Answer(s, a) : s \in Settled(Here), a \in answers}, "jog")

JogMotorBringup == BringupMotion({"ok", "error"})
MoveMotorBringupRelativeTurns ==
  BringupMotion({"error"} \union (IF cancel \/ topState \in Latched THEN {} ELSE {"ok"}))

-----------------------------------------------------------------------------
(* The device: at any time a connected motor may report a fault, and then  *)
(* its output is off.                                                      *)
MotorFaults ==
  /\ connected /\ ~motorFault
  /\ motorFault' = TRUE /\ enabled' = FALSE /\ ran' = "none"
  /\ UNCHANGED <<topState, link, cancel, bringup, flags, profile, reply>>

Next ==
  \/ Configure \/ Connect \/ Disconnect \/ Enable \/ Disable
  \/ RunPreSelfCheck \/ HomeOpenStop \/ LearnTravelLimits \/ RunMotionHealthCheck
  \/ ClampByForce \/ ClampBySpeed \/ Release \/ MoveToNutStroke
  \/ Stop \/ ClearFault \/ Update
  \/ EnterMotorBringupMode \/ ExitMotorBringupMode
  \/ RefreshMotorBringupFeedback
  \/ EnableMotorBringupOutput \/ DisableMotorBringupOutput
  \/ JogMotorBringup \/ MoveMotorBringupRelativeTurns
  \/ MotorFaults

Spec == Init /\ [][Next]_vars

-----------------------------------------------------------------------------
(* Properties *)

\* Every path out of every operation dispatches an event that ends the motion
\* state its Requested event began: no call returns with the state machine in
\* a motion or check state, from which most commands would be rejected.
RestsBetweenCalls ==
  topState \notin ActiveMotion \union {"HardwareSanityCheck"}

\* The workflow flags are cumulative: no sequence of runs, failures, stops,
\* recoveries and reconnections leaves a later one set and an earlier one not.
FlagChain == /\ health => learned
             /\ learned => homed
             /\ homed => preChecked

\* Between calls Ready means that a health check has succeeded since the last
\* connection, although release() enters Ready without one on its way.
ReadyIsVerified == topState = "Ready" => health

\* The motor output is off in Fault unless bring-up mode switched it on.
FaultIsUnpowered == topState = "Fault" => ~enabled \/ bringup

\* As long as configure() is called once, Disconnected means a closed link.
DisconnectedMeansClosed == topState = "Disconnected" => ~connected

\* Between calls the top state, the workflow flags, the link and the output tell
\* the same story, whatever calls came before and however each of them ended.
Coherent == /\ RestsBetweenCalls
            /\ FlagChain
            /\ ReadyIsVerified
            /\ FaultIsUnpowered
            /\ DisconnectedMeansClosed

\* A motion is driven only with an open link, outside bring-up mode, from a
\* state that is not latched, and after the steps of the workflow it needs.
Gated ==
  /\ ran' \notin {"none", "jog"} =>
       configured /\ connected /\ ~bringup /\ topState \notin Latched
  /\ ran' = "homing" => preChecked
  /\ ran' = "learning" => homed
  /\ ran' = "healthCheck" => learned
  /\ ran' = "clamp" => learned /\ health
  /\ ran' = "manualMove" => preChecked
MotionGates == [][Gated]_vars

\* Every motion except the manual nut-stroke move ends with the output off on
\* each of its exits, so that the lead screw is not held under torque.
Unpowered == ran' \notin {"none", "manualMove"} => ~enabled'
MotionEndsUnpowered == [][Unpowered]_vars

\* The contract of a motion, at both ends of the call that drives it.
MotionContract == MotionGates /\ MotionEndsUnpowered

\* Output without a state that owns it: on, outside bring-up mode, in a state
\* other than Enabled and Ready.
Stranded == enabled /\ ~bringup /\ topState \notin {"Enabled", "Ready"}

\* Only the manual nut-stroke move can strand the output; a rejected or failed
\* call of any other operation does not.
OnlyManualMoveStrands == [][Stranded' => Stranded \/ ran' = "manualMove"]_vars

\* As long as bring-up mode lasts nothing of the workflow advances: no flag, no
\* limits, and no state other than a stop, a fault or Disabled is entered.
BringupIsIsolated ==
  [][bringup /\ bringup' =>
       /\ UNCHANGED <<flags, profile>>
       /\ topState' \in {topState, "ActiveStop", "Fault", "Disabled"}]_vars

\* Claim of gripper_controller.hpp:215 on moveToNutStroke: it "disables output
\* after success, failure, or timeout".  The error returns of
\* runManualPositioningUntil and the failure branch of moveToNutStroke leave it
\* on.
ManualMoveUnpowers == [][ran' = "manualMove" => ~enabled']_vars
=============================================================================
