------------------------ MODULE GripperController_proof ------------------------
(***************************************************************************)
(* The invariants of GripperController for every choice of its constants.  *)
(* The proofs follow a body (top state, output, fault) through the helpers *)
(* an operation calls: first what each helper can make of a body, then one *)
(* step per operation.                                                     *)
(***************************************************************************)
EXTENDS GripperController, GripperStateMachine_proof

\* The top states in which the controller may rest between calls.
Resting == States \ (ActiveMotion \union {"HardwareSanityCheck"})

\* What every body an operation passes through satisfies.
Sound(b) == /\ b \in Bodies
            /\ b.top = "Fault" => ~b.on \/ bringup
            /\ b.on => connected

\* The output is on only over an open link, and the link is only opened once
\* the controller is configured.
LinkInv == /\ enabled => connected
           /\ connected => configured

\* The inductive invariant: LinkInv is what FaultIsUnpowered and
\* DisconnectedMeansClosed need to survive enabling and reconnecting.
IInv == /\ TypeOK
        /\ FlagChain
        /\ LinkInv
        /\ RestsBetweenCalls
        /\ ReadyIsVerified
        /\ FaultIsUnpowered
        /\ Reconfigurable \/ DisconnectedMeansClosed

-----------------------------------------------------------------------------
(* What the helpers make of a body. *)

\* m is b, or b stopped or faulted.
Keeps(m, b) == Sound(m) /\ m.top \in {b.top, "ActiveStop", "Fault"}

\* A dispatch or an answer keeps a body a body.
LEMMA ToBody ==
  ASSUME NEW b \in Bodies, NEW e, NEW a \in Answers
  PROVE  /\ To(b, e) \in Bodies /\ To(b, e).top = Dispatch(b.top, e)
         /\ To(b, e).on = b.on /\ To(b, e).flt = b.flt /\ To(b, e).ans = b.ans
         /\ Answer(b, a) \in Bodies /\ Answer(b, a).top = b.top
         /\ Answer(b, a).on = b.on /\ Answer(b, a).flt = b.flt
         /\ Answer(b, a).ans = a
  <1>1. Dispatch(b.top, e) \in States
    BY DispatchType DEF Bodies
  <1>2. QED BY <1>1 DEF Bodies, To, Answer, Body

\* Switching the output off, and a fault frame, keep a body sound.
LEMMA OffBody ==
  ASSUME NEW b, Sound(b)
  PROVE  /\ Keeps(Off(b), b) /\ ~Off(b).on /\ Off(b).ans = b.ans
         /\ Off(b).top = b.top /\ Off(b).flt = b.flt
         /\ Keeps(Tripped(b), b) /\ ~Tripped(b).on /\ Tripped(b).ans = b.ans
         /\ Tripped(b).top = "Fault"
  BY DEF Sound, Keeps, Bodies, Off, Output, Tripped, Body, States, Latched

\* Reading feedback can only keep a body or trip it.
LEMMA ObservedBody ==
  ASSUME NEW b, Sound(b), NEW m \in Observed(b) \union Sampled(b)
  PROVE  Keeps(m, b) /\ m.ans = b.ans /\ (m.on => b.on)
         /\ m.top \in {b.top, "Fault"}
  <1>1. m = b \/ m = Tripped(b)
    BY DEF Observed, Sampled
  <1>2. QED BY <1>1, OffBody DEF Keeps

\* disableAfterMotion leaves the output off.
LEMMA SettledBody ==
  ASSUME NEW b, Sound(b), NEW m \in Settled(b)
  PROVE  Keeps(m, b) /\ m.ans = b.ans /\ ~m.on /\ m.top \in {b.top, "Fault"}
  <1>1. Sound(Off(b)) /\ Off(b).top = b.top /\ Off(b).ans = b.ans /\ ~Off(b).on
    BY OffBody DEF Keeps
  <1>2. m \in Observed(Off(b)) \union Sampled(Off(b))
    BY DEF Settled
  <1>3. QED BY <1>1, <1>2, ObservedBody DEF Keeps

\* Switching the output on keeps a sound body sound, except in Fault.
LEMMA EnergisedBody ==
  ASSUME NEW b, Sound(b), connected, b.top # "Fault" \/ bringup
  PROVE  /\ Sound(Energised(b)) /\ Energised(b).top = b.top
         /\ Energised(b).ans = b.ans
  <1>1. CASE b.flt
    BY <1>1, OffBody DEF Energised, Keeps
  <1>2. CASE ~b.flt
    <2>1. Energised(b) = [top |-> b.top, on |-> TRUE, flt |-> b.flt, ans |-> b.ans]
      BY <1>2 DEF Energised, Output, Body
    <2>2. QED BY <2>1 DEF Sound, Bodies
  <1>3. QED BY <1>1, <1>2

\* The motor is enabled, or is not and the call reports an error.
LEMMA EnableMotorBody ==
  ASSUME NEW b, Sound(b), connected, b.top # "Fault" \/ bringup,
         NEW m \in EnableMotor(b)
  PROVE  Sound(m) /\ m.top = b.top /\ m.ans \in {b.ans, "error"}
  <1>1. CASE m = Energised(b)
    BY <1>1, EnergisedBody
  <1>2. CASE m = Answer(Off(b), "error")
    <2>1. m = [top |-> b.top, on |-> FALSE, flt |-> b.flt, ans |-> "error"]
      BY <1>2 DEF Answer, Off, Output, Body
    <2>2. QED BY <2>1 DEF Sound, Bodies, Answers, Replies
  <1>3. QED BY <1>1, <1>2 DEF EnableMotor

\* forceActiveStop keeps a body sound.
LEMMA HaltedBody ==
  ASSUME NEW b, Sound(b)
  PROVE  Sound(Halted(b)) /\ Halted(b).top = "ActiveStop" /\ Halted(b).ans = b.ans
  BY DEF Halted, Body, Sound, Bodies, States, Latched

\* An interrupted stretch of work leaves the state, or a stop or fault.
LEMMA InterruptedBody ==
  ASSUME NEW b, Sound(b), connected, b.top # "Fault", NEW m \in Interrupted(b)
  PROVE  Keeps(m, b) /\ m.ans = b.ans
  <1> DEFINE live == {Off(b), Energised(b), Tripped(b)}
  <1>1. \A l \in live : Keeps(l, b) /\ l.ans = b.ans
    BY OffBody, EnergisedBody DEF Keeps
  <1>2. CASE m \in live
    BY <1>1, <1>2
  <1>3. CASE \E l \in live : m = Halted(l)
    BY <1>1, <1>3, HaltedBody DEF Keeps
  <1>4. QED BY <1>2, <1>3 DEF Interrupted

\* A motion ends with the output off unless it reports an error.
LEMMA MotionBody ==
  ASSUME NEW b, Sound(b), connected, NEW m \in Motion(b)
  PROVE  /\ Keeps(m, b)
         /\ m.ans \in {"error", "reached", "contact", "timedOut"}
         /\ m.ans # "error" => ~m.on
  <1>1. CASE b.top \in Latched
    BY <1>1, ToBody DEF Motion, Sound, Keeps, Answer, Body, Bodies, Answers, Replies
  <1>2. CASE b.top \notin Latched
    <2>1. CASE \E i \in Interrupted(b) : m = Answer(i, "error")
      BY <1>2, <2>1, InterruptedBody
         DEF Latched, Sound, Keeps, Answer, Body, Bodies, Answers, Replies
    <2>2. CASE \E o \in Observed(Off(b)), a \in {"reached", "contact", "timedOut"} :
                 m = Answer(o, a)
      <3>1. PICK o \in Observed(Off(b)), a \in {"reached", "contact", "timedOut"} :
                 m = Answer(o, a)
        BY <2>2
      <3>2. Sound(Off(b)) /\ Off(b).top = b.top /\ ~Off(b).on
        BY OffBody DEF Keeps
      <3>3. Keeps(o, b) /\ ~o.on
        BY <3>2, ObservedBody DEF Keeps
      <3>4. QED BY <3>1, <3>3 DEF Sound, Keeps, Answer, Body, Bodies, Answers, Replies
    <2>3. QED BY <1>2, <2>1, <2>2 DEF Motion
  <1>3. QED BY <1>1, <1>2

\* enable() reaches Enabled, or reports why not; it does not invent Ready or
\* Disconnected.
LEMMA EnablingBody ==
  ASSUME NEW b, Sound(b), connected, b.top \in Resting, b.ans = "ok",
         NEW m \in Enabling(b)
  PROVE  /\ Sound(m) /\ m.top \in Resting
         /\ m.ans \in Replies
         /\ m.ans = "ok" => b.top \notin Latched
         /\ m.top = "Ready" => b.top = "Ready"
         /\ m.top = "Disconnected" => b.top = "Disconnected"
  <1>1. CASE b.top \in Latched
    <2>1. m = Answer(b, "error")
      BY <1>1 DEF Enabling
    <2>2. QED BY <1>1, <2>1 DEF Sound, Answer, Body, Bodies, Answers, Replies
  <1>2. CASE b.top \notin Latched
    <2> DEFINE checked  == To(To(b, "HardwareCheckRequested"), "HardwareCheckPassed")
               prepared == To(IF b.top = "Connected" THEN checked ELSE b,
                              "ModeSwitchSucceeded")
               Arrive(e) ==
                 IF e.ans # "ok" THEN {To(e, "EnableFailed")}
                 ELSE IF Accepts(e.top, "EnableSucceeded") \/ e.top = "Enabled"
                 THEN Sampled(To(e, "EnableSucceeded"))
                 ELSE {Answer(e, "rejected")}
    <2>1. PICK e \in EnableMotor(prepared) : m \in Arrive(e)
      BY <1>2 DEF Enabling
    <2>2. b \in Bodies /\ b.top \in States
      BY DEF Sound, Bodies
    <2>3. "ok" \in Answers
      BY DEF Answers, Replies
    <2>4. /\ Sound(prepared) /\ prepared.ans = "ok"
          /\ prepared.top = IF b.top = "Connected" THEN "ModeSwitching" ELSE b.top
      <3>1. CASE b.top = "Connected"
        <4>1. To(b, "HardwareCheckRequested") \in Bodies
              /\ To(b, "HardwareCheckRequested").top = "HardwareSanityCheck"
          BY <2>2, <2>3, <3>1, ToBody, OnEnabling
        <4>2. checked \in Bodies /\ checked.top = "ModeSwitching"
              /\ checked.on = b.on /\ checked.ans = b.ans
          BY <2>2, <2>3, <4>1, ToBody, OnEnabling DEF Bodies
        <4>3. prepared \in Bodies /\ prepared.top = "ModeSwitching"
              /\ prepared.on = b.on /\ prepared.ans = b.ans
          BY <2>3, <3>1, <4>2, ToBody, DispatchIgnored DEF IgnoredEvents
        <4>4. QED BY <3>1, <4>3 DEF Sound
      <3>2. CASE b.top # "Connected"
        <4>1. prepared \in Bodies /\ prepared.top = b.top
              /\ prepared.on = b.on /\ prepared.ans = b.ans
          BY <2>2, <2>3, <3>2, ToBody, DispatchIgnored DEF IgnoredEvents
        <4>2. QED BY <3>2, <4>1 DEF Sound
      <3>3. QED BY <3>1, <3>2
    <2>5. prepared.top \in Resting \ Latched
      BY <1>2, <2>4 DEF Resting, States, ActiveMotion, Latched
    <2>6. Sound(e) /\ e.top = prepared.top /\ e.ans \in {"ok", "error"}
      BY <2>4, <2>5, EnableMotorBody DEF Latched
    <2>7. e \in Bodies /\ e.top \in States
      BY <2>6 DEF Sound, Bodies
    <2>8. CASE e.ans # "ok"
      <3>1. m = To(e, "EnableFailed")
        BY <2>1, <2>8
      <3>2. m \in Bodies /\ m.top = e.top /\ m.on = e.on /\ m.ans = "error"
        BY <2>3, <2>6, <2>7, <2>8, <3>1, ToBody, DispatchIgnored DEF IgnoredEvents
      <3>3. QED BY <1>2, <2>4, <2>5, <2>6, <3>2 DEF Sound, Replies
    <2>9. CASE /\ e.ans = "ok"
               /\ Accepts(e.top, "EnableSucceeded") \/ e.top = "Enabled"
      <3>1. m \in Sampled(To(e, "EnableSucceeded"))
        BY <2>1, <2>9
      <3>2. /\ To(e, "EnableSucceeded") \in Bodies
            /\ To(e, "EnableSucceeded").top = "Enabled"
            /\ To(e, "EnableSucceeded").on = e.on
            /\ To(e, "EnableSucceeded").ans = "ok"
        BY <2>3, <2>7, <2>9, ToBody, OnEnabling
      <3>3. Sound(To(e, "EnableSucceeded"))
        BY <2>6, <3>2 DEF Sound
      <3>4. Sound(m) /\ m.ans = "ok" /\ m.top \in {"Enabled", "Fault"}
        BY <3>1, <3>2, <3>3, ObservedBody DEF Keeps
      <3>5. QED
        BY <1>2, <3>4 DEF Replies, Resting, States, ActiveMotion, Latched
    <2>10. CASE /\ e.ans = "ok"
                /\ ~Accepts(e.top, "EnableSucceeded") /\ e.top # "Enabled"
      <3>1. m = Answer(e, "rejected")
        BY <2>1, <2>10
      <3>2. QED
        BY <1>2, <2>4, <2>5, <2>6, <3>1 DEF Sound, Answer, Body, Bodies, Answers, Replies
    <2>11. QED BY <2>6, <2>8, <2>9, <2>10
  <1>3. QED BY <1>1, <1>2

-----------------------------------------------------------------------------
(* Entering and leaving an operation. *)

\* A body with which a call may return.
Idle(m) == /\ Sound(m) /\ m.top \in Resting
           /\ m.top = "Disconnected" => topState = "Disconnected"

\* In an invariant state the call starts from an idle body.
LEMMA HereIdle ==
  ASSUME IInv
  PROVE  /\ Idle(Here) /\ Here.top = topState /\ Here.on = enabled
         /\ Here.flt = motorFault /\ Here.ans = "ok"
  BY DEF IInv, TypeOK, LinkInv, RestsBetweenCalls, FaultIsUnpowered, Idle, Sound,
         Here, Body, Bodies, Answers, Replies, Resting

\* The part of the invariant that is about the body and the link.
BodyInv == /\ topState \in States /\ enabled \in BOOLEAN
           /\ motorFault \in BOOLEAN /\ reply \in Replies
           /\ LinkInv /\ RestsBetweenCalls /\ ReadyIsVerified /\ FaultIsUnpowered
           /\ Reconfigurable \/ DisconnectedMeansClosed

\* Returning with an idle body keeps the invariant, when Ready is earned.
LEMMA Lands ==
  ASSUME IInv, NEW m, Idle(m), NEW a \in Replies, Return(m, a),
         m.top = "Ready" => health', UNCHANGED <<link, bringup>>
  PROVE  BodyInv'
  BY DEF IInv, TypeOK, LinkInv, RestsBetweenCalls, ReadyIsVerified, FaultIsUnpowered,
         DisconnectedMeansClosed, Idle, Sound, Return, BodyInv, Bodies, Resting, link

\* The failure tail leaves a latched state and the output off.
LEMMA AbandonLands ==
  ASSUME IInv, UNCHANGED <<link, bringup>>,
         NEW b, Sound(b), NEW x \in States, NEW e,
         b.top \in {x, "ActiveStop", "Fault"},
         \A t \in {x, "ActiveStop", "Fault"} : Dispatch(t, e) \in Latched,
         Abandon(b, e)
  PROVE  BodyInv' /\ ~enabled'
  <1>1. PICK s \in Settled(b) : Return(To(s, e), "error")
    BY DEF Abandon
  <1>2. Sound(s) /\ ~s.on /\ s.top \in {x, "ActiveStop", "Fault"}
    BY SettledBody DEF Keeps
  <1>3. /\ To(s, e) \in Bodies /\ To(s, e).top \in Latched
        /\ ~To(s, e).on
    BY <1>2, ToBody DEF Sound, Answers, Replies
  <1>4. Idle(To(s, e)) /\ To(s, e).top # "Ready"
    BY <1>3 DEF Idle, Sound, Resting, States, ActiveMotion, Latched
  <1>5. BodyInv'
    BY <1>1, <1>4, Lands DEF Replies
  <1>6. QED BY <1>1, <1>3, <1>5 DEF Return

\* What ensureEnabled gives: an idle body, and on success an open link, the
\* normal mode and no latched state.
LEMMA EnsureEnabledBody ==
  ASSUME IInv, NEW m \in EnsureEnabled(Here)
  PROVE  /\ Idle(m) /\ m.ans \in Replies
         /\ m.top = "Ready" => topState = "Ready"
         /\ m.ans = "ok" => configured /\ connected /\ ~bringup
                            /\ topState \notin Latched
  <1> USE HereIdle
  <1>1. CASE topState \in Latched \/ ~configured \/ ~connected \/ bringup
    <2>1. m = Answer(Here, "error")
      BY <1>1 DEF EnsureEnabled
    <2>2. QED BY <2>1, ToBody DEF Idle, Sound, Answers, Replies
  <1>2. CASE ~(topState \in Latched \/ ~configured \/ ~connected \/ bringup)
    <2>1. CASE enabled
      <3>1. m = Here
        BY <1>2, <2>1 DEF EnsureEnabled
      <3>2. QED BY <1>2, <3>1 DEF Replies
    <2>2. CASE ~enabled /\ topState = "Ready"
      <3>1. PICK e \in EnableMotor(Here) :
              m \in IF e.ans = "ok" THEN Sampled(e) ELSE {e}
        BY <1>2, <2>2 DEF EnsureEnabled
      <3>2. Sound(e) /\ e.top = "Ready" /\ e.ans \in {"ok", "error"}
        BY <1>2, <2>2, EnableMotorBody DEF Idle
      <3>3. Sound(m) /\ m.ans = e.ans /\ m.top \in {"Ready", "Fault"}
        BY <3>1, <3>2, ObservedBody DEF Keeps
      <3>4. QED
        BY <1>2, <2>2, <3>2, <3>3
           DEF Idle, Replies, Resting, States, ActiveMotion, Latched
    <2>3. CASE ~enabled /\ topState # "Ready"
      <3>1. m \in Enabling(Here)
        BY <1>2, <2>3 DEF EnsureEnabled
      <3>2. QED BY <1>2, <3>1, EnablingBody DEF Idle
    <2>4. QED BY <2>1, <2>2, <2>3 DEF IInv, TypeOK
  <1>3. QED BY <1>1, <1>2

\* The states the Requested events of the four setup motions lead to.
Entered(request) ==
  IF request = "PreSelfCheckRequested" THEN "PreSelfCheck"
  ELSE IF request = "HomingRequested" THEN "HomingOpenStop"
  ELSE IF request = "TravelLearningRequested" THEN "TravelLearning"
  ELSE "MotionHealthCheck"

\* A setup operation begins only through its gate, over an open link in normal
\* mode, outside a latched state and in its motion state; or it is refused.
LEMMA BegunBody ==
  ASSUME IInv, NEW gate \in BOOLEAN,
         NEW request \in {"PreSelfCheckRequested", "HomingRequested",
                          "TravelLearningRequested", "MotionHealthCheckRequested"},
         NEW b \in Begun(gate, request)
  PROVE  /\ b.ans # "begun" => /\ Idle(b) /\ b.ans \in Replies
                               /\ b.top = "Ready" => topState = "Ready"
         /\ b.ans = "begun" =>
              /\ Sound(b) /\ b.top = Entered(request)
              /\ gate /\ configured /\ connected /\ ~bringup
              /\ topState \notin Latched
  <1> DEFINE Enter(e) == IF e.ans # "ok" THEN e
                         ELSE IF ~gate THEN Answer(e, "error")
                         ELSE IF ~Accepts(e.top, request) THEN Answer(e, "rejected")
                         ELSE Answer(To(e, request), "begun")
  <1>1. PICK e \in EnsureEnabled(Here) : b = Enter(e)
    BY DEF Begun
  <1>2. /\ Idle(e) /\ e.ans \in Replies
        /\ e.top = "Ready" => topState = "Ready"
        /\ e.ans = "ok" => configured /\ connected /\ ~bringup
                           /\ topState \notin Latched
    BY EnsureEnabledBody
  <1>3. e \in Bodies /\ e.top \in States
    BY <1>2 DEF Idle, Sound, Bodies
  <1>4. CASE e.ans # "ok"
    BY <1>1, <1>2, <1>4 DEF Replies
  <1>5. CASE e.ans = "ok" /\ ~(gate /\ Accepts(e.top, request))
    <2>1. b = Answer(e, "error") \/ b = Answer(e, "rejected")
      BY <1>1, <1>5
    <2>2. QED BY <1>2, <1>3, <2>1, ToBody DEF Idle, Sound, Answers, Replies
  <1>6. CASE e.ans = "ok" /\ gate /\ Accepts(e.top, request)
    <2>1. b = Answer(To(e, request), "begun")
      BY <1>1, <1>6
    <2>2. Dispatch(e.top, request) = Entered(request)
      BY <1>3, <1>6, OnPreSelfCheck, OnHoming, OnTravelLearning, OnMotionHealthCheck
         DEF Entered
    <2>3. To(e, request) \in Bodies /\ To(e, request).top = Entered(request)
          /\ To(e, request).on = e.on
      BY <1>3, <2>2, ToBody DEF Answers, Replies
    <2>4. b \in Bodies /\ b.top = Entered(request) /\ b.on = e.on /\ b.ans = "begun"
      BY <2>1, <2>3, ToBody DEF Answers, Replies
    <2>5. Entered(request) # "Fault"
      BY DEF Entered
    <2>6. QED BY <1>2, <1>6, <2>4, <2>5 DEF Idle, Sound
  <1>7. QED BY <1>4, <1>5, <1>6

\* clampByForce and clampBySpeed begin only once limits are learned and the
\* health check has passed, and then from Ready.
LEMMA ClampBegunBody ==
  ASSUME IInv, NEW b \in ClampBegun
  PROVE  /\ b.ans # "begun" => /\ Idle(b) /\ b.ans \in Replies
                               /\ b.top = "Ready" => health
         /\ b.ans = "begun" =>
              /\ Sound(b) /\ b.top = "Clamping"
              /\ learned /\ health /\ configured /\ connected /\ ~bringup
              /\ topState \notin Latched
  <1> DEFINE Armed(e) == IF e.top = "Disabled" THEN To(e, "EnableSucceeded") ELSE e
             Ready(e) == IF health THEN ReplayHealthCheck(Armed(e)) ELSE e
             Enter(e) == IF e.ans # "ok" THEN e
                         ELSE IF ~learned THEN Answer(e, "error")
                         ELSE IF Ready(e).top # "Ready" THEN Answer(Ready(e), "error")
                         ELSE Answer(To(Ready(e), "ClampRequested"), "begun")
  <1>1. PICK e \in EnsureEnabled(Here) : b = Enter(e)
    BY DEF ClampBegun
  <1>2. /\ Idle(e) /\ e.ans \in Replies
        /\ e.top = "Ready" => topState = "Ready"
        /\ e.ans = "ok" => configured /\ connected /\ ~bringup
                           /\ topState \notin Latched
    BY EnsureEnabledBody
  <1>3. topState = "Ready" => health
    BY DEF IInv, ReadyIsVerified
  <1>4. e \in Bodies /\ e.top \in States /\ e.ans \in Answers
    BY <1>2 DEF Idle, Sound, Bodies
  <1>5. CASE e.ans # "ok"
    BY <1>1, <1>2, <1>3, <1>5 DEF Replies
  <1>6. CASE e.ans = "ok" /\ ~learned
    <2>1. b = Answer(e, "error")
      BY <1>1, <1>6
    <2>2. QED BY <1>2, <1>3, <1>4, <2>1, ToBody DEF Idle, Sound, Answers, Replies
  <1>7. CASE e.ans = "ok" /\ learned
    <2> DEFINE r == Ready(e)
    <2>1. /\ r \in Bodies /\ r.on = e.on
          /\ r.top \in {e.top, "Ready"} /\ (r.top = "Ready" => health)
      <3>1. CASE ~health
        BY <1>2, <1>3, <1>4, <3>1
      <3>2. CASE health
        <4> DEFINE a == Armed(e)
        <4>1. /\ a \in Bodies /\ a.on = e.on /\ a.ans = e.ans
              /\ a.top = IF e.top = "Disabled" THEN "Enabled" ELSE e.top
          BY <1>4, ToBody, OnEnabling
        <4>2. CASE a.top = "Enabled"
          <5>1. r = To(To(a, "MotionHealthCheckRequested"), "MotionHealthCheckSucceeded")
            BY <3>2, <4>2 DEF ReplayHealthCheck
          <5>2. LET q == To(a, "MotionHealthCheckRequested")
                IN  q \in Bodies /\ q.top = "MotionHealthCheck" /\ q.on = a.on
            BY <1>4, <4>1, <4>2, ToBody, OnMotionHealthCheck DEF Bodies
          <5>3. r \in Bodies /\ r.top = "Ready" /\ r.on = a.on
            BY <1>4, <5>1, <5>2, ToBody, OnMotionHealthCheck DEF Bodies
          <5>4. QED BY <3>2, <4>1, <5>3
        <4>3. CASE a.top # "Enabled"
          <5>1. r = a
            BY <3>2, <4>3 DEF ReplayHealthCheck
          <5>2. QED BY <3>2, <4>1, <4>3, <5>1
        <4>4. QED BY <4>2, <4>3
      <3>3. QED BY <3>1, <3>2
    <2>2. CASE r.top # "Ready"
      <3>1. b = Answer(r, "error")
        BY <1>1, <1>7, <2>2
      <3>2. b \in Bodies /\ b.top = e.top /\ b.on = e.on /\ b.ans = "error"
        BY <2>1, <2>2, <3>1, ToBody DEF Answers, Replies
      <3>3. QED BY <1>2, <1>3, <3>2 DEF Idle, Sound, Replies
    <2>3. CASE r.top = "Ready"
      <3>1. b = Answer(To(r, "ClampRequested"), "begun")
        BY <1>1, <1>7, <2>3
      <3>2. To(r, "ClampRequested") \in Bodies
            /\ To(r, "ClampRequested").top = "Clamping"
            /\ To(r, "ClampRequested").on = e.on
        BY <1>4, <2>1, <2>3, ToBody, OnClamp DEF Bodies
      <3>3. b \in Bodies /\ b.top = "Clamping" /\ b.on = e.on /\ b.ans = "begun"
        BY <3>1, <3>2, ToBody DEF Answers
      <3>4. QED BY <1>2, <1>7, <2>1, <2>3, <3>3 DEF Idle, Sound
    <2>4. QED BY <2>2, <2>3
  <1>8. QED BY <1>5, <1>6, <1>7

-----------------------------------------------------------------------------
(* One step per operation. *)

\* What every step of an operation is shown to do.
Kept == IInv' /\ Gated /\ Unpowered

\* A refused call keeps the invariant and has driven no motion.
LEMMA RefuseKeeps ==
  ASSUME IInv, NEW m, Idle(m), m.ans \in Replies, m.top = "Ready" => health,
         Refuse(m), UNCHANGED <<link, bringup>>, cancel' \in BOOLEAN
  PROVE  Kept
  <1>1. /\ Return(m, IF m.ans = "ok" THEN "error" ELSE m.ans)
        /\ ran' = "none" /\ UNCHANGED <<flags, profile>>
    BY DEF Refuse
  <1>2. (IF m.ans = "ok" THEN "error" ELSE m.ans) \in Replies
    BY DEF Replies
  <1>3. BodyInv'
    BY <1>1, <1>2, Lands DEF flags
  <1>4. QED
    BY <1>1, <1>3
       DEF Kept, IInv, TypeOK, FlagChain, BodyInv, Gated, Unpowered, flags, profile,
           link, Motions

\* The cumulative flags and the types of the variables outside the body.
Rest == /\ configured \in BOOLEAN /\ connected \in BOOLEAN
        /\ cancel \in BOOLEAN /\ bringup \in BOOLEAN
        /\ preChecked \in BOOLEAN /\ homed \in BOOLEAN
        /\ learned \in BOOLEAN /\ health \in BOOLEAN
        /\ limits \in LimitSources /\ seed \in SeedSources /\ ran \in Motions
        /\ FlagChain

\* The invariant is what it says of the body and what it says of the rest.
LEMMA Split == (BodyInv /\ Rest <=> IInv) /\ (BodyInv' /\ Rest' <=> IInv')
  BY DEF BodyInv, Rest, IInv, TypeOK


\* An operation has begun from b in state x over an open link.
Begins(b, x) == /\ Sound(b) /\ b.top = x
                /\ configured /\ connected /\ ~bringup /\ topState \notin Latched
                /\ cancel' = FALSE /\ UNCHANGED <<link, bringup>>

\* What is left to show of an operation once its body and flags are known.
LEMMA RunKeeps ==
  ASSUME IInv, NEW b, NEW x, Begins(b, x), BodyInv', FlagChain',
         preChecked' \in BOOLEAN, homed' \in BOOLEAN,
         learned' \in BOOLEAN, health' \in BOOLEAN,
         limits' \in LimitSources, seed' \in SeedSources, ran' \in Motions
  PROVE  IInv'
  BY Split DEF Begins, Rest, link

\* A self-check that has begun keeps the invariant and ends without output.
LEMMA SelfCheckRunKeeps ==
  ASSUME IInv, NEW b, Begins(b, "PreSelfCheck"), SelfCheckRuns(b)
  PROVE  IInv' /\ ~enabled'
  <1> DEFINE Phase == {"PreSelfCheck", "ActiveStop", "Fault"}
             Completed(w) == LET done == To(w, "PreSelfCheckSucceeded")
                             IN  \/ \E s \in Observed(Off(done)) :
                                      Return(To(s, "DisableRequested"), "ok")
                                 \/ Abandon(done, "ActiveStopTriggered")
  <1>1. /\ ran' = "preSelfCheck" /\ homed' = homed /\ learned' = learned
        /\ health' = health
    BY DEF SelfCheckRuns
  <1>2. PICK w \in Interrupted(b) :
          \/ /\ \/ Abandon(w, "PreSelfCheckFailed")
                \/ Abandon(w, "StopRequested")
             /\ limits' = Loaded /\ UNCHANGED <<preChecked, seed>>
          \/ /\ w.top \notin Latched
             /\ preChecked' = TRUE
             /\ limits' = "lowConfidence" /\ SaveSeed("lowConfidence")
             /\ Completed(w)
    BY DEF SelfCheckRuns
  <1>3. Sound(w) /\ w.top \in Phase
    BY InterruptedBody DEF Keeps, Begins
  <1>4. Phase \subseteq States /\ UNCHANGED <<link, bringup>>
    BY DEF States, ActiveMotion, Latched, Begins
  <1>5. BodyInv' /\ ~enabled'
    <2>1. CASE Abandon(w, "PreSelfCheckFailed")
      <3>1. \A t \in Phase : Dispatch(t, "PreSelfCheckFailed") \in Latched
        BY <1>4, OnPreSelfCheck DEF Latched
      <3>2. QED BY <1>3, <1>4, <2>1, <3>1, AbandonLands
    <2>2. CASE Abandon(w, "StopRequested")
      <3>1. \A t \in Phase : Dispatch(t, "StopRequested") \in Latched
        BY DispatchGlobal DEF Latched
      <3>2. QED BY <1>3, <1>4, <2>2, <3>1, AbandonLands
    <2>3. CASE w.top \notin Latched /\ Completed(w)
      <3> DEFINE done == To(w, "PreSelfCheckSucceeded")
      <3>1. Sound(done) /\ done.top = "Enabled"
        <4>1. w.top = "PreSelfCheck" /\ w \in Bodies /\ "ok" \in Answers
          BY <1>3, <2>3 DEF Latched, Sound, Answers, Replies
        <4>2. done \in Bodies /\ done.top = "Enabled" /\ done.on = w.on
          BY <1>4, <4>1, ToBody, OnPreSelfCheck
        <4>3. QED BY <1>3, <4>2 DEF Sound
      <3>2. CASE \E s \in Observed(Off(done)) : Return(To(s, "DisableRequested"), "ok")
        <4>1. PICK s \in Observed(Off(done)) : Return(To(s, "DisableRequested"), "ok")
          BY <3>2
        <4>2. Sound(Off(done)) /\ Off(done).top = "Enabled" /\ ~Off(done).on
          BY <3>1, OffBody DEF Keeps
        <4>3. Sound(s) /\ s.top \in {"Enabled", "Fault"} /\ ~s.on
          BY <4>2, ObservedBody DEF Keeps
        <4>4. To(s, "DisableRequested") \in Bodies /\ ~To(s, "DisableRequested").on
              /\ To(s, "DisableRequested").top \in {"Disabled", "Fault"}
          BY <4>3, ToBody, OnConnection
             DEF Sound, Bodies, Answers, Replies, States, Latched
        <4>5. Idle(To(s, "DisableRequested"))
          BY <4>4 DEF Idle, Sound, Resting, States, ActiveMotion, Latched
        <4>6. BodyInv'
          BY <1>4, <4>1, <4>4, <4>5, Lands DEF Replies
        <4>7. QED BY <4>1, <4>4, <4>6 DEF Return
      <3>3. CASE Abandon(done, "ActiveStopTriggered")
        <4>1. \A t \in {"Enabled", "ActiveStop", "Fault"} :
                Dispatch(t, "ActiveStopTriggered") \in Latched
          BY DispatchGlobal DEF Latched
        <4>2. "Enabled" \in States
          BY DEF States
        <4>3. QED BY <1>4, <3>1, <3>3, <4>1, <4>2, AbandonLands
      <3>4. QED BY <2>3, <3>2, <3>3
    <2>4. QED BY <1>2, <2>1, <2>2, <2>3
  <1>6. /\ limits' \in LimitSources /\ seed' \in SeedSources
        /\ preChecked' \in BOOLEAN /\ (preChecked => preChecked')
    BY <1>2, Split DEF Rest, Loaded, SaveSeed, LimitSources, SeedSources
  <1>7. QED
    BY <1>1, <1>5, <1>6, RunKeeps DEF Motions, IInv, TypeOK, FlagChain

\* runPreSelfCheck keeps the invariant.
LEMMA PreSelfCheckKeeps == ASSUME IInv, RunPreSelfCheck PROVE Kept
  <1>1. PICK b \in Begun(TRUE, "PreSelfCheckRequested") :
          \/ b.ans # "begun" /\ Refuse(b)
          \/ b.ans = "begun" /\ SelfCheckRuns(b)
    BY DEF RunPreSelfCheck
  <1>2. cancel' = FALSE /\ UNCHANGED <<link, bringup>>
    BY DEF RunPreSelfCheck
  <1>3. CASE b.ans # "begun"
    BY <1>1, <1>2, <1>3, BegunBody, RefuseKeeps DEF IInv, ReadyIsVerified
  <1>4. CASE b.ans = "begun"
    <2>1. Begins(b, "PreSelfCheck")
      BY <1>2, <1>4, BegunBody DEF Begins, Entered
    <2>2. ran' = "preSelfCheck"
      BY <1>1, <1>4 DEF SelfCheckRuns
    <2>3. QED
      BY <1>1, <1>4, <2>1, <2>2, SelfCheckRunKeeps DEF Begins, Kept, Gated, Unpowered
  <1>5. QED BY <1>3, <1>4

\* The success tail of an operation: the output is off and the last events
\* leave a state the controller may rest in.
LEMMA SuccessLands ==
  ASSUME IInv, UNCHANGED <<link, bringup>>,
         NEW m, m \in Bodies, ~m.on, m.top \in Resting \ {"Disconnected"},
         m.top = "Ready" => health', NEW a \in Replies, Return(m, a)
  PROVE  BodyInv' /\ ~enabled'
  <1>1. Idle(m)
    BY DEF Idle, Sound
  <1>2. QED BY <1>1, Lands DEF Return

\* A homing run that has begun keeps the invariant and ends without output.
LEMMA HomingRunKeeps ==
  ASSUME IInv, preChecked, NEW b, Begins(b, "HomingOpenStop"), HomingRuns(b)
  PROVE  IInv' /\ ~enabled'
  <1> DEFINE Phase == {"HomingOpenStop", "ActiveStop", "Fault"}
  <1>1. /\ ran' = "homing" /\ preChecked' = preChecked /\ learned' = learned
        /\ health' = health
    BY DEF HomingRuns
  <1>2. PICK m \in Motion(b) :
          \/ Abandon(m, "HomingFailed") /\ UNCHANGED <<homed, profile>>
          \/ /\ m.ans # "error" /\ Rebase
             /\ \E r \in IF HomingBackoff THEN Motion(m)
                         ELSE {Answer(s, "reached") : s \in Settled(m)} :
                  \/ Abandon(r, "HomingFailed") /\ UNCHANGED homed
                  \/ /\ r.ans \in {"reached", "contact"}
                     /\ Return(To(r, "HomingSucceeded"), "ok")
                     /\ homed' = TRUE
    BY DEF HomingRuns
  <1>3. Sound(m) /\ m.top \in Phase
    BY MotionBody DEF Keeps, Begins
  <1>4. /\ Phase \subseteq States /\ UNCHANGED <<link, bringup>> /\ connected
        /\ "HomingOpenStop" \in States
        /\ \A t \in Phase : Dispatch(t, "HomingFailed") \in Latched
    BY OnHoming DEF States, ActiveMotion, Latched, Begins
  <1>5. CASE Abandon(m, "HomingFailed") /\ UNCHANGED <<homed, profile>>
    <2>1. BodyInv' /\ ~enabled'
      BY <1>3, <1>4, <1>5, AbandonLands
    <2>2. QED BY <1>1, <1>5, <2>1, RunKeeps
                 DEF IInv, TypeOK, FlagChain, profile, Motions
  <1>6. CASE /\ m.ans # "error" /\ Rebase
             /\ \E r \in IF HomingBackoff THEN Motion(m)
                         ELSE {Answer(s, "reached") : s \in Settled(m)} :
                  \/ Abandon(r, "HomingFailed") /\ UNCHANGED homed
                  \/ /\ r.ans \in {"reached", "contact"}
                     /\ Return(To(r, "HomingSucceeded"), "ok")
                     /\ homed' = TRUE
    <2>1. PICK r \in IF HomingBackoff THEN Motion(m)
                     ELSE {Answer(s, "reached") : s \in Settled(m)} :
            \/ Abandon(r, "HomingFailed") /\ UNCHANGED homed
            \/ /\ r.ans \in {"reached", "contact"}
               /\ Return(To(r, "HomingSucceeded"), "ok")
               /\ homed' = TRUE
      BY <1>6
    <2>2. Sound(r) /\ r.top \in Phase /\ (r.ans # "error" => ~r.on)
      <3>1. CASE HomingBackoff
        BY <1>3, <1>4, <2>1, <3>1, MotionBody DEF Keeps
      <3>2. CASE ~HomingBackoff
        <4>1. PICK s \in Settled(m) : r = Answer(s, "reached")
          BY <2>1, <3>2
        <4>2. Sound(s) /\ ~s.on /\ s.top \in Phase
          BY <1>3, SettledBody DEF Keeps
        <4>3. QED BY <4>1, <4>2, ToBody DEF Sound, Answers
      <3>3. QED BY <3>1, <3>2
    <2>3. BodyInv' /\ ~enabled'
      <3>1. CASE Abandon(r, "HomingFailed")
        BY <1>4, <2>2, <3>1, AbandonLands
      <3>2. CASE r.ans # "error" /\ Return(To(r, "HomingSucceeded"), "ok")
        <4>1. To(r, "HomingSucceeded") \in Bodies /\ ~To(r, "HomingSucceeded").on
              /\ To(r, "HomingSucceeded").top \in {"Enabled", "ActiveStop", "Fault"}
          BY <1>4, <2>2, <3>2, ToBody, OnHoming DEF Sound, Bodies, Answers, Replies
        <4>2. To(r, "HomingSucceeded").top \in Resting \ {"Disconnected", "Ready"}
          BY <4>1 DEF Resting, States, ActiveMotion, Latched
        <4>3. QED BY <1>4, <3>2, <4>1, <4>2, SuccessLands DEF Replies
      <3>3. QED BY <2>1, <3>1, <3>2
    <2>4. limits' \in LimitSources /\ seed' \in SeedSources
      BY <1>6, Split DEF Rest, Rebase, Moved, LimitSources, SeedSources
    <2>5. homed' \in BOOLEAN /\ (homed => homed')
      BY <2>1 DEF IInv, TypeOK
    <2>6. QED BY <1>1, <2>3, <2>4, <2>5, RunKeeps DEF IInv, TypeOK, FlagChain, Motions
  <1>7. QED BY <1>2, <1>5, <1>6

\* homeOpenStop keeps the invariant.
LEMMA HomingKeeps == ASSUME IInv, HomeOpenStop PROVE Kept
  <1>1. PICK b \in Begun(preChecked, "HomingRequested") :
          \/ b.ans # "begun" /\ Refuse(b)
          \/ b.ans = "begun" /\ HomingRuns(b)
    BY DEF HomeOpenStop
  <1>2. cancel' = FALSE /\ UNCHANGED <<link, bringup>> /\ preChecked \in BOOLEAN
    BY DEF HomeOpenStop, IInv, TypeOK
  <1>3. CASE b.ans # "begun"
    BY <1>1, <1>2, <1>3, BegunBody, RefuseKeeps DEF IInv, ReadyIsVerified
  <1>4. CASE b.ans = "begun"
    <2>1. Begins(b, "HomingOpenStop") /\ preChecked
      BY <1>2, <1>4, BegunBody DEF Begins, Entered
    <2>2. ran' = "homing" /\ preChecked' = preChecked
      BY <1>1, <1>4 DEF HomingRuns
    <2>3. QED
      BY <1>1, <1>4, <2>1, <2>2, HomingRunKeeps DEF Begins, Kept, Gated, Unpowered
  <1>5. QED BY <1>3, <1>4

\* A learning run that has begun keeps the invariant and ends without output.
LEMMA LearningRunKeeps ==
  ASSUME IInv, homed, NEW b, Begins(b, "TravelLearning"), LearningRuns(b)
  PROVE  IInv' /\ ~enabled'
  <1> DEFINE Phase == {"TravelLearning", "ActiveStop", "Fault"}
             Fails(m) == \/ Abandon(m, "TravelLearningFailed")
                         \/ /\ m.ans # "error"
                            /\ Return(To(m, "TravelLearningFailed"), "error")
             Succeeds(r) == \E s \in Settled(r) :
                              Return(To(s, "TravelLearningSucceeded"), "ok")
  <1>1. /\ ran' = "learning" /\ preChecked' = preChecked /\ homed' = homed
        /\ health' = health
    BY DEF LearningRuns
  <1>2. PICK m \in Motion(b) :
          \/ Fails(m) /\ UNCHANGED <<learned, profile>>
          \/ /\ m.ans # "error" /\ limits' = "learned"
             /\ \E r \in Motion(m) :
                  \/ Fails(r) /\ UNCHANGED <<learned, seed>>
                  \/ learned' = TRUE /\ SaveSeed("learned") /\ Succeeds(r)
    BY DEF LearningRuns
  <1>3. Sound(m) /\ m.top \in Phase /\ (m.ans # "error" => ~m.on)
    BY MotionBody DEF Keeps, Begins
  <1>4. /\ Phase \subseteq States /\ UNCHANGED <<link, bringup>> /\ connected
        /\ "TravelLearning" \in States
        /\ \A t \in Phase : Dispatch(t, "TravelLearningFailed") \in Latched
    BY OnTravelLearning DEF States, ActiveMotion, Latched, Begins
  <1>5. ASSUME NEW r, Sound(r), r.top \in Phase, r.ans # "error" => ~r.on, Fails(r)
        PROVE  BodyInv' /\ ~enabled'
    <2>1. CASE Abandon(r, "TravelLearningFailed")
      BY <1>4, <1>5, <2>1, AbandonLands
    <2>2. CASE r.ans # "error" /\ Return(To(r, "TravelLearningFailed"), "error")
      <3>1. To(r, "TravelLearningFailed") \in Bodies /\ ~To(r, "TravelLearningFailed").on
            /\ To(r, "TravelLearningFailed").top \in Latched
        BY <1>4, <1>5, <2>2, ToBody DEF Sound, Answers, Replies
      <3>2. To(r, "TravelLearningFailed").top \in Resting \ {"Disconnected", "Ready"}
        BY <3>1 DEF Resting, States, ActiveMotion, Latched
      <3>3. QED BY <1>4, <2>2, <3>1, <3>2, SuccessLands DEF Replies
    <2>3. QED BY <1>5, <2>1, <2>2
  <1>6. CASE Fails(m) /\ UNCHANGED <<learned, profile>>
    <2>1. BodyInv' /\ ~enabled'
      BY <1>3, <1>5, <1>6
    <2>2. QED BY <1>1, <1>6, <2>1, RunKeeps
                 DEF IInv, TypeOK, FlagChain, profile, Motions
  <1>7. CASE /\ m.ans # "error" /\ limits' = "learned"
             /\ \E r \in Motion(m) :
                  \/ Fails(r) /\ UNCHANGED <<learned, seed>>
                  \/ learned' = TRUE /\ SaveSeed("learned") /\ Succeeds(r)
    <2>1. PICK r \in Motion(m) :
            \/ Fails(r) /\ UNCHANGED <<learned, seed>>
            \/ learned' = TRUE /\ SaveSeed("learned") /\ Succeeds(r)
      BY <1>7
    <2>2. Sound(r) /\ r.top \in Phase /\ (r.ans # "error" => ~r.on)
      BY <1>3, <1>4, MotionBody DEF Keeps
    <2>3. BodyInv' /\ ~enabled'
      <3>1. CASE Fails(r)
        BY <1>5, <2>2, <3>1
      <3>2. CASE Succeeds(r)
        <4>1. PICK s \in Settled(r) : Return(To(s, "TravelLearningSucceeded"), "ok")
          BY <3>2
        <4>2. Sound(s) /\ ~s.on /\ s.top \in Phase
          BY <2>2, SettledBody DEF Keeps
        <4>3. /\ To(s, "TravelLearningSucceeded") \in Bodies
              /\ ~To(s, "TravelLearningSucceeded").on
              /\ To(s, "TravelLearningSucceeded").top \in {"Enabled", "ActiveStop", "Fault"}
          BY <1>4, <4>2, ToBody, OnTravelLearning DEF Sound, Bodies, Answers, Replies
        <4>4. To(s, "TravelLearningSucceeded").top \in Resting \ {"Disconnected", "Ready"}
          BY <4>3 DEF Resting, States, ActiveMotion, Latched
        <4>5. QED BY <1>4, <4>1, <4>3, <4>4, SuccessLands DEF Replies
      <3>3. QED BY <2>1, <3>1, <3>2
    <2>4. limits' \in LimitSources /\ seed' \in SeedSources
      BY <1>7, <2>1, Split DEF Rest, SaveSeed, LimitSources, SeedSources
    <2>5. learned' \in BOOLEAN /\ (learned => learned')
      BY <2>1 DEF IInv, TypeOK
    <2>6. QED BY <1>1, <2>3, <2>4, <2>5, RunKeeps DEF IInv, TypeOK, FlagChain, Motions
  <1>8. QED BY <1>2, <1>6, <1>7

\* learnTravelLimits keeps the invariant.
LEMMA LearningKeeps == ASSUME IInv, LearnTravelLimits PROVE Kept
  <1>1. PICK b \in Begun(homed, "TravelLearningRequested") :
          \/ b.ans # "begun" /\ Refuse(b)
          \/ b.ans = "begun" /\ LearningRuns(b)
    BY DEF LearnTravelLimits
  <1>2. cancel' = FALSE /\ UNCHANGED <<link, bringup>> /\ homed \in BOOLEAN
    BY DEF LearnTravelLimits, IInv, TypeOK
  <1>3. CASE b.ans # "begun"
    BY <1>1, <1>2, <1>3, BegunBody, RefuseKeeps DEF IInv, ReadyIsVerified
  <1>4. CASE b.ans = "begun"
    <2>1. Begins(b, "TravelLearning") /\ homed
      BY <1>2, <1>4, BegunBody DEF Begins, Entered
    <2>2. ran' = "learning" /\ homed' = homed
      BY <1>1, <1>4 DEF LearningRuns
    <2>3. QED
      BY <1>1, <1>4, <2>1, <2>2, LearningRunKeeps DEF Begins, Kept, Gated, Unpowered
  <1>5. QED BY <1>3, <1>4

\* A health-check run that has begun keeps the invariant, ends without output
\* and reaches Ready only with its flag set.
LEMMA HealthCheckRunKeeps ==
  ASSUME IInv, learned, NEW b, Begins(b, "MotionHealthCheck"), HealthCheckRuns(b)
  PROVE  IInv' /\ ~enabled'
  <1> DEFINE Phase == {"MotionHealthCheck", "ActiveStop", "Fault"}
  <1>1. /\ ran' = "healthCheck" /\ preChecked' = preChecked /\ homed' = homed
        /\ learned' = learned /\ limits' = limits
    BY DEF HealthCheckRuns
  <1> DEFINE Ends(m) ==
          \/ Abandon(m, "MotionHealthCheckFailed") /\ UNCHANGED <<health, seed>>
          \/ /\ health' = TRUE /\ SaveSeed(limits)
             /\ \E s \in Settled(m) : Return(To(s, "MotionHealthCheckSucceeded"), "ok")
  <1>h. PICK h \in Settled(b) : \E m \in Motion(h) : Ends(m)
    BY DEF HealthCheckRuns
  <1>2. PICK m \in Motion(h) : Ends(m)
    BY <1>h
  <1>3. Sound(h) /\ h.top \in Phase
    BY SettledBody DEF Keeps, Begins
  <1>4. /\ Phase \subseteq States /\ UNCHANGED <<link, bringup>> /\ connected
        /\ "MotionHealthCheck" \in States
        /\ \A t \in Phase : Dispatch(t, "MotionHealthCheckFailed") \in Latched
    BY OnMotionHealthCheck DEF States, ActiveMotion, Latched, Begins
  <1>5. Sound(m) /\ m.top \in Phase
    BY <1>3, <1>4, MotionBody DEF Keeps
  <1>6. BodyInv' /\ ~enabled'
    <2>1. CASE Abandon(m, "MotionHealthCheckFailed")
      BY <1>4, <1>5, <2>1, AbandonLands
    <2>2. CASE /\ health' = TRUE
               /\ \E s \in Settled(m) : Return(To(s, "MotionHealthCheckSucceeded"), "ok")
      <3>1. PICK s \in Settled(m) : Return(To(s, "MotionHealthCheckSucceeded"), "ok")
        BY <2>2
      <3>2. Sound(s) /\ ~s.on /\ s.top \in Phase
        BY <1>5, SettledBody DEF Keeps
      <3>3. /\ To(s, "MotionHealthCheckSucceeded") \in Bodies
            /\ ~To(s, "MotionHealthCheckSucceeded").on
            /\ To(s, "MotionHealthCheckSucceeded").top \in {"Ready", "ActiveStop", "Fault"}
        BY <1>4, <3>2, ToBody, OnMotionHealthCheck DEF Sound, Bodies, Answers, Replies
      <3>4. To(s, "MotionHealthCheckSucceeded").top \in Resting \ {"Disconnected"}
        BY <3>3 DEF Resting, States, ActiveMotion, Latched
      <3>5. QED BY <1>4, <2>2, <3>1, <3>3, <3>4, SuccessLands DEF Replies
    <2>3. QED BY <1>2, <2>1, <2>2
  <1>7. /\ seed' \in SeedSources /\ health' \in BOOLEAN
    BY <1>2, Split DEF Rest, SaveSeed, SeedSources
  <1>8. QED BY <1>1, <1>6, <1>7, RunKeeps DEF IInv, TypeOK, FlagChain, Motions

\* runMotionHealthCheck keeps the invariant.
LEMMA HealthCheckKeeps == ASSUME IInv, RunMotionHealthCheck PROVE Kept
  <1>1. PICK b \in Begun(learned, "MotionHealthCheckRequested") :
          \/ b.ans # "begun" /\ Refuse(b)
          \/ b.ans = "begun" /\ HealthCheckRuns(b)
    BY DEF RunMotionHealthCheck
  <1>2. cancel' = FALSE /\ UNCHANGED <<link, bringup>> /\ learned \in BOOLEAN
    BY DEF RunMotionHealthCheck, IInv, TypeOK
  <1>3. CASE b.ans # "begun"
    BY <1>1, <1>2, <1>3, BegunBody, RefuseKeeps DEF IInv, ReadyIsVerified
  <1>4. CASE b.ans = "begun"
    <2>1. Begins(b, "MotionHealthCheck") /\ learned
      BY <1>2, <1>4, BegunBody DEF Begins, Entered
    <2>2. ran' = "healthCheck" /\ learned' = learned
      BY <1>1, <1>4 DEF HealthCheckRuns
    <2>3. QED
      BY <1>1, <1>4, <2>1, <2>2, HealthCheckRunKeeps DEF Begins, Kept, Gated, Unpowered
  <1>5. QED BY <1>3, <1>4

\* A clamp that has begun keeps the invariant, given that its motions leave the
\* output on only when they report an error.
LEMMA ClampRunKeeps ==
  ASSUME IInv, learned, health, NEW b, Begins(b, "Clamping"),
         UNCHANGED <<flags, profile>>,
         NEW motions, NEW success, success \subseteq {"contact", "reached"},
         \A m \in motions : Keeps(m, b) /\ (m.ans # "error" => ~m.on),
         ClampRuns(motions, success)
  PROVE  Kept
  <1> DEFINE Phase == {"Clamping", "ActiveStop", "Fault"}
             Done(m) == To(To(m, "ClampCompleted"), "DisableCompleted")
  <1>1. PICK m \in motions : \/ Abandon(m, "ClampFailed")
                             \/ m.ans # "error" /\ Return(Done(m), "ok")
    BY DEF ClampRuns
  <1>2. ran' = "clamp"
    BY DEF ClampRuns
  <1>3. Sound(m) /\ m.top \in Phase /\ (m.ans # "error" => ~m.on)
    BY DEF Keeps, Begins
  <1>4. /\ Phase \subseteq States /\ UNCHANGED <<link, bringup>>
        /\ "Clamping" \in States
        /\ \A t \in Phase : Dispatch(t, "ClampFailed") \in Latched
    BY OnClamp DEF States, ActiveMotion, Latched, Begins
  <1>5. BodyInv' /\ ~enabled'
    <2>1. CASE Abandon(m, "ClampFailed")
      BY <1>3, <1>4, <2>1, AbandonLands
    <2>2. CASE m.ans # "error" /\ Return(Done(m), "ok")
      <3>1. /\ To(m, "ClampCompleted") \in Bodies /\ ~To(m, "ClampCompleted").on
            /\ To(m, "ClampCompleted").top \in {"Unloading", "ActiveStop", "Fault"}
        BY <1>3, <1>4, <2>2, ToBody, OnClamp DEF Sound, Bodies, Answers, Replies
      <3>2. /\ Done(m) \in Bodies /\ ~Done(m).on
            /\ Done(m).top \in {"Disabled", "ActiveStop", "Fault"}
        BY <3>1, ToBody, OnConnection
           DEF Bodies, Answers, Replies, States, ActiveMotion, Latched
      <3>3. Done(m).top \in Resting \ {"Disconnected", "Ready"}
        BY <3>2 DEF Resting, States, ActiveMotion, Latched
      <3>4. QED BY <1>4, <2>2, <3>2, <3>3, SuccessLands DEF Replies
    <2>3. QED BY <1>1, <2>1, <2>2
  <1>6. IInv'
    BY <1>2, <1>5, RunKeeps DEF IInv, TypeOK, FlagChain, flags, profile, Motions
  <1>7. QED
    BY <1>2, <1>5, <1>6 DEF Kept, Gated, Unpowered, Begins, flags

\* clampByForce keeps the invariant.
LEMMA ClampByForceKeeps == ASSUME IInv, ClampByForce PROVE Kept
  <1>1. PICK b \in ClampBegun :
          \/ b.ans # "begun" /\ Refuse(b)
          \/ b.ans = "begun" /\ ClampRuns(ApproachAndPress(b), {"contact"})
    BY DEF ClampByForce
  <1>2. cancel' = FALSE /\ UNCHANGED <<link, bringup, flags, profile>>
    BY DEF ClampByForce
  <1>3. CASE b.ans # "begun"
    BY <1>1, <1>2, <1>3, ClampBegunBody, RefuseKeeps
  <1>4. CASE b.ans = "begun"
    <2>1. Begins(b, "Clamping") /\ learned /\ health
      BY <1>2, <1>4, ClampBegunBody DEF Begins
    <2>2. ASSUME NEW a \in Motion(b)
          PROVE  /\ Keeps(a, b) /\ (a.ans # "error" => ~a.on)
                 /\ \A m \in Motion(a) : Keeps(m, b) /\ (m.ans # "error" => ~m.on)
      BY <2>1, MotionBody DEF Begins, Keeps
    <2>3. \A m \in ApproachAndPress(b) : Keeps(m, b) /\ (m.ans # "error" => ~m.on)
      BY <2>2 DEF ApproachAndPress
    <2>4. QED BY <1>1, <1>2, <1>4, <2>1, <2>3, ClampRunKeeps
  <1>5. QED BY <1>3, <1>4

\* clampBySpeed keeps the invariant.
LEMMA ClampBySpeedKeeps == ASSUME IInv, ClampBySpeed PROVE Kept
  <1>1. PICK b \in ClampBegun :
          \/ b.ans # "begun" /\ Refuse(b)
          \/ b.ans = "begun" /\ ClampRuns(Motion(b), {"contact", "reached"})
    BY DEF ClampBySpeed
  <1>2. cancel' = FALSE /\ UNCHANGED <<link, bringup, flags, profile>>
    BY DEF ClampBySpeed
  <1>3. CASE b.ans # "begun"
    BY <1>1, <1>2, <1>3, ClampBegunBody, RefuseKeeps
  <1>4. CASE b.ans = "begun"
    <2>1. Begins(b, "Clamping") /\ learned /\ health
      BY <1>2, <1>4, ClampBegunBody DEF Begins
    <2>2. \A m \in Motion(b) : Keeps(m, b) /\ (m.ans # "error" => ~m.on)
      BY <2>1, MotionBody DEF Begins
    <2>3. QED BY <1>1, <1>2, <1>4, <2>1, <2>2, ClampRunKeeps
  <1>5. QED BY <1>3, <1>4

\* Replaying the health-check events turns Enabled into Ready and nothing else.
LEMMA ReplayBody ==
  ASSUME NEW b \in Bodies
  PROVE  LET r == ReplayHealthCheck(b)
         IN  /\ r \in Bodies /\ r.on = b.on /\ r.ans = b.ans
             /\ r.top = IF b.top = "Enabled" THEN "Ready" ELSE b.top
  <1>1. b.top \in States /\ b.ans \in Answers
    BY DEF Bodies
  <1>2. CASE b.top = "Enabled"
    <2> DEFINE q == To(b, "MotionHealthCheckRequested")
    <2>1. q \in Bodies /\ q.top = "MotionHealthCheck" /\ q.on = b.on /\ q.ans = b.ans
      BY <1>1, <1>2, ToBody, OnMotionHealthCheck
    <2>2. To(q, "MotionHealthCheckSucceeded") \in Bodies
          /\ To(q, "MotionHealthCheckSucceeded").top = "Ready"
          /\ To(q, "MotionHealthCheckSucceeded").on = b.on
          /\ To(q, "MotionHealthCheckSucceeded").ans = b.ans
      BY <1>1, <2>1, ToBody, OnMotionHealthCheck DEF Bodies
    <2>3. QED BY <1>2, <2>2 DEF ReplayHealthCheck
  <1>3. CASE b.top # "Enabled"
    BY <1>3 DEF ReplayHealthCheck
  <1>4. QED BY <1>2, <1>3

\* A release that has begun keeps the invariant and ends without output.
LEMMA ReleaseRunKeeps ==
  ASSUME IInv, NEW b, Begins(b, "Ready"), UNCHANGED <<flags, profile>>,
         ReleaseRuns(b)
  PROVE  Kept
  <1> DEFINE Phase == {"Releasing", "ActiveStop", "Fault"}
             begun == To(b, "ReleaseRequested")
             Ended(m) == To(To(m, "ReleaseCompleted"), "DisableRequested")
             Done(m) == To(Ended(m), "DisableCompleted")
  <1>1. PICK m \in Motion(begun) : \/ Abandon(m, "ReleaseFailed")
                                   \/ m.ans # "error" /\ Return(Done(m), "ok")
    BY DEF ReleaseRuns
  <1>2. ran' = "release"
    BY DEF ReleaseRuns
  <1>3. Sound(begun) /\ begun.top = "Releasing"
    <2>1. b \in Bodies /\ b.top \in States /\ "ok" \in Answers
      BY DEF Begins, Sound, Bodies, Answers, Replies
    <2>2. begun \in Bodies /\ begun.top = "Releasing" /\ begun.on = b.on
      BY <2>1, ToBody, OnRelease DEF Begins
    <2>3. QED BY <2>2 DEF Begins, Sound
  <1>4. Sound(m) /\ m.top \in Phase /\ (m.ans # "error" => ~m.on)
    BY <1>3, MotionBody DEF Keeps, Begins
  <1>5. /\ Phase \subseteq States /\ UNCHANGED <<link, bringup>>
        /\ "Releasing" \in States
        /\ \A t \in Phase : Dispatch(t, "ReleaseFailed") \in Latched
    BY OnRelease DEF States, ActiveMotion, Latched, Begins
  <1>6. BodyInv' /\ ~enabled'
    <2>1. CASE Abandon(m, "ReleaseFailed")
      BY <1>4, <1>5, <2>1, AbandonLands
    <2>2. CASE m.ans # "error" /\ Return(Done(m), "ok")
      <3>1. /\ To(m, "ReleaseCompleted") \in Bodies /\ ~To(m, "ReleaseCompleted").on
            /\ To(m, "ReleaseCompleted").top \in {"Ready", "ActiveStop", "Fault"}
        BY <1>4, <1>5, <2>2, ToBody, OnRelease DEF Sound, Bodies, Answers, Replies
      <3>2. /\ Ended(m) \in Bodies /\ ~Ended(m).on
            /\ Ended(m).top \in {"Disabled", "ActiveStop", "Fault"}
        BY <3>1, ToBody, OnConnection
           DEF Bodies, Answers, Replies, States, ActiveMotion, Latched
      <3>3. /\ Done(m) \in Bodies /\ ~Done(m).on
            /\ Done(m).top \in {"Disabled", "ActiveStop", "Fault"}
        BY <3>2, ToBody, OnConnection
           DEF Bodies, Answers, Replies, States, ActiveMotion, Latched
      <3>4. Done(m).top \in Resting \ {"Disconnected", "Ready"}
        BY <3>3 DEF Resting, States, ActiveMotion, Latched
      <3>5. QED BY <1>5, <2>2, <3>3, <3>4, SuccessLands DEF Replies
    <2>3. QED BY <1>1, <2>1, <2>2
  <1>7. IInv'
    BY <1>2, <1>6, RunKeeps DEF IInv, TypeOK, FlagChain, flags, profile, Motions
  <1>8. QED
    BY <1>2, <1>6, <1>7 DEF Kept, Gated, Unpowered, Begins

\* release keeps the invariant.
LEMMA ReleaseKeeps == ASSUME IInv, Release PROVE Kept
  <1>1. cancel' = FALSE /\ UNCHANGED <<link, bringup, flags, profile>>
    BY DEF Release
  <1>2. CASE Refuse(Answer(Here, "error"))
    <2>1. Idle(Answer(Here, "error")) /\ Answer(Here, "error").ans = "error"
          /\ Answer(Here, "error").top = topState
      BY HereIdle, ToBody DEF Idle, Sound, Answers, Replies
    <2>2. QED BY <1>1, <1>2, <2>1, RefuseKeeps DEF IInv, ReadyIsVerified, Replies
  <1>3. CASE /\ configured /\ connected /\ ~bringup
             /\ \E e \in IF enabled THEN {Here} ELSE Enabling(Here) :
                LET r == ReplayHealthCheck(e)
                IN  \/ e.ans # "ok" /\ Refuse(e)
                    \/ /\ e.ans = "ok" /\ ~Accepts(r.top, "ReleaseRequested")
                       /\ Refuse(Answer(r, "rejected"))
                    \/ /\ e.ans = "ok" /\ Accepts(r.top, "ReleaseRequested")
                       /\ ReleaseRuns(r)
    <2> DEFINE r(e) == ReplayHealthCheck(e)
    <2>1. PICK e \in IF enabled THEN {Here} ELSE Enabling(Here) :
            \/ e.ans # "ok" /\ Refuse(e)
            \/ /\ e.ans = "ok" /\ ~Accepts(r(e).top, "ReleaseRequested")
               /\ Refuse(Answer(r(e), "rejected"))
            \/ /\ e.ans = "ok" /\ Accepts(r(e).top, "ReleaseRequested")
               /\ ReleaseRuns(r(e))
      BY <1>3
    <2>2. /\ Idle(e) /\ e.ans \in Replies
          /\ e.top = "Ready" => topState = "Ready"
          /\ e.ans = "ok" => e = Here \/ topState \notin Latched
      BY <1>3, HereIdle, EnablingBody DEF Idle, Replies
    <2>3. topState = "Ready" => health
      BY DEF IInv, ReadyIsVerified
    <2>4. /\ r(e) \in Bodies /\ r(e).on = e.on /\ e.ans \in Answers /\ e.top \in States
          /\ r(e).top = IF e.top = "Enabled" THEN "Ready" ELSE e.top
      BY <2>2, ReplayBody DEF Idle, Sound, Bodies
    <2>5. Accepts(r(e).top, "ReleaseRequested") <=> r(e).top = "Ready"
      BY <2>4, OnRelease DEF Bodies
    <2>6. CASE e.ans # "ok"
      BY <1>1, <2>1, <2>2, <2>3, <2>6, RefuseKeeps
    <2>7. CASE e.ans = "ok" /\ r(e).top # "Ready"
      <3>1. Refuse(Answer(r(e), "rejected"))
        BY <2>1, <2>5, <2>7
      <3>2. LET a == Answer(r(e), "rejected")
            IN  a \in Bodies /\ a.top = e.top /\ a.on = e.on /\ a.ans = "rejected"
        BY <2>4, <2>7, ToBody DEF Answers, Replies
      <3>3. Idle(Answer(r(e), "rejected"))
        BY <2>2, <3>2 DEF Idle, Sound
      <3>4. QED BY <1>1, <2>2, <2>3, <3>1, <3>2, <3>3, RefuseKeeps DEF Replies
    <2>8. CASE e.ans = "ok" /\ r(e).top = "Ready"
      <3>1. ReleaseRuns(r(e))
        BY <2>1, <2>5, <2>8
      <3>2. topState \notin Latched
        BY <2>2, <2>4, <2>8, HereIdle DEF Latched
      <3>3. Begins(r(e), "Ready")
        BY <1>1, <1>3, <2>2, <2>4, <2>8, <3>2 DEF Begins, Idle, Sound
      <3>4. QED BY <1>1, <3>1, <3>3, ReleaseRunKeeps
    <2>9. QED BY <2>6, <2>7, <2>8
  <1>4. QED BY <1>2, <1>3 DEF Release

\* Whatever ends a positioning run, the body is sound; a safety stop is in a
\* latched state.
LEMMA PositioningBody ==
  ASSUME NEW b, Sound(b), connected, b.top # "Fault", NEW m \in Positioning(b)
  PROVE  Keeps(m, b) /\ m.ans \in {"safetyStop", "failed", "reached"}
  <1> DEFINE Ends == {"safetyStop", "failed", "reached"}
  <1>1. PICK i \in Interrupted(b) \union Settled(b) \union Observed(Off(b)),
             a \in Ends : m = Answer(i, a)
    BY DEF Positioning
  <1>2. Sound(Off(b)) /\ Off(b).top = b.top
    BY OffBody
       DEF Keeps
  <1>3. Keeps(i, b)
    <2>1. CASE i \in Interrupted(b)
      BY <2>1, InterruptedBody
    <2>2. CASE i \in Settled(b)
      BY <2>2, SettledBody
    <2>3. CASE i \in Observed(Off(b))
      BY <1>2, <2>3, ObservedBody DEF Keeps
    <2>4. QED BY <1>1, <2>1, <2>2, <2>3
  <1>4. i \in Bodies /\ a \in Answers
    BY <1>3 DEF Keeps, Sound, Answers
  <1>5. m \in Bodies /\ m.top = i.top /\ m.on = i.on /\ m.ans = a
    BY <1>1, <1>4, ToBody
  <1>6. QED BY <1>1, <1>3, <1>5 DEF Keeps, Sound

\* A manual move that has begun keeps the invariant; its output may stay on.
LEMMA ManualMoveRunKeeps ==
  ASSUME IInv, preChecked, NEW x \in {"Enabled", "Ready"}, NEW b, Begins(b, x),
         UNCHANGED <<flags, profile>>, ManualMoveRuns(b)
  PROVE  Kept
  <1> DEFINE Phase == {"ManualPositioning", "ActiveStop", "Fault"}
             begun == To(b, "MoveNutStrokeRequested")
             Failed(m) == To(m, "MoveNutStrokeFailed")
             Done(m) == To(To(m, "MoveNutStrokeCompleted"), "DisableCompleted")
  <1>1. PICK m \in Positioning(begun) :
          \/ Return(Failed(m), "error")
          \/ Return(Done(m), "ok") \/ Return(Done(m), "error")
    BY DEF ManualMoveRuns
  <1>2. ran' = "manualMove"
    BY DEF ManualMoveRuns
  <1>3. Sound(begun) /\ begun.top = "ManualPositioning"
    <2>1. b \in Bodies /\ b.top \in States /\ "ok" \in Answers
      BY DEF Begins, Sound, Bodies, Answers, Replies
    <2>2. begun \in Bodies /\ begun.top = "ManualPositioning" /\ begun.on = b.on
      BY <2>1, ToBody, OnMoveNutStroke DEF Begins
    <2>3. QED BY <2>2 DEF Begins, Sound
  <1>4. Sound(m) /\ m.top \in Phase
    BY <1>3, PositioningBody DEF Keeps, Begins
  <1>5. Phase \subseteq States /\ UNCHANGED <<link, bringup>> /\ "ok" \in Answers
        /\ ~bringup /\ connected
    BY DEF States, ActiveMotion, Latched, Begins, Answers, Replies
  <1>6. /\ Failed(m) \in Bodies /\ Failed(m).top \in Latched /\ Failed(m).on = m.on
        /\ Failed(m).top = "Fault" => m.top = "Fault"
    BY <1>4, <1>5, ToBody, OnMoveNutStroke DEF Sound, Latched
  <1>7. /\ Done(m) \in Bodies /\ Done(m).top \in {"Disabled", "ActiveStop", "Fault"}
        /\ Done(m).on = m.on /\ (Done(m).top = "Fault" => m.top = "Fault")
    <2> DEFINE q == To(m, "MoveNutStrokeCompleted")
    <2>1. q \in Bodies /\ q.on = m.on
          /\ q.top = IF m.top = "ManualPositioning" THEN "Unloading" ELSE m.top
      BY <1>4, <1>5, ToBody, OnMoveNutStroke DEF Sound
    <2>2. q.top \in States
      BY <2>1 DEF Bodies
    <2>3. Done(m) \in Bodies /\ Done(m).on = q.on
          /\ Done(m).top = IF q.top = "Unloading" THEN "Disabled" ELSE q.top
      BY <1>5, <2>1, <2>2, ToBody, OnConnection
    <2>4. QED BY <1>4, <2>1, <2>3
  <1>8. \A d \in {Failed(m), Done(m)} :
          Idle(d) /\ d.top # "Ready"
    BY <1>4, <1>5, <1>6, <1>7
       DEF Idle, Sound, Resting, States, ActiveMotion, Latched
  <1>9. BodyInv'
    BY <1>1, <1>5, <1>8, Lands DEF Replies
  <1>10. IInv'
    BY <1>2, <1>9, RunKeeps DEF IInv, TypeOK, FlagChain, flags, profile, Motions
  <1>11. QED BY <1>2, <1>10 DEF Kept, Gated, Unpowered, Begins, flags

\* moveToNutStroke keeps the invariant.
LEMMA MoveToNutStrokeKeeps == ASSUME IInv, MoveToNutStroke PROVE Kept
  <1>1. cancel' = FALSE /\ UNCHANGED <<link, bringup, flags, profile>>
    BY DEF MoveToNutStroke
  <1>2. CASE Refuse(Answer(Here, "error"))
    <2>1. Idle(Answer(Here, "error")) /\ Answer(Here, "error").ans = "error"
          /\ Answer(Here, "error").top = topState
      BY HereIdle, ToBody DEF Idle, Sound, Answers, Replies
    <2>2. QED BY <1>1, <1>2, <2>1, RefuseKeeps DEF IInv, ReadyIsVerified, Replies
  <1>3. CASE ~Refuse(Answer(Here, "error"))
    <2> DEFINE p(e) == IF e.top = "Disabled" THEN To(e, "EnableSucceeded") ELSE e
    <2>1. configured /\ connected /\ ~bringup /\ preChecked
      BY <1>3 DEF MoveToNutStroke
    <2>2. PICK e \in EnsureEnabled(Here) :
            \/ e.ans # "ok" /\ Refuse(e)
            \/ e.ans = "ok" /\ p(e).top \notin {"Enabled", "Ready"}
               /\ Refuse(Answer(p(e), "error"))
            \/ e.ans = "ok" /\ p(e).top \in {"Enabled", "Ready"}
               /\ ManualMoveRuns(p(e))
      BY <1>3 DEF MoveToNutStroke
    <2>3. /\ Idle(e) /\ e.ans \in Replies
          /\ e.top = "Ready" => topState = "Ready"
          /\ e.ans = "ok" => topState \notin Latched
      BY EnsureEnabledBody
    <2>4. topState = "Ready" => health
      BY DEF IInv, ReadyIsVerified
    <2>5. /\ p(e) \in Bodies /\ p(e).on = e.on /\ e.ans \in Answers
          /\ p(e).top = IF e.top = "Disabled" THEN "Enabled" ELSE e.top
      BY <2>3, ToBody, OnEnabling DEF Idle, Sound, Bodies
    <2>6. CASE e.ans # "ok"
      BY <1>1, <2>2, <2>3, <2>4, <2>6, RefuseKeeps
    <2>7. CASE e.ans = "ok" /\ p(e).top \notin {"Enabled", "Ready"}
      <3>1. Refuse(Answer(p(e), "error"))
        BY <2>2, <2>7
      <3>2. LET a == Answer(p(e), "error")
            IN  a \in Bodies /\ a.top = e.top /\ a.on = e.on /\ a.ans = "error"
        BY <2>5, <2>7, ToBody DEF Answers, Replies
      <3>3. Idle(Answer(p(e), "error"))
        BY <2>3, <3>2 DEF Idle, Sound
      <3>4. QED BY <1>1, <2>3, <2>4, <3>1, <3>2, <3>3, RefuseKeeps DEF Replies
    <2>8. CASE e.ans = "ok" /\ p(e).top \in {"Enabled", "Ready"}
      <3>1. ManualMoveRuns(p(e))
        BY <2>2, <2>8
      <3>2. Begins(p(e), p(e).top)
        BY <1>1, <2>1, <2>3, <2>5, <2>8 DEF Begins, Idle, Sound
      <3>3. QED BY <1>1, <2>1, <2>8, <3>1, <3>2, ManualMoveRunKeeps
    <2>9. QED BY <2>6, <2>7, <2>8
  <1>4. QED BY <1>2, <1>3

-----------------------------------------------------------------------------
(* The calls that drive no motion. *)

\* A call that returns with an idle body, and leaves the link, the mode, the
\* flags and the limits alone, keeps the invariant.
LEMMA CallKeeps ==
  ASSUME IInv, NEW m, Idle(m), NEW a \in Replies, m.top = "Ready" => health,
         Return(m, a), ran' = "none", cancel' \in BOOLEAN,
         UNCHANGED <<link, bringup, flags, profile>>
  PROVE  Kept
  <1>1. BodyInv'
    BY Lands DEF flags
  <1>2. QED
    BY <1>1 DEF Kept, IInv, TypeOK, FlagChain, BodyInv, Gated, Unpowered, flags,
                profile, link, Motions

\* The body with the output switched off is one to return with.
LEMMA OffIdle ==
  ASSUME IInv
  PROVE  /\ Idle(Off(Here)) /\ Off(Here) \in Bodies /\ ~Off(Here).on
         /\ Off(Here).top = topState /\ Off(Here).ans = "ok"
         /\ Off(Here).flt = motorFault
         /\ topState \in Resting /\ Resting \subseteq States
  BY HereIdle, OffBody DEF Idle, Keeps, Sound, Resting

\* stop keeps the invariant.
LEMMA StopKeeps == ASSUME IInv, Stop PROVE Kept
  <1> DEFINE m == To(Off(Here), "StopRequested")
  <1>1. m \in Bodies /\ m.top = "ActiveStop" /\ ~m.on
    <2>1. Off(Here) \in Bodies /\ ~Off(Here).on /\ "ok" \in Answers
      BY OffIdle DEF Answers, Replies
    <2>2. m \in Bodies /\ m.top = Dispatch(Off(Here).top, "StopRequested")
          /\ m.on = Off(Here).on
      BY <2>1, ToBody
    <2>3. QED BY <2>1, <2>2, DispatchGlobal
  <1>2. Idle(m)
    BY <1>1 DEF Idle, Sound, Resting, States, ActiveMotion, Latched
  <1>3. QED BY <1>1, <1>2, CallKeeps DEF Stop, Replies

\* clearFault keeps the invariant.
LEMMA ClearFaultKeeps == ASSUME IInv, ClearFault PROVE Kept
  <1> DEFINE Motor == IF connected
                      THEN {Here, Off(Here), Body(topState, FALSE, FALSE, "ok")}
                      ELSE {Here}
             Left(m) == IF topState \in Latched THEN To(m, "FaultCleared") ELSE m
  <1>1. PICK m \in Motor : Return(Left(m), "ok")
    BY DEF ClearFault
  <1>2. m \in Bodies /\ m.top = topState /\ (m.on => enabled) /\ Idle(m)
    <2>1. LET c == Body(topState, FALSE, FALSE, "ok")
          IN  c \in Bodies /\ c.top = topState /\ ~c.on
      BY OffIdle DEF Body, Bodies, Answers, Replies
    <2>2. QED BY <2>1, HereIdle, OffIdle DEF Idle, Sound
  <1>3. /\ Left(m) \in Bodies /\ Left(m).on = m.on
        /\ Left(m).top = IF topState \in Latched THEN "Disabled" ELSE topState
    BY <1>2, ToBody, OffIdle, OnConnection DEF Answers, Replies, Latched
  <1>4. Idle(Left(m)) /\ (Left(m).top = "Ready" => health)
    BY <1>2, <1>3
       DEF Idle, Sound, Resting, States, ActiveMotion, Latched, IInv, ReadyIsVerified
  <1>5. QED
    BY <1>1, <1>4, CallKeeps DEF ClearFault, Replies, IInv, TypeOK

\* update keeps the invariant.
LEMMA UpdateKeeps == ASSUME IInv, Update PROVE Kept
  <1>1. PICK b \in {Here} \union Observed(Here), a \in {"ok", "error"} : Return(b, a)
    BY DEF Update
  <1>2. Sound(b) /\ b.top \in {topState, "Fault"}
    <2>1. Sound(Here) /\ Here.top = topState
      BY HereIdle DEF Idle
    <2>2. CASE b = Here
      BY <2>1, <2>2
    <2>3. CASE b \in Observed(Here)
      BY <2>1, <2>3, ObservedBody DEF Keeps
    <2>4. QED BY <1>1, <2>2, <2>3
  <1>3. Idle(b) /\ (b.top = "Ready" => health)
    BY <1>2, OffIdle
       DEF Idle, Resting, States, ActiveMotion, Latched, IInv, ReadyIsVerified
  <1>4. QED BY <1>1, <1>3, CallKeeps DEF Update, Replies, IInv, TypeOK

\* disable keeps the invariant.
LEMMA DisableKeeps == ASSUME IInv, Disable PROVE Kept
  <1> DEFINE asked == IF topState \in {"Ready", "Unloading"}
                      THEN To(To(Off(Here), "DisableRequested"), "DisableCompleted")
                      ELSE IF topState # "Disconnected"
                      THEN To(Off(Here), "DisableRequested")
                      ELSE Off(Here)
  <1>1. PICK b \in {Off(Here)} \union Sampled(asked), a \in {"ok", "error"} :
          Return(b, a)
    BY DEF Disable, Sampled
  <1>2. /\ asked \in Bodies /\ ~asked.on
        /\ asked.top \in {topState, "Disabled"}
    <2> DEFINE q == To(Off(Here), "DisableRequested")
    <2>1. /\ q \in Bodies /\ q.on = Off(Here).on /\ q.ans = "ok"
          /\ q.top \in {topState, "Disabled"}
      BY OffIdle, ToBody, OnConnection DEF Answers, Replies
    <2>2. q.top # "Unloading"
      BY <2>1, OffIdle DEF Resting, ActiveMotion
    <2>3. /\ To(q, "DisableCompleted") \in Bodies
          /\ To(q, "DisableCompleted").on = q.on
          /\ To(q, "DisableCompleted").top = q.top
      BY <2>1, <2>2, ToBody, OnConnection DEF Bodies, Answers, Replies
    <2>4. QED BY <2>1, <2>3, OffIdle
  <1>3. Sound(asked)
    BY <1>2 DEF Sound
  <1>4. Sound(b) /\ b.top \in {topState, "Disabled", "Fault"}
    BY <1>2, <1>3, ObservedBody, OffIdle DEF Idle, Keeps
  <1>5. Idle(b) /\ (b.top = "Ready" => health)
    BY <1>4, OffIdle
       DEF Idle, Resting, States, ActiveMotion, Latched, IInv, ReadyIsVerified
  <1>6. QED BY <1>1, <1>5, CallKeeps DEF Disable, Replies

\* enable keeps the invariant.
LEMMA EnableKeeps == ASSUME IInv, Enable PROVE Kept
  <1>1. /\ ran' = "none" /\ UNCHANGED <<link, bringup, flags, profile>>
        /\ cancel' \in BOOLEAN
    BY DEF Enable, IInv, TypeOK
  <1>2. CASE Return(Here, "error")
    BY <1>1, <1>2, HereIdle, CallKeeps DEF IInv, ReadyIsVerified, Replies
  <1>3. CASE connected /\ \E b \in Enabling(Here) : Return(b, b.ans)
    <2>1. PICK b \in Enabling(Here) : Return(b, b.ans)
      BY <1>3
    <2>2. Idle(b) /\ b.ans \in Replies /\ (b.top = "Ready" => topState = "Ready")
      BY <1>3, HereIdle, EnablingBody DEF Idle
    <2>3. QED BY <1>1, <2>1, <2>2, CallKeeps DEF IInv, ReadyIsVerified
  <1>4. QED BY <1>2, <1>3 DEF Enable

\* A fault of the device keeps the invariant.
LEMMA MotorFaultsKeeps == ASSUME IInv, MotorFaults PROVE Kept
  BY DEF MotorFaults, Kept, IInv, TypeOK, FlagChain, LinkInv, RestsBetweenCalls,
         ReadyIsVerified, FaultIsUnpowered, DisconnectedMeansClosed, Gated, Unpowered,
         link, flags, profile, Motions

\* configure keeps the invariant: nothing is connected before the first one.
LEMMA ConfigureKeeps == ASSUME IInv, Configure PROVE Kept
  <1>1. /\ topState' = "Disconnected" /\ configured' = TRUE /\ bringup' = FALSE
        /\ limits' = "conservative" /\ seed' = Moved(seed)
        /\ reply' = "ok" /\ ran' = "none"
        /\ UNCHANGED <<connected, enabled, motorFault, cancel, flags>>
        /\ Reconfigurable \/ ~configured
    BY DEF Configure
  <1>2. seed' \in SeedSources /\ limits' \in LimitSources
    BY <1>1 DEF IInv, TypeOK, Moved, SeedSources, LimitSources
  <1>3. QED
    BY <1>1, <1>2
       DEF Kept, IInv, TypeOK, FlagChain, LinkInv, RestsBetweenCalls, ReadyIsVerified,
           FaultIsUnpowered, DisconnectedMeansClosed, Gated, Unpowered, flags, Motions,
           Replies, States, ActiveMotion

\* connect keeps the invariant.
LEMMA ConnectKeeps == ASSUME IInv, Connect PROVE Kept
  <1> DEFINE failed == Answer(To(Off(Here), "ConnectFailed"), "error")
             opened == To(Off(Here), "ConnectSucceeded")
  <1>1. UNCHANGED <<configured, cancel, bringup>>
    BY DEF Connect
  <1>2. CASE connected' = connected /\ Refuse(Answer(Here, "error"))
    <2>1. Idle(Answer(Here, "error")) /\ Answer(Here, "error").ans = "error"
          /\ Answer(Here, "error").top = topState
      BY HereIdle, ToBody DEF Idle, Sound, Answers, Replies
    <2>2. cancel' \in BOOLEAN /\ UNCHANGED <<link, bringup>>
      BY <1>1, <1>2 DEF link, IInv, TypeOK
    <2>3. QED BY <1>2, <2>1, <2>2, RefuseKeeps DEF IInv, ReadyIsVerified, Replies
  <1>3. CASE connected' = FALSE /\ Refuse(failed)
    <2>1. failed.top = topState /\ ~failed.on /\ failed.flt = motorFault
          /\ failed.ans = "error"
      <3>1. LET c == To(Off(Here), "ConnectFailed")
            IN  c \in Bodies /\ c.top = topState /\ c.on = Off(Here).on
                /\ c.flt = motorFault
        BY OffIdle, ToBody, DispatchIgnored DEF IgnoredEvents, Answers, Replies
      <3>2. QED BY <3>1, OffIdle, ToBody DEF Answers, Replies
    <2>2. /\ topState' = topState /\ ~enabled' /\ motorFault' = motorFault
          /\ enabled' \in BOOLEAN
          /\ reply' = "error" /\ ran' = "none" /\ UNCHANGED <<flags, profile>>
      <3>1. failed.on = FALSE
        BY OffIdle DEF Answer, To, Body, Off, Output
      <3>2. QED BY <1>3, <2>1, <3>1 DEF Refuse, Return
    <2>3. QED
      BY <1>1, <1>3, <2>2
         DEF Kept, IInv, TypeOK, FlagChain, LinkInv, RestsBetweenCalls, ReadyIsVerified,
             FaultIsUnpowered, DisconnectedMeansClosed, Gated, Unpowered, flags, profile,
             Motions, Replies
  <1>4. CASE /\ configured /\ connected' = TRUE
             /\ ran' = "none" /\ UNCHANGED <<flags, profile>>
             /\ \E a \in Replies : Return(opened, a)
    <2>1. /\ opened \in Bodies /\ opened.on = FALSE /\ opened.flt = motorFault
          /\ opened.top = IF topState = "Disconnected" THEN "Connected" ELSE topState
      <3>1. opened.on = FALSE
        BY DEF To, Body, Off, Output
      <3>2. QED BY <3>1, OffIdle, ToBody, OnConnection DEF Answers, Replies
    <2>2. /\ topState' # "Disconnected" /\ topState' \in {topState, "Connected"}
          /\ enabled' = FALSE /\ motorFault' = motorFault /\ reply' \in Replies
      BY <1>4, <2>1 DEF Return
    <2>3. QED
      BY <1>1, <1>4, <2>2
         DEF Kept, IInv, TypeOK, FlagChain, LinkInv, RestsBetweenCalls, ReadyIsVerified,
             FaultIsUnpowered, DisconnectedMeansClosed, Gated, Unpowered, flags, profile,
             Motions, States, ActiveMotion
  <1>5. QED BY <1>2, <1>3, <1>4 DEF Connect, Replies

\* disconnect keeps the invariant.
LEMMA DisconnectKeeps == ASSUME IInv, Disconnect PROVE Kept
  <1> DEFINE m == To(Off(Here), "DisconnectRequested")
  <1>1. PICK a \in {"ok", "error"} : Return(m, a)
    BY DEF Disconnect
  <1>2. m.on = FALSE /\ m.flt = motorFault /\ m.top = "Disconnected"
    BY DispatchGlobal DEF To, Body, Off, Output, Here
  <1>3. /\ topState' = "Disconnected" /\ enabled' = FALSE /\ motorFault' = motorFault
        /\ reply' \in Replies
    BY <1>1, <1>2 DEF Return, Replies
  <1>4. seed' \in SeedSources /\ limits' \in LimitSources
    BY DEF Disconnect, IInv, TypeOK, Rebase, Moved, SeedSources, LimitSources
  <1>5. QED
    BY <1>3, <1>4
       DEF Disconnect, Kept, IInv, TypeOK, FlagChain, LinkInv, RestsBetweenCalls,
           ReadyIsVerified, FaultIsUnpowered, DisconnectedMeansClosed, Gated, Unpowered,
           Motions, States, ActiveMotion

\* Changing the bring-up mode with the output off, or not at all.
LEMMA ModeKeeps ==
  ASSUME IInv, ran' = "none", cancel' \in BOOLEAN, UNCHANGED <<link, flags, profile>>,
         topState' = topState, motorFault' = motorFault, reply' \in Replies,
         enabled' \in BOOLEAN, bringup' \in BOOLEAN,
         enabled' => enabled, bringup' = bringup \/ ~enabled'
  PROVE  Kept
  BY DEF Kept, IInv, TypeOK, FlagChain, LinkInv, RestsBetweenCalls, ReadyIsVerified,
         FaultIsUnpowered, DisconnectedMeansClosed, Gated, Unpowered, flags, profile,
         link, Motions

\* enterMotorBringupMode and exitMotorBringupMode keep the invariant.
LEMMA BringupModeKeeps ==
  ASSUME IInv, EnterMotorBringupMode \/ ExitMotorBringupMode PROVE Kept
  <1>1. /\ Here.top = topState /\ Here.on = enabled /\ Here.flt = motorFault
        /\ Off(Here).top = topState /\ Off(Here).on = FALSE /\ Off(Here).flt = motorFault
        /\ Here.ans = "ok" /\ Off(Here).ans = "ok"
    BY DEF Here, Body, Off, Output
  <1>2. \A m \in {Here, Off(Here)} :
          /\ Answer(m, "error").top = m.top /\ Answer(m, "error").on = m.on
          /\ Answer(m, "error").flt = m.flt /\ Answer(m, "error").ans = "error"
    BY DEF Answer, Body
  <1>3. \/ \E m \in {Here, Off(Here)} : Refuse(Answer(m, "error")) /\ UNCHANGED bringup
        \/ /\ Return(Off(Here), "ok") \/ (Return(Here, "ok") /\ ~connected)
           /\ bringup' \in BOOLEAN /\ ran' = "none" /\ UNCHANGED <<flags, profile>>
    BY DEF EnterMotorBringupMode, ExitMotorBringupMode
  <1>4. UNCHANGED <<link, cancel>>
    BY DEF EnterMotorBringupMode, ExitMotorBringupMode
  <1>5. CASE \E m \in {Here, Off(Here)} : Refuse(Answer(m, "error")) /\ UNCHANGED bringup
    <2>1. PICK m \in {Here, Off(Here)} : Refuse(Answer(m, "error")) /\ UNCHANGED bringup
      BY <1>5
    <2>2. /\ topState' = topState /\ enabled' = m.on /\ motorFault' = motorFault
          /\ reply' = "error" /\ ran' = "none" /\ UNCHANGED <<flags, profile>>
      BY <1>1, <1>2, <2>1 DEF Refuse, Return
    <2>3. (enabled' = enabled \/ enabled' = FALSE) /\ enabled \in BOOLEAN
      BY <1>1, <2>1, <2>2 DEF IInv, TypeOK
    <2>4. QED BY <1>4, <2>1, <2>2, <2>3, ModeKeeps DEF IInv, TypeOK, Replies
  <1>6. CASE /\ Return(Off(Here), "ok") \/ (Return(Here, "ok") /\ ~connected)
             /\ bringup' \in BOOLEAN /\ ran' = "none" /\ UNCHANGED <<flags, profile>>
    <2>1. /\ topState' = topState /\ enabled' = FALSE /\ motorFault' = motorFault
          /\ reply' = "ok"
      BY <1>1, <1>6 DEF Return, IInv, TypeOK, LinkInv
    <2>2. QED BY <1>4, <1>6, <2>1, ModeKeeps DEF IInv, TypeOK, Replies
  <1>7. QED BY <1>3, <1>5, <1>6

\* A bring-up call keeps the invariant when its bodies are sound, in the state
\* of the call or in Fault, and after a jog without output.
LEMMA BringupCallKeeps ==
  ASSUME IInv, NEW motion \in {"none", "jog"}, NEW bodies,
         BringupActive => \A b \in bodies : /\ Sound(b) /\ b.top \in {topState, "Fault"}
                                            /\ b.ans \in Replies
                                            /\ motion = "jog" => ~b.on,
         BringupCall(bodies, motion)
  PROVE  Kept
  <1>1. UNCHANGED <<link, cancel, bringup, flags, profile>> /\ cancel' \in BOOLEAN
    BY DEF BringupCall, IInv, TypeOK
  <1>2. CASE Refuse(Answer(Here, "error"))
    <2>1. Idle(Answer(Here, "error")) /\ Answer(Here, "error").ans = "error"
          /\ Answer(Here, "error").top = topState
      BY HereIdle, ToBody DEF Idle, Sound, Answers, Replies
    <2>2. QED BY <1>1, <1>2, <2>1, RefuseKeeps DEF IInv, ReadyIsVerified, Replies
  <1>3. CASE BringupActive /\ ran' = motion /\ \E b \in bodies : Return(b, b.ans)
    <2>1. PICK b \in bodies : Return(b, b.ans)
      BY <1>3
    <2>2. /\ Sound(b) /\ b.top \in {topState, "Fault"} /\ b.ans \in Replies
          /\ motion = "jog" => ~b.on
      BY <1>3
    <2>3. Idle(b) /\ (b.top = "Ready" => health)
      BY <2>2, OffIdle
         DEF Idle, Resting, States, ActiveMotion, Latched, IInv, ReadyIsVerified
    <2>4. BodyInv'
      BY <1>1, <2>1, <2>2, <2>3, Lands DEF flags
    <2>5. enabled' = b.on
      BY <2>1 DEF Return
    <2>6. QED
      BY <1>1, <1>3, <2>2, <2>4, <2>5
         DEF Kept, IInv, TypeOK, FlagChain, BodyInv, Gated, Unpowered, flags, profile,
             link, Motions
  <1>4. QED BY <1>2, <1>3 DEF BringupCall

\* Refreshing, enabling and disabling in bring-up mode, and its two motions.
LEMMA BringupKeeps ==
  ASSUME IInv,
         \/ RefreshMotorBringupFeedback \/ EnableMotorBringupOutput
         \/ DisableMotorBringupOutput \/ JogMotorBringup
         \/ MoveMotorBringupRelativeTurns
  PROVE  Kept
  <1>1. Sound(Here) /\ Here.top = topState /\ Here.ans = "ok"
    BY HereIdle DEF Idle
  <1>2. Sound(Off(Here)) /\ ~Off(Here).on /\ Off(Here).top = topState
    BY OffIdle DEF Idle
  <1>3. ASSUME NEW m, Sound(m), m.top \in {topState, "Fault"}, NEW a \in Replies
        PROVE  /\ Sound(Answer(m, a)) /\ Answer(m, a).top \in {topState, "Fault"}
               /\ Answer(m, a).ans \in Replies /\ Answer(m, a).on = m.on
    BY <1>3, ToBody DEF Sound, Answers
  <1>4. \A s \in Settled(Here) : Sound(s) /\ ~s.on /\ s.top \in {topState, "Fault"}
                                 /\ s.ans \in Replies
    BY <1>1, SettledBody DEF Keeps, Replies
  <1>5. CASE RefreshMotorBringupFeedback
    <2> DEFINE bodies == Observed(Here) \union {Answer(Here, "error")}
    <2>1. \A s \in Observed(Here) : Sound(s) /\ s.top \in {topState, "Fault"}
                                    /\ s.ans \in Replies
      BY <1>1, ObservedBody DEF Keeps, Replies
    <2>2. \A b \in bodies : Sound(b) /\ b.top \in {topState, "Fault"} /\ b.ans \in Replies
      BY <1>1, <1>3, <2>1 DEF Replies
    <2>3. BringupCall(bodies, "none")
      BY <1>5 DEF RefreshMotorBringupFeedback
    <2> HIDE DEF bodies
    <2>4. QED BY <2>2, <2>3, BringupCallKeeps
  <1>6. CASE EnableMotorBringupOutput
    <2> DEFINE bodies == UNION {IF m.ans = "ok" THEN Sampled(m) ELSE {m} :
                                  m \in EnableMotor(Here)}
    <2>1. BringupCall(bodies, "none")
      BY <1>6 DEF EnableMotorBringupOutput
    <2>2. ASSUME BringupActive, NEW b \in bodies
          PROVE  Sound(b) /\ b.top \in {topState, "Fault"} /\ b.ans \in Replies
      <3>1. PICK m \in EnableMotor(Here) : b \in IF m.ans = "ok" THEN Sampled(m) ELSE {m}
        BY <2>2
      <3>2. Sound(m) /\ m.top = topState /\ m.ans \in {"ok", "error"}
        BY <1>1, <2>2, EnableMotorBody DEF BringupActive
      <3>3. CASE b = m
        BY <3>2, <3>3 DEF Replies
      <3>4. CASE b \in Sampled(m)
        BY <3>2, <3>4, ObservedBody DEF Keeps, Replies
      <3>5. QED BY <3>1, <3>3, <3>4
    <2> HIDE DEF bodies
    <2>3. QED BY <2>1, <2>2, BringupCallKeeps
  <1>7. CASE DisableMotorBringupOutput
    <2> DEFINE bodies == Settled(Here) \union {Answer(Off(Here), "error")}
    <2>1. BringupCall(bodies, "none")
      BY <1>7 DEF DisableMotorBringupOutput
    <2>2. \A b \in bodies : Sound(b) /\ b.top \in {topState, "Fault"} /\ b.ans \in Replies
      BY <1>2, <1>3, <1>4 DEF Replies
    <2> HIDE DEF bodies
    <2>3. QED BY <2>1, <2>2, BringupCallKeeps
  <1>8. CASE \E answers \in SUBSET Replies : BringupMotion(answers)
    <2>1. PICK answers \in SUBSET Replies : BringupMotion(answers)
      BY <1>8
    <2> DEFINE refused == {Answer(Here, "error")}
               bodies == {Answer(s, a) : s \in Settled(Here), a \in answers}
    <2>2. BringupCall(refused, "none") \/ BringupCall(bodies, "jog")
      BY <2>1 DEF BringupMotion
    <2>3. \A b \in refused : Sound(b) /\ b.top \in {topState, "Fault"} /\ b.ans \in Replies
      BY <1>1, <1>3 DEF Replies
    <2>4. ASSUME NEW b \in bodies
          PROVE  Sound(b) /\ b.top \in {topState, "Fault"} /\ b.ans \in Replies /\ ~b.on
      <3>1. PICK s \in Settled(Here), a \in answers : b = Answer(s, a)
        BY <2>4
      <3>2. a \in Replies
        BY <2>1, <3>1
      <3>3. QED BY <1>3, <1>4, <3>1, <3>2
    <2> HIDE DEF refused, bodies
    <2>5. QED BY <2>2, <2>3, <2>4, BringupCallKeeps
  <1>9. JogMotorBringup \/ MoveMotorBringupRelativeTurns
          => \E answers \in SUBSET Replies : BringupMotion(answers)
    <2>1. {"ok", "error"} \in SUBSET Replies /\ {"error"} \in SUBSET Replies
      BY DEF Replies
    <2>2. {"error"} \union (IF cancel \/ topState \in Latched THEN {} ELSE {"ok"})
            \in SUBSET Replies
      BY DEF Replies
    <2>3. QED BY <2>1, <2>2 DEF JogMotorBringup, MoveMotorBringupRelativeTurns
  <1>10. QED BY <1>5, <1>6, <1>7, <1>8, <1>9

-----------------------------------------------------------------------------
(* The theorems. *)

\* The inductive invariant holds at the start: nothing is connected yet.
LEMMA InitIInv == Init => IInv
  BY DEF Init, IInv, TypeOK, FlagChain, LinkInv, RestsBetweenCalls, ReadyIsVerified,
         FaultIsUnpowered, DisconnectedMeansClosed, States, ActiveMotion, LimitSources,
         SeedSources, Replies, Motions

\* Every step keeps it and satisfies the two step formulas.
LEMMA StepKeeps == IInv /\ Next => Kept
  <1> SUFFICES ASSUME IInv, Next PROVE Kept
    OBVIOUS
  <1>1. CASE Configure \/ Connect \/ Disconnect \/ Enable \/ Disable
    BY <1>1, ConfigureKeeps, ConnectKeeps, DisconnectKeeps, EnableKeeps, DisableKeeps
  <1>2. CASE RunPreSelfCheck \/ HomeOpenStop \/ LearnTravelLimits \/ RunMotionHealthCheck
    BY <1>2, PreSelfCheckKeeps, HomingKeeps, LearningKeeps, HealthCheckKeeps
  <1>3. CASE ClampByForce \/ ClampBySpeed \/ Release \/ MoveToNutStroke
    BY <1>3, ClampByForceKeeps, ClampBySpeedKeeps, ReleaseKeeps, MoveToNutStrokeKeeps
  <1>4. CASE Stop \/ ClearFault \/ Update \/ MotorFaults
    BY <1>4, StopKeeps, ClearFaultKeeps, UpdateKeeps, MotorFaultsKeeps
  <1>5. CASE EnterMotorBringupMode \/ ExitMotorBringupMode
    BY <1>5, BringupModeKeeps
  <1>6. CASE \/ RefreshMotorBringupFeedback \/ EnableMotorBringupOutput
             \/ DisableMotorBringupOutput \/ JogMotorBringup
             \/ MoveMotorBringupRelativeTurns
    BY <1>6, BringupKeeps
  <1>7. QED BY <1>1, <1>2, <1>3, <1>4, <1>5, <1>6 DEF Next

\* A step that changes nothing keeps the invariant.
LEMMA StutterKeeps == IInv /\ UNCHANGED vars => IInv'
  BY DEF IInv, TypeOK, FlagChain, LinkInv, RestsBetweenCalls, ReadyIsVerified,
         FaultIsUnpowered, DisconnectedMeansClosed, vars, body, link, flags, profile

\* The controller keeps its inductive invariant.
THEOREM Inductive == Spec => []IInv
  <1>1. IInv /\ [Next]_vars => IInv'
    BY StepKeeps, StutterKeeps DEF Kept
  <1>2. QED BY InitIInv, <1>1, PTL DEF Spec

\* Every variable keeps its type through every call.
THEOREM TypeCorrect == Spec => []TypeOK
  <1>1. IInv => TypeOK
    BY DEF IInv
  <1>2. QED BY Inductive, <1>1, PTL

\* No call returns in a motion or check state: each Requested event is matched
\* by an event that ends the motion on every path of the operation.
THEOREM AlwaysRests == Spec => []RestsBetweenCalls
  <1>1. IInv => RestsBetweenCalls
    BY DEF IInv
  <1>2. QED BY Inductive, <1>1, PTL

\* The workflow flags stay cumulative through failures and reconnections.
THEOREM FlagsCumulative == Spec => []FlagChain
  <1>1. IInv => FlagChain
    BY DEF IInv
  <1>2. QED BY Inductive, <1>1, PTL

\* Between calls Ready implies a health check since the last connection, in
\* spite of release() replaying the health-check events without one.
THEOREM ReadyVerified == Spec => []ReadyIsVerified
  <1>1. IInv => ReadyIsVerified
    BY DEF IInv
  <1>2. QED BY Inductive, <1>1, PTL

\* In Fault the motor output is off, unless bring-up mode switched it on.
THEOREM FaultUnpowered == Spec => []FaultIsUnpowered
  <1>1. IInv => FaultIsUnpowered
    BY DEF IInv
  <1>2. QED BY Inductive, <1>1, PTL

\* With one configure() call, Disconnected implies a closed motor link.
THEOREM DisconnectedClosed ==
  ASSUME ~Reconfigurable PROVE Spec => []DisconnectedMeansClosed
  <1>1. IInv => DisconnectedMeansClosed
    BY DEF IInv
  <1>2. QED BY Inductive, <1>1, PTL

\* Every motion starts behind the gates of its place in the workflow.
THEOREM GatesHold == Spec => MotionGates
  <1>1. IInv /\ [Next]_vars => [Gated]_vars
    BY StepKeeps DEF Kept
  <1>2. QED BY Inductive, <1>1, PTL DEF Spec, MotionGates

\* Every motion but the manual move ends with the output off on each exit.
THEOREM EndsUnpowered == Spec => MotionEndsUnpowered
  <1>1. IInv /\ [Next]_vars => [Unpowered]_vars
    BY StepKeeps DEF Kept
  <1>2. QED BY Inductive, <1>1, PTL DEF Spec, MotionEndsUnpowered

\* The five coherence invariants together, as the controller run checks them.
THEOREM StaysCoherent ==
  ASSUME ~Reconfigurable PROVE Spec => []Coherent
  <1>1. IInv => Coherent
    BY DEF IInv, Coherent, DisconnectedMeansClosed, LinkInv
  <1>2. QED BY Inductive, <1>1, PTL

\* Both ends of a motion: gated when it begins, unpowered when it ends.
THEOREM ContractHolds == Spec => MotionContract
  BY GatesHold, EndsUnpowered DEF MotionContract

-----------------------------------------------------------------------------
(* Bring-up. *)

\* In bring-up mode ensureEnabled refuses, and with it every operation that
\* begins with it.
LEMMA BringupRefuses ==
  ASSUME bringup
  PROVE  /\ EnsureEnabled(Here) = {Answer(Here, "error")}
         /\ \A gate, request : Begun(gate, request) = {Answer(Here, "error")}
         /\ ClampBegun = {Answer(Here, "error")}
  <1>1. EnsureEnabled(Here) = {Answer(Here, "error")}
    BY DEF EnsureEnabled
  <1>2. Answer(Here, "error").ans = "error"
    BY DEF Answer, Body
  <1>3. ASSUME NEW gate, NEW request
        PROVE  Begun(gate, request) = {Answer(Here, "error")}
    BY <1>1, <1>2 DEF Begun
  <1>4. ClampBegun = {Answer(Here, "error")}
    BY <1>1, <1>2 DEF ClampBegun
  <1>5. QED BY <1>1, <1>3, <1>4, Zenon

\* A refusal that leaves the body alone changes nothing of it.
LEMMA RefusedHere ==
  ASSUME Refuse(Answer(Here, "error"))
  PROVE  /\ topState' = topState /\ enabled' = enabled /\ motorFault' = motorFault
         /\ ran' = "none" /\ UNCHANGED <<flags, profile>>
  BY DEF Refuse, Return, Answer, Here, Body

\* disable() leaves the output off, in the state of the call, Disabled or Fault.
LEMMA DisableBody ==
  ASSUME IInv, Disable
  PROVE  /\ ~enabled' /\ topState' \in {topState, "Disabled", "Fault"}
         /\ ran' = "none" /\ UNCHANGED <<link, bringup, flags, profile>>
  <1> DEFINE q == To(Off(Here), "DisableRequested")
             asked == IF topState \in {"Ready", "Unloading"} THEN To(q, "DisableCompleted")
                      ELSE IF topState # "Disconnected" THEN q ELSE Off(Here)
  <1>1. PICK b \in {Off(Here)} \union Sampled(asked), a \in {"ok", "error"} :
          Return(b, a)
    BY DEF Disable, Sampled
  <1>2. /\ q \in Bodies /\ ~q.on /\ q.ans = "ok" /\ q.top \in {topState, "Disabled"}
    BY OffIdle, ToBody, OnConnection DEF Answers, Replies
  <1>3. /\ ~To(q, "DisableCompleted").on
        /\ To(q, "DisableCompleted").top = q.top
    <2>1. q.top # "Unloading" /\ q.top \in States
      BY <1>2, OffIdle DEF Resting, ActiveMotion, Bodies
    <2>2. QED BY <1>2, <2>1, ToBody, OnConnection DEF Answers, Replies
  <1>4. ~asked.on /\ asked.top \in {topState, "Disabled"}
    BY <1>2, <1>3, OffIdle
  <1>5. ~b.on /\ b.top \in {topState, "Disabled", "Fault"}
    <2> HIDE DEF asked
    <2>1. b = Off(Here) \/ b = asked \/ b = Tripped(asked)
      BY <1>1 DEF Sampled
    <2>2. ~Tripped(asked).on /\ Tripped(asked).top = "Fault"
      BY DEF Tripped, Body
    <2>3. QED BY <1>4, <2>1, <2>2, OffIdle
  <1>6. QED BY <1>1, <1>5 DEF Disable, Return

\* Bring-up is entered on an open link, so not in Disconnected.
Opened == bringup => topState # "Disconnected"

\* What a step in bring-up mode may do.
Isolated == /\ UNCHANGED <<flags, profile>>
            /\ topState' \in {topState, "ActiveStop", "Fault", "Disabled"}

\* The operations of the workflow are refused.
LEMMA WorkflowIsolated ==
  ASSUME IInv, bringup,
         \/ RunPreSelfCheck \/ HomeOpenStop \/ LearnTravelLimits \/ RunMotionHealthCheck
         \/ ClampByForce \/ ClampBySpeed \/ Release \/ MoveToNutStroke
  PROVE  Isolated
  <1>1. Answer(Here, "error").ans = "error"
    BY DEF Answer, Body
  <1>2. Refuse(Answer(Here, "error"))
    BY <1>1, BringupRefuses
       DEF RunPreSelfCheck, HomeOpenStop, LearnTravelLimits, RunMotionHealthCheck,
           ClampByForce, ClampBySpeed, Release, MoveToNutStroke
  <1>3. QED BY <1>2, RefusedHere DEF Isolated

\* The link operations, and those that drive no motion.
LEMMA LinkIsolated ==
  ASSUME IInv, Opened, bringup, bringup',
         Configure \/ Connect \/ Disconnect \/ Enable \/ Disable
  PROVE  Isolated
  <1>1. ~Configure /\ ~Disconnect
    BY DEF Configure, Disconnect
  <1>2. CASE Connect
    <2>1. /\ Off(Here).top = topState /\ topState \in States /\ topState # "Disconnected"
      BY OffIdle DEF Opened
    <2>2. To(Off(Here), "ConnectFailed").top = topState
          /\ To(Off(Here), "ConnectSucceeded").top = topState
      BY <2>1, OffIdle, ToBody, OnConnection, DispatchIgnored
         DEF IgnoredEvents, Answers, Replies
    <2>3. topState' = topState /\ UNCHANGED <<flags, profile>>
      BY <1>2, <2>2 DEF Connect, Refuse, Return, Answer, Here, Body
    <2>4. QED BY <2>3 DEF Isolated
  <1>3. CASE Enable
    BY <1>3 DEF Enable, Return, Here, Body, Isolated
  <1>4. CASE Disable
    BY <1>4, DisableBody DEF Isolated
  <1>5. QED BY <1>1, <1>2, <1>3, <1>4

\* Stop, recovery, feedback and a fault of the device.
LEMMA RecoveryIsolated ==
  ASSUME IInv, Stop \/ ClearFault \/ Update \/ MotorFaults
  PROVE  Isolated
  <1>1. CASE Stop
    <2>1. To(Off(Here), "StopRequested").top = "ActiveStop"
      BY OffIdle, ToBody, DispatchGlobal DEF Answers, Replies
    <2>2. QED BY <1>1, <2>1 DEF Stop, Return, Isolated
  <1>2. CASE ClearFault
    <2>1. PICK m \in {Here, Off(Here), Body(topState, FALSE, FALSE, "ok")} :
            Return(IF topState \in Latched THEN To(m, "FaultCleared") ELSE m, "ok")
      BY <1>2 DEF ClearFault
    <2>2. m.top = topState
      BY <2>1 DEF Here, Off, Output, Body
    <2>3. To(m, "FaultCleared").top \in {topState, "Disabled"}
      BY <2>2, OffIdle, OnConnection DEF To, Body
    <2>4. QED BY <1>2, <2>1, <2>2, <2>3 DEF ClearFault, Return, Isolated
  <1>3. CASE Update
    <2>1. PICK b \in {Here} \union Observed(Here), a \in {"ok", "error"} : Return(b, a)
      BY <1>3 DEF Update
    <2>2. b.top \in {topState, "Fault"}
      BY <2>1 DEF Observed, Tripped, Here, Body
    <2>3. QED BY <1>3, <2>1, <2>2 DEF Update, Return, Isolated
  <1>4. CASE MotorFaults
    BY <1>4 DEF MotorFaults, Isolated
  <1>5. QED BY <1>1, <1>2, <1>3, <1>4

\* The calls of bring-up itself read feedback, which can only show a fault.
LEMMA BringupIsolated ==
  ASSUME IInv,
         \/ EnterMotorBringupMode \/ ExitMotorBringupMode
         \/ RefreshMotorBringupFeedback \/ EnableMotorBringupOutput
         \/ DisableMotorBringupOutput \/ JogMotorBringup
         \/ MoveMotorBringupRelativeTurns
  PROVE  Isolated
  <1>1. CASE EnterMotorBringupMode \/ ExitMotorBringupMode
    BY <1>1 DEF EnterMotorBringupMode, ExitMotorBringupMode, Refuse, Return, Answer, Off,
                Output, Here, Body, Isolated
  <1>2. ASSUME NEW bodies, NEW motion, BringupCall(bodies, motion),
               \A b \in bodies : b.top \in {topState, "Fault"}
        PROVE  Isolated
    <2>1. CASE Refuse(Answer(Here, "error"))
      BY <2>1, RefusedHere DEF Isolated
    <2>2. CASE \E b \in bodies : Return(b, b.ans)
      BY <1>2, <2>2 DEF BringupCall, Return, Isolated
    <2>3. QED BY <1>2, <2>1, <2>2 DEF BringupCall
  <1>3. \A b \in Observed(Here) \union Settled(Here) \union
                 {Here, Off(Here), Answer(Here, "error"), Answer(Off(Here), "error")} :
           b.top \in {topState, "Fault"}
    BY DEF Observed, Settled, Sampled, Tripped, Answer, Off, Output, Here, Body
  <1>4. CASE RefreshMotorBringupFeedback
    BY <1>2, <1>3, <1>4 DEF RefreshMotorBringupFeedback
  <1>5. CASE EnableMotorBringupOutput
    <2>1. \A m \in EnableMotor(Here) : m.top = topState
      BY DEF EnableMotor, Energised, Answer, Off, Output, Here, Body
    <2>2. \A m \in EnableMotor(Here) :
            \A b \in IF m.ans = "ok" THEN Sampled(m) ELSE {m} : b.top \in {topState, "Fault"}
      BY <2>1 DEF Sampled, Tripped, Body
    <2> DEFINE bodies == UNION {IF m.ans = "ok" THEN Sampled(m) ELSE {m} :
                                  m \in EnableMotor(Here)}
    <2>3. \A b \in bodies : b.top \in {topState, "Fault"}
      BY <2>2
    <2>4. BringupCall(bodies, "none")
      BY <1>5 DEF EnableMotorBringupOutput
    <2> HIDE DEF bodies
    <2>5. QED BY <1>2, <2>3, <2>4
  <1>6. CASE DisableMotorBringupOutput
    BY <1>2, <1>3, <1>6 DEF DisableMotorBringupOutput
  <1>7. ASSUME NEW answers, BringupMotion(answers)
        PROVE  Isolated
    <2> DEFINE bodies == {Answer(s, a) : s \in Settled(Here), a \in answers}
    <2>1. \A b \in bodies : b.top \in {topState, "Fault"}
      BY <1>3 DEF Answer, Body
    <2>2. BringupCall({Answer(Here, "error")}, "none") \/ BringupCall(bodies, "jog")
      BY <1>7 DEF BringupMotion
    <2> HIDE DEF bodies
    <2>3. \A b \in {Answer(Here, "error")} : b.top \in {topState, "Fault"}
      BY <1>3
    <2>4. QED BY <1>2, <2>1, <2>2, <2>3
  <1>8. QED BY <1>1, <1>4, <1>5, <1>6, <1>7
               DEF JogMotorBringup, MoveMotorBringupRelativeTurns

\* Every step of bring-up mode is isolated, and Opened is kept.
LEMMA StepIsolated ==
  ASSUME IInv, ~Reconfigurable, Opened, [Next]_vars
  PROVE  Opened' /\ (bringup /\ bringup' => Isolated)
  <1>1. CASE bringup /\ bringup' /\ Next
    <2>1. Isolated
      BY <1>1, WorkflowIsolated, LinkIsolated, RecoveryIsolated, BringupIsolated DEF Next
    <2>2. QED BY <1>1, <2>1 DEF Isolated, Opened
  <1>2. CASE bringup /\ bringup' /\ UNCHANGED vars
    BY <1>2 DEF vars, body, flags, profile, Opened, Isolated
  <1>3. CASE ~bringup /\ bringup'
    <2>1. EnterMotorBringupMode
      <3>1. ~(Configure \/ Connect \/ Disconnect \/ Enable \/ Disable)
        BY <1>3 DEF Configure, Connect, Disconnect, Enable, Disable
      <3>2. ~(RunPreSelfCheck \/ HomeOpenStop \/ LearnTravelLimits \/ RunMotionHealthCheck)
        BY <1>3 DEF RunPreSelfCheck, HomeOpenStop, LearnTravelLimits, RunMotionHealthCheck
      <3>3. ~(ClampByForce \/ ClampBySpeed \/ Release \/ MoveToNutStroke)
        BY <1>3 DEF ClampByForce, ClampBySpeed, Release, MoveToNutStroke
      <3>4. ~(Stop \/ ClearFault \/ Update \/ MotorFaults \/ ExitMotorBringupMode)
        BY <1>3 DEF Stop, ClearFault, Update, MotorFaults, ExitMotorBringupMode
      <3>5. \A bodies, motion : ~BringupCall(bodies, motion)
        BY <1>3 DEF BringupCall
      <3>6. ~(\/ RefreshMotorBringupFeedback \/ EnableMotorBringupOutput
              \/ DisableMotorBringupOutput \/ JogMotorBringup
              \/ MoveMotorBringupRelativeTurns)
        BY <3>5 DEF RefreshMotorBringupFeedback, EnableMotorBringupOutput,
           DisableMotorBringupOutput, JogMotorBringup, MoveMotorBringupRelativeTurns,
           BringupMotion
      <3>7. ~UNCHANGED vars
        BY <1>3 DEF vars
      <3>8. QED BY <3>1, <3>2, <3>3, <3>4, <3>6, <3>7 DEF Next
    <2>2. connected /\ topState' = topState
      BY <1>3, <2>1 DEF EnterMotorBringupMode, Return, Off, Output, Here, Body
    <2>3. QED BY <1>3, <2>2 DEF IInv, DisconnectedMeansClosed, Opened
  <1>4. CASE ~bringup'
    BY <1>4 DEF Opened
  <1>5. QED BY <1>1, <1>2, <1>3, <1>4 DEF IInv, TypeOK

\* While bring-up mode lasts nothing of the workflow advances (requireMotor-
\* BringupActive and the refusal of ensureEnabled), with one configure() call.
THEOREM BringupIsolates ==
  ASSUME ~Reconfigurable PROVE Spec => BringupIsIsolated
  <1>1. Init => Opened
    BY DEF Init, Opened
  <1>2. IInv /\ Opened /\ [Next]_vars => Opened'
    BY StepIsolated
  <1>3. IInv /\ Opened /\ [Next]_vars
          => [bringup /\ bringup' =>
                /\ UNCHANGED <<flags, profile>>
                /\ topState' \in {topState, "ActiveStop", "Fault", "Disabled"}]_vars
    BY StepIsolated DEF Isolated
  <1>4. QED BY <1>1, <1>2, <1>3, Inductive, PTL DEF Spec, BringupIsIsolated

-----------------------------------------------------------------------------
(* Stranded output. *)

\* An output that is on is owned: by bring-up mode, by Enabled or Ready, or it
\* was stranded before.
Owned(m) == m.on => bringup \/ m.top \in {"Enabled", "Ready"} \/ Stranded

\* A call that returns with an owned body strands nothing.
LEMMA OwnedReturns ==
  ASSUME NEW m, Owned(m), NEW a, Return(m, a), bringup' = bringup
  PROVE  Stranded' => Stranded
  BY DEF Owned, Return, Stranded

\* The body of the call is owned.
LEMMA HereOwned == IInv => Owned(Here) /\ Owned(Off(Here))
  BY HereIdle, OffIdle DEF Owned, Stranded

\* enable() leaves the output on in Enabled or Ready only.
LEMMA EnablingOwned ==
  ASSUME IInv, topState \in Resting \ {"Disconnected"}, NEW m \in Enabling(Here)
  PROVE  Owned(m)
  <1> USE HereIdle
  <1>1. CASE topState \in Latched
    <2>1. m = Answer(Here, "error")
      BY <1>1 DEF Enabling
    <2>2. m.on = Here.on /\ m.top = Here.top
      BY <2>1 DEF Answer, Body
    <2>3. QED BY <2>2, HereOwned DEF Owned
  <1>2. CASE topState \notin Latched
    <2> DEFINE checked  == To(To(Here, "HardwareCheckRequested"), "HardwareCheckPassed")
               prepared == To(IF Here.top = "Connected" THEN checked ELSE Here,
                              "ModeSwitchSucceeded")
               Arrive(e) == IF e.ans # "ok" THEN {To(e, "EnableFailed")}
                            ELSE IF \/ Accepts(e.top, "EnableSucceeded")
                                    \/ e.top = "Enabled"
                            THEN Sampled(To(e, "EnableSucceeded"))
                            ELSE {Answer(e, "rejected")}
    <2>1. PICK e \in EnableMotor(prepared) : m \in Arrive(e)
      BY <1>2 DEF Enabling
    <2>2. Here \in Bodies
      BY DEF Idle, Sound
    <2>3. /\ prepared \in Bodies /\ prepared.ans = "ok"
          /\ prepared.top \in Resting \ ({"Disconnected", "Connected"} \union Latched)
      <3> DEFINE requested == To(Here, "HardwareCheckRequested")
                 from == IF Here.top = "Connected" THEN checked ELSE Here
      <3>1. requested \in Bodies /\ requested.ans = "ok"
            /\ (topState = "Connected" => requested.top = "HardwareSanityCheck")
        BY <2>2, ToBody, OnEnabling DEF Bodies, Answers, Replies
      <3>2. checked \in Bodies /\ checked.ans = "ok"
            /\ (topState = "Connected" => checked.top = "ModeSwitching")
        <4>1. requested.top \in States
          BY <3>1 DEF Bodies
        <4>2. QED BY <3>1, <4>1, ToBody, OnEnabling DEF Answers, Replies
      <3>3. from \in Bodies /\ from.ans = "ok"
            /\ from.top \in Resting \ ({"Disconnected", "Connected"} \union Latched)
        BY <1>2, <2>2, <3>2 DEF Resting, States, ActiveMotion, Latched
      <3>4. prepared \in Bodies /\ prepared.top = from.top /\ prepared.ans = "ok"
        <4>1. "ModeSwitchSucceeded" \in IgnoredEvents /\ "ok" \in Answers
          BY DEF IgnoredEvents, Answers, Replies
        <4>2. prepared = To(from, "ModeSwitchSucceeded")
          OBVIOUS
        <4> HIDE DEF from, prepared
        <4>3. Dispatch(from.top, "ModeSwitchSucceeded") = from.top
          BY <4>1, DispatchIgnored
        <4>4. QED BY <3>3, <4>1, <4>2, <4>3, ToBody
      <3>5. QED BY <3>3, <3>4
    <2> HIDE DEF prepared
    <2>4. /\ e \in Bodies /\ e.top = prepared.top
          /\ e.ans # "ok" => ~e.on
      <3>1. e \in {Off(prepared), Output(prepared, TRUE), Answer(Off(prepared), "error")}
        BY <2>1 DEF EnableMotor, Energised
      <3>2. /\ Off(prepared) \in Bodies /\ Off(prepared).top = prepared.top
            /\ ~Off(prepared).on
            /\ Output(prepared, TRUE) \in Bodies /\ Output(prepared, TRUE).ans = "ok"
            /\ Output(prepared, TRUE).top = prepared.top
        BY <2>3 DEF Off, Output, Body, Bodies
      <3>3. LET r == Answer(Off(prepared), "error")
            IN  r \in Bodies /\ r.top = prepared.top /\ ~r.on
        BY <3>2, ToBody DEF Answers, Replies
      <3>4. QED BY <3>1, <3>2, <3>3
    <2>5. CASE e.ans # "ok"
      <3>1. m = To(e, "EnableFailed")
        BY <2>1, <2>5
      <3>2. m.on = e.on
        BY <3>1 DEF To, Body
      <3>3. QED BY <2>4, <2>5, <3>2 DEF Owned
    <2>6. CASE /\ e.ans = "ok"
               /\ Accepts(e.top, "EnableSucceeded") \/ e.top = "Enabled"
      <3>1. m = To(e, "EnableSucceeded") \/ m = Tripped(To(e, "EnableSucceeded"))
        BY <2>1, <2>6 DEF Sampled
      <3>2. To(e, "EnableSucceeded").top = "Enabled"
        <4>1. e.top \in States
          BY <2>4 DEF Bodies
        <4>2. QED BY <2>4, <2>6, <4>1, ToBody, OnEnabling DEF Answers, Replies
      <3>3. ~Tripped(To(e, "EnableSucceeded")).on
        BY DEF Tripped, Body
      <3>4. QED BY <3>1, <3>2, <3>3 DEF Owned
    <2>7. CASE /\ e.ans = "ok"
               /\ ~(Accepts(e.top, "EnableSucceeded") \/ e.top = "Enabled")
      <3>1. m = Answer(e, "rejected")
        BY <2>1, <2>7
      <3>2. e.top \in States
        BY <2>4 DEF Bodies
      <3>3. m.top = e.top /\ m.on = e.on
        BY <3>1 DEF Answer, Body
      <3>4. e.top = "Ready"
        BY <2>3, <2>4, <2>7, <3>2, OnEnabling DEF Resting, States, ActiveMotion, Latched
      <3>5. QED BY <3>3, <3>4 DEF Owned
    <2>8. QED BY <2>5, <2>6, <2>7
  <1>3. QED BY <1>1, <1>2

\* ensureEnabled, and the beginning of an operation that is refused.
LEMMA EnsureEnabledOwned ==
  ASSUME IInv, ~Reconfigurable, NEW m \in EnsureEnabled(Here)
  PROVE  Owned(m)
  <1> USE HereIdle
  <1>1. CASE topState \in Latched \/ ~configured \/ ~connected \/ bringup
    <2>1. m = Answer(Here, "error")
      BY <1>1 DEF EnsureEnabled
    <2>2. m.on = Here.on /\ m.top = Here.top
      BY <2>1 DEF Answer, Body
    <2>3. QED BY <2>2, HereOwned DEF Owned
  <1>2. CASE ~(topState \in Latched \/ ~configured \/ ~connected \/ bringup)
    <2>1. CASE enabled
      BY <1>2, <2>1, HereOwned DEF EnsureEnabled
    <2>2. CASE ~enabled /\ topState = "Ready"
      <3>1. PICK e \in EnableMotor(Here) :
              m \in IF e.ans = "ok" THEN Sampled(e) ELSE {e}
        BY <1>2, <2>2 DEF EnsureEnabled
      <3>2. e.top = "Ready"
        BY <2>2 DEF EnableMotor, Energised, Answer, Off, Output, Body
      <3>3. m = e \/ m = Tripped(e)
        BY <3>1 DEF Sampled
      <3>4. QED BY <3>2, <3>3 DEF Owned, Tripped, Body
    <2>3. CASE ~enabled /\ topState # "Ready"
      <3>1. m \in Enabling(Here)
        BY <1>2, <2>3 DEF EnsureEnabled
      <3>2. topState \in Resting \ {"Disconnected"}
        BY <1>2, OffIdle DEF IInv, DisconnectedMeansClosed
      <3>3. QED BY <3>1, <3>2, EnablingOwned
    <2>4. QED BY <2>1, <2>2, <2>3 DEF IInv, TypeOK
  <1>3. QED BY <1>1, <1>2

\* A refused body that kept the state and the output, or became Ready, is owned.
LEMMA SameOwned ==
  ASSUME NEW e, Owned(e), NEW m, m.on = e.on, m.top \in {e.top, "Ready"}
  PROVE  Owned(m)
  BY DEF Owned

\* A refusal with an owned body strands nothing.
LEMMA RefusedOwned ==
  ASSUME NEW m, Owned(m), Refuse(m), bringup' = bringup
  PROVE  Stranded' => Stranded
  BY OwnedReturns DEF Refuse

\* What the replayed health check makes of a body.
LEMMA ReplayOwned ==
  ASSUME NEW e \in Bodies
  PROVE  /\ ReplayHealthCheck(e) \in Bodies /\ ReplayHealthCheck(e).on = e.on
         /\ ReplayHealthCheck(e).top \in {e.top, "Ready"}
  <1> DEFINE q == To(e, "MotionHealthCheckRequested")
  <1>1. CASE e.top = "Enabled"
    <2>1. q \in Bodies /\ q.top = "MotionHealthCheck" /\ q.on = e.on
      BY <1>1, ToBody, OnMotionHealthCheck DEF Bodies, Answers, Replies
    <2>2. "MotionHealthCheck" \in States /\ "ok" \in Answers
      BY <2>1 DEF Bodies, Answers, Replies
    <2>3. /\ To(q, "MotionHealthCheckSucceeded") \in Bodies
          /\ To(q, "MotionHealthCheckSucceeded").top = "Ready"
          /\ To(q, "MotionHealthCheckSucceeded").on = e.on
      BY <2>1, <2>2, ToBody, OnMotionHealthCheck
    <2>4. QED BY <1>1, <2>3 DEF ReplayHealthCheck
  <1>2. CASE e.top # "Enabled"
    BY <1>2 DEF ReplayHealthCheck
  <1>3. QED BY <1>1, <1>2

\* The setup operations are refused with owned bodies.
LEMMA BegunOwned ==
  ASSUME IInv, ~Reconfigurable, NEW gate, NEW request, NEW b \in Begun(gate, request),
         b.ans # "begun"
  PROVE  Owned(b)
  <1>1. PICK e \in EnsureEnabled(Here) :
          b = IF e.ans # "ok" THEN e
              ELSE IF ~gate THEN Answer(e, "error")
              ELSE IF ~Accepts(e.top, request) THEN Answer(e, "rejected")
              ELSE Answer(To(e, request), "begun")
    BY DEF Begun
  <1>2. b = e \/ b = Answer(e, "error") \/ b = Answer(e, "rejected")
    BY <1>1 DEF Answer, Body
  <1>3. b.on = e.on /\ b.top = e.top
    BY <1>2 DEF Answer, Body
  <1>4. QED BY <1>3, EnsureEnabledOwned, SameOwned

\* The clamps, which replay the health check before their gate.
LEMMA ClampBegunOwned ==
  ASSUME IInv, ~Reconfigurable, NEW b \in ClampBegun, b.ans # "begun"
  PROVE  Owned(b)
  <1> DEFINE Armed(e) == IF e.top = "Disabled" THEN To(e, "EnableSucceeded") ELSE e
             Ready(e) == IF health THEN ReplayHealthCheck(Armed(e)) ELSE e
  <1>1. PICK e \in EnsureEnabled(Here) :
          b = IF e.ans # "ok" THEN e
              ELSE IF ~learned THEN Answer(e, "error")
              ELSE IF Ready(e).top # "Ready" THEN Answer(Ready(e), "error")
              ELSE Answer(To(Ready(e), "ClampRequested"), "begun")
    BY DEF ClampBegun
  <1>2. Owned(e) /\ e \in Bodies
    BY EnsureEnabledOwned, EnsureEnabledBody DEF Idle, Sound
  <1>3. CASE b = e \/ b = Answer(e, "error")
    <2>1. b.on = e.on /\ b.top = e.top
      BY <1>3 DEF Answer, Body
    <2>2. QED BY <1>2, <2>1, SameOwned
  <1>4. CASE b = Answer(Ready(e), "error")
    <2>1. /\ Armed(e) \in Bodies /\ Armed(e).on = e.on
          /\ Armed(e).top \in {e.top, "Enabled"}
      <3>1. e.top \in States /\ "ok" \in Answers
        BY <1>2 DEF Bodies, Answers, Replies
      <3>2. QED BY <1>2, <3>1, ToBody, OnEnabling
    <2>2. /\ Ready(e).on = e.on
          /\ Ready(e).top \in {e.top, "Enabled", "Ready"}
      BY <2>1, ReplayOwned
    <2>3. b.on = e.on /\ b.top \in {e.top, "Enabled", "Ready"}
      <3> HIDE DEF Ready
      <3> QED BY <1>4, <2>2 DEF Answer, Body
    <2>4. QED BY <1>2, <2>3 DEF Owned
  <1>5. b = e \/ b = Answer(e, "error") \/ b = Answer(Ready(e), "error")
    <2>1. \A m : Answer(m, "begun").ans = "begun"
      BY DEF Answer, Body
    <2>2. QED BY <1>1, <2>1
  <1>6. QED BY <1>3, <1>4, <1>5

\* What is to be shown of each step: it strands no output but a manual move's.
Unstranded == Stranded' => Stranded \/ ran' = "manualMove"

\* A motion other than the manual move ends with the output off.
LEMMA MotionUnstrands ==
  ASSUME Unpowered, ran' # "none"
  PROVE  Unstranded
  BY DEF Unpowered, Unstranded, Stranded

\* The operations of the workflow that begin with ensureEnabled and a gate.
LEMMA WorkflowUnstrands ==
  ASSUME IInv, ~Reconfigurable,
         \/ RunPreSelfCheck \/ HomeOpenStop \/ LearnTravelLimits \/ RunMotionHealthCheck
         \/ ClampByForce \/ ClampBySpeed
  PROVE  Unstranded
  <1>1. bringup' = bringup
    BY DEF RunPreSelfCheck, HomeOpenStop, LearnTravelLimits, RunMotionHealthCheck,
           ClampByForce, ClampBySpeed
  <1>2. Unpowered
    BY PreSelfCheckKeeps, HomingKeeps, LearningKeeps, HealthCheckKeeps,
       ClampByForceKeeps, ClampBySpeedKeeps DEF Kept
  <1>3. \/ \E gate, request : \E b \in Begun(gate, request) : b.ans # "begun" /\ Refuse(b)
        \/ \E b \in ClampBegun : b.ans # "begun" /\ Refuse(b)
        \/ ran' # "none"
    BY DEF RunPreSelfCheck, HomeOpenStop, LearnTravelLimits, RunMotionHealthCheck,
           ClampByForce, ClampBySpeed, SelfCheckRuns, HomingRuns, LearningRuns,
           HealthCheckRuns, ClampRuns
  <1>4. QED
    BY <1>1, <1>2, <1>3, BegunOwned, ClampBegunOwned, RefusedOwned, MotionUnstrands
       DEF Unstranded

\* release() is refused with owned bodies and ends unpowered.
LEMMA ReleaseUnstrands ==
  ASSUME IInv, ~Reconfigurable, Release
  PROVE  Unstranded
  <1>1. CASE ran' # "none"
    BY <1>1, ReleaseKeeps, MotionUnstrands DEF Kept
  <1>2. CASE Refuse(Answer(Here, "error"))
    BY <1>2, RefusedHere DEF Release, Unstranded, Stranded
  <1>3. CASE ran' = "none" /\ ~Refuse(Answer(Here, "error"))
    <2>1. configured /\ connected /\ ~bringup /\ bringup' = bringup
      BY <1>3 DEF Release
    <2>2. PICK e \in IF enabled THEN {Here} ELSE Enabling(Here) :
            Refuse(e) \/ Refuse(Answer(ReplayHealthCheck(e), "rejected"))
      BY <1>3 DEF Release, ReleaseRuns
    <2>3. topState \in Resting \ {"Disconnected"}
      BY <2>1, OffIdle DEF IInv, DisconnectedMeansClosed
    <2>4. Owned(e) /\ e \in Bodies
      <3>1. CASE e = Here
        BY <3>1, HereOwned, HereIdle DEF Idle, Sound
      <3>2. CASE e \in Enabling(Here)
        BY <2>1, <2>3, <3>2, EnablingOwned, EnablingBody, HereIdle DEF Idle, Sound
      <3>3. QED BY <2>2, <3>1, <3>2
    <2>5. Owned(Answer(ReplayHealthCheck(e), "rejected"))
      <3>1. /\ Answer(ReplayHealthCheck(e), "rejected").on = e.on
            /\ Answer(ReplayHealthCheck(e), "rejected").top \in {e.top, "Ready"}
        BY <2>4, ReplayOwned DEF Answer, Body
      <3>2. QED BY <2>4, <3>1, SameOwned
    <2>6. QED BY <2>1, <2>2, <2>4, <2>5, RefusedOwned DEF Unstranded
  <1>4. QED BY <1>1, <1>2, <1>3

\* The manual move may strand the output once it has begun, not when refused.
LEMMA MoveToNutStrokeUnstrands ==
  ASSUME IInv, ~Reconfigurable, MoveToNutStroke
  PROVE  Unstranded
  <1>1. CASE ran' = "manualMove"
    BY <1>1 DEF Unstranded
  <1>2. CASE Refuse(Answer(Here, "error"))
    BY <1>2, RefusedHere DEF MoveToNutStroke, Unstranded, Stranded
  <1>3. CASE ran' # "manualMove" /\ ~Refuse(Answer(Here, "error"))
    <2> DEFINE p(e) == IF e.top = "Disabled" THEN To(e, "EnableSucceeded") ELSE e
    <2>1. PICK e \in EnsureEnabled(Here) : Refuse(e) \/ Refuse(Answer(p(e), "error"))
      BY <1>3 DEF MoveToNutStroke, ManualMoveRuns
    <2>2. Owned(e) /\ e \in Bodies
      BY EnsureEnabledOwned, EnsureEnabledBody DEF Idle, Sound
    <2>3. p(e).on = e.on /\ p(e).top \in {e.top, "Enabled"}
      <3>1. e.top \in States /\ "ok" \in Answers
        BY <2>2 DEF Bodies, Answers, Replies
      <3>2. QED BY <2>2, <3>1, ToBody, OnEnabling
    <2>4. Owned(Answer(p(e), "error"))
      <3> HIDE DEF p
      <3> QED BY <2>2, <2>3 DEF Owned, Answer, Body
    <2>5. bringup' = bringup
      BY DEF MoveToNutStroke
    <2>6. QED BY <2>1, <2>2, <2>4, <2>5, RefusedOwned DEF Unstranded
  <1>4. QED BY <1>1, <1>2, <1>3

\* The link operations.
LEMMA LinkUnstrands ==
  ASSUME IInv, ~Reconfigurable, Configure \/ Connect \/ Disconnect \/ Enable \/ Disable
  PROVE  Unstranded
  <1>1. CASE Configure
    BY <1>1 DEF Configure, IInv, LinkInv, Unstranded, Stranded
  <1>2. CASE Connect
    <2>1. ~enabled' \/ Refuse(Answer(Here, "error"))
      BY <1>2 DEF Connect, Refuse, Return, To, Answer, Off, Output, Body
    <2>2. QED BY <1>2, <2>1, RefusedHere DEF Connect, Unstranded, Stranded
  <1>3. CASE Disconnect
    BY <1>3 DEF Disconnect, Return, To, Off, Output, Body, Unstranded, Stranded
  <1>4. CASE Enable
    <2>1. CASE Return(Here, "error")
      BY <1>4, <2>1, HereOwned, OwnedReturns DEF Enable, Unstranded
    <2>2. CASE connected /\ \E b \in Enabling(Here) : Return(b, b.ans)
      <3>1. topState \in Resting \ {"Disconnected"}
        BY <2>2, OffIdle DEF IInv, DisconnectedMeansClosed
      <3>2. QED BY <1>4, <2>2, <3>1, EnablingOwned, OwnedReturns DEF Enable, Unstranded
    <2>3. QED BY <1>4, <2>1, <2>2 DEF Enable
  <1>5. CASE Disable
    BY <1>5, DisableBody DEF Unstranded, Stranded
  <1>6. QED BY <1>1, <1>2, <1>3, <1>4, <1>5

\* Stop, recovery, feedback, bring-up and a fault of the device.
LEMMA OtherUnstrands ==
  ASSUME IInv,
         \/ Stop \/ ClearFault \/ Update \/ MotorFaults
         \/ EnterMotorBringupMode \/ ExitMotorBringupMode
         \/ RefreshMotorBringupFeedback \/ EnableMotorBringupOutput
         \/ DisableMotorBringupOutput \/ JogMotorBringup
         \/ MoveMotorBringupRelativeTurns
  PROVE  Unstranded
  <1>1. CASE Stop
    BY <1>1 DEF Stop, Return, To, Off, Output, Body, Unstranded, Stranded
  <1>2. CASE ClearFault
    <2>1. PICK m \in {Here, Off(Here), Body(topState, FALSE, FALSE, "ok")} :
            Return(IF topState \in Latched THEN To(m, "FaultCleared") ELSE m, "ok")
      BY <1>2 DEF ClearFault
    <2>2. m.top = topState /\ (m.on => enabled)
      BY <2>1 DEF Here, Off, Output, Body
    <2>3. enabled' => enabled
      BY <2>1, <2>2 DEF Return, To, Body
    <2>4. CASE topState \in Latched
      BY <1>2, <2>3, <2>4 DEF ClearFault, Latched, Unstranded, Stranded
    <2>5. CASE topState \notin Latched
      <3>1. topState' = topState
        BY <2>1, <2>2, <2>5 DEF Return
      <3>2. QED BY <1>2, <2>3, <3>1 DEF ClearFault, Unstranded, Stranded
    <2>6. QED BY <2>4, <2>5
  <1>3. CASE Update
    <2>1. PICK b \in {Here} \union Observed(Here), a \in {"ok", "error"} : Return(b, a)
      BY <1>3 DEF Update
    <2>2. Owned(b)
      <3>1. b = Here \/ ~b.on
        BY <2>1 DEF Observed, Tripped, Body
      <3>2. QED BY <3>1, HereOwned DEF Owned
    <2>3. QED BY <1>3, <2>1, <2>2, OwnedReturns DEF Update, Unstranded
  <1>4. CASE MotorFaults
    BY <1>4 DEF MotorFaults, Unstranded, Stranded
  <1>5. CASE EnterMotorBringupMode
    BY <1>5 DEF EnterMotorBringupMode, Refuse, Return, Answer, Off, Output, Here, Body,
                Unstranded, Stranded
  <1>6. CASE ExitMotorBringupMode
    BY <1>6 DEF ExitMotorBringupMode, Refuse, Return, Answer, Off, Output, Here, Body,
                IInv, LinkInv, Unstranded, Stranded
  <1>7. ASSUME NEW bodies, NEW motion, BringupCall(bodies, motion)
        PROVE  Unstranded
    <2>1. CASE Refuse(Answer(Here, "error"))
      BY <1>7, <2>1, RefusedHere DEF BringupCall, Unstranded, Stranded
    <2>2. CASE ~Refuse(Answer(Here, "error"))
      BY <1>7, <2>2 DEF BringupCall, BringupActive, Unstranded, Stranded
    <2>3. QED BY <2>1, <2>2
  <1>8. CASE \/ RefreshMotorBringupFeedback \/ EnableMotorBringupOutput
             \/ DisableMotorBringupOutput \/ JogMotorBringup
             \/ MoveMotorBringupRelativeTurns
    BY <1>7, <1>8 DEF RefreshMotorBringupFeedback, EnableMotorBringupOutput,
       DisableMotorBringupOutput, JogMotorBringup, MoveMotorBringupRelativeTurns,
       BringupMotion
  <1>9. QED BY <1>1, <1>2, <1>3, <1>4, <1>5, <1>6, <1>8

\* Only the manual nut-stroke move can leave the output on in a state that does not
\* own it, with one configure() call (disableAfterMotion in every other operation).
THEOREM OnlyMoveStrands ==
  ASSUME ~Reconfigurable PROVE Spec => OnlyManualMoveStrands
  <1>1. IInv /\ [Next]_vars => [Unstranded]_vars
    BY WorkflowUnstrands, ReleaseUnstrands, MoveToNutStrokeUnstrands, LinkUnstrands,
       OtherUnstrands DEF Next
  <1>2. IInv /\ [Next]_vars => [Stranded' => Stranded \/ ran' = "manualMove"]_vars
    BY <1>1 DEF Unstranded
  <1>3. QED BY <1>2, Inductive, PTL DEF Spec, OnlyManualMoveStrands
=============================================================================
