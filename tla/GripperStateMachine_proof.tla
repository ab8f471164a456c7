---------------------- MODULE GripperStateMachine_proof ----------------------
(***************************************************************************)
(* The transition table as equations: for each event the controller uses,  *)
(* the states that accept it and the state a dispatch of it leads to.  The *)
(* proofs about the modules that call Dispatch cite these facts instead of *)
(* the set of edges.  From them: the snapshot of GripperStateMachine is    *)
(* well typed, its flags agree with its state, and the class implements    *)
(* SafetyPosture.                                                          *)
(***************************************************************************)
EXTENDS GripperStateMachine, TLAPS

-----------------------------------------------------------------------------
(* The table. *)

\* No two edges leave one state on one event: nextState is a function.
THEOREM EdgesDeterministic ==
  ASSUME NEW s, NEW e, NEW n, NEW m,
         <<s, e, n>> \in Edges, <<s, e, m>> \in Edges
  PROVE  n = m
  BY DEF Edges

\* A dispatch leads from a state to a state, whatever the event.
THEOREM DispatchType ==
  ASSUME NEW s \in States, NEW e
  PROVE  Dispatch(s, e) \in States
  <1>1. CASE e \in GlobalEvents
    BY <1>1 DEF Dispatch, GlobalTarget, States, Latched
  <1>2. CASE e \notin GlobalEvents /\ Accepts(s, e)
    BY <1>2 DEF Dispatch, Accepts
  <1>3. CASE e \notin GlobalEvents /\ ~Accepts(s, e)
    BY <1>3 DEF Dispatch
  <1>4. QED BY <1>1, <1>2, <1>3

\* A dispatch follows an edge of the table, goes where a global event points,
\* or is rejected and stays.
THEOREM DispatchFollows ==
  ASSUME NEW s \in States, NEW e
  PROVE  \/ e \in GlobalEvents /\ Dispatch(s, e) = GlobalTarget(e)
         \/ Accepts(s, e) /\ <<s, e, Dispatch(s, e)>> \in Edges
         \/ ~Accepts(s, e) /\ Dispatch(s, e) = s
  BY DEF Dispatch, Accepts

\* The events that lead out of every state.
THEOREM DispatchGlobal ==
  ASSUME NEW s
  PROVE  /\ Dispatch(s, "StopRequested") = "ActiveStop"
         /\ Dispatch(s, "ActiveStopTriggered") = "ActiveStop"
         /\ Dispatch(s, "FaultTriggered") = "Fault"
         /\ Dispatch(s, "DisconnectRequested") = "Disconnected"
  BY DEF Dispatch, GlobalEvents, GlobalTarget

\* The events that lead nowhere.
THEOREM DispatchIgnored ==
  ASSUME NEW s, NEW e \in IgnoredEvents
  PROVE  Dispatch(s, e) = s
  BY DEF Dispatch, Accepts, IgnoredEvents, GlobalEvents, Edges

\* Connecting, and the end of a motor output: disable() and clearFault().
LEMMA OnConnection ==
  ASSUME NEW s \in States
  PROVE  /\ Accepts(s, "ConnectSucceeded") <=> s = "Disconnected"
         /\ Dispatch(s, "ConnectSucceeded") =
              IF s = "Disconnected" THEN "Connected" ELSE s
         /\ Accepts(s, "DisableRequested") <=> s \in {"Enabled", "Ready"}
         /\ Dispatch(s, "DisableRequested") =
              IF s \in {"Enabled", "Ready"} THEN "Disabled" ELSE s
         /\ Accepts(s, "DisableCompleted") <=> s = "Unloading"
         /\ Dispatch(s, "DisableCompleted") =
              IF s = "Unloading" THEN "Disabled" ELSE s
         /\ Accepts(s, "FaultCleared") <=> s \in {"ActiveStop", "Fault"}
         /\ Dispatch(s, "FaultCleared") =
              IF s \in {"ActiveStop", "Fault"} THEN "Disabled" ELSE s
  BY DEF Dispatch, Accepts, GlobalEvents, Edges, States, Latched, ActiveMotion

\* The path of enable() from Connected.
LEMMA OnEnabling ==
  ASSUME NEW s \in States
  PROVE  /\ Accepts(s, "HardwareCheckRequested") <=> s = "Connected"
         /\ Dispatch(s, "HardwareCheckRequested") =
              IF s = "Connected" THEN "HardwareSanityCheck" ELSE s
         /\ Accepts(s, "HardwareCheckPassed") <=> s = "HardwareSanityCheck"
         /\ Dispatch(s, "HardwareCheckPassed") =
              IF s = "HardwareSanityCheck" THEN "ModeSwitching" ELSE s
         /\ Accepts(s, "EnableSucceeded") <=> s \in {"ModeSwitching", "Disabled"}
         /\ Dispatch(s, "EnableSucceeded") =
              IF s \in {"ModeSwitching", "Disabled"} THEN "Enabled" ELSE s
  BY DEF Dispatch, Accepts, GlobalEvents, Edges, States, Latched, ActiveMotion

\* The self-check starts from Enabled and fails into ActiveStop.
LEMMA OnPreSelfCheck ==
  ASSUME NEW s \in States
  PROVE  /\ Accepts(s, "PreSelfCheckRequested") <=> s = "Enabled"
         /\ Dispatch(s, "PreSelfCheckRequested") =
              IF s = "Enabled" THEN "PreSelfCheck" ELSE s
         /\ Accepts(s, "PreSelfCheckSucceeded") <=> s = "PreSelfCheck"
         /\ Dispatch(s, "PreSelfCheckSucceeded") =
              IF s = "PreSelfCheck" THEN "Enabled" ELSE s
         /\ Accepts(s, "PreSelfCheckFailed") <=> s = "PreSelfCheck"
         /\ Dispatch(s, "PreSelfCheckFailed") =
              IF s = "PreSelfCheck" THEN "ActiveStop" ELSE s
  BY DEF Dispatch, Accepts, GlobalEvents, Edges, States, Latched, ActiveMotion

\* Homing starts from Enabled and fails into Fault.
LEMMA OnHoming ==
  ASSUME NEW s \in States
  PROVE  /\ Accepts(s, "HomingRequested") <=> s = "Enabled"
         /\ Dispatch(s, "HomingRequested") =
              IF s = "Enabled" THEN "HomingOpenStop" ELSE s
         /\ Accepts(s, "HomingSucceeded") <=> s = "HomingOpenStop"
         /\ Dispatch(s, "HomingSucceeded") =
              IF s = "HomingOpenStop" THEN "Enabled" ELSE s
         /\ Accepts(s, "HomingFailed") <=> s = "HomingOpenStop"
         /\ Dispatch(s, "HomingFailed") =
              IF s = "HomingOpenStop" THEN "Fault" ELSE s
  BY DEF Dispatch, Accepts, GlobalEvents, Edges, States, Latched, ActiveMotion

\* Travel learning starts from Enabled and fails into Fault.
LEMMA OnTravelLearning ==
  ASSUME NEW s \in States
  PROVE  /\ Accepts(s, "TravelLearningRequested") <=> s = "Enabled"
         /\ Dispatch(s, "TravelLearningRequested") =
              IF s = "Enabled" THEN "TravelLearning" ELSE s
         /\ Accepts(s, "TravelLearningSucceeded") <=> s = "TravelLearning"
         /\ Dispatch(s, "TravelLearningSucceeded") =
              IF s = "TravelLearning" THEN "Enabled" ELSE s
         /\ Accepts(s, "TravelLearningFailed") <=> s = "TravelLearning"
         /\ Dispatch(s, "TravelLearningFailed") =
              IF s = "TravelLearning" THEN "Fault" ELSE s
  BY DEF Dispatch, Accepts, GlobalEvents, Edges, States, Latched, ActiveMotion

\* The health check, the one way into Ready from a setup state.
LEMMA OnMotionHealthCheck ==
  ASSUME NEW s \in States
  PROVE  /\ Accepts(s, "MotionHealthCheckRequested") <=> s = "Enabled"
         /\ Dispatch(s, "MotionHealthCheckRequested") =
              IF s = "Enabled" THEN "MotionHealthCheck" ELSE s
         /\ Accepts(s, "MotionHealthCheckSucceeded") <=> s = "MotionHealthCheck"
         /\ Dispatch(s, "MotionHealthCheckSucceeded") =
              IF s = "MotionHealthCheck" THEN "Ready" ELSE s
         /\ Accepts(s, "MotionHealthCheckFailed") <=> s = "MotionHealthCheck"
         /\ Dispatch(s, "MotionHealthCheckFailed") =
              IF s = "MotionHealthCheck" THEN "ActiveStop" ELSE s
  BY DEF Dispatch, Accepts, GlobalEvents, Edges, States, Latched, ActiveMotion

\* A clamp starts from Ready only and fails into ActiveStop.
LEMMA OnClamp ==
  ASSUME NEW s \in States
  PROVE  /\ Accepts(s, "ClampRequested") <=> s = "Ready"
         /\ Dispatch(s, "ClampRequested") =
              IF s = "Ready" THEN "Clamping" ELSE s
         /\ Accepts(s, "ClampCompleted") <=> s = "Clamping"
         /\ Dispatch(s, "ClampCompleted") =
              IF s = "Clamping" THEN "Unloading" ELSE s
         /\ Accepts(s, "ClampFailed") <=> s = "Clamping"
         /\ Dispatch(s, "ClampFailed") =
              IF s = "Clamping" THEN "ActiveStop" ELSE s
  BY DEF Dispatch, Accepts, GlobalEvents, Edges, States, Latched, ActiveMotion

\* A release starts from Ready only; its completion also ends Unloading.
LEMMA OnRelease ==
  ASSUME NEW s \in States
  PROVE  /\ Accepts(s, "ReleaseRequested") <=> s = "Ready"
         /\ Dispatch(s, "ReleaseRequested") =
              IF s = "Ready" THEN "Releasing" ELSE s
         /\ Accepts(s, "ReleaseCompleted") <=> s \in {"Unloading", "Releasing"}
         /\ Dispatch(s, "ReleaseCompleted") =
              IF s \in {"Unloading", "Releasing"} THEN "Ready" ELSE s
         /\ Accepts(s, "ReleaseFailed") <=> s = "Releasing"
         /\ Dispatch(s, "ReleaseFailed") =
              IF s = "Releasing" THEN "ActiveStop" ELSE s
  BY DEF Dispatch, Accepts, GlobalEvents, Edges, States, Latched, ActiveMotion

\* The manual nut-stroke move starts from Enabled or Ready and ends by unloading.
LEMMA OnMoveNutStroke ==
  ASSUME NEW s \in States
  PROVE  /\ Accepts(s, "MoveNutStrokeRequested") <=> s \in {"Enabled", "Ready"}
         /\ Dispatch(s, "MoveNutStrokeRequested") =
              IF s \in {"Enabled", "Ready"} THEN "ManualPositioning" ELSE s
         /\ Accepts(s, "MoveNutStrokeCompleted") <=> s = "ManualPositioning"
         /\ Dispatch(s, "MoveNutStrokeCompleted") =
              IF s = "ManualPositioning" THEN "Unloading" ELSE s
         /\ Accepts(s, "MoveNutStrokeFailed") <=> s = "ManualPositioning"
         /\ Dispatch(s, "MoveNutStrokeFailed") =
              IF s = "ManualPositioning" THEN "ActiveStop" ELSE s
  BY DEF Dispatch, Accepts, GlobalEvents, Edges, States, Latched, ActiveMotion

-----------------------------------------------------------------------------
(* The class. *)

\* The snapshot always holds a state, a previous state, an event and two flags.
THEOREM SnapshotTypeCorrect == SnapshotSpec => []SnapshotTypeOK
  <1>1. SnapshotInit => SnapshotTypeOK
    BY DEF SnapshotInit, Initial, SnapshotTypeOK, Snapshots, States, Events, GlobalEvents
  <1>2. SnapshotTypeOK /\ [SnapshotNext]_snapshot => SnapshotTypeOK'
    <2> SUFFICES ASSUME SnapshotTypeOK, [SnapshotNext]_snapshot PROVE SnapshotTypeOK'
      OBVIOUS
    <2>1. snapshot.state \in States
      BY DEF SnapshotTypeOK, Snapshots
    <2>2. {"Disconnected", "Fault", "ActiveStop"} \subseteq States
      BY DEF States, Latched
    <2>3. {"DisconnectRequested", "FaultTriggered", "ActiveStopTriggered"}
            \subseteq Events
      BY DEF Events, GlobalEvents
    <2>4. ASSUME NEW e \in Events, DispatchEvent(e) PROVE SnapshotTypeOK'
      BY <2>1, <2>4, DispatchType DEF DispatchEvent, SnapshotTypeOK, Snapshots
    <2>5. CASE ForceFault
      BY <2>1, <2>2, <2>3, <2>5 DEF ForceFault, SnapshotTypeOK, Snapshots
    <2>6. CASE ForceActiveStop
      BY <2>1, <2>2, <2>3, <2>6 DEF ForceActiveStop, SnapshotTypeOK, Snapshots
    <2>7. CASE ResetToDisconnected
      BY <2>2, <2>3, <2>7 DEF ResetToDisconnected, Initial, SnapshotTypeOK, Snapshots
    <2>8. CASE UNCHANGED snapshot
      BY <2>8 DEF SnapshotTypeOK
    <2>9. QED BY <2>4, <2>5, <2>6, <2>7, <2>8 DEF SnapshotNext
  <1>3. QED BY <1>1, <1>2, PTL DEF SnapshotSpec

\* faultActive and activeStop are set in Fault and in ActiveStop and nowhere else.
THEOREM FlagsCorrect == SnapshotSpec => []FlagsAgree
  <1>1. SnapshotInit => FlagsAgree
    BY DEF SnapshotInit, Initial, FlagsAgree
  <1>2. FlagsAgree /\ [SnapshotNext]_snapshot => FlagsAgree'
    <2> SUFFICES ASSUME FlagsAgree, [SnapshotNext]_snapshot PROVE FlagsAgree'
      OBVIOUS
    <2>1. ASSUME NEW e \in Events, DispatchEvent(e) PROVE FlagsAgree'
      BY <2>1 DEF DispatchEvent, FlagsAgree
    <2>2. CASE ForceFault
      BY <2>2 DEF ForceFault, FlagsAgree
    <2>3. CASE ForceActiveStop
      BY <2>3 DEF ForceActiveStop, FlagsAgree
    <2>4. CASE ResetToDisconnected
      BY <2>4 DEF ResetToDisconnected, Initial, FlagsAgree
    <2>5. CASE UNCHANGED snapshot
      BY <2>5 DEF FlagsAgree
    <2>6. QED BY <2>1, <2>2, <2>3, <2>4, <2>5 DEF SnapshotNext
  <1>3. QED BY <1>1, <1>2, PTL DEF SnapshotSpec

\* Both: whatever is read of the snapshot is typed and tells one story.
THEOREM SnapshotCorrect == SnapshotSpec => []SnapshotOK
  BY SnapshotTypeCorrect, FlagsCorrect, PTL DEF SnapshotOK

\* An edge of the table is a move of the posture or leaves it as it is.
LEMMA EdgeKeepsPosture ==
  ASSUME NEW s, NEW e, NEW n, <<s, e, n>> \in Edges
  PROVE  LET p == PostureOf(s)
             q == PostureOf(n)
         IN  \/ q = p
             \/ p = "offline" /\ q = "setup"
             \/ p \in {"setup", "work"} /\ q = "moving"
             \/ p = "moving" /\ q \in {"setup", "work", "safe"}
             \/ p \in {"setup", "work"} /\ q = "safe"
             \/ p = "safe" /\ q = "setup"
             \/ q = "latch"
             \/ p = "latch" /\ q = "safe"
  BY DEF Edges, PostureOf, ActiveMotion, Latched

\* GripperStateMachine implements SafetyPosture: every dispatch, forced stop
\* and reset is a step of the abstract posture or leaves it unchanged.
THEOREM Implements == SnapshotSpec => KeepsPosture
  <1>1. SnapshotInit => Abstract!Init
    BY DEF SnapshotInit, Initial, Abstract!Init, PostureOf
  <1>2. SnapshotTypeOK /\ [SnapshotNext]_snapshot => [Abstract!Next]_(PostureOf(snapshot.state))
    <2> SUFFICES ASSUME SnapshotTypeOK, [SnapshotNext]_snapshot
                 PROVE  [Abstract!Next]_(PostureOf(snapshot.state))
      OBVIOUS
    <2> DEFINE Step == Abstract!Next \/ UNCHANGED PostureOf(snapshot.state)
    <2>1. snapshot.state \in States
      BY DEF SnapshotTypeOK, Snapshots
    <2>2. PostureOf("Fault") = "latch" /\ PostureOf("ActiveStop") = "latch"
          /\ PostureOf("Disconnected") = "offline"
      BY DEF PostureOf, ActiveMotion, Latched
    <2>3. ASSUME NEW e \in Events, DispatchEvent(e) PROVE Step
      <3>1. snapshot'.state = Dispatch(snapshot.state, e)
        BY <2>3 DEF DispatchEvent
      <3>2. CASE e \in GlobalEvents /\ Dispatch(snapshot.state, e) = GlobalTarget(e)
        <4>1. PostureOf(snapshot'.state) \in {"latch", "offline"}
          BY <2>2, <3>1, <3>2 DEF GlobalTarget
        <4>2. QED
          BY <4>1 DEF Abstract!Next, Abstract!Trip, Abstract!Close
      <3>3. CASE <<snapshot.state, e, Dispatch(snapshot.state, e)>> \in Edges
        BY <3>1, <3>3, EdgeKeepsPosture
           DEF Abstract!Next, Abstract!Open, Abstract!Begin, Abstract!Conclude,
               Abstract!PowerOff, Abstract!PowerOn, Abstract!Trip, Abstract!Recover
      <3>4. QED
        BY <2>1, <2>3, <3>2, <3>3, DispatchFollows DEF DispatchEvent
    <2>4. CASE ForceFault \/ ForceActiveStop
      BY <2>2, <2>4 DEF ForceFault, ForceActiveStop, Abstract!Next, Abstract!Trip
    <2>5. CASE ResetToDisconnected
      BY <2>2, <2>5 DEF ResetToDisconnected, Initial, Abstract!Next, Abstract!Close
    <2>6. CASE UNCHANGED snapshot
      BY <2>6
    <2>7. QED BY <2>3, <2>4, <2>5, <2>6 DEF SnapshotNext
  <1>3. QED BY <1>1, <1>2, SnapshotTypeCorrect, PTL DEF SnapshotSpec, KeepsPosture, Abstract!Spec
=============================================================================
