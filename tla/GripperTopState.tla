-------------------------- MODULE GripperTopState --------------------------
(***************************************************************************)
(* The transition table of controller/state_machine/gripper_state_machine: *)
(* the business states of the gripper, the events, and what one dispatch   *)
(* makes of a state.  Only operators: GripperStateMachine gives them the   *)
(* class's state, GripperController and SelfCheckCancellation call them    *)
(* where the controller calls state_machine_.dispatch.                     *)
(***************************************************************************)

\* Running states of motion-producing operations (isActiveMotionState).
ActiveMotion == {"PreSelfCheck", "HomingOpenStop", "TravelLearning",
                 "MotionHealthCheck", "Clamping", "Unloading", "Releasing",
                 "ManualPositioning"}

\* isTerminalLike: the states only FaultCleared or a global event leaves.
Latched == {"ActiveStop", "Fault"}

States == {"Disconnected", "Connected", "HardwareSanityCheck", "ModeSwitching",
           "Enabled", "Ready", "Disabled"} \union ActiveMotion \union Latched

\* <<from, event, to>>: the switch of nextState.
Edges ==
  { <<"Disconnected",        "ConnectSucceeded",           "Connected">>,
    <<"Connected",           "HardwareCheckRequested",     "HardwareSanityCheck">>,
    <<"Connected",           "ModeSwitchRequested",        "ModeSwitching">>,
    <<"HardwareSanityCheck", "HardwareCheckPassed",        "ModeSwitching">>,
    <<"HardwareSanityCheck", "HardwareCheckFailed",        "Fault">>,
    <<"ModeSwitching",       "EnableSucceeded",            "Enabled">>,
    <<"ModeSwitching",       "ModeSwitchFailed",           "Fault">>,
    <<"Enabled",             "PreSelfCheckRequested",      "PreSelfCheck">>,
    <<"Enabled",             "MoveNutStrokeRequested",     "ManualPositioning">>,
    <<"Enabled",             "HomingRequested",            "HomingOpenStop">>,
    <<"Enabled",             "TravelLearningRequested",    "TravelLearning">>,
    <<"Enabled",             "MotionHealthCheckRequested", "MotionHealthCheck">>,
    <<"Enabled",             "DisableRequested",           "Disabled">>,
    <<"PreSelfCheck",        "PreSelfCheckSucceeded",      "Enabled">>,
    <<"PreSelfCheck",        "PreSelfCheckFailed",         "ActiveStop">>,
    <<"HomingOpenStop",      "HomingSucceeded",            "Enabled">>,
    <<"HomingOpenStop",      "HomingFailed",               "Fault">>,
    <<"TravelLearning",      "TravelLearningSucceeded",    "Enabled">>,
    <<"TravelLearning",      "TravelLearningFailed",       "Fault">>,
    <<"MotionHealthCheck",   "MotionHealthCheckSucceeded", "Ready">>,
    <<"MotionHealthCheck",   "MotionHealthCheckFailed",    "ActiveStop">>,
    <<"Ready",               "ClampRequested",             "Clamping">>,
    <<"Ready",               "MoveNutStrokeRequested",     "ManualPositioning">>,
    <<"Ready",               "ReleaseRequested",           "Releasing">>,
    <<"Ready",               "DisableRequested",           "Disabled">>,
    <<"Clamping",            "ClampCompleted",             "Unloading">>,
    <<"Clamping",            "ClampFailed",                "ActiveStop">>,
    <<"Unloading",           "DisableCompleted",           "Disabled">>,
    <<"Unloading",           "ReleaseCompleted",           "Ready">>,
    <<"Releasing",           "ReleaseCompleted",           "Ready">>,
    <<"Releasing",           "ReleaseFailed",              "ActiveStop">>,
    <<"ManualPositioning",   "MoveNutStrokeCompleted",     "Unloading">>,
    <<"ManualPositioning",   "MoveNutStrokeFailed",        "ActiveStop">>,
    <<"Disabled",            "EnableSucceeded",            "Enabled">>,
    <<"ActiveStop",          "FaultCleared",               "Disabled">>,
    <<"Fault",               "FaultCleared",               "Disabled">> }

\* Mutant of GlobalTarget: a stop only powers off.
GlobalTargetStopDisables(e) ==
  IF e = "FaultTriggered" THEN "Fault"
  ELSE IF e = "DisconnectRequested" THEN "Disconnected"
  ELSE IF e = "StopRequested" THEN "Disabled"
  ELSE "ActiveStop"

\* The events nextState honours before it looks at the state (acceptsFromAny).
GlobalTarget(e) ==
  IF e = "FaultTriggered" THEN "Fault"
  ELSE IF e = "DisconnectRequested" THEN "Disconnected"
  ELSE "ActiveStop"

GlobalEvents == {"FaultTriggered", "ActiveStopTriggered", "StopRequested",
                 "DisconnectRequested"}

\* Events of the enumeration that no state has a transition for.
IgnoredEvents == {"ConnectRequested", "ConnectFailed", "ModeSwitchSucceeded",
                  "EnableRequested", "EnableFailed"}

Events == GlobalEvents \union IgnoredEvents \union {edge[2] : edge \in Edges}

\* canAccept, with the early rejection of everything but FaultCleared in a
\* latched state.
Accepts(s, e) ==
  \/ e \in GlobalEvents
  \/ /\ s \in Latched => e = "FaultCleared"
     /\ \E n \in States : <<s, e, n>> \in Edges

\* The state after dispatch(e): the target when accepted, s when rejected.
Dispatch(s, e) ==
  IF e \in GlobalEvents THEN GlobalTarget(e)
  ELSE IF Accepts(s, e) THEN CHOOSE n \in States : <<s, e, n>> \in Edges
  ELSE s
=============================================================================
