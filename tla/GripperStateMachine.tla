------------------------- MODULE GripperStateMachine -------------------------
(***************************************************************************)
(* The class GripperStateMachine: the snapshot it keeps and its four       *)
(* mutators, under callers that dispatch any event at any time.  A         *)
(* rejected dispatch changes nothing and so is a stuttering step.  The     *)
(* proofs about other modules extend those about this one, hence the names *)
(* of its specification.                                                   *)
(***************************************************************************)
EXTENDS GripperTopState

VARIABLE snapshot   \* GripperStateSnapshot

Snapshots == [state : States, previous : States, lastEvent : Events,
              faultActive : BOOLEAN, activeStop : BOOLEAN]

SnapshotTypeOK == snapshot \in Snapshots

\* Mutant of Initial: no event yet.
InitialUnset == [state |-> "Disconnected", previous |-> "Disconnected",
                 lastEvent |-> "none",
                 faultActive |-> FALSE, activeStop |-> FALSE]

Initial == [state |-> "Disconnected", previous |-> "Disconnected",
            lastEvent |-> "DisconnectRequested",
            faultActive |-> FALSE, activeStop |-> FALSE]

SnapshotInit == snapshot = Initial

DispatchEvent(e) ==
  LET next == Dispatch(snapshot.state, e)
  IN  /\ Accepts(snapshot.state, e)
      /\ snapshot' = [state |-> next, previous |-> snapshot.state,
                      lastEvent |-> e,
                      faultActive |-> next = "Fault",
                      activeStop |-> next = "ActiveStop"]

ForceFault ==
  snapshot' = [state |-> "Fault", previous |-> snapshot.state,
               lastEvent |-> "FaultTriggered",
               faultActive |-> TRUE, activeStop |-> FALSE]

\* Mutant of ForceActiveStop: the fault flag is not cleared.
ForceActiveStopOverFault ==
  snapshot' = [state |-> "ActiveStop", previous |-> snapshot.state,
               lastEvent |-> "ActiveStopTriggered",
               faultActive |-> snapshot.faultActive, activeStop |-> TRUE]

ForceActiveStop ==
  snapshot' = [state |-> "ActiveStop", previous |-> snapshot.state,
               lastEvent |-> "ActiveStopTriggered",
               faultActive |-> FALSE, activeStop |-> TRUE]

ResetToDisconnected == snapshot' = Initial

SnapshotNext == \/ \E e \in Events : DispatchEvent(e)
        \/ ForceFault
        \/ ForceActiveStop
        \/ ResetToDisconnected

SnapshotSpec == SnapshotInit /\ [][SnapshotNext]_snapshot

-----------------------------------------------------------------------------
(* Properties *)

\* The two flags a display or a log reads agree with the state, whichever of
\* the five paths (dispatch, forceFault, forceActiveStop, reset, a forced stop
\* over a fault) wrote them last.
FlagsAgree == /\ snapshot.faultActive <=> snapshot.state = "Fault"
              /\ snapshot.activeStop  <=> snapshot.state = "ActiveStop"

\* The snapshot a reader gets has its type and flags that agree with its state.
SnapshotOK == SnapshotTypeOK /\ FlagsAgree

PostureOf(s) ==
  IF s = "Disconnected" THEN "offline"
  ELSE IF s \in ActiveMotion THEN "moving"
  ELSE IF s = "Ready" THEN "work"
  ELSE IF s = "Disabled" THEN "safe"
  ELSE IF s \in Latched THEN "latch"
  ELSE "setup"

Abstract == INSTANCE SafetyPosture
              WITH Offline <- "offline", Setup <- "setup", Moving <- "moving",
                   Work <- "work", Safe <- "safe", Latch <- "latch",
                   posture <- PostureOf(snapshot.state)

\* The transition table keeps the promise of SafetyPosture: no edge starts
\* motion from Disabled or from a latched stop, none reaches Ready except out
\* of motion, and a latched stop recovers into Disabled only.
KeepsPosture == Abstract!Spec
=============================================================================
