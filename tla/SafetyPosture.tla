---------------------------- MODULE SafetyPosture ----------------------------
(***************************************************************************)
(* What the top-level state machine promises, without its states: the      *)
(* gripper has one of six postures, motion begins only from a prepared     *)
(* posture, work is only reached out of motion, and a latched stop is left *)
(* towards Safe or Offline and nowhere else.                               *)
(***************************************************************************)
CONSTANTS Offline, Setup, Moving, Work, Safe, Latch

VARIABLE posture

Postures == {Offline, Setup, Moving, Work, Safe, Latch}

Init == posture = Offline

Open     == posture = Offline /\ posture' = Setup
\* A setup or work motion begins, and ends back in Setup, in Work once the
\* mechanism has been exercised, or unloaded.
Begin    == posture \in {Setup, Work} /\ posture' = Moving
Conclude == posture = Moving /\ posture' \in {Setup, Work, Safe}
PowerOff == posture \in {Setup, Work} /\ posture' = Safe
PowerOn  == posture = Safe /\ posture' = Setup
Trip     == posture' = Latch
Recover  == posture = Latch /\ posture' = Safe
Close    == posture' = Offline

Next == Open \/ Begin \/ Conclude \/ PowerOff \/ PowerOn \/ Trip \/ Recover \/ Close

Spec == Init /\ [][Next]_posture
=============================================================================
