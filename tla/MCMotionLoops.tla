--------------------------- MODULE MCMotionLoops ---------------------------
(* Strokes in and below the travel, whose safe zone leaves out one, and      *)
(* currents below contact, at contact, at jam and above the hard limit.     *)
EXTENDS MotionLoops

MCStrokes == -1 .. 2
MCOperationCurrent == [o \in Operations |-> IF o = "homing" THEN 1 ELSE 2]
MCBringupMost ==
  [m \in BringupMotions |-> [way |-> IF m = "jog" THEN 1 ELSE 2, speed |-> 1,
                             current |-> 1, time |-> IF m = "jog" THEN 2 ELSE 3]]
MCBringupUsual ==
  [m \in BringupMotions |-> [way |-> 1, speed |-> 1, current |-> 1,
                             time |-> IF m = "jog" THEN 1 ELSE 0]]

\* Nothing given, and too much of everything in the other direction.
MCAsked == {[way |-> 0, sign |-> 1, speed |-> 0, current |-> 0, time |-> 0],
            [way |-> -3, sign |-> 1, speed |-> 2, current |-> 3, time |-> 4]}
=============================================================================
