----------------------------- MODULE Breakaway -----------------------------
(***************************************************************************)
(* PreA, the first half of PreSelfCheck: the paired breakaway scan, which  *)
(* raises the current in turn in both directions until the nut moves, and  *)
(* the stable short strokes.  A direction that does not move is suspected  *)
(* to be a stop.  One step is one probe or one decision between two        *)
(* probes; what a probe can report is ProbeOutcome's Possible.             *)
(***************************************************************************)
EXTENDS ProbeOutcome, TLC

CONSTANTS
  Speeds, Currents,   \* how many levels the scans climb
  Ripple,             \* max_current_ripple, in current levels
  StrokeTarget,       \* distance of a short stroke
  Forth, Back         \* distances a probe can report, the commanded way or not

\* There is a first speed: an empty range fails before anything is probed.
ASSUME LevelsAssumption ==
  /\ {Speeds, Currents, Ripple, StrokeTarget} \union Forth \union Back \subseteq Nat
  /\ Speeds >= 1

Moves == Forth \union {-m : m \in Back}

Directions == {"Opening", "Closing"}
Other(d) == IF d = "Opening" THEN "Closing" ELSE "Opening"
Sign(d)  == IF d = "Opening" THEN -1 ELSE 1

VARIABLES
  pc,
  stopped,        \* operationCancelRequested
  result,         \* how runPreSelfCheck ended
  suspected,      \* pre_self_check_<direction>_boundary_suspected_
  speed, current, \* levels of the scan that runs
  lowest,         \* the current level the scan starts with
  found,          \* level at which each direction broke away, 0 when it did not
  last,           \* direction of the last probe, if it looked like a boundary
  contradicted    \* history: some settled probe reported contradictory feedback

preA == <<suspected, speed, current, lowest, found, last>>

NotFound == [d \in Directions |-> 0]

\* selfCheckBreakawayStartCurrent: the configured level, or one below what an
\* earlier check has learnt.
StartLevels == 1 .. Currents

-----------------------------------------------------------------------------
(* What the decisions read off a probe. *)

\* What a probe with these options can report.
Reported(micro, suppress) == {o \in Outcomes(Moves) : Possible(o, micro, suppress)}

BreakawayReading(o, listed) ==
  [stop |-> o.code = "activeStop", unsettled |-> Unsettled(o),
   drift |-> LooksLikeDrift(o), boundary |-> LooksLikeBoundary(o),
   fatal |-> Unrecoverable(o, listed), accepted |-> Accepted(o),
   contradicts |-> o.code = "inconsistent"]
BreakawayReadings ==
  UNION {{BreakawayReading(o, listed) : o \in Reported(TRUE, FALSE)} : listed \in BOOLEAN}

ShortReading(o, listed) ==
  [stop |-> o.code = "activeStop", unsettled |-> Unsettled(o),
   contradicts |-> o.code = "inconsistent", retreat |-> Retreat(o),
   atBoundary |-> AtBoundary(o, listed), stable |-> StableShort(o, StrokeTarget)]
ShortReadings ==
  UNION {{ShortReading(o, listed) : o \in Reported(FALSE, FALSE)} : listed \in BOOLEAN}

\* A probe: it begins with the cancel check, and a stop may arrive during it.
Probed(r) ==
  /\ stopped => r.stop
  /\ stopped' = r.stop
  /\ contradicted' = (contradicted \/ r.contradicts)

End(how) == pc' = "done" /\ result' = how

\* The loops over speeds and currents: the next level, or the end of the scan.
MoreLevels == current < Currents \/ speed < Speeds
NextLevel ==
  IF current < Currents THEN current' = current + 1 /\ UNCHANGED speed
  ELSE speed' = speed + 1 /\ current' = lowest

-----------------------------------------------------------------------------
InitA ==
  /\ pc = "pair" /\ stopped = FALSE /\ result = "none"
  /\ suspected = [d \in Directions |-> FALSE]
  /\ lowest \in StartLevels
  /\ speed = 1 /\ current = lowest
  /\ found = NotFound /\ last = "none" /\ contradicted = FALSE

\* Before a pair: the cancel check.
Pair ==
  /\ pc = "pair" /\ UNCHANGED <<preA, stopped, contradicted>>
  /\ IF stopped THEN End("failed")
     ELSE pc' = (IF found["Closing"] = 0 THEN "Closing" ELSE "Opening") /\ UNCHANGED result

\* markEarlyBreakawayOppositeDriftBoundary.
MarkDrift(d, r) == suspected' = [suspected EXCEPT ![d] = @ \/ r.drift]

\* completeOneSidedBreakawayAsOppositeDriftBoundary.
Drifted(d, r) == r.drift /\ found[Other(d)] > 0

\* One probe of the pair.  A low-energy drift the other way marks d as a
\* boundary, and ends the scan when the other direction is already confirmed,
\* before the report's own error is looked at.
Try(d) ==
  /\ pc = d
  /\ \E r \in BreakawayReadings :
       /\ Probed(r)
       /\ IF r.unsettled
          THEN End("failed") /\ UNCHANGED <<suspected, found, last>>
          ELSE /\ MarkDrift(d, r)
               /\ IF Drifted(d, r)
                  THEN pc' = "strokes" /\ UNCHANGED <<result, found, last>>
                  ELSE IF r.fatal THEN End("failed") /\ UNCHANGED <<found, last>>
                  ELSE /\ found' = [found EXCEPT ![d] = IF r.accepted THEN current ELSE 0]
                       /\ last' = IF r.boundary THEN d ELSE "none"
                       /\ pc' = IF d = "Closing" /\ found["Opening"] = 0 THEN "Opening"
                                ELSE "judge"
                       /\ UNCHANGED result
  /\ UNCHANGED <<speed, current, lowest>>

\* Mutant of OneSided: the wrong direction is taken for the boundary.
OneSidedWrongWay(d) ==
  /\ found[d] > 0 /\ found[Other(d)] = 0 /\ last = Other(d)
  /\ current >= Smaller(Currents, found[d] + Ripple)

\* completeOneSidedBreakawayAsLowConfidenceBoundary, d being the missing
\* direction.
OneSided(d) ==
  /\ found[d] = 0 /\ found[Other(d)] > 0 /\ last = d
  /\ current >= Smaller(Currents, found[Other(d)] + Ripple)

\* After a pair.
Judge ==
  /\ pc = "judge" /\ UNCHANGED <<stopped, contradicted, lowest, found, last>>
  /\ IF \A d \in Directions : found[d] > 0
     THEN pc' = "strokes" /\ UNCHANGED <<suspected, speed, current, result>>
     ELSE \/ \E d \in Directions :
               /\ OneSided(d) /\ pc' = "strokes"
               /\ suspected' = [suspected EXCEPT ![d] = TRUE]
               /\ UNCHANGED <<speed, current, result>>
          \/ /\ \A d \in Directions : ~OneSided(d)
             /\ UNCHANGED suspected
             /\ IF MoreLevels THEN NextLevel /\ pc' = "pair" /\ UNCHANGED result
                ELSE End("failed") /\ UNCHANGED <<speed, current>>

-----------------------------------------------------------------------------
(* runStableShortStrokeSamples: whatever its result is, the orchestrator      *)
(* goes on, unless a stop was requested.                                      *)

\* Leaving PreA: its locals are gone.
LeaveA ==
  /\ pc' = "afterStrokes" /\ UNCHANGED result
  /\ speed' = 1 /\ current' = 1 /\ lowest' = 1 /\ found' = NotFound /\ last' = "none"

\* Its currents start at a level of their own.
StartStrokes ==
  /\ pc = "strokes" /\ UNCHANGED <<stopped, contradicted, suspected>>
  /\ IF stopped THEN End("aborted") /\ UNCHANGED <<speed, current, lowest, found, last>>
     ELSE IF \E d \in Directions : suspected[d] THEN LeaveA
     ELSE /\ lowest' \in StartLevels /\ current' = lowest' /\ speed' = 1
          /\ pc' = "stroke" /\ UNCHANGED <<found, last, result>>

\* acceptEndpointStartEscape: one stroke left the stop the other ran into.
Escaped(closing, opening) ==
  IF closing.retreat /\ opening.atBoundary THEN "Opening"
  ELSE IF opening.retreat /\ closing.atBoundary THEN "Closing" ELSE "none"

\* One closing and one opening stroke; the second is not run when the first
\* ended the phase.
Stroke ==
  /\ pc = "stroke"
  /\ \/ stopped /\ LeaveA /\ UNCHANGED <<stopped, contradicted, suspected>>
     \/ /\ ~stopped
        /\ \E r \in ShortReadings :
             /\ r.unsettled \/ r.contradicts
             /\ Probed(r) /\ LeaveA /\ UNCHANGED suspected
     \/ /\ ~stopped
        /\ \E c, o \in ShortReadings :
             /\ ~c.unsettled /\ ~c.contradicts /\ c.stop => o.stop
             /\ stopped' = o.stop
             /\ contradicted' = (contradicted \/ o.contradicts)
             /\ IF o.unsettled \/ o.contradicts THEN LeaveA /\ UNCHANGED suspected
                ELSE /\ suspected' = [d \in Directions |->
                                        suspected[d] \/ d = Escaped(c, o)]
                     /\ IF Escaped(c, o) # "none" \/ (c.stable /\ o.stable) \/ ~MoreLevels
                        THEN LeaveA
                        ELSE NextLevel /\ UNCHANGED <<pc, result, lowest, found, last>>

NextA == Pair \/ (\E d \in Directions : Try(d)) \/ Judge \/ StartStrokes \/ Stroke

-----------------------------------------------------------------------------
(* Properties. *)

\* PreA is passed only with a direction that was seen to move; the other one
\* moved too or is marked as a boundary, at whatever level and in whatever
\* order the two gave way.
DirectionsAccounted ==
  pc \in {"strokes", "stroke"} =>
    /\ \E d \in Directions : found[d] > 0
    /\ \A d \in Directions : found[d] > 0 \/ suspected[d]
=============================================================================
