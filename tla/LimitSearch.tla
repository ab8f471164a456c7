---------------------------- MODULE LimitSearch ----------------------------
(***************************************************************************)
(* PreB, the preliminary limit search of PreSelfCheck: one scan in each    *)
(* direction, going on past the card points, and after each stop a release *)
(* away from it before anything else moves.  Positions are counted from    *)
(* where PreB starts, closing is positive.                                 *)
(***************************************************************************)
EXTENDS Breakaway

CONSTANTS
  Reach,            \* how far the nut can physically be from the start
  MaxExpansion,     \* pre_b_max_expansion_distance
  MotorWindow,      \* the motor's position window, from the start
  ReleaseDistance   \* preBBoundaryReleaseDistance

\* A release has something to do: 1 mm against 0.2 mm by default.
ASSUME SearchAssumption ==
  /\ {Reach, MaxExpansion, MotorWindow, ReleaseDistance} \subseteq Nat
  /\ ReleaseDistance > MaxError /\ Effective > 0

VARIABLES
  x,              \* current_nut_stroke_
  dir, second,    \* the direction searched, and whether it is the second one
  scan,           \* expansion_start_stroke, observed_limit, segment_index and
                  \* made_effective_progress of searchPreliminaryLimit
  bounds,         \* open_limit and closed_limit
  recommended,    \* <direction>_release_recommended
  releaseFailed,  \* boundary_release_failed
  release,        \* what the release is for, released_distance and whether
                  \* attempt_index is odd
  against         \* history: a stop the nut ran into and was not released from,
                  \* and whether the nut was seen at rest there

preB == <<x, dir, second, scan, bounds, recommended, releaseFailed, release, against>>

NoScan    == [begun |-> 0, seen |-> 0, segment |-> 0, progressed |-> FALSE]
NoRelease == [why |-> "none", done |-> 0, odd |-> FALSE]
NoStop    == [dir |-> "none", atRest |-> FALSE]

Positions == -Reach .. Reach
MaxSegments == (MaxExpansion + Effective - 1) \div Effective + 4

-----------------------------------------------------------------------------
(* What the decisions of PreB read off a probe. *)

\* A stop and contradictory feedback end the search, or the learning, before
\* anything else is read.  A release from a boundary looks at no other error.
Fatal(o) == Normalize(o) \in {"activeStop", "inconsistent"}

PreBReadings ==
  {[stop |-> o.code = "activeStop", contradicts |-> o.code = "inconsistent",
    unsettled |-> Unsettled(o), result |-> Normalize(o),
    moved |-> IF Fatal(o) THEN 0 ELSE o.moved, reached |-> o.reached /\ ~Fatal(o),
    effective |-> EffectiveProgress(o) /\ ~Fatal(o),
    passed |-> PassThrough(o) /\ ~Fatal(o), boundary |-> Boundary(o) /\ ~Fatal(o)] :
     o \in Reported(FALSE, TRUE)}

\* A probe of PreB in direction d with outcome r.
ProbedB(d, r) ==
  /\ Probed(r)
  /\ x' = x + Sign(d) * r.moved /\ x' \in Positions

-----------------------------------------------------------------------------
InitB ==
  /\ x = 0 /\ dir = "Opening" /\ second = FALSE /\ scan = NoScan
  /\ bounds = [d \in Directions |-> 0]
  /\ recommended = [d \in Directions |-> FALSE] /\ releaseFailed = FALSE
  /\ release = NoRelease /\ against = NoStop

\* The cancel check after the short strokes, then the search order: a start at
\* the opening stop goes the other way first.
StartSearch ==
  /\ pc = "afterStrokes" /\ UNCHANGED <<preA, stopped, contradicted>>
  /\ UNCHANGED <<x, second, scan, bounds, recommended, releaseFailed, release, against>>
  /\ IF stopped THEN End("aborted") /\ UNCHANGED dir
     ELSE /\ pc' = "scan" /\ UNCHANGED result
          /\ dir' = IF suspected["Opening"] /\ ~suspected["Closing"] THEN "Closing"
                    ELSE "Opening"

Target   == scan.begun + Sign(dir) * MaxExpansion
Expanded == Larger(0, Sign(dir) * (scan.seen - scan.begun))
\* What preBTargetExceedsMotorPositionWindow leaves in the direction of the search.
WindowLeft == Larger(0, MotorWindow - Sign(dir) * x)
\* preBScanDistanceInsideMotorWindow.
Room == Smaller(Size(Target - x), WindowLeft)

\* Mutant of OutOfSegments: one segment too many.
OneSegmentMore == scan.segment > MaxSegments
OutOfSegments == scan.segment = MaxSegments
\* Mutant of NextSegment: an iteration that goes on is not counted.
SameSegment == scan.segment
NextSegment == scan.segment + 1
FullyExpanded == MaxExpansion - Expanded <= MaxError

\* A release is asked for.
ReleaseFor(why) == [NoRelease EXCEPT !.why = why]

\* The cancel check comes after two ways out of the search.
LooksForStop == MaxExpansion > MaxError /\ ~OutOfSegments

\* An iteration that runs no probe.
ScanEnds ==
  /\ pc = "scan" /\ scan' = NoScan
  /\ \/ stopped /\ LooksForStop /\ End("failed") /\ UNCHANGED bounds
     \/ /\ ~LooksForStop \/ (~stopped /\ FullyExpanded)
        /\ pc' = "turn" /\ UNCHANGED <<bounds, result>>
     \/ /\ ~stopped /\ LooksForStop /\ ~FullyExpanded /\ Room <= MaxError
        /\ pc' = "turn" /\ bounds' = [bounds EXCEPT ![dir] = x] /\ UNCHANGED result
  /\ UNCHANGED <<preA, stopped, contradicted, x, dir, second, recommended, releaseFailed,
                 release, against>>

\* applyPreBProbeProgress: by how much the probe moved the frontier.
Advance(r) ==
  LET gain == Sign(dir) * (x' - scan.seen)
  IN  IF r.effective /\ gain > NoProgress THEN gain ELSE 0

CardPointStop(r) ==
  /\ r.result \in {"timedOut", "jam", "endStop"}
  /\ Advance(r) >= Effective /\ r.passed

\* Mutant of AfterScan: a boundary is only noted, not released from.
AfterScanNoted(r) ==
  IF r.result = "ok" \/ r.boundary THEN "over"
  ELSE IF CardPointStop(r) THEN "card"
  ELSE IF ~CanDegrade(r.result) THEN "failed"
  ELSE IF scan.progressed \/ Advance(r) >= Effective THEN "on" ELSE "over"

\* What follows a scan whose probe came to rest.  The retry after a soft jam is
\* left out: it needs a jam that is no boundary, which Possible rules out.
AfterScan(r) ==
  IF r.result = "ok" THEN "over"
  ELSE IF CardPointStop(r) THEN "card"
  ELSE IF r.boundary /\ r.result \in {"timedOut", "jam", "endStop"} THEN "stop"
  ELSE IF ~CanDegrade(r.result) THEN "failed"
  ELSE IF scan.progressed \/ Advance(r) >= Effective THEN "on" ELSE "over"

\* markPreBMechanicalLimit.
Mark(next) == suspected' = [suspected EXCEPT ![dir] = @ \/ next = "stop"]

\* recommendPreBReleaseAfterStop.
Recommend(next) ==
  recommended' = [recommended EXCEPT ![dir] = @ \/ next \in {"card", "stop"}]

\* One iteration of searchPreliminaryLimit.
Scan ==
  /\ pc = "scan" /\ ~stopped /\ ~OutOfSegments /\ ~FullyExpanded /\ Room > MaxError
  /\ \E r \in PreBReadings :
       LET gain == IF r.unsettled THEN 0 ELSE Advance(r)
           next == IF ~r.unsettled THEN AfterScan(r)
                   ELSE IF CanDegrade(r.result) THEN "over" ELSE "failed"
       IN  /\ ProbedB(dir, r)
           /\ bounds' = [bounds EXCEPT ![dir] = IF gain > 0 THEN x' ELSE @]
           /\ Mark(next) /\ Recommend(next)
           /\ scan' = IF next \in {"card", "on"}
                      THEN [scan EXCEPT !.seen = @ + Sign(dir) * gain, !.segment = NextSegment,
                                        !.progressed = @ \/ gain >= Effective]
                      ELSE NoScan
           /\ release' = IF next = "card" THEN ReleaseFor("card") ELSE NoRelease
           /\ against' = IF r.result # "ok" /\ (r.boundary \/ next = "card")
                         THEN [dir |-> dir, atRest |-> ~r.unsettled] ELSE against
           /\ pc' = CASE next = "card" -> "release" [] next = "on" -> "scan"
                      [] next = "failed" -> "done" [] OTHER -> "turn"
           /\ result' = IF next = "failed" THEN "failed" ELSE result
  /\ UNCHANGED <<speed, current, lowest, found, last, dir, second, releaseFailed>>

-----------------------------------------------------------------------------
(* Between the searches. *)

\* searchPreliminaryLimit is entered where the nut stands.
Begin == [NoScan EXCEPT !.begun = x', !.seen = x']

\* The search of the other direction, or the bounds.
GoOn ==
  IF second THEN pc' = "bounds" /\ scan' = NoScan /\ UNCHANGED <<dir, second>>
  ELSE /\ pc' = "scan" /\ second' = TRUE /\ dir' = Other(dir)
       /\ scan' = Begin

\* After the search of one direction.
Turn ==
  /\ pc = "turn" /\ UNCHANGED x
  /\ IF recommended[dir]
     THEN /\ pc' = "release" /\ release' = ReleaseFor("after")
          /\ UNCHANGED <<dir, second, scan>>
     ELSE GoOn /\ UNCHANGED release
  /\ UNCHANGED <<preA, stopped, contradicted, result, bounds, recommended, releaseFailed,
                 against>>

-----------------------------------------------------------------------------
(* releasePreBStoppedDirection: away from dir, over and over until the       *)
(* distance is gained.                                                       *)

StillShort(distance) == distance + MaxError < ReleaseDistance

\* What follows a release probe, with the distance gained so far.
AfterRelease(r, gained) ==
  IF r.unsettled THEN IF CanDegrade(r.result) THEN "degraded" ELSE "failed"
  ELSE IF r.result \in {"inconsistent", "activeStop"} THEN "failed"
  ELSE IF r.boundary THEN IF r.effective /\ StillShort(gained) THEN "on" ELSE "degraded"
  ELSE IF r.result # "ok" /\ ~CanDegrade(r.result) THEN "failed"
  ELSE IF r.reached \/ ~StillShort(gained) THEN "released" ELSE "on"

\* Its degradable error ends the scan after a card point, which asks for another
\* release, and the whole search after a scan.
Released(next) ==
  CASE next = "released" ->
         /\ against' = NoStop /\ UNCHANGED <<result, releaseFailed>>
         /\ IF release.why = "card" THEN pc' = "scan" /\ UNCHANGED <<dir, second, scan>>
            ELSE GoOn
    [] next = "degraded" /\ release.why = "card" ->
         /\ pc' = "turn" /\ scan' = NoScan
         /\ UNCHANGED <<result, releaseFailed, dir, second, against>>
    [] next = "degraded" /\ release.why = "after" ->
         /\ pc' = "bounds" /\ releaseFailed' = TRUE /\ scan' = NoScan
         /\ UNCHANGED <<result, dir, second, against>>
    [] next = "failed" ->
         /\ End("failed") /\ scan' = NoScan
         /\ UNCHANGED <<releaseFailed, dir, second, against>>

\* One iteration: the cancel check, or a probe.
Release ==
  /\ pc = "release"
  /\ \/ /\ stopped /\ End("failed") /\ release' = NoRelease /\ scan' = NoScan
        /\ UNCHANGED <<x, dir, second, releaseFailed, against, stopped, contradicted>>
     \/ /\ ~stopped
        /\ \E r \in PreBReadings :
             LET gained == release.done
                           + Smaller(Size(r.moved), ReleaseDistance - release.done)
                 next   == AfterRelease(r, gained)
             IN  /\ ProbedB(Other(dir), r)
                 /\ IF next = "on"
                    THEN /\ release' = [release EXCEPT !.done = gained, !.odd = ~@]
                         /\ UNCHANGED <<pc, result, dir, second, scan, releaseFailed, against>>
                    ELSE Released(next) /\ release' = NoRelease
  /\ UNCHANGED <<preA, bounds, recommended>>

NextB == StartSearch \/ ScanEnds \/ Scan \/ Turn \/ Release

-----------------------------------------------------------------------------
(* Properties. *)

\* A stop at which the nut was seen at rest is released before the nut is driven
\* the other way to look for the other limit, also when the first releases of
\* card points failed or the stop was found late.
ReleasedBeforeReversing ==
  pc = "scan" /\ against.dir = Other(dir) => ~against.atRest
=============================================================================
