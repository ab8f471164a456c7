---------------------------- MODULE PreSelfCheck ----------------------------
(***************************************************************************)
(* runPreSelfCheck from the noise samples to the end: PreA, PreB, the safe *)
(* zone, the last release, the learning in several regions and the new     *)
(* structure profile.  stop() may arrive between any two probes and during *)
(* each of them.                                                           *)
(***************************************************************************)
EXTENDS LimitSearch, FiniteSetsExt

CONSTANTS
  SafeMargin,     \* safe_zone_margin
  ProbeWindow,    \* max_probe_window
  MinRegions,     \* pre_b_min_learning_regions
  AnchorCount,    \* pre_b_learning_anchor_count
  LearnSpeeds,    \* dynamic friction speeds below the cap
  MoveSteps       \* bound: probes of one moveToSelfCheckStroke

ASSUME LearningAssumption ==
  {SafeMargin, ProbeWindow, MinRegions, AnchorCount, LearnSpeeds, MoveSteps} \subseteq Nat

VARIABLES
  anchors,     \* anchors still to be visited, each with its region
  step,        \* where the visit of the first of them stands
  gained,      \* it accepted a sample
  regions,     \* accepted_regions
  samples,     \* regions of the samples in SelfCheckInput
  cutShort,    \* history: the learning ended with an error of a probe
  profile      \* profile_: its window, and the regions it was learnt from

learning == <<anchors, step, gained, regions, samples, cutShort>>
vars == <<pc, stopped, result, contradicted, preA, preB, learning, profile>>

NoStep == [moves |-> 0, speed |-> 0, turn |-> "none"]
Seed   == [window |-> "seed", learnt |-> {}]

-----------------------------------------------------------------------------
(* Windows. *)

MinWidth == Larger(MinMeasured, 2 * MotionStart)
Low(b)   == Smaller(b["Opening"], b["Closing"])
High(b)  == Larger(b["Opening"], b["Closing"])
Width(b) == High(b) - Low(b)
Valid(b) == Width(b) >= MinWidth

\* preSelfCheckSafeZoneFromBounds.
SafeZone(b) ==
  LET margin == Smaller(SafeMargin, (Width(b) - MinWidth) \div 2)
  IN  [open |-> Low(b) + margin, closed |-> High(b) - margin]

\* fallbackPreSelfCheckExpansionBounds; the window is even in the unit chosen.
FallbackWidth == Larger(Larger(MotionStart, MicroMotion), Larger(StrokeTarget, MinMeasured))
Fallback(p) == [d \in Directions |-> p + Sign(d) * (FallbackWidth \div 2)]

-----------------------------------------------------------------------------
InitC ==
  /\ anchors = {} /\ step = NoStep
  /\ gained = FALSE /\ regions = {} /\ samples = {} /\ cutShort = FALSE
  /\ profile = Seed

Init == InitA /\ InitB /\ InitC

\* stop() of another thread.
Stop ==
  /\ pc # "done" /\ ~stopped /\ stopped' = TRUE
  /\ UNCHANGED <<pc, result, contradicted, preA, preB, learning, profile>>

\* Mutant of AfterBounds: the flag is lost with the fallback.
AlwaysRelease == "lastRelease"
AfterBounds == IF releaseFailed THEN "update" ELSE "lastRelease"

\* An error of the search leaves unusable bounds.
TooNarrow == bounds["Closing"] - bounds["Opening"] < MinWidth
FallsBack == releaseFailed \/ (TooNarrow /\ ~Valid(bounds))

\* The end of runPreliminaryLimitSearch and what the orchestrator makes of it.
Bounds ==
  /\ pc = "bounds" /\ pc' = AfterBounds
  /\ bounds' = IF FallsBack THEN Fallback(x) ELSE bounds
  /\ recommended' = [d \in Directions |-> ~FallsBack /\ (recommended[d] \/ suspected[d])]
  /\ UNCHANGED <<stopped, result, contradicted, preA, x, dir, second, scan, releaseFailed,
                 release, against, learning, profile>>

-----------------------------------------------------------------------------
(* releasePreBMechanicalBoundary, before the learning: one probe. *)

\* From the nearer stop when both were met.
ReleaseDirection ==
  IF recommended["Opening"]
     /\ (~recommended["Closing"]
         \/ Size(x - bounds["Opening"]) <= Size(x - bounds["Closing"]))
  THEN "Closing" ELSE "Opening"

Clamp(p, z) == Smaller(Larger(p, z.open), z.closed)
LastTarget ==
  Clamp(x + Sign(ReleaseDirection) * ReleaseDistance, SafeZone(bounds))

NothingToRelease ==
  \/ \A d \in Directions : ~recommended[d]
  \/ ~Valid(bounds)              \* an error that is only reported
  \/ Size(LastTarget - x) <= MaxError

\* The probe is given the direction and the distance of the target.  Its own
\* degradable errors are reported and the learning goes on.
LastRelease ==
  /\ pc = "lastRelease"
  /\ \/ /\ NothingToRelease /\ pc' = "learn"
        /\ UNCHANGED <<stopped, result, contradicted, x, against>>
     \/ /\ ~NothingToRelease
        /\ \E r \in PreBReadings :
             LET failed == IF r.unsettled THEN ~CanDegrade(r.result)
                           ELSE r.result \in {"inconsistent", "activeStop"}
                                \/ (~r.boundary /\ r.result # "ok" /\ ~CanDegrade(r.result))
             IN  /\ ProbedB(ReleaseDirection, r)
                 /\ IF failed THEN End("failed") ELSE pc' = "learn" /\ UNCHANGED result
                 /\ against' = IF ~r.unsettled /\ ~r.boundary THEN NoStop ELSE against
  /\ UNCHANGED <<preA, dir, second, scan, bounds, recommended, releaseFailed, release,
                 learning, profile>>

-----------------------------------------------------------------------------
(* runSafeZoneRoundTripSamples.  Positions are not followed any more: what    *)
(* the room around an anchor allows is left open.                             *)

Required == Larger(3, MinRegions)
Sample   == Larger(MinMeasured, ProbeWindow)
ZoneWidth == SafeZone(bounds).closed - SafeZone(bounds).open

\* sample_distance is a quarter of the zone at most, and a region has to hold two.
RoomForRegions ==
  /\ Smaller(ZoneWidth, 4 * Sample) >= 4 * MinMeasured
  /\ 2 * ZoneWidth >= Required * Smaller(ZoneWidth, 4 * Sample)

\* buildPreBLearningAnchorCandidates: the extra anchors go round the regions.
PerRegion(g) ==
  1 + Cardinality({k \in Required .. Larger(AnchorCount, Required) - 1 : k % Required = g})
Candidates == UNION {{g} \X (1 .. PerRegion(g)) : g \in 0 .. Required - 1}

LearnReadings ==
  {[stop |-> o.code = "activeStop", contradicts |-> o.code = "inconsistent",
    unsettled |-> Unsettled(o), result |-> Normalize(o),
    reached |-> o.reached /\ ~Fatal(o), goesOn |-> PassThrough(o) /\ ~Fatal(o),
    usable |-> UsableSample(o, Sample) /\ ~Fatal(o)] :
     o \in Reported(FALSE, TRUE)}

\* The learning ends; the orchestrator only reports its error.
LeaveLearning(kept, cut) ==
  /\ pc' = "update" /\ samples' = kept /\ cutShort' = cut
  /\ anchors' = {} /\ step' = NoStep /\ gained' = FALSE /\ regions' = {}

\* What the learning does not read again is forgotten.
Forget ==
  /\ x' = 0 /\ dir' = "Opening" /\ second' = FALSE
  /\ recommended' = [d \in Directions |-> FALSE]
  /\ UNCHANGED <<scan, bounds, releaseFailed, release>>

\* moveContinuouslyToPreBStroke to the open end of the zone fails.
StrandedOnTheWay(r) ==
  /\ Size(SafeZone(bounds).open - x) > MaxError
  /\ r.unsettled \/ r.result # "ok" \/ ~r.reached

\* The anchors near which no friction anomaly was found.
CleanAnchors == (SUBSET Candidates) \ {{}}

\* The visit of the anchors begins with nothing accepted.
StartLearning ==
  /\ pc' = "anchor" /\ anchors' \in CleanAnchors
  /\ UNCHANGED <<step, gained, regions, samples, cutShort>>

\* The move to the open end, and the choice of the anchors: without room for the
\* regions, or with an anomaly near every anchor, the learning ends.
Learn ==
  /\ pc = "learn" /\ Forget /\ UNCHANGED <<preA, result, profile, against>>
  /\ \/ /\ ~Valid(bounds) \/ stopped
        /\ LeaveLearning({}, FALSE) /\ UNCHANGED <<stopped, contradicted>>
     \/ /\ Valid(bounds) /\ ~stopped
        /\ \/ \E r \in LearnReadings :
                StrandedOnTheWay(r) /\ Probed(r) /\ LeaveLearning({}, FALSE)
           \/ /\ UNCHANGED <<stopped, contradicted>>
              /\ LeaveLearning({}, FALSE) \/ (RoomForRegions /\ StartLearning)

At == CHOOSE a \in anchors :
        \A b \in anchors : a[1] < b[1] \/ (a[1] = b[1] /\ a[2] <= b[2])

NextAnchor(seen, kept) ==
  /\ pc' = "anchor" /\ anchors' = anchors \ {At} /\ regions' = seen /\ samples' = kept
  /\ step' = NoStep /\ gained' = FALSE /\ UNCHANGED cutShort

\* Mutant of Settled: samples of too few regions are kept.
SettledKeeps(seen, kept) ==
  IF anchors \ {At} = {} THEN LeaveLearning(kept, FALSE) ELSE NextAnchor(seen, kept)

\* After an anchor: the next one, or the verdict on the regions.
Settled(seen, kept) ==
  IF anchors \ {At} = {}
  THEN LeaveLearning(IF Cardinality(seen) < Required THEN {} ELSE kept, FALSE)
  ELSE NextAnchor(seen, kept)

CutShort == LeaveLearning(samples, TRUE)

\* One iteration of moveToSelfCheckStroke.  Its degradable error skips the anchor,
\* every other one ends the learning.
MoveToAnchor ==
  /\ pc = "anchor" /\ UNCHANGED <<preA, preB, result, profile>>
  /\ \/ stopped /\ CutShort /\ UNCHANGED <<stopped, contradicted>>
     \/ /\ ~stopped /\ UNCHANGED <<stopped, contradicted>>
        /\ \/ step.moves = MoveSteps /\ Settled(regions, samples)
           \/ /\ pc' = "trip" /\ step' = [moves |-> 0, speed |-> 1, turn |-> "Closing"]
              /\ UNCHANGED <<anchors, gained, regions, samples, cutShort>>
     \/ /\ ~stopped /\ step.moves < MoveSteps
        /\ \E r \in LearnReadings :
             /\ Probed(r)
             /\ \/ /\ ~r.unsettled /\ (r.result = "ok" \/ (CanDegrade(r.result) /\ r.goesOn))
                   /\ step' = [step EXCEPT !.moves = @ + 1]
                   /\ UNCHANGED <<pc, anchors, gained, regions, samples, cutShort>>
                \/ /\ r.unsettled \/ (r.result # "ok" /\ ~r.goesOn)
                   /\ CanDegrade(r.result) /\ Settled(regions, samples)
                \/ r.result # "ok" /\ ~CanDegrade(r.result) /\ CutShort

\* After a stroke at the anchor: the other direction, the next speed or the end.
NextStroke(sampled) ==
  LET kept == IF sampled THEN samples \union {At[1]} ELSE samples
      any  == gained \/ sampled
  IN  IF step.turn = "Opening" /\ step.speed = LearnSpeeds
      THEN Settled(IF any THEN regions \union {At[1]} ELSE regions, kept)
      ELSE /\ step' = IF step.turn = "Closing" THEN [step EXCEPT !.turn = "Opening"]
                      ELSE [step EXCEPT !.turn = "Closing", !.speed = @ + 1]
           /\ samples' = kept /\ gained' = any
           /\ UNCHANGED <<pc, anchors, regions, cutShort>>

\* One stroke of the round trip: not run for want of room or because an anomaly
\* is in the way, without a sample, or with one.  An error that is not degradable
\* and every unsettled probe end the learning.
Trip ==
  /\ pc = "trip" /\ UNCHANGED <<preA, preB, result, profile>>
  /\ \/ /\ stopped /\ step.turn = "Closing"
        /\ CutShort /\ UNCHANGED <<stopped, contradicted>>
     \/ /\ ~stopped \/ step.turn = "Opening"
        /\ NextStroke(FALSE) /\ UNCHANGED <<stopped, contradicted>>
     \/ /\ ~stopped \/ step.turn = "Opening"
        /\ \E r \in LearnReadings :
             /\ Probed(r)
             /\ IF r.unsettled \/ (r.result # "ok" /\ ~CanDegrade(r.result)) THEN CutShort
                ELSE \E sampled \in {FALSE, r.usable} : NextStroke(sampled)

-----------------------------------------------------------------------------
(* The new profile. *)

\* applyPreSelfCheckExpansionBoundsToProfile: bounds too narrow change nothing.
Window == IF Valid(bounds) THEN "narrowed" ELSE "seed"

\* The cancel check, and everything up to pre_self_check_completed_.
Update ==
  /\ pc = "update" /\ UNCHANGED <<stopped, contradicted, preA, preB, learning>>
  /\ IF stopped THEN End("aborted") /\ UNCHANGED profile
     ELSE /\ pc' = "settle" /\ UNCHANGED result
          /\ profile' = [window |-> Window, learnt |-> samples]

\* stopAndWaitForSettledFeedback: its error leaves the profile in place.
Settle ==
  /\ pc = "settle" /\ UNCHANGED <<stopped, contradicted, preA, preB, learning, profile>>
  /\ \/ ~stopped /\ End("done")
     \/ End("unsettled")

NextC == Bounds \/ LastRelease \/ Learn \/ MoveToAnchor \/ Trip \/ Update \/ Settle

Work ==
  \/ NextA /\ UNCHANGED <<preB, learning, profile>>
  \/ NextB /\ UNCHANGED <<learning, profile>>
  \/ NextC
Ended == pc = "done" /\ UNCHANGED vars
Next == Work \/ Stop \/ Ended

\* Every probe ends (ProbeEnds of SelfCheckProbe); the user need not stop anything.
Spec == Init /\ [][Next]_vars /\ WF_vars(Work)

-----------------------------------------------------------------------------
(* Properties. *)

TypeOK ==
  /\ pc \in {"pair", "Closing", "Opening", "judge", "strokes", "stroke", "afterStrokes",
             "scan", "turn", "release", "bounds", "lastRelease", "learn", "anchor", "trip",
             "update", "settle", "done"}
  /\ {stopped, contradicted, second, releaseFailed, gained, cutShort} \subseteq BOOLEAN
  /\ result \in {"none", "failed", "aborted", "unsettled", "done"}
  /\ speed \in 1 .. Speeds /\ {current, lowest} \subseteq 1 .. Currents
  /\ found \in [Directions -> 0 .. Currents] /\ last \in Directions \union {"none"}
  /\ {suspected, recommended} \subseteq [Directions -> BOOLEAN]
  /\ {x, scan.begun, scan.seen} \subseteq Positions /\ dir \in Directions
  /\ scan.segment \in 0 .. MaxSegments /\ release.done \in 0 .. ReleaseDistance
  /\ bounds \in [Directions -> -(Reach + FallbackWidth) .. Reach + FallbackWidth]
  /\ anchors \subseteq Candidates /\ step.moves \in 0 .. MoveSteps
  /\ {regions, samples, profile.learnt} \subseteq SUBSET (0 .. Required - 1)

\* Once a release has failed the check neither looks for another limit nor
\* learns: it goes back to the small window about the place where it stands.
FailedReleaseStops ==
  releaseFailed =>
    /\ pc \in {"bounds", "update", "settle", "done"} /\ samples = {}
    /\ pc \in {"update", "settle"} => bounds = Fallback(x)

\* A learning that was not cut short leaves samples of enough regions or none:
\* skipped anchors, rejected samples and lost regions never leave a part behind.
LearntOrRolledBack ==
  profile.learnt # {} /\ ~cutShort => Cardinality(profile.learnt) >= Required

\* The self-check ends, unless a release goes on without gaining any distance.
SelfCheckEnds ==
  <>(pc = "done") \/ <>[](pc = "release" /\ ~stopped)

\* What the documents say of the last release and of contradictory feedback.
LastReleaseAimsInside ==
  pc = "lastRelease" /\ ~NothingToRelease =>
    x + Sign(ReleaseDirection) * Size(LastTarget - x) = LastTarget
ContradictionFails == result = "done" => ~contradicted
=============================================================================
