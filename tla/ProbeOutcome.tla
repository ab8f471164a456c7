---------------------------- MODULE ProbeOutcome ----------------------------
(***************************************************************************)
(* What PreSelfCheck makes of one motion probe: SelfCheckMotionProbeResult *)
(* reduced to what the decisions look at, the thresholds they compare with *)
(* and the decisions.  Distances are integers in a unit the constants      *)
(* choose; moved is signed, positive in the commanded direction.           *)
(***************************************************************************)
EXTENDS Integers

CONSTANTS
  MotionStart,    \* motion_start_distance
  MicroMotion,    \* low_confidence_motion_distance, 0 when not configured
  Noise,          \* three times the nut stroke noise of the profile
  FallbackNoise,  \* three times fallback_nut_stroke_noise
  MinMeasured,    \* min_measured_distance
  MaxError        \* max_distance_error

ASSUME DistancesAssumption ==
  {MotionStart, MicroMotion, Noise, FallbackNoise, MinMeasured, MaxError} \subseteq Nat

\* "hardware" stands for every communication, feedback and motor error.
Codes == {"ok", "timedOut", "jam", "activeStop", "inconsistent", "hardware"}

Outcomes(moves) ==
  [code : Codes, sampled : BOOLEAN, settled : BOOLEAN, reached : BOOLEAN,
   moved : moves,          \* end stroke minus start stroke
   matches : BOOLEAN,      \* sample.direction_matches
   mono : BOOLEAN,         \* sample.position_monotonic
   collapsed : BOOLEAN, limit : BOOLEAN, jam : BOOLEAN,
   stuck : BOOLEAN,        \* no progress under hard current, or for too long
   over : BOOLEAN]         \* some frame was above the hard current limit

-----------------------------------------------------------------------------
(* Thresholds. *)

Larger(a, b)  == IF a >= b THEN a ELSE b
Smaller(a, b) == IF a <= b THEN a ELSE b
Size(n) == IF n < 0 THEN -n ELSE n

\* normalBreakawayDistance.
NormalStart == Larger(MotionStart, Noise)

\* lowConfidenceBreakawayDistance.
MicroStart ==
  Larger(Smaller(MotionStart, IF MicroMotion > 0 THEN MicroMotion ELSE MotionStart),
         Noise)

StartOf(micro) == IF micro THEN MicroStart ELSE NormalStart
OppositeOf(micro) == Larger(StartOf(micro), MaxError \div 4)

\* preBEffectiveProgressDistance.
Effective == Larger(MotionStart, Larger(MicroMotion, MinMeasured \div 4))

\* selfCheckNoProgressThreshold.
NoProgress == Larger(Larger(MicroMotion, FallbackNoise), 1)

-----------------------------------------------------------------------------
(* One probe. *)

Distance(o) == Size(o.moved)

\* isUnsettledSelfCheckProbe: a probe that failed before its command is not one.
Unsettled(o) == o.sampled /\ ~o.settled

Aligned(o) == o.sampled /\ o.settled /\ o.matches /\ o.mono
Untouched(o) == ~o.limit /\ ~o.jam /\ o.code # "activeStop"

\* isSelfCheckTerminalFeedbackStop, after which the probe unloads at once.
TerminalStop(o) == o.code = "jam" /\ o.stuck

\* isPreBPhysicalBoundaryCandidate.
Boundary(o) ==
  o.stuck \/ (Distance(o) < Effective /\ (o.collapsed \/ o.jam \/ o.limit))

\* isEffectivePreBProgressSample.
EffectiveProgress(o) ==
  Aligned(o) /\ o.code # "activeStop" /\ Distance(o) >= Effective

\* isPassThroughPreBMotionSample.
PassThrough(o) == EffectiveProgress(o) /\ ~Boundary(o)

\* isUsablePreBMotionSample.
UsableSample(o, commanded) ==
  /\ Aligned(o) /\ Untouched(o) /\ Distance(o) >= MotionStart
  /\ Size(Distance(o) - commanded) <= Larger(MaxError, (commanded * 35) \div 100)

\* isStableShortStrokeSample; the current and speed conditions are the caller's.
StableShort(o, target) ==
  /\ Aligned(o) /\ Untouched(o) /\ Distance(o) >= MotionStart
  /\ Size(Distance(o) - target) <= Smaller(MaxError, target \div 2)

\* Contradictions, stops and hardware errors.  The lists in the code leave out a
\* few of the errors "hardware" stands for: listed says that o's is in them.
Broken(o, listed) ==
  o.code \in {"inconsistent", "activeStop"} \/ (o.code = "hardware" /\ listed)

\* isEndpointStartRetreatProbe and isEndpointStartBoundaryProbe.
Retreat(o) ==
  /\ Aligned(o) /\ o.code \in {"ok", "timedOut", "jam"}
  /\ Distance(o) >= Larger(MotionStart, NoProgress)
AtBoundary(o, listed) ==
  /\ o.sampled /\ o.settled /\ ~Broken(o, listed)
  /\ o.stuck \/ o.collapsed \/ o.jam \/ o.limit \/ o.code = "jam"

-----------------------------------------------------------------------------
(* The decisions of the breakaway scan. *)

\* acceptBreakawayCandidate.
Accepted(o) ==
  Aligned(o) /\ o.moved >= MicroStart /\ Untouched(o) /\ ~o.over

\* lastProbeLooksLikeLowConfidenceBoundary.
LooksLikeBoundary(o) ==
  Aligned(o) /\ Distance(o) < MicroStart /\ ~o.over /\ Untouched(o)

\* lastProbeLooksLikeLowEnergyOppositeDrift, and its early form.
LooksLikeDrift(o) ==
  /\ o.sampled /\ o.settled /\ ~o.matches /\ o.moved <= -MicroStart
  /\ Distance(o) <= Larger(MaxError, 2 * MotionStart)
  /\ ~o.over /\ Untouched(o)

\* isUnrecoverableBreakawayProbeResult.
Unrecoverable(o, listed) == Broken(o, listed) \/ o.code = "jam"

-----------------------------------------------------------------------------
(* Results of PreB: a code, where "endStop" is the jam of a terminal stop   *)
(* and "failed" an error the search itself reports.                        *)

Results == Codes \union {"endStop", "failed"}
ResultOf(o) == IF TerminalStop(o) THEN "endStop" ELSE o.code

\* canDegradePreBSegment and isPreBInternalFeedbackStopResult.
CanDegrade(result) == result \in {"failed", "timedOut", "endStop"}

\* normalizePreBProbeResult.
Normalize(o) == IF o.code = "jam" /\ PassThrough(o) THEN "timedOut" ELSE ResultOf(o)

\* isPreBCardPointPartialStop.
CardPoint(o, progress) ==
  /\ Normalize(o) \in {"timedOut", "jam", "endStop"}
  /\ progress >= Effective /\ PassThrough(o)

-----------------------------------------------------------------------------
(* What a probe can report: the searches assume it, SelfCheckProbe shows it. *)

Possible(o, micro, suppress) ==
  /\ ~o.sampled => /\ o.code \in {"activeStop", "hardware"} /\ o.moved = 0
                   /\ {o.settled, o.reached, o.stuck, o.collapsed, o.limit, o.jam,
                       o.over} = {FALSE}
  /\ Unsettled(o) => o.code \in {"activeStop", "hardware", "timedOut"}
  /\ o.code = "ok" => o.reached /\ o.settled
  /\ o.settled /\ o.matches /\ Distance(o) >= StartOf(micro) => o.moved > 0
  /\ o.settled /\ o.moved < -OppositeOf(micro) => o.code \in {"inconsistent", "activeStop"}
  /\ o.code = "jam" => o.jam /\ o.settled
  /\ o.code = "jam" /\ suppress => o.stuck
  /\ o.stuck => o.over \/ (o.limit /\ o.jam /\ o.collapsed)
=============================================================================
