------------------------- MODULE PreSelfCheck_proof -------------------------
(***************************************************************************)
(* Proofs about PreSelfCheck: no direction is passed over unexplained, no  *)
(* stop is left unreleased, a failed release ends search and learning, a   *)
(* learning keeps samples of enough regions or of none, and every variable *)
(* stays typed.                                                            *)
(***************************************************************************)
EXTENDS PreSelfCheck, FiniteSetTheorems, WellFoundedInduction, TLAPS

\* The fields and functions the arguments look into.
Shape ==
  /\ suspected \in [Directions -> BOOLEAN]
  /\ recommended \in [Directions -> BOOLEAN]
  /\ found \in [Directions -> Nat]
  /\ dir \in Directions
  /\ current \in Nat /\ lowest \in Nat
  /\ against \in [dir : Directions \union {"none"}, atRest : BOOLEAN]
  /\ release \in [why : {"none", "card", "after"}, done : Int, odd : BOOLEAN]

\* A stop at which the nut stands is that of the direction searched and asks for
\* its release, which is under way for a reason; no scan begins before.
Free == {"pair", "Closing", "Opening", "judge", "strokes", "stroke", "afterStrokes", "scan"}
Owed ==
  /\ pc \in Free => ~against.atRest
  /\ pc \in {"turn", "release"} /\ against.atRest => against.dir = dir /\ recommended[dir]
  /\ pc = "release" => release.why # "none"

Searching == {"pair", "Closing", "Opening", "judge", "strokes", "stroke", "afterStrokes",
              "scan", "turn", "release", "bounds", "lastRelease", "learn"}

\* Nothing is learnt before the first anchor, and each region counted has a
\* sample.
Learning ==
  /\ pc \in Searching => samples = {} /\ regions = {} /\ gained = FALSE
  /\ pc = "anchor" => gained = FALSE
  /\ pc = "trip" /\ gained => At[1] \in samples
  /\ regions \subseteq samples /\ IsFiniteSet(samples)

\* What the learning leaves is what the profile takes.
Kept ==
  /\ pc = "update" /\ samples # {} /\ ~cutShort => Cardinality(samples) >= Required
  /\ pc \notin {"settle", "done"} => profile.learnt = {}
  /\ LearntOrRolledBack

IInv ==
  Shape /\ DirectionsAccounted /\ Owed /\ FailedReleaseStops /\ Learning /\ Kept

-----------------------------------------------------------------------------
(* Constants. *)

\* The levels at which a scan may start are numbers.
LEMMA LevelsAreNumbers == StartLevels \subseteq Nat
  BY LevelsAssumption DEF StartLevels

\* So is the number of regions a learning needs.
LEMMA RequiredIsNumber == Required \in Nat
  BY LearningAssumption DEF Required, Larger

\* A release that has not begun.
LEMMA ReleaseForms ==
  /\ NoRelease \in [why : {"none", "card", "after"}, done : Int, odd : BOOLEAN]
  /\ \A why \in {"card", "after"} :
       /\ ReleaseFor(why) \in [why : {"none", "card", "after"}, done : Int, odd : BOOLEAN]
       /\ ReleaseFor(why).why = why
<1>1. NoRelease \in [why : {"none", "card", "after"}, done : Int, odd : BOOLEAN]
  BY DEF NoRelease
<1>2. ASSUME NEW why \in {"card", "after"}
      PROVE  /\ ReleaseFor(why) \in [why : {"none", "card", "after"}, done : Int, odd : BOOLEAN]
             /\ ReleaseFor(why).why = why
  BY <1>1 DEF ReleaseFor
<1> QED BY <1>1, <1>2, Zenon

\* Whether a probe can be learnt from is known.
LEMMA UsableIsBoolean ==
  ASSUME NEW r \in LearnReadings
  PROVE  r.usable \in BOOLEAN
<1>1. PICK o \in Reported(FALSE, TRUE) :
        r = [stop |-> o.code = "activeStop", contradicts |-> o.code = "inconsistent",
             unsettled |-> Unsettled(o), result |-> Normalize(o),
             reached |-> o.reached /\ ~Fatal(o), goesOn |-> PassThrough(o) /\ ~Fatal(o),
             usable |-> UsableSample(o, Sample) /\ ~Fatal(o)]
  BY Zenon DEF LearnReadings
<1> QED BY <1>1

\* A probe that ended at a boundary at rest ended in a way that a scan takes for
\* a stop or a card point, without an error, or with one that ends the search.
LEMMA BoundaryResults ==
  ASSUME NEW r \in PreBReadings
  PROVE  /\ r.unsettled \in BOOLEAN /\ r.moved \in Int
         /\ r.boundary => r.result \in {"ok", "timedOut", "jam", "endStop", "hardware"}
<1>1. PICK o \in Reported(FALSE, TRUE) :
        r = [stop |-> o.code = "activeStop", contradicts |-> o.code = "inconsistent",
             unsettled |-> Unsettled(o), result |-> Normalize(o),
             moved |-> IF Fatal(o) THEN 0 ELSE o.moved, reached |-> o.reached /\ ~Fatal(o),
             effective |-> EffectiveProgress(o) /\ ~Fatal(o),
             passed |-> PassThrough(o) /\ ~Fatal(o), boundary |-> Boundary(o) /\ ~Fatal(o)]
  BY Zenon DEF PreBReadings
<1>2. r.unsettled = Unsettled(o) /\ r.result = Normalize(o)
      /\ r.boundary = (Boundary(o) /\ ~Fatal(o))
  BY <1>1
<1>3. Unsettled(o) \in BOOLEAN
  BY Zenon DEF Unsettled
<1>4. o.code \in Codes
  BY DEF Reported, Outcomes
<1>5. ~Fatal(o) => Normalize(o) \in {"ok", "timedOut", "jam", "endStop", "hardware"}
  BY <1>4 DEF Fatal, Normalize, ResultOf, Codes
<1>6. r.moved \in Int
  <2>1. Moves \subseteq Int
    BY LevelsAssumption DEF Moves
  <2>2. o.moved \in Moves
    BY DEF Reported, Outcomes
  <2>3. o.moved \in Int
    BY <2>1, <2>2, Zenon
  <2>4. r.moved = IF Fatal(o) THEN 0 ELSE o.moved
    BY <1>1
  <2> QED BY <2>3, <2>4
<1> QED BY <1>2, <1>3, <1>5, <1>6

-----------------------------------------------------------------------------
(* PreA. *)

\* Nothing is found, owed or learnt at first.
LEMMA InitHolds == Init => IInv
<1> SUFFICES ASSUME Init PROVE IInv
  OBVIOUS
<1>1. Shape
  BY LevelsAreNumbers DEF Init, InitA, InitB, Shape, NotFound, NoStop, NoRelease, Directions
<1>2. Learning
  BY FS_EmptySet DEF Init, InitA, InitC, Learning
<1> QED
  BY <1>1, <1>2 DEF Init, InitA, InitB, InitC, IInv, DirectionsAccounted, Owed, Free, NoStop,
     FailedReleaseStops, Kept, LearntOrRolledBack, Seed

\* What PreA does not touch keeps what is said of it.
LEMMA OutsideA ==
  ASSUME IInv, UNCHANGED <<preB, learning, profile>>,
         pc \in {"pair", "Closing", "Opening", "judge", "strokes", "stroke"},
         pc' \in {"pair", "Closing", "Opening", "judge", "strokes", "stroke",
                  "afterStrokes", "done"}
  PROVE  Owed' /\ FailedReleaseStops' /\ Learning' /\ Kept'
  BY DEF IInv, preB, learning, Owed, Free, FailedReleaseStops, Learning, Kept,
     LearntOrRolledBack, Searching

\* The next pair of attempts, or the end of the levels.
LEMMA PairKeeps ==
  ASSUME IInv, Pair, UNCHANGED <<preB, learning, profile>>
  PROVE  IInv'
<1>1. Shape' /\ DirectionsAccounted'
  BY DEF IInv, Pair, End, preA, preB, Shape, DirectionsAccounted
<1> QED BY <1>1, OutsideA DEF Pair, End, IInv

\* One attempt of a pair, which may find a drift.
LEMMA TryKeeps ==
  ASSUME IInv, NEW d \in Directions, Try(d), UNCHANGED <<preB, learning, profile>>
  PROVE  IInv'
<1>1. PICK r \in BreakawayReadings : Try(d)!2!(r)
  BY DEF Try
<1>2. r.drift \in BOOLEAN
  <2>1. PICK o \in Reported(TRUE, FALSE), listed \in BOOLEAN :
          r = BreakawayReading(o, listed)
    BY Zenon DEF BreakawayReadings
  <2>2. LooksLikeDrift(o) \in BOOLEAN
    BY Zenon DEF LooksLikeDrift
  <2> QED BY <2>1, <2>2 DEF BreakawayReading
<1>3. Shape'
  BY <1>1, <1>2 DEF IInv, Shape, Try, MarkDrift, End, preB, Probed
<1>4. DirectionsAccounted'
  BY <1>1, <1>2 DEF IInv, Shape, Try, MarkDrift, Drifted, End, DirectionsAccounted,
     Directions, Other
<1>5. pc' \in {"Opening", "judge", "strokes", "done"} /\ pc \in {"Closing", "Opening"}
  BY <1>1 DEF Try, End, Directions
<1> QED BY <1>3, <1>4, <1>5, OutsideA DEF IInv

\* The judgement on a pair: both moved, one did, or the next level.
LEMMA JudgeKeeps ==
  ASSUME IInv, Judge, UNCHANGED <<preB, learning, profile>>
  PROVE  IInv'
<1>1. current' \in Nat
  BY DEF IInv, Shape, Judge, NextLevel
<1>2. suspected' \in [Directions -> BOOLEAN]
  BY DEF IInv, Shape, Judge
<1>3. Shape'
  BY <1>1, <1>2 DEF IInv, Shape, Judge, preB
<1>4. DirectionsAccounted'
  BY DEF IInv, Shape, Judge, OneSided, NextLevel, End, DirectionsAccounted, Directions, Other
<1>5. pc = "judge" /\ pc' \in {"pair", "strokes", "done"}
  BY DEF Judge, End
<1> QED BY <1>3, <1>4, <1>5, OutsideA DEF IInv

\* The strokes begin, or are left out when a direction is suspected.
LEMMA StartStrokesKeeps ==
  ASSUME IInv, StartStrokes, UNCHANGED <<preB, learning, profile>>
  PROVE  IInv'
<1>1. current' \in Nat /\ lowest' \in Nat
  <2>1. CASE stopped
    BY <2>1 DEF IInv, Shape, StartStrokes
  <2>2. CASE ~stopped /\ \E d \in Directions : suspected[d]
    BY <2>2 DEF StartStrokes, LeaveA
  <2>3. CASE ~stopped /\ ~\E d \in Directions : suspected[d]
    BY <2>3, LevelsAreNumbers DEF StartStrokes
  <2> QED BY <2>1, <2>2, <2>3
<1>2. found' \in [Directions -> Nat]
  BY DEF IInv, Shape, StartStrokes, LeaveA, NotFound
<1>3. Shape'
  BY <1>1, <1>2 DEF IInv, Shape, StartStrokes, preB
<1>4. DirectionsAccounted'
  BY DEF IInv, Shape, StartStrokes, LeaveA, End, DirectionsAccounted
<1>5. pc = "strokes" /\ pc' \in {"stroke", "afterStrokes", "done"}
  BY DEF StartStrokes, LeaveA, End
<1> QED BY <1>3, <1>4, <1>5, OutsideA DEF IInv

\* One stroke, which may suspect the direction it failed in.
LEMMA StrokeKeeps ==
  ASSUME IInv, Stroke, UNCHANGED <<preB, learning, profile>>
  PROVE  IInv'
<1>1. \/ UNCHANGED suspected
      \/ \E e \in Directions \union {"none"} :
           suspected' = [d \in Directions |-> suspected[d] \/ d = e]
  BY DEF Stroke, Escaped, Directions
<1>2. suspected' \in [Directions -> BOOLEAN]
  BY <1>1 DEF IInv, Shape
<1>3. \A d \in Directions : suspected[d] => suspected'[d]
  BY <1>1 DEF IInv, Shape
<1>4. \/ LeaveA
      \/ NextLevel /\ UNCHANGED <<pc, result, lowest, found, last>>
  BY DEF Stroke
<1>5. Shape'
  BY <1>2, <1>4 DEF IInv, Shape, LeaveA, NextLevel, NotFound, preB
<1>6. DirectionsAccounted'
  BY <1>3, <1>4 DEF IInv, LeaveA, DirectionsAccounted
<1>7. pc = "stroke" /\ pc' \in {"stroke", "afterStrokes"}
  BY <1>4 DEF Stroke, LeaveA
<1> QED BY <1>5, <1>6, <1>7, OutsideA DEF IInv

-----------------------------------------------------------------------------
(* PreB. *)

\* The same for PreB, which keeps Owed itself.
LEMMA OutsideB ==
  ASSUME IInv, UNCHANGED <<learning, profile>>,
         pc \in {"afterStrokes", "scan", "turn", "release"},
         pc' \in {"scan", "turn", "release", "bounds", "done"},
         releaseFailed' => releaseFailed \/ pc' = "bounds"
  PROVE  DirectionsAccounted' /\ FailedReleaseStops' /\ Learning' /\ Kept'
  BY DEF IInv, learning, DirectionsAccounted, FailedReleaseStops, Learning, Kept,
     LearntOrRolledBack, Searching

\* PreB begins with its first direction.
LEMMA StartSearchKeeps ==
  ASSUME IInv, StartSearch, UNCHANGED <<learning, profile>>
  PROVE  IInv'
<1>1. Shape'
  BY DEF IInv, Shape, StartSearch, preA, End, Directions
<1>2. Owed'
  BY DEF IInv, Owed, Free, StartSearch, End
<1>3. pc = "afterStrokes" /\ pc' \in {"scan", "done"} /\ releaseFailed' = releaseFailed
  BY DEF StartSearch, End
<1> QED BY <1>1, <1>2, <1>3, OutsideB DEF IInv

\* A scan ends without a probe.
LEMMA ScanEndsKeeps ==
  ASSUME IInv, ScanEnds, UNCHANGED <<learning, profile>>
  PROVE  IInv'
<1>1. Shape'
  BY DEF IInv, Shape, ScanEnds, preA
<1>2. Owed'
  BY DEF IInv, Owed, Free, ScanEnds, End
<1>3. pc = "scan" /\ pc' \in {"turn", "done"} /\ releaseFailed' = releaseFailed
  BY DEF ScanEnds, End
<1> QED BY <1>1, <1>2, <1>3, OutsideB DEF IInv

\* One probe of a scan: a boundary at rest asks for a release.
LEMMA ScanKeeps ==
  ASSUME IInv, Scan, UNCHANGED <<learning, profile>>
  PROVE  IInv'
<1>1. PICK r \in PreBReadings, next \in {"over", "card", "stop", "failed", "on"} :
        /\ ~r.unsettled => next = AfterScan(r)
        /\ r.unsettled => next \in {"over", "failed"}
        /\ Mark(next) /\ Recommend(next)
        /\ against' = IF r.result # "ok" /\ (r.boundary \/ next = "card")
                      THEN [dir |-> dir, atRest |-> ~r.unsettled] ELSE against
        /\ pc' = CASE next = "card" -> "release" [] next = "on" -> "scan"
                   [] next = "failed" -> "done" [] OTHER -> "turn"
        /\ release' = IF next = "card" THEN ReleaseFor("card") ELSE NoRelease
  BY DEF Scan, AfterScan
<1>2. /\ pc = "scan" /\ pc' \in {"release", "scan", "done", "turn"}
      /\ releaseFailed' = releaseFailed
      /\ UNCHANGED <<current, lowest, found, dir>>
  BY <1>1 DEF Scan
<1>3. r.unsettled \in BOOLEAN
  BY BoundaryResults
<1>4. Shape'
  <2>1. /\ suspected' \in [Directions -> BOOLEAN] /\ recommended' \in [Directions -> BOOLEAN]
        /\ against' \in [dir : Directions \union {"none"}, atRest : BOOLEAN]
    BY <1>1, <1>2, <1>3 DEF IInv, Shape, Mark, Recommend
  <2>2. release' \in [why : {"none", "card", "after"}, done : Int, odd : BOOLEAN]
    BY <1>1, ReleaseForms
  <2> QED BY <1>2, <2>1, <2>2 DEF IInv, Shape
<1>5. Owed'
  <2>1. CASE r.result # "ok" /\ (r.boundary \/ next = "card") /\ ~r.unsettled
    <3>1. next \in {"card", "stop", "failed"}
      BY <1>1, <2>1, BoundaryResults DEF AfterScan, CanDegrade
    <3>2. CASE next = "failed"
      BY <1>1, <3>2 DEF Owed, Free
    <3>3. CASE next # "failed"
      <4>1. /\ recommended'[dir] /\ against'.dir = dir /\ pc' \in {"release", "turn"}
            /\ pc' = "release" => release'.why # "none"
        BY <1>1, <2>1, <3>1, <3>3 DEF IInv, Shape, Recommend, ReleaseFor, NoRelease
      <4> QED BY <4>1, <1>2 DEF Owed, Free
    <3> QED BY <3>2, <3>3
  <2>2. CASE ~(r.result # "ok" /\ (r.boundary \/ next = "card") /\ ~r.unsettled)
    <3>1. ~against'.atRest /\ (pc' = "release" => release'.why # "none")
      BY <1>1, <1>2, <2>2 DEF IInv, Owed, Free, ReleaseFor, NoRelease
    <3> QED BY <3>1, <1>2 DEF Owed, Free
  <2> QED BY <2>1, <2>2
<1> QED BY <1>2, <1>4, <1>5, OutsideB DEF IInv

\* Between two scans: a stop at rest is released before the other direction.
LEMMA TurnKeeps ==
  ASSUME IInv, Turn, UNCHANGED <<learning, profile>>
  PROVE  IInv'
<1>1. Shape'
  BY ReleaseForms DEF IInv, Shape, Turn, GoOn, preA, Directions, Other
<1>2. Owed'
  BY ReleaseForms DEF IInv, Owed, Free, Turn, GoOn
<1>3. /\ pc = "turn" /\ pc' \in {"release", "scan", "bounds"}
      /\ releaseFailed' = releaseFailed
  BY DEF Turn, GoOn
<1> QED BY <1>1, <1>2, <1>3, OutsideB DEF IInv

\* One probe of a release, which goes on, ends or fails.
LEMMA ReleaseKeeps ==
  ASSUME IInv, Release, UNCHANGED <<learning, profile>>
  PROVE  IInv'
<1> DEFINE Done(r) == release.done + Smaller(Size(r.moved), ReleaseDistance - release.done)
<1>1. \/ /\ End("failed") /\ UNCHANGED <<dir, releaseFailed, against>>
         /\ release' = NoRelease
      \/ \E r \in PreBReadings :
           LET next == AfterRelease(r, Done(r))
           IN  IF next = "on"
               THEN /\ release' = [release EXCEPT !.done = Done(r), !.odd = ~@]
                    /\ UNCHANGED <<pc, result, dir, second, scan, releaseFailed, against>>
               ELSE Released(next) /\ release' = NoRelease
  BY DEF Release
<1>2. pc = "release" /\ UNCHANGED <<preA, recommended>> /\ release.why \in {"card", "after"}
  BY DEF IInv, Shape, Owed, Release
<1>3. CASE /\ End("failed") /\ UNCHANGED <<dir, releaseFailed, against>>
           /\ release' = NoRelease
  <2>1. Shape' /\ Owed'
    BY <1>2, <1>3 DEF IInv, Shape, Owed, Free, End, preA, NoRelease
  <2>2. pc' \in {"release", "done"} /\ releaseFailed' = releaseFailed
    BY <1>2, <1>3 DEF End
  <2> QED BY <1>2, <2>1, <2>2, OutsideB DEF IInv
<1>4. ASSUME NEW total \in Int, UNCHANGED <<pc, dir, releaseFailed, against>>,
             release' = [release EXCEPT !.done = total, !.odd = ~@]
      PROVE  IInv'
  <2>1. Shape' /\ Owed'
    BY <1>2, <1>4 DEF IInv, Shape, Owed, Free, preA
  <2>2. pc' = "release" /\ releaseFailed' = releaseFailed
    BY <1>2, <1>4
  <2> QED BY <1>2, <2>1, <2>2, OutsideB DEF IInv
<1>5. CASE Released("released") /\ release' = NoRelease
  <2>1. /\ pc' \in {"scan", "bounds"} /\ dir' \in Directions
        /\ against' = NoStop /\ releaseFailed' = releaseFailed
    BY <1>5 DEF IInv, Shape, Released, GoOn, Directions, Other
  <2>2. Shape' /\ Owed'
    BY <1>2, <1>5, <2>1 DEF IInv, Shape, Owed, Free, NoStop, NoRelease, preA
  <2> QED BY <1>2, <2>1, <2>2, OutsideB DEF IInv
<1>6. CASE (Released("degraded") \/ Released("failed")) /\ release' = NoRelease
  <2>1. /\ UNCHANGED <<dir, against>> /\ pc' \in {"turn", "bounds", "done"}
        /\ releaseFailed' => releaseFailed \/ pc' = "bounds"
    BY <1>2, <1>6 DEF Released, End
  <2>2. Shape' /\ Owed'
    BY <1>2, <1>6, <2>1 DEF IInv, Shape, Owed, Free, NoRelease, preA
  <2> QED BY <1>2, <2>1, <2>2, OutsideB DEF IInv
<1>7. CASE ~(End("failed") /\ UNCHANGED <<dir, releaseFailed, against>>
             /\ release' = NoRelease)
  <2>1. PICK r \in PreBReadings :
          LET next == AfterRelease(r, Done(r))
          IN  IF next = "on"
              THEN /\ release' = [release EXCEPT !.done = Done(r), !.odd = ~@]
                   /\ UNCHANGED <<pc, result, dir, second, scan, releaseFailed, against>>
              ELSE Released(next) /\ release' = NoRelease
    BY <1>1, <1>7
  <2>2. Done(r) \in Int
    BY <2>1, BoundaryResults, SearchAssumption DEF IInv, Shape, Smaller, Size
  <2>3. AfterRelease(r, Done(r)) \in {"on", "degraded", "failed", "released"}
    BY DEF AfterRelease
  <2> QED BY <1>5, <1>6, <1>4, <2>1, <2>2, <2>3
<1> QED BY <1>3, <1>7

-----------------------------------------------------------------------------
(* From the bounds to the learning. *)

\* Counting the bounds, the last release and the move to the anchors leave the
\* samples alone until the learning ends without any.
LEMMA BoundsKeeps ==
  ASSUME IInv, Bounds
  PROVE  IInv'
<1>1. /\ pc = "bounds" /\ pc' = AfterBounds
      /\ UNCHANGED <<x, releaseFailed, release, learning, profile>>
  BY DEF Bounds
<1>2. Shape'
  <2>1. recommended' \in [Directions -> BOOLEAN]
    BY Zenon DEF Bounds
  <2> QED BY <2>1 DEF IInv, Shape, Bounds, preA
<1>3. FailedReleaseStops'
  BY <1>1 DEF IInv, Bounds, AfterBounds, FallsBack, FailedReleaseStops, Fallback, learning
<1>4. DirectionsAccounted' /\ Owed'
  BY <1>1 DEF AfterBounds, DirectionsAccounted, Owed, Free
<1>5. Learning' /\ Kept'
  BY <1>1 DEF IInv, AfterBounds, Learning, Kept, Searching, LearntOrRolledBack, learning
<1> QED BY <1>2, <1>3, <1>4, <1>5 DEF IInv

\* The last release, which no failed one precedes.
LEMMA LastReleaseKeeps ==
  ASSUME IInv, LastRelease
  PROVE  IInv'
<1>1. /\ pc = "lastRelease" /\ pc' \in {"learn", "done"}
      /\ UNCHANGED <<preA, dir, recommended, releaseFailed, release, learning, profile>>
      /\ against' \in {against, NoStop}
  BY DEF LastRelease, End
<1>2. Shape'
  <2>1. NoStop \in [dir : Directions \union {"none"}, atRest : BOOLEAN]
    BY DEF NoStop
  <2>2. against' \in [dir : Directions \union {"none"}, atRest : BOOLEAN]
    BY <1>1, <2>1 DEF IInv, Shape
  <2> QED BY <1>1, <2>2 DEF IInv, Shape, preA
<1>3. ~releaseFailed
  BY <1>1 DEF IInv, FailedReleaseStops
<1>4. DirectionsAccounted' /\ Owed' /\ FailedReleaseStops'
  BY <1>1, <1>3 DEF DirectionsAccounted, Owed, Free, FailedReleaseStops
<1>5. Learning' /\ Kept'
  BY <1>1 DEF IInv, Learning, Kept, Searching, LearntOrRolledBack, learning
<1> QED BY <1>2, <1>4, <1>5 DEF IInv

\* Where the learning starts, goes on and ends, the rest of the invariant holds
\* as no release has failed.
LEMMA OutsideLearning ==
  ASSUME IInv, pc \in {"learn", "anchor", "trip"},
         pc' \in {"anchor", "trip", "update"}, UNCHANGED <<releaseFailed, profile>>
  PROVE  /\ DirectionsAccounted' /\ Owed' /\ FailedReleaseStops'
         /\ pc' # "update" => Kept'
         /\ samples' = {} \/ cutShort' \/ Cardinality(samples') >= Required => Kept'
  BY DEF IInv, DirectionsAccounted, Owed, Free, FailedReleaseStops, Kept, LearntOrRolledBack

\* The learning begins with no samples.
LEMMA LearnKeeps ==
  ASSUME IInv, Learn
  PROVE  IInv'
<1>1. /\ pc = "learn" /\ UNCHANGED <<preA, releaseFailed, release, against, profile>>
      /\ dir' = "Opening" /\ recommended' = [d \in Directions |-> FALSE]
  BY DEF Learn, Forget
<1>2. Shape'
  BY <1>1 DEF IInv, Shape, preA, Directions
<1>3. \/ LeaveLearning({}, FALSE)
      \/ StartLearning
  BY DEF Learn
<1>4. samples = {} /\ regions = {} /\ gained = FALSE
  BY <1>1 DEF IInv, Learning, Searching
<1>5. pc' \in {"anchor", "update"} /\ samples' = {} /\ regions' = {} /\ gained' = FALSE
  BY <1>3, <1>4 DEF LeaveLearning, StartLearning
<1>6. Learning'
  BY <1>5, FS_EmptySet DEF Learning, Searching
<1> QED BY <1>1, <1>2, <1>5, <1>6, OutsideLearning DEF IInv

-----------------------------------------------------------------------------
(* The learning. *)

\* The ways to go on after an anchor whose samples are kept.
LEMMA LeaveKeeps ==
  ASSUME IInv, pc \in {"anchor", "trip"}, UNCHANGED <<preA, preB, profile>>,
         NEW seen, NEW kept, seen \subseteq kept, IsFiniteSet(kept),
         Settled(seen, kept) \/ (CutShort /\ kept = samples)
  PROVE  IInv'
<1>1. Shape'
  BY DEF IInv, Shape, preA, preB
<1>2. CASE CutShort /\ kept = samples
  <2>1. Learning' /\ cutShort' /\ pc' = "update"
    BY <1>2, FS_EmptySet DEF CutShort, LeaveLearning, Learning, Searching
  <2> QED BY <1>1, <2>1, OutsideLearning DEF IInv, preB
<1>3. CASE Settled(seen, kept) /\ anchors \ {At} = {}
  <2>1. /\ samples' \in {{}, kept} /\ regions' = {} /\ pc' = "update"
        /\ samples' = {} \/ Cardinality(seen) >= Required \/ ~(Cardinality(seen) \in Int)
    BY <1>3, RequiredIsNumber DEF Settled, LeaveLearning
  <2>2. Learning'
    BY <2>1, FS_EmptySet DEF Learning, Searching
  <2>3. Cardinality(seen) \in Nat /\ Cardinality(kept) \in Nat
        /\ Cardinality(seen) <= Cardinality(kept)
    BY FS_Subset, FS_CardinalityType
  <2>4. samples' = {} \/ Cardinality(samples') >= Required
    BY <2>1, <2>3, RequiredIsNumber
  <2> QED BY <1>1, <2>1, <2>2, <2>4, OutsideLearning DEF IInv, preB
<1>4. CASE Settled(seen, kept) /\ anchors \ {At} # {}
  <2>1. pc' = "anchor" /\ regions' = seen /\ samples' = kept /\ gained' = FALSE
    BY <1>4 DEF Settled, NextAnchor
  <2>2. Learning'
    BY <2>1 DEF Learning, Searching
  <2> QED BY <1>1, <2>1, <2>2, OutsideLearning DEF IInv, preB
<1> QED BY <1>2, <1>3, <1>4


\* The move to an anchor has no sample of it yet.
LEMMA MoveToAnchorKeeps ==
  ASSUME IInv, MoveToAnchor
  PROVE  IInv'
<1>1. /\ pc = "anchor" /\ UNCHANGED <<preA, preB, profile>>
      /\ \/ CutShort \/ Settled(regions, samples)
         \/ /\ pc' \in {"anchor", "trip"}
            /\ UNCHANGED <<anchors, gained, regions, samples, cutShort>>
  BY DEF MoveToAnchor
<1>2. regions \subseteq samples /\ IsFiniteSet(samples)
  BY DEF IInv, Learning
<1>3. CASE CutShort \/ Settled(regions, samples)
  BY <1>1, <1>2, <1>3, LeaveKeeps
<1>4. CASE /\ pc' \in {"anchor", "trip"}
           /\ UNCHANGED <<anchors, gained, regions, samples, cutShort>>
  <2>1. Shape'
    BY <1>1 DEF IInv, Shape, preA, preB
  <2>2. Learning'
    BY <1>1, <1>4 DEF IInv, Learning, Searching
  <2> QED BY <1>1, <1>4, <2>1, <2>2, OutsideLearning DEF IInv, preB
<1> QED BY <1>1, <1>3, <1>4

\* A region is counted only with a sample of it.
LEMMA NextStrokeKeeps ==
  ASSUME IInv, pc = "trip", UNCHANGED <<preA, preB, profile>>,
         NEW sampled \in BOOLEAN, NextStroke(sampled)
  PROVE  IInv'
<1> DEFINE kept == IF sampled THEN samples \union {At[1]} ELSE samples
           any  == gained \/ sampled
           seen == IF any THEN regions \union {At[1]} ELSE regions
<1>1. regions \subseteq samples /\ IsFiniteSet(samples) /\ (gained => At[1] \in samples)
  BY DEF IInv, Learning
<1>2. IsFiniteSet(kept)
  BY <1>1, FS_AddElement
<1>3. seen \subseteq kept /\ regions \subseteq kept /\ (any => At[1] \in kept)
  BY <1>1
<1>4. CASE Settled(seen, kept)
  <2> HIDE DEF seen, kept
  <2> QED BY <1>2, <1>3, <1>4, LeaveKeeps
<1>5. CASE ~Settled(seen, kept)
  <2>1. samples' = kept /\ gained' = any /\ UNCHANGED <<pc, anchors, regions, cutShort>>
    BY <1>5 DEF NextStroke
  <2>2. Shape'
    BY DEF IInv, Shape, preA, preB
  <2>3. Learning'
    <3>1. At' = At
      BY <2>1 DEF At
    <3> QED BY <1>2, <1>3, <2>1, <3>1 DEF Learning, Searching
  <2> QED BY <2>1, <2>2, <2>3, OutsideLearning DEF IInv, preB
<1> QED BY <1>4, <1>5

\* One trip of the learning, with or without a sample.
LEMMA TripKeeps ==
  ASSUME IInv, Trip
  PROVE  IInv'
<1>1. /\ pc = "trip" /\ UNCHANGED <<preA, preB, profile>>
      /\ CutShort \/ (\E sampled \in BOOLEAN : NextStroke(sampled))
  <2>1. ASSUME NEW r \in LearnReadings PROVE r.usable \in BOOLEAN
    BY UsableIsBoolean
  <2> QED BY <2>1 DEF Trip
<1>2. CASE CutShort
  <2>1. {} \subseteq samples /\ IsFiniteSet(samples)
    BY DEF IInv, Learning
  <2> QED BY <1>1, <1>2, <2>1, LeaveKeeps
<1> QED BY <1>1, <1>2, NextStrokeKeeps

-----------------------------------------------------------------------------
(* The profile, and stops. *)

\* The profile takes what the learning left, or nothing.
LEMMA UpdateKeeps ==
  ASSUME IInv, Update
  PROVE  IInv'
<1>1. /\ pc = "update" /\ UNCHANGED <<preA, preB, learning>>
      /\ \/ pc' = "done" /\ UNCHANGED profile
         \/ pc' = "settle" /\ profile'.learnt = samples
  BY DEF Update, End
<1>2. Shape'
  BY <1>1 DEF IInv, Shape, preA, preB
<1>3. FailedReleaseStops'
  BY <1>1 DEF IInv, FailedReleaseStops, Fallback, preB, learning
<1>4. DirectionsAccounted' /\ Owed'
  BY <1>1 DEF DirectionsAccounted, Owed, Free
<1>5. Learning' /\ Kept'
  BY <1>1 DEF IInv, Learning, Searching, Kept, LearntOrRolledBack, learning
<1> QED BY <1>2, <1>3, <1>4, <1>5 DEF IInv

\* The last settle wait changes nothing of it.
LEMMA SettleKeeps ==
  ASSUME IInv, Settle
  PROVE  IInv'
<1>1. pc = "settle" /\ pc' = "done" /\ UNCHANGED <<preA, preB, learning, profile>>
  BY DEF Settle, End
<1>2. Shape'
  BY <1>1 DEF IInv, Shape, preA, preB
<1>3. FailedReleaseStops'
  BY <1>1 DEF IInv, FailedReleaseStops, Fallback, preB, learning
<1>4. DirectionsAccounted' /\ Owed'
  BY <1>1 DEF DirectionsAccounted, Owed, Free
<1>5. Learning' /\ Kept'
  BY <1>1 DEF IInv, Learning, Searching, Kept, LearntOrRolledBack, learning
<1> QED BY <1>2, <1>3, <1>4, <1>5 DEF IInv

\* stop(), or nothing: the self-check stands where it stood.
LEMMA StandStill ==
  ASSUME IInv, UNCHANGED <<pc, preA, preB, learning, profile>>
  PROVE  IInv'
<1>1. At' = At
  BY DEF At, learning
<1>2. Shape' /\ DirectionsAccounted' /\ Owed'
  BY DEF IInv, Shape, DirectionsAccounted, Owed, preA, preB
<1>3. FailedReleaseStops'
  BY DEF IInv, FailedReleaseStops, Fallback, preB, learning
<1>4. Learning' /\ Kept'
  BY <1>1 DEF IInv, Learning, Kept, LearntOrRolledBack, learning
<1> QED BY <1>2, <1>3, <1>4 DEF IInv

\* Every step keeps the invariant.
LEMMA StepKeeps == IInv /\ [Next]_vars => IInv'
<1> SUFFICES ASSUME IInv, [Next]_vars PROVE IInv'
  OBVIOUS
<1>1. CASE NextA /\ UNCHANGED <<preB, learning, profile>>
  BY <1>1, PairKeeps, TryKeeps, JudgeKeeps, StartStrokesKeeps, StrokeKeeps DEF NextA
<1>2. CASE NextB /\ UNCHANGED <<learning, profile>>
  BY <1>2, StartSearchKeeps, ScanEndsKeeps, ScanKeeps, TurnKeeps, ReleaseKeeps DEF NextB
<1>3. CASE NextC
  BY <1>3, BoundsKeeps, LastReleaseKeeps, LearnKeeps, MoveToAnchorKeeps, TripKeeps,
     UpdateKeeps, SettleKeeps DEF NextC
<1>4. CASE Stop
  BY <1>4, StandStill DEF Stop
<1>5. CASE UNCHANGED vars
  BY <1>5, StandStill DEF vars, preA, preB, learning
<1> QED BY <1>1, <1>2, <1>3, <1>4, <1>5 DEF Next, Work, Ended

-----------------------------------------------------------------------------
(* The types. *)

\* The records of the search and of the visit of an anchor.
Scans == [begun : Positions, seen : Positions, segment : 0 .. MaxSegments,
          progressed : BOOLEAN]
Releases == [why : {"none", "card", "after"}, done : 0 .. ReleaseDistance, odd : BOOLEAN]
Visits == [moves : 0 .. MoveSteps, speed : Nat, turn : {"none", "Closing", "Opening"}]
Span == -(Reach + FallbackWidth) .. Reach + FallbackWidth
Regions == SUBSET (0 .. Required - 1)

\* TypeOK part by part, with the whole records, and the anchor that is visited.
TypedA ==
  /\ pc \in {"pair", "Closing", "Opening", "judge", "strokes", "stroke", "afterStrokes",
             "scan", "turn", "release", "bounds", "lastRelease", "learn", "anchor", "trip",
             "update", "settle", "done"}
  /\ stopped \in BOOLEAN /\ contradicted \in BOOLEAN
  /\ result \in {"none", "failed", "aborted", "unsettled", "done"}
  /\ speed \in 1 .. Speeds /\ current \in 1 .. Currents /\ lowest \in 1 .. Currents
  /\ found \in [Directions -> 0 .. Currents] /\ last \in Directions \union {"none"}
  /\ suspected \in [Directions -> BOOLEAN]
TypedB ==
  /\ x \in Positions /\ dir \in Directions /\ second \in BOOLEAN /\ scan \in Scans
  /\ bounds \in [Directions -> Span] /\ recommended \in [Directions -> BOOLEAN]
  /\ releaseFailed \in BOOLEAN /\ release \in Releases
TypedC ==
  /\ anchors \subseteq Candidates /\ (pc \in {"anchor", "trip"} => anchors # {})
  /\ step \in Visits /\ gained \in BOOLEAN /\ cutShort \in BOOLEAN
  /\ regions \in Regions /\ samples \in Regions /\ profile.learnt \in Regions

Typed == TypedA /\ TypedB /\ TypedC

-----------------------------------------------------------------------------
\* The distances, levels and counts are numbers.
LEMMA Sizes ==
  /\ Effective \in Nat /\ MaxSegments \in Nat /\ MaxSegments >= 4
  /\ FallbackWidth \in Nat /\ FallbackWidth \div 2 \in 0 .. FallbackWidth
  /\ Required \in Nat /\ Required >= 3
<1>1. Effective \in Nat /\ FallbackWidth \in Nat
  BY DistancesAssumption, LevelsAssumption DEF Effective, FallbackWidth, Larger
<1>2. FallbackWidth \div 2 \in 0 .. FallbackWidth
  BY <1>1
<1>3. Required \in Nat /\ Required >= 3
  BY LearningAssumption DEF Required, Larger
<1>4. MaxSegments \in Nat /\ MaxSegments >= 4
  <2> DEFINE n == MaxExpansion + Effective - 1
  <2>1. n \in Nat /\ Effective > 0
    BY <1>1, SearchAssumption
  <2>2. n \div Effective \in Nat
    <3> HIDE DEF n
    <3> QED BY <1>1, <2>1, Z3
  <2> QED BY <2>2 DEF MaxSegments
<1> QED BY <1>1, <1>2, <1>3, <1>4

\* Any set of pairs of numbers has a first one in the order of the visit, so that
\* At is one of the anchors.
LEMMA FirstOfPairs ==
  ASSUME NEW S, S \subseteq Nat \X Nat, S # {}
  PROVE  \E a \in S : \A b \in S : a[1] < b[1] \/ (a[1] = b[1] /\ a[2] <= b[2])
<1> DEFINE L == OpToRel(<, Nat)
           O == LexPairOrdering(L, L, Nat, Nat)
<1>1. IsWellFoundedOn(O, Nat \X Nat)
  BY NatLessThanWellFounded, WFLexPairOrdering
<1>2. PICK a \in S : \A b \in S : ~(<<b, a>> \in O)
  <2> HIDE DEF O
  <2> QED BY <1>1, WFMin
<1>3. \A m, n \in Nat : m < n => <<m, n>> \in L
  BY DEF OpToRel
<1>4. ASSUME NEW b \in S, b[1] < a[1] \/ (b[1] = a[1] /\ b[2] < a[2])
      PROVE  <<b, a>> \in O
  <2>1. a \in Nat \X Nat /\ b \in Nat \X Nat
    OBVIOUS
  <2>2. <<b[1], a[1]>> \in L \/ (b[1] = a[1] /\ <<b[2], a[2]>> \in L)
    BY <1>3, <1>4, <2>1
  <2> HIDE DEF L
  <2>3. <<b, a>> \in (Nat \X Nat) \X (Nat \X Nat)
    BY <2>1
  <2> QED BY <2>2, <2>3 DEF LexPairOrdering
<1>5. ASSUME NEW b \in S
      PROVE  a[1] < b[1] \/ (a[1] = b[1] /\ a[2] <= b[2])
  <2>1. a[1] \in Nat /\ a[2] \in Nat /\ b[1] \in Nat /\ b[2] \in Nat
    OBVIOUS
  <2>2. ~(b[1] < a[1] \/ (b[1] = a[1] /\ b[2] < a[2]))
    BY <1>2, <1>4
  <2> QED BY <2>1, <2>2
<1> QED BY <1>5

\* The anchor visited next is one of the anchors, and its region a region.
LEMMA AtIsAnchor ==
  ASSUME anchors \subseteq Candidates, anchors # {}
  PROVE  At \in anchors /\ At[1] \in 0 .. Required - 1
<1>1. \A g \in 0 .. Required - 1 :
        {g} \X (1 .. PerRegion(g)) \subseteq (0 .. Required - 1) \X Nat
  <2> SUFFICES ASSUME NEW g \in 0 .. Required - 1, NEW b \in {g} \X (1 .. PerRegion(g))
               PROVE  b \in (0 .. Required - 1) \X Nat
    OBVIOUS
  <2>1. PICK k \in 1 .. PerRegion(g) : b = <<g, k>>
    OBVIOUS
  <2>2. k \in Nat
    OBVIOUS
  <2> QED BY <2>1, <2>2
<1>2. Candidates \subseteq (0 .. Required - 1) \X Nat
  BY <1>1 DEF Candidates
<1>3. anchors \subseteq (0 .. Required - 1) \X Nat /\ anchors \subseteq Nat \X Nat
  <2>1. 0 .. Required - 1 \subseteq Nat
    BY Sizes
  <2> QED BY <1>2, <2>1
<1>4. \E a \in anchors : \A b \in anchors : a[1] < b[1] \/ (a[1] = b[1] /\ a[2] <= b[2])
  BY <1>3, FirstOfPairs
<1>5. At \in anchors
  BY <1>4 DEF At
<1> QED BY <1>3, <1>5

\* What the readings of a probe say of stops, contradictions and drifts is known.
LEMMA BreakawayFlags ==
  ASSUME NEW r \in BreakawayReadings
  PROVE  r.stop \in BOOLEAN /\ r.contradicts \in BOOLEAN /\ r.drift \in BOOLEAN
<1>1. PICK o \in Reported(TRUE, FALSE), listed \in BOOLEAN :
        r = BreakawayReading(o, listed)
  BY Zenon DEF BreakawayReadings
<1>2. LooksLikeDrift(o) \in BOOLEAN
  BY Zenon DEF LooksLikeDrift
<1> QED BY <1>1, <1>2 DEF BreakawayReading

\* The same of a short stroke.
LEMMA ShortFlags ==
  ASSUME NEW r \in ShortReadings
  PROVE  r.stop \in BOOLEAN /\ r.contradicts \in BOOLEAN
<1>1. PICK o \in Reported(FALSE, FALSE), listed \in BOOLEAN :
        r = ShortReading(o, listed)
  BY Zenon DEF ShortReadings
<1> QED BY <1>1 DEF ShortReading

\* The same of a probe of PreB.
LEMMA PreBFlags ==
  ASSUME NEW r \in PreBReadings
  PROVE  r.stop \in BOOLEAN /\ r.contradicts \in BOOLEAN
<1>1. PICK o \in Reported(FALSE, TRUE) :
        r = [stop |-> o.code = "activeStop", contradicts |-> o.code = "inconsistent",
             unsettled |-> Unsettled(o), result |-> Normalize(o),
             moved |-> IF Fatal(o) THEN 0 ELSE o.moved, reached |-> o.reached /\ ~Fatal(o),
             effective |-> EffectiveProgress(o) /\ ~Fatal(o),
             passed |-> PassThrough(o) /\ ~Fatal(o), boundary |-> Boundary(o) /\ ~Fatal(o)]
  BY Zenon DEF PreBReadings
<1> QED BY <1>1

\* The same of a probe of the learning.
LEMMA LearnFlags ==
  ASSUME NEW r \in LearnReadings
  PROVE  r.stop \in BOOLEAN /\ r.contradicts \in BOOLEAN
<1>1. PICK o \in Reported(FALSE, TRUE) :
        r = [stop |-> o.code = "activeStop", contradicts |-> o.code = "inconsistent",
             unsettled |-> Unsettled(o), result |-> Normalize(o),
             reached |-> o.reached /\ ~Fatal(o), goesOn |-> PassThrough(o) /\ ~Fatal(o),
             usable |-> UsableSample(o, Sample) /\ ~Fatal(o)]
  BY Zenon DEF LearnReadings
<1> QED BY <1>1

\* And so of every probe.
LEMMA ReadingFlags ==
  ASSUME NEW r \in BreakawayReadings \union ShortReadings \union PreBReadings
                     \union LearnReadings
  PROVE  r.stop \in BOOLEAN /\ r.contradicts \in BOOLEAN
  BY BreakawayFlags, ShortFlags, PreBFlags, LearnFlags

\* So a probe leaves the two flags typed.
LEMMA ProbedTyped ==
  ASSUME NEW r \in BreakawayReadings \union ShortReadings \union PreBReadings
                     \union LearnReadings,
         contradicted \in BOOLEAN, Probed(r)
  PROVE  stopped' \in BOOLEAN /\ contradicted' \in BOOLEAN
<1>1. r.stop \in BOOLEAN /\ r.contradicts \in BOOLEAN
  BY ReadingFlags
<1> QED BY <1>1 DEF Probed

-----------------------------------------------------------------------------

\* Everything is typed at first.
LEMMA TypedInit == Init => Typed
<1> SUFFICES ASSUME Init PROVE Typed
  OBVIOUS
<1>1. TypedA
  <2>1. lowest \in 1 .. Currents /\ current \in 1 .. Currents /\ speed \in 1 .. Speeds
    BY LevelsAssumption DEF Init, InitA, StartLevels
  <2>2. found \in [Directions -> 0 .. Currents] /\ suspected \in [Directions -> BOOLEAN]
    BY LevelsAssumption DEF Init, InitA, NotFound
  <2> QED BY <2>1, <2>2 DEF Init, InitA, TypedA
<1>2. 0 \in Positions /\ 0 \in Span /\ 0 \in 0 .. MaxSegments /\ 0 \in 0 .. ReleaseDistance
  BY Sizes, SearchAssumption DEF Positions, Span
<1>3. NoScan \in Scans /\ NoRelease \in Releases
  BY <1>2 DEF NoScan, NoRelease, Scans, Releases
<1>4. TypedB
  BY <1>2, <1>3 DEF Init, InitB, TypedB, Directions
<1>5. NoStep \in Visits
  BY LearningAssumption DEF NoStep, Visits
<1>6. TypedC
  BY <1>5 DEF Init, InitA, InitC, TypedC, Regions, Seed
<1> QED BY <1>1, <1>4, <1>6 DEF Typed

\* PreA touches its own variables only.
LEMMA TypedOutsideA ==
  ASSUME Typed, UNCHANGED <<preB, learning, profile>>, TypedA', pc' \notin {"anchor", "trip"}
  PROVE  Typed'
  BY DEF Typed, TypedB, TypedC, preB, learning

\* The next level is one of the levels.
LEMMA NextLevelTyped ==
  ASSUME TypedA, MoreLevels, NextLevel
  PROVE  speed' \in 1 .. Speeds /\ current' \in 1 .. Currents
<1>1. current \in Nat /\ speed \in Nat /\ speed \in 1 .. Speeds /\ current \in 1 .. Currents
      /\ lowest \in 1 .. Currents /\ Speeds \in Nat /\ Currents \in Nat
  BY LevelsAssumption DEF TypedA
<1> QED BY <1>1 DEF MoreLevels, NextLevel

\* Before a pair nothing but the place changes.
LEMMA PairTyped ==
  ASSUME Typed, Pair, UNCHANGED <<preB, learning, profile>>
  PROVE  Typed'
<1>1. TypedA' /\ pc' \notin {"anchor", "trip"}
  BY DEF Typed, TypedA, Pair, End, preA
<1> QED BY <1>1, TypedOutsideA

\* An attempt finds the level it ran at.
LEMMA TryTyped ==
  ASSUME Typed, NEW d \in Directions, Try(d), UNCHANGED <<preB, learning, profile>>
  PROVE  Typed'
<1>1. PICK r \in BreakawayReadings : Try(d)!2!(r)
  BY DEF Try
<1>2. stopped' \in BOOLEAN /\ contradicted' \in BOOLEAN
  BY <1>1, ProbedTyped DEF Typed, TypedA
<1>3. UNCHANGED suspected \/ MarkDrift(d, r)
  BY <1>1
<1>4. suspected' \in [Directions -> BOOLEAN]
  <2>1. r.drift \in BOOLEAN
    BY BreakawayFlags
  <2> QED BY <1>3, <2>1 DEF Typed, TypedA, MarkDrift
<1>5. /\ UNCHANGED found \/ found' = [found EXCEPT ![d] = IF r.accepted THEN current ELSE 0]
      /\ UNCHANGED last \/ last' = IF r.boundary THEN d ELSE "none"
      /\ pc' \in {"done", "strokes", "Opening", "judge"}
      /\ UNCHANGED result \/ result' = "failed"
      /\ UNCHANGED <<speed, current, lowest>>
  BY <1>1 DEF Try, End
<1>6. found' \in [Directions -> 0 .. Currents] /\ last' \in Directions \union {"none"}
  BY <1>5, LevelsAssumption DEF Typed, TypedA
<1>7. TypedA'
  BY <1>2, <1>4, <1>5, <1>6 DEF Typed, TypedA
<1> QED BY <1>5, <1>7, TypedOutsideA

\* A judgement keeps to the levels there are.
LEMMA JudgeTyped ==
  ASSUME Typed, Judge, UNCHANGED <<preB, learning, profile>>
  PROVE  Typed'
<1>1. speed' \in 1 .. Speeds /\ current' \in 1 .. Currents
  <2>1. UNCHANGED <<speed, current>> \/ (MoreLevels /\ NextLevel)
    BY DEF Judge
  <2> QED BY <2>1, NextLevelTyped DEF Typed, TypedA
<1>2. suspected' \in [Directions -> BOOLEAN]
  BY DEF Typed, TypedA, Judge
<1>3. TypedA' /\ pc' \notin {"anchor", "trip"}
  BY <1>1, <1>2 DEF Typed, TypedA, Judge, End
<1> QED BY <1>3, TypedOutsideA

\* Leaving PreA needs a first level of either scan.
LEMMA LeaveATyped ==
  ASSUME TypedA, LeaveA
  PROVE  /\ speed' \in 1 .. Speeds /\ current' \in 1 .. Currents /\ lowest' \in 1 .. Currents
         /\ found' \in [Directions -> 0 .. Currents] /\ last' \in Directions \union {"none"}
  BY LevelsAssumption DEF LeaveA, TypedA, NotFound

\* The strokes start at one of the levels.
LEMMA StartStrokesTyped ==
  ASSUME Typed, StartStrokes, UNCHANGED <<preB, learning, profile>>
  PROVE  Typed'
<1>1. /\ speed' \in 1 .. Speeds /\ current' \in 1 .. Currents /\ lowest' \in 1 .. Currents
      /\ found' \in [Directions -> 0 .. Currents] /\ last' \in Directions \union {"none"}
  <2>1. \/ UNCHANGED <<speed, current, lowest, found, last>>
        \/ LeaveA
        \/ /\ lowest' \in StartLevels /\ current' = lowest' /\ speed' = 1
           /\ UNCHANGED <<found, last>>
    BY DEF StartStrokes
  <2> QED BY <2>1, LeaveATyped, LevelsAssumption DEF Typed, TypedA, StartLevels
<1>2. TypedA' /\ pc' \notin {"anchor", "trip"}
  BY <1>1 DEF Typed, TypedA, StartStrokes, LeaveA, End
<1> QED BY <1>2, TypedOutsideA

\* So does the next pair of strokes.
LEMMA StrokeTyped ==
  ASSUME Typed, Stroke, UNCHANGED <<preB, learning, profile>>
  PROVE  Typed'
<1>1. /\ LeaveA \/ (MoreLevels /\ NextLevel /\ UNCHANGED <<pc, result, lowest, found, last>>)
      /\ UNCHANGED suspected
         \/ \E e \in Directions \union {"none"} :
              suspected' = [d \in Directions |-> suspected[d] \/ d = e]
  BY DEF Stroke, Escaped, Directions
<1>2. suspected' \in [Directions -> BOOLEAN]
  BY <1>1 DEF Typed, TypedA
<1>3. stopped' \in BOOLEAN /\ contradicted' \in BOOLEAN
  <2>1. CASE UNCHANGED <<stopped, contradicted>>
    BY <2>1 DEF Typed, TypedA
  <2>2. CASE \E r \in ShortReadings : Probed(r)
    BY <2>2, ProbedTyped DEF Typed, TypedA
  <2>3. CASE \E o \in ShortReadings :
               stopped' = o.stop /\ contradicted' = (contradicted \/ o.contradicts)
    <3>1. PICK o \in ShortReadings :
            stopped' = o.stop /\ contradicted' = (contradicted \/ o.contradicts)
      BY <2>3
    <3>2. o.stop \in BOOLEAN /\ o.contradicts \in BOOLEAN
      BY ReadingFlags
    <3> QED BY <3>1, <3>2
  <2> QED BY <2>1, <2>2, <2>3 DEF Stroke
<1>4. /\ speed' \in 1 .. Speeds /\ current' \in 1 .. Currents /\ lowest' \in 1 .. Currents
      /\ found' \in [Directions -> 0 .. Currents] /\ last' \in Directions \union {"none"}
  BY <1>1, LeaveATyped, NextLevelTyped DEF Typed, TypedA
<1>5. result' = result /\ pc' \in {"stroke", "afterStrokes"}
  BY <1>1 DEF LeaveA, Stroke
<1>6. TypedA'
  BY <1>2, <1>3, <1>4, <1>5 DEF Typed, TypedA
<1> QED BY <1>5, <1>6, TypedOutsideA

-----------------------------------------------------------------------------
\* PreB does not touch the levels, nor what is learnt.
LEMMA TypedOutsideB ==
  ASSUME Typed, UNCHANGED <<speed, current, lowest, found, last, learning, profile>>,
         suspected' \in [Directions -> BOOLEAN],
         stopped' \in BOOLEAN, contradicted' \in BOOLEAN,
         result' \in {result, "failed", "aborted"},
         pc' \in {"scan", "turn", "release", "bounds", "lastRelease", "learn",
                 "update", "done"},
         TypedB'
  PROVE  Typed'
<1>1. TypedA'
  BY DEF Typed, TypedA
<1>2. TypedC'
  BY DEF Typed, TypedC, learning
<1> QED BY <1>1, <1>2 DEF Typed

\* What is typed of the flags when a step leaves them alone.
LEMMA FlagsStay ==
  ASSUME Typed
  PROVE  /\ UNCHANGED stopped => stopped' \in BOOLEAN
         /\ UNCHANGED contradicted => contradicted' \in BOOLEAN
         /\ UNCHANGED suspected => suspected' \in [Directions -> BOOLEAN]
  BY DEF Typed, TypedA

\* A search that has not begun, and one that begins where the nut stands.
LEMMA FreshScans ==
  /\ NoScan \in Scans
  /\ x' \in Positions => Begin \in Scans
  /\ \A why \in {"card", "after"} : ReleaseFor(why) \in Releases
  /\ NoRelease \in Releases
<1>1. 0 \in Positions /\ 0 \in 0 .. MaxSegments /\ 0 \in 0 .. ReleaseDistance
  BY Sizes, SearchAssumption DEF Positions
<1>2. NoScan \in Scans
  BY <1>1 DEF NoScan, Scans
<1>3. x' \in Positions => Begin \in Scans
  BY <1>2 DEF Begin, Scans
<1>4. NoRelease \in Releases
  BY <1>1 DEF NoRelease, Releases
<1>5. ASSUME NEW why \in {"card", "after"} PROVE ReleaseFor(why) \in Releases
  BY <1>4 DEF ReleaseFor, Releases
<1> QED BY <1>2, <1>3, <1>4, <1>5

\* A search begins in one of the directions.
LEMMA StartSearchTyped ==
  ASSUME Typed, StartSearch, UNCHANGED <<learning, profile>>
  PROVE  Typed'
<1>1. TypedB'
  BY DEF Typed, TypedB, StartSearch, Directions
<1>2. /\ UNCHANGED <<preA, stopped, contradicted>> /\ pc' \in {"scan", "done"}
      /\ result' \in {result, "aborted"}
  BY DEF StartSearch, End
<1> QED BY <1>1, <1>2, FlagsStay, TypedOutsideB DEF preA

\* A scan that ends counts the place where the nut stands.
LEMMA ScanEndsTyped ==
  ASSUME Typed, ScanEnds, UNCHANGED <<learning, profile>>
  PROVE  Typed'
<1>1. /\ UNCHANGED <<preA, stopped, contradicted, x, dir, second, recommended, releaseFailed,
                     release>>
      /\ scan' = NoScan /\ pc' \in {"turn", "done"} /\ result' \in {result, "failed"}
      /\ UNCHANGED bounds \/ bounds' = [bounds EXCEPT ![dir] = x]
  BY DEF ScanEnds, End
<1>2. x \in Span
  BY Sizes, SearchAssumption DEF Typed, TypedB, Positions, Span
<1>3. bounds' \in [Directions -> Span]
  BY <1>1, <1>2 DEF Typed, TypedB
<1>4. TypedB'
  BY <1>1, <1>3, FreshScans DEF Typed, TypedB
<1> QED BY <1>1, <1>4, FlagsStay, TypedOutsideB DEF preA

\* A scan goes on from a place the nut has reached, one segment further.
LEMMA ScanTyped ==
  ASSUME Typed, Scan, UNCHANGED <<learning, profile>>
  PROVE  Typed'
<1>1. PICK r \in PreBReadings : Scan!2!(r)
  BY DEF Scan
<1> DEFINE gain == IF r.unsettled THEN 0 ELSE Advance(r)
           next == IF ~r.unsettled THEN AfterScan(r)
                   ELSE IF CanDegrade(r.result) THEN "over" ELSE "failed"
<1>2. /\ ProbedB(dir, r)
      /\ bounds' = [bounds EXCEPT ![dir] = IF gain > 0 THEN x' ELSE @]
      /\ Mark(next) /\ Recommend(next)
      /\ scan' = IF next \in {"card", "on"}
                 THEN [scan EXCEPT !.seen = @ + Sign(dir) * gain, !.segment = NextSegment,
                                   !.progressed = @ \/ gain >= Effective]
                 ELSE NoScan
      /\ release' = IF next = "card" THEN ReleaseFor("card") ELSE NoRelease
      /\ pc' \in {"release", "scan", "done", "turn"}
      /\ result' \in {result, "failed"}
      /\ UNCHANGED <<speed, current, lowest, found, last, dir, second, releaseFailed>>
  BY <1>1, Zenon DEF Scan
<1>3. x \in Int /\ x' \in Positions /\ scan \in Scans /\ dir \in Directions /\ x' \in Span
  BY <1>2, Sizes, SearchAssumption DEF ProbedB, Typed, TypedB, Positions, Span
<1>4. gain = 0 \/ scan.seen + Sign(dir) * gain = x'
  <2>1. scan.seen \in Int /\ x' \in Int /\ Sign(dir) \in {-1, 1}
    BY <1>3 DEF Scans, Positions, Sign
  <2>2. Advance(r) = 0 \/ Advance(r) = Sign(dir) * (x' - scan.seen)
    BY DEF Advance
  <2> QED BY <2>1, <2>2
<1>5. scan' \in Scans
  <2>1. scan.segment + 1 \in 0 .. MaxSegments
    BY <1>3, Sizes DEF Scan, OutOfSegments, Scans
  <2>2. scan.seen + Sign(dir) * gain \in Positions
    <3>1. scan.seen \in Positions /\ scan.seen \in Int /\ Sign(dir) \in {-1, 1}
      BY <1>3 DEF Scans, Positions, Sign
    <3>2. CASE gain = 0
      BY <3>1, <3>2
    <3>3. CASE scan.seen + Sign(dir) * gain = x'
      BY <3>3, <1>3
    <3> QED BY <1>4, <3>2, <3>3
  <2>3. (scan.progressed \/ gain >= Effective) \in BOOLEAN
    OBVIOUS
  <2> HIDE DEF gain, next
  <2>4. [scan EXCEPT !.seen = @ + Sign(dir) * gain, !.segment = NextSegment,
                     !.progressed = @ \/ gain >= Effective] \in Scans
    BY <1>3, <2>1, <2>2, <2>3 DEF Scans, NextSegment
  <2> QED BY <1>2, <2>4, FreshScans
<1> HIDE DEF gain, next
<1>6. bounds' \in [Directions -> Span]
  BY <1>2, <1>3 DEF Typed, TypedB
<1>7. suspected' \in [Directions -> BOOLEAN] /\ recommended' \in [Directions -> BOOLEAN]
  BY <1>2 DEF Typed, TypedA, TypedB, Mark, Recommend
<1>8. release' \in Releases
  BY <1>2, FreshScans
<1>9. TypedB'
  BY <1>2, <1>3, <1>5, <1>6, <1>7, <1>8 DEF Typed, TypedB
<1>10. stopped' \in BOOLEAN /\ contradicted' \in BOOLEAN
  BY <1>2, ProbedTyped DEF ProbedB, Typed, TypedA
<1> QED BY <1>2, <1>7, <1>9, <1>10, TypedOutsideB

\* The next search, or none.
LEMMA GoOnTyped ==
  ASSUME Typed, x' \in Positions, GoOn
  PROVE  dir' \in Directions /\ second' \in BOOLEAN /\ scan' \in Scans
         /\ pc' \in {"bounds", "scan"}
  BY FreshScans DEF Typed, TypedB, GoOn, Directions, Other

\* Between two scans a release or the other search begins.
LEMMA TurnTyped ==
  ASSUME Typed, Turn, UNCHANGED <<learning, profile>>
  PROVE  Typed'
<1>1. /\ UNCHANGED <<preA, stopped, contradicted, result, bounds, recommended, releaseFailed,
                     x>>
      /\ \/ /\ pc' = "release" /\ release' = ReleaseFor("after")
            /\ UNCHANGED <<dir, second, scan>>
         \/ GoOn /\ UNCHANGED release
  BY DEF Turn
<1>2. x' \in Positions
  BY <1>1 DEF Typed, TypedB
<1>3. dir' \in Directions /\ second' \in BOOLEAN /\ scan' \in Scans
      /\ pc' \in {"bounds", "scan", "release"} /\ release' \in Releases
  BY <1>1, <1>2, GoOnTyped, FreshScans DEF Typed, TypedB
<1>4. TypedB'
  BY <1>1, <1>3 DEF Typed, TypedB
<1> QED BY <1>1, <1>3, <1>4, FlagsStay, TypedOutsideB DEF preA

\* A release counts no more than its distance.
LEMMA ReleaseTyped ==
  ASSUME IInv, Typed, Release, UNCHANGED <<learning, profile>>
  PROVE  Typed'
<1> DEFINE Done(r) == release.done + Smaller(Size(r.moved), ReleaseDistance - release.done)
<1>1. /\ UNCHANGED <<preA, bounds, recommended>>
      /\ \/ /\ End("failed") /\ release' = NoRelease /\ scan' = NoScan
            /\ UNCHANGED <<x, dir, second, releaseFailed, stopped, contradicted>>
         \/ \E r \in PreBReadings :
              /\ ProbedB(Other(dir), r)
              /\ \/ /\ release' = [release EXCEPT !.done = Done(r), !.odd = ~@]
                    /\ UNCHANGED <<pc, result, dir, second, scan, releaseFailed>>
                 \/ /\ \E next \in {"released", "degraded", "failed"} : Released(next)
                    /\ release' = NoRelease
  BY DEF Release, AfterRelease
<1>2. release \in Releases /\ release.done \in 0 .. ReleaseDistance
  BY DEF Typed, TypedB, Releases
<1>3. CASE /\ End("failed") /\ release' = NoRelease /\ scan' = NoScan
           /\ UNCHANGED <<x, dir, second, releaseFailed, stopped, contradicted>>
  <2>1. TypedB'
    BY <1>1, <1>3, FreshScans DEF Typed, TypedB
  <2> QED BY <1>1, <1>3, <2>1, FlagsStay, TypedOutsideB DEF End, preA
<1>4. ASSUME NEW r \in PreBReadings, ProbedB(Other(dir), r)
      PROVE  /\ stopped' \in BOOLEAN /\ contradicted' \in BOOLEAN
             /\ x' \in Positions /\ Done(r) \in 0 .. ReleaseDistance
  <2>1. r.moved \in Int
    BY BoundaryResults
  <2>2. Done(r) \in 0 .. ReleaseDistance
    BY <1>2, <2>1, SearchAssumption DEF Smaller, Size
  <2> QED BY <1>4, <2>2, ProbedTyped DEF ProbedB, Typed, TypedA
<1>5. ASSUME NEW r \in PreBReadings, ProbedB(Other(dir), r),
             release' = [release EXCEPT !.done = Done(r), !.odd = ~@],
             UNCHANGED <<pc, result, dir, second, scan, releaseFailed>>
      PROVE  Typed'
  <2>1. release' \in Releases
    <3>1. Done(r) \in 0 .. ReleaseDistance
      BY <1>4, <1>5
    <3> HIDE DEF Done
    <3> QED BY <1>2, <1>5, <3>1 DEF Releases
  <2>2. TypedB'
    BY <1>1, <1>4, <1>5, <2>1 DEF Typed, TypedB
  <2>3. pc' = "release" /\ result' = result
    BY <1>5 DEF Release
  <2> QED BY <1>1, <1>4, <1>5, <2>2, <2>3, FlagsStay, TypedOutsideB DEF preA
<1>6. ASSUME NEW r \in PreBReadings, ProbedB(Other(dir), r),
             NEW next \in {"released", "degraded", "failed"}, Released(next),
             release' = NoRelease
      PROVE  Typed'
  <2>1. x' \in Positions /\ stopped' \in BOOLEAN /\ contradicted' \in BOOLEAN
    BY <1>4, <1>6
  <2>2. release.why \in {"card", "after"}
    BY <1>2 DEF IInv, Owed, Release, Releases
  <2>3. \/ pc' = "scan" /\ UNCHANGED <<dir, second, scan, result, releaseFailed>>
        \/ GoOn /\ UNCHANGED <<result, releaseFailed>>
        \/ /\ scan' = NoScan /\ UNCHANGED <<dir, second>>
           /\ pc' \in {"turn", "bounds", "done"} /\ result' \in {result, "failed"}
           /\ releaseFailed' \in {releaseFailed, TRUE}
    BY <1>6, <2>2 DEF Released, End
  <2>4. /\ dir' \in Directions /\ second' \in BOOLEAN /\ scan' \in Scans
        /\ pc' \in {"scan", "turn", "bounds", "done"} /\ result' \in {result, "failed"}
        /\ releaseFailed' \in BOOLEAN
    BY <2>1, <2>3, GoOnTyped, FreshScans DEF Typed, TypedB
  <2>5. TypedB'
    BY <1>1, <1>6, <2>1, <2>4, FreshScans DEF Typed, TypedB
  <2> QED BY <1>1, <2>1, <2>4, <2>5, FlagsStay, TypedOutsideB DEF preA
<1> QED BY <1>1, <1>3, <1>5, <1>6

-----------------------------------------------------------------------------
\* The bounds are where the nut has been, or a window about where it stands.
LEMMA BoundsTyped ==
  ASSUME Typed, Bounds
  PROVE  Typed'
<1>1. /\ UNCHANGED <<stopped, result, contradicted, preA, x, dir, second, scan, releaseFailed,
                     release, learning, profile>>
      /\ pc' \in {"update", "lastRelease"}
      /\ bounds' \in {bounds, Fallback(x)}
      /\ recommended' = [d \in Directions |-> ~FallsBack /\ (recommended[d] \/ suspected[d])]
  BY DEF Bounds, AfterBounds
<1>2. Fallback(x) \in [Directions -> Span]
  <2>1. x \in Positions /\ x \in Int
    BY DEF Typed, TypedB, Positions
  <2>2. ASSUME NEW d \in Directions PROVE x + Sign(d) * (FallbackWidth \div 2) \in Span
    <3> DEFINE half == FallbackWidth \div 2
    <3>1. half \in 0 .. FallbackWidth /\ FallbackWidth \in Nat
      BY Sizes
    <3>2. Sign(d) \in {-1, 1}
      BY DEF Sign
    <3> HIDE DEF half
    <3>3. x + Sign(d) * half \in Span
      BY <2>1, <3>1, <3>2, SearchAssumption DEF Positions, Span
    <3> QED BY <3>3 DEF half
  <2> QED BY <2>2 DEF Fallback
<1>3. recommended' \in [Directions -> BOOLEAN]
  BY <1>1, Zenon
<1>4. TypedB'
  BY <1>1, <1>2, <1>3 DEF Typed, TypedB
<1> QED BY <1>1, <1>4, FlagsStay, TypedOutsideB DEF preA

\* The last release leaves the nut where it can be.
LEMMA LastReleaseTyped ==
  ASSUME Typed, LastRelease
  PROVE  Typed'
<1>1. /\ UNCHANGED <<preA, dir, second, scan, bounds, recommended, releaseFailed, release,
                     learning, profile>>
      /\ pc' \in {"learn", "done"} /\ result' \in {result, "failed"}
      /\ \/ UNCHANGED <<stopped, contradicted, x>>
         \/ \E r \in PreBReadings : ProbedB(ReleaseDirection, r)
  BY DEF LastRelease, End
<1>2. stopped' \in BOOLEAN /\ contradicted' \in BOOLEAN /\ x' \in Positions
  BY <1>1, ProbedTyped DEF ProbedB, Typed, TypedA, TypedB
<1>3. TypedB'
  BY <1>1, <1>2 DEF Typed, TypedB
<1> QED BY <1>1, <1>2, <1>3, FlagsStay, TypedOutsideB DEF preA

-----------------------------------------------------------------------------
\* The learning changes what it learns, its place and the flags of a probe.
LEMMA TypedLearning ==
  ASSUME Typed, UNCHANGED preA, TypedB', TypedC',
         stopped' \in BOOLEAN, contradicted' \in BOOLEAN,
         result' \in {result, "aborted", "unsettled", "done"},
         pc' \in {"anchor", "trip", "update", "settle", "done"}
  PROVE  Typed'
<1>1. TypedA'
  BY DEF Typed, TypedA, preA
<1> QED BY <1>1 DEF Typed

\* The end of the learning, the next anchor and the verdict on both.
LEMMA LeaveLearningTyped ==
  ASSUME Typed, UNCHANGED profile, NEW kept \in Regions, NEW cut \in BOOLEAN,
         LeaveLearning(kept, cut)
  PROVE  TypedC'
<1>1. NoStep \in Visits
  BY LearningAssumption DEF NoStep, Visits
<1> QED BY <1>1 DEF Typed, TypedC, LeaveLearning, Regions

\* After an anchor, regions stay regions and anchors are left or all are done.
LEMMA SettledTyped ==
  ASSUME Typed, UNCHANGED profile, NEW seen \in Regions, NEW kept \in Regions,
         Settled(seen, kept)
  PROVE  TypedC' /\ pc' \in {"anchor", "update"}
<1>1. CASE anchors \ {At} = {}
  <2> DEFINE left == IF Cardinality(seen) < Required THEN {} ELSE kept
  <2>1. LeaveLearning(left, FALSE) /\ left \in Regions
    BY <1>1 DEF Settled, Regions
  <2> HIDE DEF left
  <2> QED BY <2>1, LeaveLearningTyped DEF LeaveLearning
<1>2. CASE anchors \ {At} # {}
  <2>1. NoStep \in Visits
    BY LearningAssumption DEF NoStep, Visits
  <2> QED BY <1>2, <2>1 DEF Settled, NextAnchor, Typed, TypedC
<1> QED BY <1>1, <1>2

\* The same of a learning that ends with an error.
LEMMA CutShortTyped ==
  ASSUME Typed, UNCHANGED profile, CutShort
  PROVE  TypedC' /\ pc' = "update"
<1>1. samples \in Regions /\ TRUE \in BOOLEAN
  BY DEF Typed, TypedC
<1>2. LeaveLearning(samples, TRUE)
  BY DEF CutShort
<1> QED BY <1>1, <1>2, LeaveLearningTyped DEF LeaveLearning

\* The learning starts from nothing, with some anchors.
LEMMA LearnTyped ==
  ASSUME Typed, Learn
  PROVE  Typed'
<1>1. /\ UNCHANGED <<preA, result, profile, scan, bounds, releaseFailed, release>>
      /\ x' = 0 /\ dir' = "Opening" /\ second' = FALSE
      /\ recommended' = [d \in Directions |-> FALSE]
      /\ LeaveLearning({}, FALSE) \/ StartLearning
      /\ UNCHANGED <<stopped, contradicted>> \/ (\E r \in LearnReadings : Probed(r))
  BY DEF Learn, Forget
<1>2. TypedB'
  <2>1. 0 \in Positions /\ "Opening" \in Directions
    BY SearchAssumption DEF Positions, Directions
  <2> QED BY <1>1, <2>1 DEF Typed, TypedB
<1>3. TypedC' /\ pc' \in {"anchor", "update"}
  <2>1. CASE LeaveLearning({}, FALSE)
    <3>1. {} \in Regions /\ FALSE \in BOOLEAN
      BY DEF Regions
    <3> QED BY <1>1, <2>1, <3>1, LeaveLearningTyped DEF LeaveLearning
  <2>2. CASE StartLearning
    <3>1. anchors' \subseteq Candidates /\ anchors' # {}
      BY <2>2 DEF StartLearning, CleanAnchors
    <3>2. UNCHANGED <<step, gained, regions, samples, cutShort, profile>> /\ pc' = "anchor"
      BY <1>1, <2>2 DEF StartLearning
    <3> QED BY <3>1, <3>2 DEF Typed, TypedC
  <2> QED BY <1>1, <2>1, <2>2
<1>4. stopped' \in BOOLEAN /\ contradicted' \in BOOLEAN
  BY <1>1, ProbedTyped, FlagsStay DEF Typed, TypedA
<1> QED BY <1>1, <1>2, <1>3, <1>4, TypedLearning

\* The way to an anchor takes no more moves than its bound.
LEMMA MoveToAnchorTyped ==
  ASSUME Typed, MoveToAnchor
  PROVE  Typed'
<1>1. /\ pc = "anchor" /\ UNCHANGED <<preA, preB, result, profile>>
      /\ UNCHANGED <<stopped, contradicted>> \/ (\E r \in LearnReadings : Probed(r))
      /\ \/ CutShort \/ Settled(regions, samples)
         \/ /\ pc' = "trip" /\ step' = [moves |-> 0, speed |-> 1, turn |-> "Closing"]
            /\ UNCHANGED <<anchors, gained, regions, samples, cutShort>>
         \/ /\ step.moves < MoveSteps /\ step' = [step EXCEPT !.moves = @ + 1]
            /\ UNCHANGED <<pc, anchors, gained, regions, samples, cutShort>>
  BY DEF MoveToAnchor
<1>2. TypedB'
  BY <1>1 DEF Typed, TypedB, preB
<1>3. TypedC' /\ pc' \in {"anchor", "trip", "update"}
  <2>1. CASE CutShort \/ Settled(regions, samples)
    <3>1. regions \in Regions /\ samples \in Regions
      BY DEF Typed, TypedC
    <3> QED BY <1>1, <2>1, <3>1, CutShortTyped, SettledTyped
  <2>2. CASE /\ pc' = "trip" /\ step' = [moves |-> 0, speed |-> 1, turn |-> "Closing"]
             /\ UNCHANGED <<anchors, gained, regions, samples, cutShort>>
    <3>1. step' \in Visits
      BY <2>2, LearningAssumption DEF Visits
    <3> QED BY <1>1, <2>2, <3>1 DEF Typed, TypedC
  <2>3. CASE /\ step.moves < MoveSteps /\ step' = [step EXCEPT !.moves = @ + 1]
             /\ UNCHANGED <<pc, anchors, gained, regions, samples, cutShort>>
    <3>1. step' \in Visits
      BY <2>3, LearningAssumption DEF Typed, TypedC, Visits
    <3> QED BY <1>1, <2>3, <3>1 DEF Typed, TypedC
  <2> QED BY <1>1, <2>1, <2>2, <2>3
<1>4. stopped' \in BOOLEAN /\ contradicted' \in BOOLEAN
  BY <1>1, ProbedTyped, FlagsStay DEF Typed, TypedA
<1> QED BY <1>1, <1>2, <1>3, <1>4, TypedLearning

\* A stroke adds the region of the anchor that is visited.
LEMMA NextStrokeTyped ==
  ASSUME Typed, pc = "trip", UNCHANGED profile, NEW sampled \in BOOLEAN, NextStroke(sampled)
  PROVE  TypedC' /\ pc' \in {"anchor", "trip", "update"}
<1> DEFINE kept == IF sampled THEN samples \union {At[1]} ELSE samples
           any  == gained \/ sampled
           seen == IF any THEN regions \union {At[1]} ELSE regions
<1>1. At[1] \in 0 .. Required - 1
  BY AtIsAnchor DEF Typed, TypedC
<1>2. kept \in Regions /\ seen \in Regions /\ any \in BOOLEAN
  BY <1>1 DEF Typed, TypedC, Regions
<1>3. \/ Settled(seen, kept)
      \/ /\ samples' = kept /\ gained' = any /\ UNCHANGED <<pc, anchors, regions, cutShort>>
         /\ step' = IF step.turn = "Closing" THEN [step EXCEPT !.turn = "Opening"]
                    ELSE [step EXCEPT !.turn = "Closing", !.speed = @ + 1]
  BY DEF NextStroke
<1> HIDE DEF kept, any, seen
<1>4. CASE Settled(seen, kept)
  BY <1>2, <1>4, SettledTyped
<1>5. CASE /\ samples' = kept /\ gained' = any /\ UNCHANGED <<pc, anchors, regions, cutShort>>
           /\ step' = IF step.turn = "Closing" THEN [step EXCEPT !.turn = "Opening"]
                      ELSE [step EXCEPT !.turn = "Closing", !.speed = @ + 1]
  <2>1. step \in Visits
    BY DEF Typed, TypedC
  <2>2. /\ [step EXCEPT !.turn = "Opening"] \in Visits
        /\ [step EXCEPT !.turn = "Closing", !.speed = @ + 1] \in Visits
    <3>1. step.speed + 1 \in Nat
      BY <2>1 DEF Visits
    <3> DEFINE n == step.speed + 1
    <3> HIDE DEF n
    <3>2. n \in Nat
      BY <3>1 DEF n
    <3>3. [step EXCEPT !.turn = "Closing", !.speed = n] \in Visits
      BY <2>1, <3>2 DEF Visits
    <3>4. [step EXCEPT !.turn = "Opening"] \in Visits
      BY <2>1 DEF Visits
    <3> QED BY <3>3, <3>4 DEF n
  <2>3. step' \in Visits
    <3>1. step' \in {[step EXCEPT !.turn = "Opening"],
                     [step EXCEPT !.turn = "Closing", !.speed = @ + 1]}
      BY <1>5, Zenon
    <3> QED BY <2>2, <3>1, Zenon
  <2> QED BY <1>2, <1>5, <2>3 DEF Typed, TypedC
<1> QED BY <1>3, <1>4, <1>5

\* A trip adds no more than the region it is in.
LEMMA TripTyped ==
  ASSUME Typed, Trip
  PROVE  Typed'
<1>1. /\ pc = "trip" /\ UNCHANGED <<preA, preB, result, profile>>
      /\ UNCHANGED <<stopped, contradicted>> \/ (\E r \in LearnReadings : Probed(r))
      /\ CutShort \/ (\E sampled \in BOOLEAN : NextStroke(sampled))
  BY UsableIsBoolean DEF Trip
<1>2. TypedB'
  BY <1>1 DEF Typed, TypedB, preB
<1>3. TypedC' /\ pc' \in {"anchor", "trip", "update"}
  BY <1>1, CutShortTyped, NextStrokeTyped
<1>4. stopped' \in BOOLEAN /\ contradicted' \in BOOLEAN
  BY <1>1, ProbedTyped, FlagsStay DEF Typed, TypedA
<1> QED BY <1>1, <1>2, <1>3, <1>4, TypedLearning

\* The profile takes the regions as they are.
LEMMA UpdateTyped ==
  ASSUME Typed, Update
  PROVE  Typed'
<1>1. /\ pc = "update" /\ UNCHANGED <<stopped, contradicted, preA, preB, learning>>
      /\ pc' \in {"done", "settle"} /\ result' \in {result, "aborted"}
      /\ UNCHANGED profile \/ profile'.learnt = samples
  BY DEF Update, End
<1>2. TypedB' /\ TypedC'
  BY <1>1 DEF Typed, TypedB, TypedC, preB, learning
<1> QED BY <1>1, <1>2, FlagsStay, TypedLearning

\* The last settle wait only ends the check.
LEMMA SettleTyped ==
  ASSUME Typed, Settle
  PROVE  Typed'
<1>1. /\ UNCHANGED <<stopped, contradicted, preA, preB, learning, profile>>
      /\ pc' = "done" /\ result' \in {"done", "unsettled"}
  BY DEF Settle, End
<1>2. TypedB' /\ TypedC'
  BY <1>1 DEF Typed, TypedB, TypedC, preB, learning
<1> QED BY <1>1, <1>2, FlagsStay, TypedLearning

\* stop(), or nothing.
LEMMA StandStillTyped ==
  ASSUME Typed, stopped' \in BOOLEAN,
         UNCHANGED <<pc, result, contradicted, preA, preB, learning, profile>>
  PROVE  Typed'
  BY DEF Typed, TypedA, TypedB, TypedC, preA, preB, learning

\* Every step leaves everything typed.
LEMMA StepTyped == IInv /\ Typed /\ [Next]_vars => Typed'
<1> SUFFICES ASSUME IInv, Typed, [Next]_vars PROVE Typed'
  OBVIOUS
<1>1. CASE NextA /\ UNCHANGED <<preB, learning, profile>>
  BY <1>1, PairTyped, TryTyped, JudgeTyped, StartStrokesTyped, StrokeTyped DEF NextA
<1>2. CASE NextB /\ UNCHANGED <<learning, profile>>
  BY <1>2, StartSearchTyped, ScanEndsTyped, ScanTyped, TurnTyped, ReleaseTyped DEF NextB
<1>3. CASE NextC
  BY <1>3, BoundsTyped, LastReleaseTyped, LearnTyped, MoveToAnchorTyped, TripTyped,
     UpdateTyped, SettleTyped DEF NextC
<1>4. CASE Stop
  BY <1>4, StandStillTyped DEF Stop
<1>5. CASE UNCHANGED vars
  BY <1>5, StandStillTyped, FlagsStay DEF vars
<1> QED BY <1>1, <1>2, <1>3, <1>4, <1>5 DEF Next, Work, Ended

-----------------------------------------------------------------------------

\* The inductive invariant holds of every self-check.
THEOREM Inductive == Spec => []IInv
  BY InitHolds, StepKeeps, PTL DEF Spec

\* The paired scan explains both directions (runPairedBreakawayScan).
THEOREM NoDirectionIgnored == Spec => []DirectionsAccounted
  <1>1. IInv => DirectionsAccounted
    BY DEF IInv
  <1> QED BY <1>1, Inductive, PTL

\* No reversal against a stop (releasePreBStoppedDirection).
THEOREM NoReversalUnreleased == Spec => []ReleasedBeforeReversing
  <1>1. IInv => ReleasedBeforeReversing
    BY DEF IInv, Owed, Free, ReleasedBeforeReversing
  <1> QED BY <1>1, Inductive, PTL

\* boundary_release_failed ends search and learning (runPreSelfCheck).
THEOREM ReleaseFailureEnds == Spec => []FailedReleaseStops
  <1>1. IInv => FailedReleaseStops
    BY DEF IInv
  <1> QED BY <1>1, Inductive, PTL

\* Samples of enough regions or of none (runSafeZoneRoundTripSamples).
THEOREM NothingLearntInPart == Spec => []LearntOrRolledBack
  <1>1. IInv => LearntOrRolledBack
    BY DEF IInv, Kept
  <1> QED BY <1>1, Inductive, PTL

\* The self-check's variables stay typed: its levels, segments, released distance,
\* visits and regions within their bounds, for every choice of these.
THEOREM TypeCorrect == Spec => []TypeOK
<1>1. Typed => TypeOK
  <2> SUFFICES ASSUME Typed PROVE TypeOK
    OBVIOUS
  <2>1. {x, scan.begun, scan.seen} \subseteq Positions /\ scan.segment \in 0 .. MaxSegments
        /\ release.done \in 0 .. ReleaseDistance
    BY DEF Typed, TypedB, Scans, Releases
  <2>2. step.moves \in 0 .. MoveSteps /\ anchors \subseteq Candidates
        /\ {regions, samples, profile.learnt} \subseteq SUBSET (0 .. Required - 1)
    BY DEF Typed, TypedC, Visits, Regions
  <2>3. {stopped, contradicted, second, releaseFailed, gained, cutShort} \subseteq BOOLEAN
    BY DEF Typed, TypedA, TypedB, TypedC
  <2>4. bounds \in [Directions -> -(Reach + FallbackWidth) .. Reach + FallbackWidth]
    BY DEF Typed, TypedB, Span
  <2> QED BY <2>1, <2>2, <2>3, <2>4 DEF Typed, TypedA, TypedB, TypeOK
<1> QED BY <1>1, TypedInit, StepTyped, Inductive, PTL DEF Spec
=============================================================================
