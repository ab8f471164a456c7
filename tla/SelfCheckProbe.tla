--------------------------- MODULE SelfCheckProbe ---------------------------
(***************************************************************************)
(* runSelfCheckMotionProbe: one small motion of PreSelfCheck, watched      *)
(* frame by frame, then held (or unloaded, when it ended at a stop) until  *)
(* the nut is still, and reported.  Positions are distances from the start *)
(* in the commanded direction; one step is one iteration of a loop.  A     *)
(* stop of the user may arrive between any two steps.                      *)
(***************************************************************************)
EXTENDS ProbeOutcome, Sequences

CONSTANTS
  Probes,         \* the option sets under which probes run
  Goal,           \* the distance asked for
  Ahead, Behind,  \* distance to the theoretical limits on both sides
  Reach,          \* how far the nut can get, in either direction
  Timeout,        \* motionTimeoutFor
  HardConfirm,    \* pre_b_hard_current_confirm_time
  SoftTimeout,    \* pre_b_soft_jam_progress_timeout
  SettleTimeout, StillTime

ASSUME ProbeAssumption ==
  {Goal, Ahead, Behind, Reach, Timeout, HardConfirm, SoftTimeout, SettleTimeout,
   StillTime} \subseteq Nat

\* The five callers of runSelfCheckMotionProbe.
ASSUME ProbesAssumption ==
  Probes \subseteq {"breakaway", "shortStroke", "scan", "retry", "learning"}

VARIABLES
  probe,      \* which probe this is
  on,         \* the motor output
  stopped,    \* operationCancelRequested
  pc,
  x,          \* current_nut_stroke_
  clock,
  hard, hardFrom,   \* hard_current timer, and its progress reference
  early,            \* no_progress timer
  scan, scanFrom,   \* scan_progress timer, and its reference
  flags,      \* what the probe has found so far
  code,       \* output.result
  fresh, still,     \* the hold has seen a newer frame; still timer
  recent,     \* the last frames: furthest position so far and current
  out         \* the report

watch  == <<clock, hard, hardFrom, early, scan, scanFrom, flags, recent>>
holding == <<fresh, still>>
vars == <<probe, on, stopped, pc, x, watch, code, holding, out>>

Idle == -1
Tick(timer) == IF timer = Idle THEN 0 ELSE timer + 1

Nothing == [code |-> "hardware", sampled |-> FALSE, settled |-> FALSE,
            reached |-> FALSE, moved |-> 0, matches |-> TRUE, mono |-> TRUE,
            collapsed |-> FALSE, limit |-> FALSE, jam |-> FALSE, stuck |-> FALSE,
            over |-> FALSE]

Positions == -Reach .. Reach
Steps(from) == {p \in Positions : p - from \in -2 .. 2}

-----------------------------------------------------------------------------
(* SelfCheckProbeOptions. *)

Option == [micro |-> FALSE, suppress |-> FALSE, early |-> 0, confirm |-> 0,
           sustain |-> 0, custom |-> FALSE]
\* preBRelativeProbeOptions.
Relative == [Option EXCEPT !.suppress = TRUE, !.confirm = HardConfirm, !.custom = TRUE]

opt == CASE probe = "breakaway"   -> [Option EXCEPT !.micro = TRUE]
         [] probe = "shortStroke" -> Option
         [] probe = "scan"        -> [Relative EXCEPT !.sustain = SoftTimeout]
         [] probe = "retry"       -> [Relative EXCEPT !.early = SoftTimeout]
         [] probe = "learning"    -> Relative

\* Without limits of its own a probe stays inside the theoretical ones.
Target == IF opt.custom THEN Goal ELSE Smaller(Goal, Ahead)
Guard == Larger(MaxError, FallbackNoise)
Inside(p) == IF opt.custom THEN p \in -Guard .. Target + Guard
             ELSE p \in -Behind .. Ahead

\* isSelfCheckProbeTargetReached.
TargetReached(p) ==
  p >= Target - Smaller(MaxError, Larger(Noise, Target \div 4))

-----------------------------------------------------------------------------
Init ==
  /\ probe \in Probes /\ on \in BOOLEAN /\ stopped = FALSE
  /\ pc = "start" /\ x = 0 /\ clock = 0
  /\ hard = Idle /\ hardFrom = 0 /\ early = Idle /\ scan = Idle /\ scanFrom = 0
  /\ flags = [Nothing EXCEPT !.sampled = TRUE]
  /\ code = "ok" /\ fresh = FALSE /\ still = Idle
  /\ recent = <<>> /\ out = Nothing

\* stop() of another thread: the cancel flag, ActiveStop, the output.
Stop ==
  /\ ~stopped /\ pc # "done"
  /\ stopped' = TRUE /\ on' = FALSE
  /\ UNCHANGED <<probe, pc, x, watch, code, holding, out>>

\* A fault frame read by updateFeedback does the same to the top state.
Faulted == stopped' = TRUE /\ on' = FALSE

Leave(result) == code' = result /\ pc' = "settle"
Report(o) == pc' = "done" /\ out' = o

\* Everything before the loop: an error here leaves no sample behind.
Start ==
  /\ pc = "start" /\ UNCHANGED <<probe, x, watch, code, holding>>
  /\ \/ stopped /\ Report([Nothing EXCEPT !.code = "activeStop"]) /\ UNCHANGED <<on, stopped>>
     \/ ~stopped /\ Report(Nothing) /\ on' \in {on, FALSE} /\ UNCHANGED stopped
     \/ /\ ~stopped /\ ~Inside(Target)     \* the limiter
        /\ Report([Nothing EXCEPT !.code = "activeStop"])
        /\ on' = FALSE /\ stopped' = TRUE
     \/ /\ ~stopped /\ Inside(Target) /\ on' = TRUE
        /\ pc' = "watch" /\ UNCHANGED <<out, stopped>>

-----------------------------------------------------------------------------
(* The judgement of one frame: position p, current amp, contact hit. *)

Started(p)  == p >= StartOf(opt.micro)
Backward(p) == p <= -OppositeOf(opt.micro)

\* The hard current timer starts over whenever the nut makes progress.
HardProgress(p) == hard # Idle /\ p >= hardFrom + NoProgress
\* Mutant of HardTimer: progress does not restart it.
HardTimerThroughout(p, amp) == IF amp = "low" THEN Idle ELSE Tick(hard)
HardTimer(p, amp) == IF amp = "low" THEN Idle ELSE IF HardProgress(p) THEN 0 ELSE Tick(hard)
HardStuck(p, amp) ==
  amp # "low" /\ HardTimer(p, amp) >= opt.confirm /\ ~HardProgress(p)

EarlyTimer(p) == IF opt.early = 0 THEN early ELSE IF Started(p) THEN Idle ELSE Tick(early)
EarlyEnd(p) == opt.early > 0 /\ EarlyTimer(p) > 0 /\ EarlyTimer(p) >= opt.early

ScanProgress(p) == p > scanFrom + NoProgress
ScanTimer(p) ==
  IF opt.sustain = 0 THEN scan ELSE IF ScanProgress(p) THEN Idle ELSE Tick(scan)
Sustained(p) == opt.sustain > 0 /\ ScanTimer(p) > 0 /\ ScanTimer(p) >= opt.sustain

\* evaluateSelfCheckProbeRisk: a micro motion only looks at the end of the
\* travel, a scan notes a soft jam and goes on.
Risk(p, amp, hit) ==
  LET jammed == IF opt.micro THEN hit = "limit" /\ ~Started(p) ELSE hit \in {"jam", "limit"}
  IN  IF HardStuck(p, amp)
      THEN [jam |-> TRUE, limit |-> FALSE, collapsed |-> FALSE, stop |-> TRUE]
      ELSE [jam |-> jammed, limit |-> jammed /\ hit = "limit",
            collapsed |-> ~opt.micro /\ hit # "none", stop |-> jammed /\ ~opt.suppress]

\* Mutant of Verdict: a soft jam ends a scan too.
VerdictOnAnyJam(p, amp, hit) ==
  IF EarlyEnd(p) THEN "timedOut"
  ELSE IF Risk(p, amp, hit).jam \/ Sustained(p) THEN "jam"
  ELSE IF Backward(p) THEN "inconsistent"
  ELSE IF opt.micro /\ Started(p) THEN "timedOut"
  ELSE IF TargetReached(p) THEN "ok" ELSE "none"

\* The first reason to leave the loop; a breakaway that has begun to move ends
\* with the timeout its callers expect.
Verdict(p, amp, hit) ==
  IF EarlyEnd(p) THEN "timedOut"
  ELSE IF Risk(p, amp, hit).stop \/ Sustained(p) THEN "jam"
  ELSE IF Backward(p) THEN "inconsistent"
  ELSE IF opt.micro /\ Started(p) THEN "timedOut"
  ELSE IF TargetReached(p) THEN "ok" ELSE "none"

\* Every frame is counted, then the emergency current ends the probe, then the
\* command is refreshed, which the limiter, a stop or the link can refuse.
Sampled(amp) == [flags EXCEPT !.over = @ \/ amp # "low"]

Judged(p, amp, hit) ==
  LET risk == Risk(p, amp, hit)
      s == Sustained(p)
      seen == ~EarlyEnd(p)
  IN  [Sampled(amp) EXCEPT
         !.mono = @ /\ p - x >= -MaxError,
         !.matches = p > -StartOf(opt.micro),
         !.stuck = @ \/ HardStuck(p, amp) \/ s,
         !.jam = @ \/ (seen /\ risk.jam) \/ s,
         !.limit = @ \/ (seen /\ risk.limit) \/ s,
         !.collapsed = @ \/ (seen /\ risk.collapsed) \/ s,
         !.reached = Verdict(p, amp, hit) = "ok"]

Remember(p, amp) ==
  LET furthest == IF recent = <<>> THEN 0 ELSE recent[Len(recent)].at
      all == Append(recent, [at |-> Larger(furthest, p), amp |-> amp])
  IN  IF Len(recent) <= Larger(HardConfirm, SoftTimeout) THEN all ELSE Tail(all)

Frame(p, amp, hit) ==
  /\ x' = p /\ recent' = Remember(p, amp)
  /\ \/ /\ amp = "emergency" /\ Leave("jam")
        /\ flags' = [Sampled(amp) EXCEPT !.stuck = TRUE, !.jam = TRUE, !.limit = TRUE,
                                             !.collapsed = TRUE]
        /\ UNCHANGED <<hard, hardFrom, early, scan, scanFrom, on, stopped>>
     \/ /\ amp # "emergency" /\ flags' = Sampled(amp)
        /\ \/ Leave("activeStop") /\ Faulted
           \/ Inside(p) /\ Leave("hardware") /\ UNCHANGED <<on, stopped>>
        /\ UNCHANGED <<hard, hardFrom, early, scan, scanFrom>>
     \/ /\ amp # "emergency" /\ Inside(p) /\ UNCHANGED <<on, stopped>>
        /\ hard' = HardTimer(p, amp) /\ early' = EarlyTimer(p) /\ scan' = ScanTimer(p)
        /\ hardFrom' = IF amp # "low" /\ (hard = Idle \/ HardProgress(p)) THEN p ELSE hardFrom
        /\ scanFrom' = IF opt.sustain > 0 /\ ScanProgress(p) THEN p ELSE scanFrom
        /\ flags' = Judged(p, amp, hit)
        /\ LET v == Verdict(p, amp, hit)
           IN  IF v = "none" THEN UNCHANGED <<pc, code>> ELSE Leave(v)

\* Mutant of Watch: the deadline moves with every command.
WatchAnew ==
  /\ pc = "watch" /\ UNCHANGED <<probe, holding, out, clock>>
  /\ \/ stopped /\ Leave("activeStop")
        /\ UNCHANGED <<x, hard, hardFrom, early, scan, scanFrom, flags, recent, on, stopped>>
     \/ /\ ~stopped
        /\ \E p \in Steps(x), amp \in {"low", "hard"}, hit \in {"none", "contact"} :
             Frame(p, amp, hit)

\* One iteration of the loop.
Watch ==
  /\ pc = "watch" /\ UNCHANGED <<probe, holding, out>>
  /\ \/ /\ clock >= Timeout /\ pc' = "settle"
        /\ UNCHANGED <<code, x, watch, on, stopped>>
     \/ /\ clock < Timeout /\ Leave(IF stopped THEN "activeStop" ELSE "hardware")
        /\ UNCHANGED <<x, watch, on, stopped>>
     \/ /\ clock < Timeout /\ ~stopped /\ clock' = clock + 1
        /\ \E p \in Steps(x), amp \in {"low", "hard", "emergency"},
              hit \in {"none", "contact", "jam", "limit"} : Frame(p, amp, hit)

-----------------------------------------------------------------------------
(* The end of the probe. *)

\* The loop's locals are gone; the deadline of the hold counts from t.
LeaveLoop(t, next) ==
  /\ pc = "settle" /\ pc' \in next /\ clock' = t
  /\ UNCHANGED <<probe, x, flags, code, stopped, on, out>>
  /\ fresh' = FALSE /\ still' = Idle
  /\ hard' = Idle /\ early' = Idle /\ scan' = Idle
  /\ hardFrom' = 0 /\ scanFrom' = 0 /\ recent' = <<>>

\* A terminal stop unloads, everything else holds the position.  The hold's own
\* command and reads can fail.
WaysOut == IF TerminalStop([flags EXCEPT !.code = code]) \/ stopped
           THEN {"unload"} ELSE {"hold", "unload"}

\* Mutants of Settle: every probe is held; the loop's deadline is kept.
SettleHolds == LeaveLoop(0, {"hold", "unload"})
SettleKeepsClock == LeaveLoop(clock, WaysOut)

Settle == LeaveLoop(0, WaysOut)

\* One iteration of holdAndWaitForSelfCheckSettledFeedback.
Hold ==
  /\ pc = "hold"
  /\ UNCHANGED <<probe, hard, hardFrom, early, scan, scanFrom, flags, recent, code, out>>
  /\ \/ /\ pc' = "unload"        \* cancelled, no feedback, command refused
        /\ UNCHANGED <<x, clock, fresh, still, on, stopped>>
     \/ /\ ~stopped /\ ~fresh    \* only the frame from before the hold
        /\ clock' = clock + 1 /\ UNCHANGED <<x, fresh, still, on, stopped>>
        /\ pc' = IF clock >= SettleTimeout THEN "unload" ELSE pc
     \/ /\ ~stopped /\ fresh' = TRUE /\ clock' = clock + 1
        /\ \E p \in Steps(x), calm, newer \in BOOLEAN :
             /\ newer \/ (fresh /\ p = x)
             /\ x' = p
             /\ LET timer == IF calm \/ (newer /\ fresh /\ p = x) THEN Tick(still) ELSE Idle
                IN  /\ still' = timer
                    /\ pc' = IF timer # Idle /\ timer >= StillTime THEN "report"
                             ELSE IF clock >= SettleTimeout THEN "unload" ELSE pc
        /\ UNCHANGED <<on, stopped>> \/ Faulted

\* The part of the report that says where the nut was seen last.
LastSeen(p) ==
  [flags EXCEPT
     !.moved = p,
     !.matches = @ /\ p > -StartOf(opt.micro),
     !.mono = @ /\ p > -StartOf(opt.micro)]

\* What the report says when the nut came to rest at x.
Rest(result) ==
  [LastSeen(x) EXCEPT
     !.settled = TRUE,
     !.code = IF x < -OppositeOf(opt.micro) THEN "inconsistent"
              ELSE IF result = "ok" /\ ~flags.reached THEN "timedOut" ELSE result]

\* Mutant of Unload: the wait for rest does not look at the cancel request.
UnloadUncancelled ==
  /\ pc = "unload" /\ pc' = "report" /\ x' \in Steps(x) /\ on' = FALSE
  /\ UNCHANGED <<probe, watch, code, holding, stopped, out>>

\* disableAndWaitForSelfCheckSettledFeedback as MotionLoops leaves it: the
\* output off, and a resting position, or an error and where the nut was seen last.
Unload ==
  /\ pc = "unload"
  /\ UNCHANGED <<probe, watch, code, holding, stopped>>
  /\ on' = FALSE /\ x' \in Steps(x)
  /\ \/ ~stopped /\ pc' = "report" /\ UNCHANGED out
     \/ \E failure \in IF stopped THEN {"activeStop"} ELSE {"hardware", "timedOut"} :
          Report([LastSeen(x') EXCEPT !.code = failure])

\* The report.  A probe that may go on gets its output back.
Finish ==
  /\ pc = "report" /\ UNCHANGED <<probe, x, watch, code, holding, stopped>>
  /\ LET o == Rest(code)
     IN  \/ /\ stopped \/ TerminalStop(o)
            /\ Report(o) /\ UNCHANGED on
         \/ /\ ~stopped /\ ~TerminalStop(o)
            /\ \/ Report(o) /\ on' = TRUE
               \/ /\ ~on /\ UNCHANGED on
                  /\ Report([o EXCEPT !.code = IF @ = "ok" THEN "hardware" ELSE @])

Ended == pc = "done" /\ UNCHANGED vars

Work == Start \/ Watch \/ Settle \/ Hold \/ Unload \/ Finish
Next == Work \/ Stop \/ Ended

\* The loops sleep a bounded time; the user need not stop anything.
Spec == Init /\ [][Next]_vars /\ WF_vars(Work)

-----------------------------------------------------------------------------
(* Properties. *)

TypeOK ==
  /\ probe \in Probes /\ {on, stopped, fresh} \subseteq BOOLEAN
  /\ pc \in {"start", "watch", "settle", "hold", "unload", "report", "done"}
  /\ x \in Positions /\ {hardFrom, scanFrom} \subseteq Positions
  /\ clock \in 0 .. Larger(Timeout, SettleTimeout + 1)
  /\ {hard, early, scan, still} \subseteq Idle .. Larger(Timeout, SettleTimeout)
  /\ {flags, out} \subseteq Outcomes(Positions) /\ code \in Codes

\* What the searches assume of a probe holds of every one, whatever flags it
\* gathered on the way and wherever the nut came to rest.  In particular motion
\* that counts as progress went the commanded way, and a scan never ends for a
\* soft jam.
OutcomeIsPossible == pc = "done" => Possible(out, opt.micro, opt.suppress)

\* The furthest position k frames ago.
Gained(k) == recent[Len(recent)].at - recent[Len(recent) - k].at

\* A probe that reports no progress stood still: over the whole confirmation
\* time the nut got no further than the threshold, and the current was above the
\* hard limit in every frame or no frame advanced for the sustained time, however
\* peaks, pauses and advances alternated before.
StuckStoodStill ==
  pc = "settle" /\ code = "jam" /\ flags.stuck
    /\ recent[Len(recent)].amp # "emergency" =>
    \/ /\ Len(recent) > opt.confirm /\ Gained(opt.confirm) < NoProgress
       /\ \A i \in Len(recent) - opt.confirm .. Len(recent) : recent[i].amp # "low"
    \/ /\ opt.sustain > 0 /\ Len(recent) > opt.sustain
       /\ Gained(opt.sustain) <= NoProgress

\* A probe that ended at a stop is not held there and comes back unpowered,
\* unless the nut went backwards and the report says so.
UnloadsAtStops ==
  /\ flags.stuck /\ code = "jam" => pc # "hold"
  /\ pc = "done" /\ TerminalStop(out) => ~on

\* Once a stop or a fault is seen before the nut is at rest, the probe ends
\* without a sample that could be learnt from.
NothingLearntAfterStop ==
  [][stopped /\ pc \notin {"report", "done"} => pc' # "report" /\ ~out'.settled]_vars

\* The steps a probe has left at most: two deadlines and what surrounds them.
Left ==
  CASE pc = "start"  -> Timeout + SettleTimeout + 7
    [] pc = "watch"  -> Timeout - clock + SettleTimeout + 6
    [] pc = "settle" -> SettleTimeout + 5
    [] pc = "hold"   -> SettleTimeout - clock + 3
    [] pc = "unload" -> 2
    [] pc = "report" -> 1
    [] pc = "done"   -> 0

\* Every step of a probe uses one up and nothing gives any back: neither progress
\* nor a new frame, neither a stop nor a fault moves a deadline.
StepsAreBounded == [][Left' \in 0 .. Left /\ (Work => Left' < Left)]_vars

\* A probe ends, whatever the nut, the current and the link do.
ProbeEnds == <>(pc = "done")
=============================================================================
