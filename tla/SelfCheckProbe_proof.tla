------------------------ MODULE SelfCheckProbe_proof ------------------------
(***************************************************************************)
(* Proofs about SelfCheckProbe: every report is one PreSelfCheck reckons   *)
(* with, a probe said to be stuck stood still, a probe that ended at a     *)
(* stop comes back unpowered, after a stop nothing is learnt from, and the *)
(* deadlines bound the steps of a probe.                                   *)
(***************************************************************************)
EXTENDS SelfCheckProbe, TLAPS

Amps   == {"low", "hard", "emergency"}
Frames == [at : Int, amp : Amps]
\* As many frames as the longest of the two confirmations looks back, and one.
Deep   == Larger(HardConfirm, SoftTimeout)
Ago(k) == recent[Len(recent) - k]

Looping == {"start", "watch", "settle"}

\* TypeOK without the bounds of the timers.
Typed ==
  /\ probe \in Probes /\ on \in BOOLEAN /\ stopped \in BOOLEAN /\ fresh \in BOOLEAN
  /\ pc \in {"start", "watch", "settle", "hold", "unload", "report", "done"}
  /\ x \in Positions /\ hardFrom \in Positions /\ scanFrom \in Positions
  /\ flags \in Outcomes(Positions) /\ out \in Outcomes(Positions) /\ code \in Codes
  /\ recent \in Seq(Frames) /\ Len(recent) <= Deep + 1

\* A timer has ticked at most once in an iteration of the loop that runs it.
Ticking(timer) == timer = Idle \/ (timer \in Nat /\ timer < clock)
Timed ==
  /\ clock \in Nat /\ clock <= Larger(Timeout, SettleTimeout + 1)
  /\ pc \in Looping => clock <= Timeout
  /\ pc = "hold" => clock <= SettleTimeout
  /\ Ticking(hard) /\ Ticking(early) /\ Ticking(scan) /\ Ticking(still)
  /\ opt.sustain = 0 => scan = Idle

\* What the flags are worth before the report: nothing is known to be settled,
\* and a probe that was found stuck has left the loop.
Gathered ==
  /\ flags.sampled /\ ~flags.settled
  /\ pc # "done" => out = Nothing
  /\ pc \in {"start", "watch"} => code = "ok" /\ ~flags.stuck
  /\ flags.stuck => flags.over \/ (flags.limit /\ flags.jam /\ flags.collapsed)
  /\ code = "jam" => flags.jam /\ (opt.suppress => flags.stuck)
  /\ OutcomeIsPossible

\* The output is off once stopped, and at the report of a terminal stop.
Power ==
  /\ stopped => ~on
  /\ pc = "report" /\ flags.stuck /\ code = "jam" => ~on
  /\ UnloadsAtStops

\* The frames since the hard current timer began: all above the limit, and the
\* nut short of the reference by which progress restarts it.
HardTrail ==
  hard # Idle =>
    /\ Len(recent) > Smaller(hard, Deep)
    /\ \A k \in 0 .. hard : k < Len(recent) =>
         /\ Ago(k).amp # "low" /\ hardFrom <= Ago(k).at
         /\ Ago(0).at < Ago(k).at + NoProgress

\* The same for the scan's timer, whose reference it was past before.
ScanTrail ==
  /\ scanFrom <= IF recent = <<>> THEN 0 ELSE Ago(0).at
  /\ scan # Idle =>
       /\ Len(recent) > Smaller(scan, Deep)
       /\ \A k \in 0 .. scan : k < Len(recent) =>
            /\ scanFrom <= Ago(k).at /\ Ago(0).at <= Ago(k).at + NoProgress

Trails ==
  /\ pc \in {"start", "watch"} => HardTrail /\ ScanTrail
  /\ StuckStoodStill

IInv == Typed /\ Timed /\ Gathered /\ Power /\ Trails

-----------------------------------------------------------------------------
(* Operators. *)

\* The thresholds are distances; progress takes at least one unit.
LEMMA Thresholds ==
  /\ NoProgress \in Nat /\ NoProgress >= 1
  /\ \A m \in BOOLEAN : StartOf(m) \in Nat /\ OppositeOf(m) \in Nat
  /\ Deep \in Nat /\ HardConfirm <= Deep /\ SoftTimeout <= Deep
  /\ HardConfirm \in Nat /\ SoftTimeout \in Nat
<1>1. NoProgress \in Nat /\ NoProgress >= 1
  BY DistancesAssumption DEF NoProgress, Larger
<1>2. NormalStart \in Nat /\ MicroStart \in Nat
  BY DistancesAssumption DEF NormalStart, MicroStart, Larger, Smaller
<1>3. \A m \in BOOLEAN : StartOf(m) \in Nat
  BY <1>2 DEF StartOf
<1>4. MaxError \div 4 \in Nat
  BY DistancesAssumption
<1>5. \A m \in BOOLEAN : OppositeOf(m) \in Nat
  BY <1>3, <1>4 DEF OppositeOf, Larger
<1>6. /\ Deep \in Nat /\ HardConfirm <= Deep /\ SoftTimeout <= Deep
      /\ HardConfirm \in Nat /\ SoftTimeout \in Nat
  BY ProbeAssumption DEF Deep, Larger
<1> QED BY <1>1, <1>3, <1>5, <1>6

\* The options of the five probes.
LEMMA Options ==
  ASSUME probe \in Probes
  PROVE  /\ opt.micro \in BOOLEAN /\ opt.suppress \in BOOLEAN /\ opt.custom \in BOOLEAN
         /\ opt.confirm \in {0, HardConfirm}
         /\ opt.sustain \in {0, SoftTimeout} /\ opt.early \in {0, SoftTimeout}
<1>1. probe \in {"breakaway", "shortStroke", "scan", "retry", "learning"}
  BY ProbesAssumption
<1>2. CASE probe = "breakaway"
  BY <1>2 DEF opt, Option
<1>3. CASE probe = "shortStroke"
  BY <1>3 DEF opt, Option
<1>4. CASE probe = "scan"
  BY <1>4 DEF opt, Option, Relative
<1>5. CASE probe = "retry"
  BY <1>5 DEF opt, Option, Relative
<1>6. CASE probe = "learning"
  BY <1>6 DEF opt, Option, Relative
<1> QED BY <1>1, <1>2, <1>3, <1>4, <1>5, <1>6

\* A place a step leads to is one the nut can be at.
LEMMA Stepping ==
  ASSUME NEW p \in Steps(x)
  PROVE  p \in Positions /\ p \in Int
  BY DEF Steps, Positions

\* What Remember keeps: the new frame, no less far than the last one, and all but
\* the oldest of the others.
LEMMA Remembered ==
  ASSUME recent \in Seq(Frames), Len(recent) <= Deep + 1,
         NEW p \in Int, NEW amp \in Amps, recent' = Remember(p, amp)
  PROVE  /\ recent' \in Seq(Frames) /\ Len(recent') <= Deep + 1
         /\ Len(recent') = Smaller(Len(recent) + 1, Deep + 1)
         /\ recent'[Len(recent')].amp = amp
         /\ recent'[Len(recent')].at = Larger(IF recent = <<>> THEN 0 ELSE Ago(0).at, p)
         /\ \A k \in 1 .. Len(recent') - 1 :
              recent'[Len(recent') - k] = recent[Len(recent) - (k - 1)]
<1> DEFINE furthest == IF recent = <<>> THEN 0 ELSE recent[Len(recent)].at
           frame == [at |-> Larger(furthest, p), amp |-> amp]
           all == Append(recent, frame)
<1>1. furthest \in Int /\ furthest = IF recent = <<>> THEN 0 ELSE Ago(0).at
  <2>1. CASE recent = <<>>
    BY <2>1
  <2>2. CASE recent # <<>>
    <3>1. Len(recent) \in 1 .. Len(recent) /\ Len(recent) - 0 = Len(recent)
      BY <2>2
    <3>2. recent[Len(recent)] \in Frames
      BY <3>1
    <3> QED BY <2>2, <3>1, <3>2 DEF Frames, Ago
  <2> QED BY <2>1, <2>2
<1>2. frame \in Frames /\ frame.amp = amp /\ frame.at = Larger(furthest, p)
  BY <1>1 DEF Frames, Larger
<1> HIDE DEF furthest, frame
<1>3. /\ all \in Seq(Frames) /\ Len(all) = Len(recent) + 1 /\ all[Len(recent) + 1] = frame
      /\ \A i \in 1 .. Len(recent) : all[i] = recent[i]
  BY <1>2
<1>4. recent' = IF Len(recent) <= Deep THEN all ELSE Tail(all)
  BY DEF Remember, Deep, frame, furthest
<1> HIDE DEF all
<1>5. Len(recent) \in Nat /\ Deep \in Nat
  BY Thresholds
<1>6. CASE Len(recent) <= Deep
  <2>1. /\ recent' = all /\ recent' \in Seq(Frames) /\ Len(recent') = Len(recent) + 1
        /\ recent'[Len(recent')] = frame
    BY <1>3, <1>4, <1>6
  <2>2. Len(recent') = Smaller(Len(recent) + 1, Deep + 1)
    BY <1>5, <1>6, <2>1 DEF Smaller
  <2>3. ASSUME NEW k \in 1 .. Len(recent') - 1
        PROVE  recent'[Len(recent') - k] = recent[Len(recent) - (k - 1)]
    <3>1. /\ Len(recent') - k \in 1 .. Len(recent)
          /\ Len(recent') - k = Len(recent) - (k - 1)
      BY <1>5, <2>1
    <3> QED BY <1>3, <2>1, <3>1
  <2>4. Len(recent') <= Deep + 1
    BY <1>5, <1>6, <2>1
  <2> QED BY <1>1, <1>2, <2>1, <2>2, <2>3, <2>4
<1>7. CASE Len(recent) > Deep
  <2>1. /\ recent' = Tail(all) /\ recent' \in Seq(Frames) /\ Len(recent') = Len(recent)
        /\ \A i \in 1 .. Len(recent) : recent'[i] = all[i + 1]
    BY <1>3, <1>4, <1>5, <1>7
  <2>2. recent'[Len(recent')] = frame
    BY <1>3, <1>5, <1>7, <2>1
  <2>3. ASSUME NEW k \in 1 .. Len(recent') - 1
        PROVE  recent'[Len(recent') - k] = recent[Len(recent) - (k - 1)]
    <3>1. Len(recent) - k \in 1 .. Len(recent) /\ Len(recent) - k + 1 \in 1 .. Len(recent)
      BY <1>5, <2>1
    <3>2. recent'[Len(recent) - k] = all[Len(recent) - k + 1]
      BY <2>1, <3>1
    <3>3. all[Len(recent) - k + 1] = recent[Len(recent) - k + 1]
      BY <1>3, <3>1
    <3>4. Len(recent) - k + 1 = Len(recent) - (k - 1)
      BY <1>5
    <3> QED BY <2>1, <3>2, <3>3, <3>4
  <2> QED BY <1>1, <1>2, <1>5, <1>7, <2>1, <2>2, <2>3 DEF Smaller
<1> QED BY <1>5, <1>6, <1>7

-----------------------------------------------------------------------------
(* One frame of the loop. *)

\* What one frame makes of the frames before it, seen from the newest one.
LEMMA Shifted ==
  ASSUME recent \in Seq(Frames), Len(recent) <= Deep + 1,
         NEW p \in Int, NEW amp \in Amps, recent' = Remember(p, amp)
  PROVE  /\ recent' # <<>> /\ Len(recent') \in Nat /\ Len(recent) \in Nat
         /\ Len(recent') = Smaller(Len(recent) + 1, Deep + 1)
         /\ Ago(0)'.amp = amp /\ Ago(0)'.at >= p /\ Ago(0)'.at \in Int
         /\ recent = <<>> => Ago(0)'.at = Larger(0, p)
         /\ recent # <<>> => Ago(0)'.at = Larger(Ago(0).at, p) /\ Ago(0).at \in Int
         /\ \A k \in Nat : k + 1 < Len(recent') => Ago(k + 1)' = Ago(k) /\ k < Len(recent)
                                                   /\ Ago(k).at \in Int
<1>1. /\ recent' \in Seq(Frames) /\ Len(recent') <= Deep + 1
      /\ Len(recent') = Smaller(Len(recent) + 1, Deep + 1)
      /\ recent'[Len(recent')].amp = amp
      /\ recent'[Len(recent')].at = Larger(IF recent = <<>> THEN 0 ELSE Ago(0).at, p)
      /\ \A k \in 1 .. Len(recent') - 1 :
           recent'[Len(recent') - k] = recent[Len(recent) - (k - 1)]
  BY Remembered
<1>2. Len(recent) \in Nat /\ Len(recent') \in Nat /\ Deep \in Nat
  BY <1>1, Thresholds
<1>3. Len(recent') >= 1 /\ recent' # <<>>
  BY <1>1, <1>2 DEF Smaller
<1>4. ASSUME NEW k \in Nat, k < Len(recent)
      PROVE  Ago(k) \in Frames /\ Ago(k).at \in Int
  <2>1. Len(recent) - k \in 1 .. Len(recent)
    BY <1>2, <1>4
  <2>2. recent[Len(recent) - k] \in Frames
    BY <2>1
  <2> QED BY <2>2 DEF Ago, Frames
<1>5. Ago(0)' = recent'[Len(recent')]
  BY <1>2 DEF Ago
<1>6. recent # <<>> => Ago(0).at \in Int
  <2>1. recent # <<>> => 0 < Len(recent)
    BY <1>2
  <2> QED BY <1>4, <2>1
<1>7. Ago(0)'.amp = amp /\ Ago(0)'.at >= p /\ Ago(0)'.at \in Int
  BY <1>1, <1>5, <1>6 DEF Larger
<1>8. /\ recent = <<>> => Ago(0)'.at = Larger(0, p)
      /\ recent # <<>> => Ago(0)'.at = Larger(Ago(0).at, p) /\ Ago(0).at \in Int
  BY <1>1, <1>5, <1>6
<1>9. ASSUME NEW k \in Nat, k + 1 < Len(recent')
      PROVE  Ago(k + 1)' = Ago(k) /\ k < Len(recent) /\ Ago(k).at \in Int
  <2>1. k + 1 \in 1 .. Len(recent') - 1 /\ (k + 1) - 1 = k
    BY <1>2, <1>9
  <2>2. recent'[Len(recent') - (k + 1)] = recent[Len(recent) - ((k + 1) - 1)]
    BY <1>1, <2>1
  <2>3. Ago(k + 1)' = Ago(k)
    BY <2>1, <2>2 DEF Ago
  <2>4. k < Len(recent)
    BY <1>1, <1>2, <1>9 DEF Smaller
  <2> QED BY <1>4, <2>3, <2>4
<1> QED BY <1>1, <1>2, <1>3, <1>7, <1>8, <1>9

\* A frame extends the trail of the hard current timer, restarts it or ends it.
LEMMA HardGoesOn ==
  ASSUME Typed, Timed, HardTrail, NEW p \in Int, NEW amp \in Amps, recent' = Remember(p, amp),
         hard' = HardTimer(p, amp),
         hardFrom' = IF amp # "low" /\ (hard = Idle \/ HardProgress(p)) THEN p ELSE hardFrom
  PROVE  HardTrail'
<1> SUFFICES ASSUME hard' # Idle PROVE HardTrail'
  BY DEF HardTrail
<1>1. amp # "low" /\ hard' \in Nat /\ NoProgress \in Nat /\ NoProgress >= 1 /\ Deep \in Nat
      /\ hardFrom \in Int /\ hardFrom' \in Int
  <2>1. NoProgress \in Nat /\ NoProgress >= 1 /\ Deep \in Nat
    BY Thresholds
  <2>2. hardFrom \in Int /\ hardFrom' \in Int
    BY DEF Typed, Positions
  <2>3. amp # "low" /\ hard' \in {0, Tick(hard)}
    BY DEF HardTimer
  <2>4. Tick(hard) \in Nat
    BY DEF Tick, Idle, Timed, Ticking
  <2> QED BY <2>1, <2>2, <2>3, <2>4
<1>2. /\ recent' # <<>> /\ Len(recent') \in Nat /\ Len(recent) \in Nat
      /\ Len(recent') = Smaller(Len(recent) + 1, Deep + 1)
      /\ Ago(0)'.amp = amp /\ Ago(0)'.at >= p /\ Ago(0)'.at \in Int
      /\ recent = <<>> => Ago(0)'.at = Larger(0, p)
      /\ recent # <<>> => Ago(0)'.at = Larger(Ago(0).at, p) /\ Ago(0).at \in Int
      /\ \A k \in Nat : k + 1 < Len(recent') => Ago(k + 1)' = Ago(k) /\ k < Len(recent)
                                                /\ Ago(k).at \in Int
  BY Shifted DEF Typed
<1>3. CASE hard = Idle \/ HardProgress(p)
  <2>1. hard' = 0 /\ hardFrom' = p
    BY <1>1, <1>3 DEF HardTimer, HardProgress, Tick
  <2>2. Len(recent') > Smaller(hard', Deep)
    BY <1>1, <1>2, <2>1 DEF Smaller
  <2>3. /\ Ago(0)'.amp # "low" /\ hardFrom' <= Ago(0)'.at
        /\ Ago(0)'.at < Ago(0)'.at + NoProgress
    BY <1>1, <1>2, <2>1
  <2>4. \A k \in 0 .. hard' : k = 0
    BY <2>1
  <2> QED BY <2>2, <2>3, <2>4 DEF HardTrail
<1>4. CASE hard # Idle /\ ~HardProgress(p)
  <2>1. /\ hard' = hard + 1 /\ hard \in Nat /\ hardFrom' = hardFrom
        /\ p < hardFrom + NoProgress
    BY <1>1, <1>4 DEF HardTimer, HardProgress, Tick, Typed, Timed, Ticking
  <2>2. /\ Len(recent) > Smaller(hard, Deep)
        /\ \A k \in 0 .. hard : k < Len(recent) =>
             /\ Ago(k).amp # "low" /\ hardFrom <= Ago(k).at
             /\ Ago(0).at < Ago(k).at + NoProgress
    BY <1>4 DEF HardTrail
  <2>3. Len(recent') > Smaller(hard', Deep)
    BY <1>1, <1>2, <2>1, <2>2 DEF Smaller
  <2>4. hardFrom <= Ago(0).at /\ recent # <<>> /\ Ago(0)'.at = Larger(Ago(0).at, p)
        /\ Ago(0).at \in Int
    <3>1. 0 \in 0 .. hard /\ 0 < Len(recent)
      BY <1>1, <1>2, <2>1, <2>2 DEF Smaller
    <3>2. recent # <<>>
      BY <3>1
    <3> QED BY <1>2, <2>2, <3>1, <3>2
  <2>5. ASSUME NEW k \in 0 .. hard', k < Len(recent')
        PROVE  /\ Ago(k)'.amp # "low" /\ hardFrom' <= Ago(k)'.at
               /\ Ago(0)'.at < Ago(k)'.at + NoProgress
    <3>1. CASE k = 0
      BY <1>1, <1>2, <2>1, <2>4, <3>1 DEF Larger
    <3>2. CASE k # 0
      <4> DEFINE j == k - 1
      <4>1. j \in Nat /\ j \in 0 .. hard /\ k = j + 1
        BY <2>1, <2>5, <3>2
      <4> HIDE DEF j
      <4>2. Ago(k)' = Ago(j) /\ j < Len(recent) /\ Ago(j).at \in Int
        BY <1>2, <2>5, <4>1
      <4>3. Ago(j).amp # "low" /\ hardFrom <= Ago(j).at /\ Ago(0).at < Ago(j).at + NoProgress
        BY <2>2, <4>1, <4>2
      <4> QED BY <1>1, <2>1, <2>4, <4>2, <4>3 DEF Larger
    <3> QED BY <3>1, <3>2
  <2> QED BY <2>3, <2>5 DEF HardTrail
<1> QED BY <1>3, <1>4

\* The same of the scan's timer.
LEMMA ScanGoesOn ==
  ASSUME Typed, Timed, ScanTrail, NEW p \in Int, NEW amp \in Amps, recent' = Remember(p, amp),
         scan' = ScanTimer(p),
         scanFrom' = IF opt.sustain > 0 /\ ScanProgress(p) THEN p ELSE scanFrom
  PROVE  ScanTrail'
<1>1. NoProgress \in Nat /\ NoProgress >= 1 /\ Deep \in Nat
      /\ scanFrom \in Int /\ scanFrom' \in Int /\ opt.sustain \in Nat
  <2>1. NoProgress \in Nat /\ NoProgress >= 1 /\ Deep \in Nat
    BY Thresholds
  <2>2. scanFrom \in Int /\ probe \in Probes
    BY DEF Typed, Positions
  <2>3. scanFrom' \in Int
    BY <2>2
  <2>4. opt.sustain \in Nat
    BY <2>2, Options, Thresholds
  <2> QED BY <2>1, <2>2, <2>3, <2>4
<1>2. /\ recent' # <<>> /\ Len(recent') \in Nat /\ Len(recent) \in Nat
      /\ Len(recent') = Smaller(Len(recent) + 1, Deep + 1)
      /\ Ago(0)'.amp = amp /\ Ago(0)'.at >= p /\ Ago(0)'.at \in Int
      /\ recent = <<>> => Ago(0)'.at = Larger(0, p)
      /\ recent # <<>> => Ago(0)'.at = Larger(Ago(0).at, p) /\ Ago(0).at \in Int
      /\ \A k \in Nat : k + 1 < Len(recent') => Ago(k + 1)' = Ago(k) /\ k < Len(recent)
                                                /\ Ago(k).at \in Int
  BY Shifted DEF Typed
<1>3. scanFrom' <= Ago(0)'.at /\ (scanFrom' = scanFrom => scanFrom <= Ago(0)'.at)
  <2>1. scanFrom' = p \/ scanFrom' = scanFrom
    OBVIOUS
  <2>2. scanFrom <= Ago(0)'.at
    <3>1. /\ recent = <<>> => scanFrom <= 0
          /\ recent # <<>> => scanFrom <= Ago(0).at
      BY DEF ScanTrail
    <3>2. CASE recent = <<>>
      <4>1. Ago(0)'.at = Larger(0, p) /\ scanFrom <= 0
        BY <1>2, <3>1, <3>2
      <4> QED BY <1>1, <4>1 DEF Larger
    <3>3. CASE recent # <<>>
      <4>1. Ago(0)'.at = Larger(Ago(0).at, p) /\ scanFrom <= Ago(0).at /\ Ago(0).at \in Int
        BY <1>2, <3>1, <3>3
      <4> QED BY <1>1, <4>1 DEF Larger
    <3> QED BY <3>2, <3>3
  <2> QED BY <1>2, <2>1, <2>2
<1>4. scanFrom' <= IF recent' = <<>> THEN 0 ELSE Ago(0)'.at
  BY <1>2, <1>3
<1>5. CASE scan' = Idle
  BY <1>4, <1>5 DEF ScanTrail
<1>6. CASE scan' # Idle /\ scan = Idle
  <2>1. scan' = 0
    BY <1>6 DEF ScanTimer, Tick
  <2>2. Len(recent') > Smaller(scan', Deep)
    BY <1>1, <1>2, <2>1 DEF Smaller
  <2>3. Ago(0)'.at <= Ago(0)'.at + NoProgress
    BY <1>1, <1>2
  <2>4. \A k \in 0 .. scan' : k = 0
    BY <2>1
  <2> QED BY <1>3, <1>4, <2>2, <2>3, <2>4 DEF ScanTrail
<1>7. CASE scan' # Idle /\ scan # Idle /\ opt.sustain > 0
  <2>1. /\ scan' = scan + 1 /\ scan \in Nat /\ scanFrom' = scanFrom
        /\ p <= scanFrom + NoProgress
    BY <1>1, <1>7 DEF ScanTimer, ScanProgress, Tick, Typed, Timed, Ticking
  <2>2. /\ Len(recent) > Smaller(scan, Deep)
        /\ \A k \in 0 .. scan : k < Len(recent) =>
             /\ scanFrom <= Ago(k).at /\ Ago(0).at <= Ago(k).at + NoProgress
    BY <1>7 DEF ScanTrail
  <2>3. Len(recent') > Smaller(scan', Deep)
    BY <1>1, <1>2, <2>1, <2>2 DEF Smaller
  <2>4. recent # <<>> /\ Ago(0)'.at = Larger(Ago(0).at, p) /\ Ago(0).at \in Int
    <3>1. 0 < Len(recent)
      BY <1>1, <1>2, <2>1, <2>2 DEF Smaller
    <3>2. recent # <<>>
      BY <3>1
    <3> QED BY <1>2, <3>2
  <2>5. ASSUME NEW k \in 0 .. scan', k < Len(recent')
        PROVE  scanFrom' <= Ago(k)'.at /\ Ago(0)'.at <= Ago(k)'.at + NoProgress
    <3>1. CASE k = 0
      BY <1>1, <1>2, <1>3, <3>1
    <3>2. CASE k # 0
      <4> DEFINE j == k - 1
      <4>1. j \in Nat /\ j \in 0 .. scan /\ k = j + 1
        BY <2>1, <2>5, <3>2
      <4> HIDE DEF j
      <4>2. Ago(k)' = Ago(j) /\ j < Len(recent) /\ Ago(j).at \in Int
        BY <1>2, <2>5, <4>1
      <4>3. scanFrom <= Ago(j).at /\ Ago(0).at <= Ago(j).at + NoProgress
        BY <2>2, <4>1, <4>2
      <4> QED BY <1>1, <2>1, <2>4, <4>2, <4>3 DEF Larger
    <3> QED BY <3>1, <3>2
  <2> QED BY <1>4, <2>3, <2>5 DEF ScanTrail
<1>8. scan = Idle \/ opt.sustain > 0
  BY <1>1 DEF Timed
<1> QED BY <1>5, <1>6, <1>7, <1>8

-----------------------------------------------------------------------------
(* The verdict on a frame. *)

\* The options belong to the probe.
LEMMA SameOptions ==
  ASSUME probe' = probe
  PROVE  opt' = opt
BY DEF opt

\* Every verdict is a result; a frame that is not the last finds nobody stuck.
LEMMA Verdicts ==
  ASSUME NEW p, NEW amp, NEW hit
  PROVE  /\ Verdict(p, amp, hit) \in Codes \union {"none"}
         /\ Verdict(p, amp, hit) \in {"none", "ok", "inconsistent"} =>
              ~HardStuck(p, amp) /\ ~Sustained(p)
         /\ Verdict(p, amp, hit) = "jam" =>
              ~EarlyEnd(p) /\ (Risk(p, amp, hit).stop \/ Sustained(p))
<1>1. HardStuck(p, amp) => Risk(p, amp, hit).stop
  BY DEF Risk
<1> QED BY <1>1 DEF Verdict, Codes

\* A risk that ends the probe is a jam; under suppression only the hard current
\* ends it.
LEMMA Risks ==
  ASSUME probe \in Probes, NEW p, NEW amp, NEW hit, Risk(p, amp, hit).stop
  PROVE  /\ Risk(p, amp, hit).jam
         /\ opt.suppress => HardStuck(p, amp)
<1>1. CASE HardStuck(p, amp)
  BY <1>1 DEF Risk
<1>2. CASE ~HardStuck(p, amp)
  <2> DEFINE jammed == IF opt.micro THEN hit = "limit" /\ ~Started(p)
                       ELSE hit \in {"jam", "limit"}
             end == jammed /\ ~opt.suppress
             limit == jammed /\ hit = "limit"
             collapsed == ~opt.micro /\ hit # "none"
  <2>1. Risk(p, amp, hit) =
          [jam |-> jammed, limit |-> limit, collapsed |-> collapsed, stop |-> end]
    BY <1>2 DEF Risk
  <2>2. end => jammed /\ ~opt.suppress
    BY Zenon
  <2> HIDE DEF jammed, end, limit, collapsed
  <2>3. Risk(p, amp, hit).jam = jammed /\ Risk(p, amp, hit).stop = end
    BY <2>1
  <2> QED BY Zenon, <2>2, <2>3
<1> QED BY <1>1, <1>2

\* The flags after a frame.
LEMMA Judgement ==
  ASSUME Typed, NEW p \in Positions, NEW amp \in Amps, NEW hit,
         flags' = Judged(p, amp, hit)
  PROVE  /\ flags' \in Outcomes(Positions)
         /\ flags'.sampled = flags.sampled /\ flags'.settled = flags.settled
         /\ flags'.stuck <=> flags.stuck \/ HardStuck(p, amp) \/ Sustained(p)
         /\ flags.over => flags'.over
         /\ HardStuck(p, amp) => flags'.over
         /\ flags.limit /\ flags.jam /\ flags.collapsed =>
              flags'.limit /\ flags'.jam /\ flags'.collapsed
         /\ Sustained(p) => flags'.limit /\ flags'.jam /\ flags'.collapsed
         /\ ~EarlyEnd(p) /\ Risk(p, amp, hit).jam => flags'.jam
<1> DEFINE g == Sampled(amp)
           over == flags.over \/ amp # "low"
           mono == g.mono /\ p - x >= -MaxError
           right == p > -StartOf(opt.micro)
           stuck == g.stuck \/ HardStuck(p, amp) \/ Sustained(p)
           jam == g.jam \/ (~EarlyEnd(p) /\ Risk(p, amp, hit).jam) \/ Sustained(p)
           limit == g.limit \/ (~EarlyEnd(p) /\ Risk(p, amp, hit).limit) \/ Sustained(p)
           collapsed ==
             g.collapsed \/ (~EarlyEnd(p) /\ Risk(p, amp, hit).collapsed) \/ Sustained(p)
           good == Verdict(p, amp, hit) = "ok"
<1>1. g = [flags EXCEPT !.over = over]
  BY DEF Sampled
<1>2. flags' = [g EXCEPT !.mono = mono, !.matches = right, !.stuck = stuck, !.jam = jam,
                         !.limit = limit, !.collapsed = collapsed, !.reached = good]
  BY Zenon DEF Judged
<1>3. /\ over \in BOOLEAN /\ mono \in BOOLEAN /\ right \in BOOLEAN /\ stuck \in BOOLEAN
      /\ jam \in BOOLEAN /\ limit \in BOOLEAN /\ collapsed \in BOOLEAN /\ good \in BOOLEAN
  <2>1. over \in BOOLEAN /\ good \in BOOLEAN /\ right \in BOOLEAN /\ mono \in BOOLEAN
    OBVIOUS
  <2>2. stuck \in BOOLEAN
    BY Zenon
  <2>3. jam \in BOOLEAN
    BY Zenon
  <2>4. limit \in BOOLEAN
    BY Zenon
  <2>5. collapsed \in BOOLEAN
    BY Zenon
  <2> QED BY <2>1, <2>2, <2>3, <2>4, <2>5
<1>4. /\ flags.over => over
      /\ HardStuck(p, amp) => over
  BY DEF HardStuck
<1>5. /\ stuck <=> g.stuck \/ HardStuck(p, amp) \/ Sustained(p)
      /\ g.jam \/ Sustained(p) => jam
      /\ g.limit \/ Sustained(p) => limit
      /\ g.collapsed \/ Sustained(p) => collapsed
      /\ ~EarlyEnd(p) /\ Risk(p, amp, hit).jam => jam
  BY Zenon
<1> HIDE DEF over, mono, right, stuck, jam, limit, collapsed, good
<1>6. /\ g \in Outcomes(Positions) /\ g.over = over
      /\ g.sampled = flags.sampled /\ g.settled = flags.settled /\ g.stuck = flags.stuck
      /\ g.jam = flags.jam /\ g.limit = flags.limit /\ g.collapsed = flags.collapsed
  BY <1>1, <1>3 DEF Typed, Outcomes
<1> HIDE DEF g
<1>7. /\ flags' \in Outcomes(Positions)
      /\ flags'.sampled = g.sampled /\ flags'.settled = g.settled
      /\ flags'.stuck = stuck /\ flags'.over = g.over /\ flags'.limit = limit
      /\ flags'.jam = jam /\ flags'.collapsed = collapsed
  <2> DEFINE h == [g EXCEPT !.mono = mono, !.matches = right, !.stuck = stuck, !.jam = jam]
  <2>1. /\ h \in Outcomes(Positions)
        /\ h.sampled = g.sampled /\ h.settled = g.settled
        /\ h.stuck = stuck /\ h.over = g.over /\ h.jam = jam
    <3>1. mono \in BOOLEAN /\ right \in BOOLEAN /\ stuck \in BOOLEAN /\ jam \in BOOLEAN
      BY <1>3
    <3>2. g \in Outcomes(Positions)
      BY <1>6
    <3>3. h \in Outcomes(Positions)
      BY <3>1, <3>2 DEF Outcomes
    <3> QED BY <3>1, <3>2, <3>3 DEF Outcomes
  <2>2. flags' = [h EXCEPT !.limit = limit, !.collapsed = collapsed, !.reached = good]
    BY <1>2
  <2> HIDE DEF h
  <2>3. limit \in BOOLEAN /\ collapsed \in BOOLEAN /\ good \in BOOLEAN
    BY <1>3
  <2>4. flags' \in Outcomes(Positions)
    BY <2>1, <2>2, <2>3 DEF Outcomes
  <2>5. /\ flags'.sampled = h.sampled /\ flags'.settled = h.settled
        /\ flags'.stuck = h.stuck /\ flags'.over = h.over /\ flags'.jam = h.jam
        /\ flags'.limit = limit /\ flags'.collapsed = collapsed
    BY <2>1, <2>2, <2>3 DEF Outcomes
  <2> QED BY <2>1, <2>4, <2>5
<1> QED BY Zenon, <1>4, <1>5, <1>6, <1>7

-----------------------------------------------------------------------------
(* The report. *)

\* What a report of a settled probe needs to be a possible outcome.
LEMMA SettledIsPossible ==
  ASSUME Typed, NEW o \in Outcomes(Positions),
         o.sampled, o.settled, o.moved \in Int,
         o.matches => o.moved > -StartOf(opt.micro),
         o.moved < -OppositeOf(opt.micro) => o.code = "inconsistent",
         o.code = "ok" => o.reached,
         o.code = "jam" => o.jam /\ (opt.suppress => o.stuck),
         o.stuck => o.over \/ (o.limit /\ o.jam /\ o.collapsed)
  PROVE  Possible(o, opt.micro, opt.suppress)
<1>1. StartOf(opt.micro) \in Nat /\ OppositeOf(opt.micro) \in Nat
  BY Thresholds, Options DEF Typed
<1>2. o.matches /\ Distance(o) >= StartOf(opt.micro) => o.moved > 0
  BY <1>1 DEF Distance, Size
<1> QED BY <1>2, Zenon DEF Possible, Unsettled

\* What a report of a probe that did not settle needs.
LEMMA UnsettledIsPossible ==
  ASSUME NEW o \in Outcomes(Positions), NEW micro, NEW suppress,
         o.sampled, ~o.settled, o.code \in {"activeStop", "hardware", "timedOut"},
         o.stuck => o.over \/ (o.limit /\ o.jam /\ o.collapsed)
  PROVE  Possible(o, micro, suppress)
<1>1. o.code # "ok" /\ o.code # "jam"
  OBVIOUS
<1> QED BY <1>1, Zenon DEF Possible, Unsettled

\* A probe that failed before its command.
LEMMA NothingIsPossible ==
  ASSUME NEW c \in {"activeStop", "hardware"}, NEW micro, NEW suppress
  PROVE  /\ Possible([Nothing EXCEPT !.code = c], micro, suppress)
         /\ [Nothing EXCEPT !.code = c] \in Outcomes(Positions)
         /\ ~[Nothing EXCEPT !.code = c].settled
         /\ ~TerminalStop([Nothing EXCEPT !.code = c])
<1> DEFINE o == [Nothing EXCEPT !.code = c]
<1>1. c \in Codes /\ 0 \in Positions /\ "hardware" \in Codes
  BY ProbeAssumption DEF Codes, Positions
<1>2. /\ Nothing \in Outcomes(Positions) /\ Nothing.moved = 0
      /\ {Nothing.sampled, Nothing.settled, Nothing.reached, Nothing.stuck,
          Nothing.collapsed, Nothing.limit, Nothing.jam, Nothing.over} = {FALSE}
  BY <1>1 DEF Nothing, Outcomes
<1>3. /\ o \in Outcomes(Positions) /\ o.code = c /\ o.moved = 0
      /\ {o.sampled, o.settled, o.reached, o.stuck, o.collapsed, o.limit, o.jam,
          o.over} = {FALSE}
  <2> HIDE DEF Nothing
  <2> QED BY <1>1, <1>2 DEF Outcomes
<1> HIDE DEF o
<1>4. /\ ~o.sampled /\ ~o.settled /\ ~o.stuck
      /\ {o.settled, o.reached, o.stuck, o.collapsed, o.limit, o.jam, o.over} = {FALSE}
  BY <1>3, Zenon
<1>5. o.code # "ok" /\ o.code # "jam"
  BY <1>3
<1>6. Possible(o, micro, suppress)
  BY <1>3, <1>4, <1>5, Zenon DEF Possible, Unsettled
<1>7. ~TerminalStop(o)
  BY <1>5 DEF TerminalStop
<1> QED BY <1>3, <1>4, <1>6, <1>7 DEF o

\* Where the nut was seen last is added to the flags, of which it may only take
\* back that the motion went the right way.
LEMMA SeenLast ==
  ASSUME Typed, NEW p \in Positions
  PROVE  LET s == LastSeen(p)
         IN  /\ s \in Outcomes(Positions) /\ s.moved = p /\ s.settled = flags.settled
             /\ s.matches => p > -StartOf(opt.micro)
             /\ s.sampled = flags.sampled /\ s.reached = flags.reached
             /\ s.jam = flags.jam /\ s.limit = flags.limit /\ s.stuck = flags.stuck
             /\ s.over = flags.over /\ s.collapsed = flags.collapsed
<1> DEFINE s == LastSeen(p)
           matches == flags.matches /\ p > -StartOf(opt.micro)
           mono == flags.mono /\ p > -StartOf(opt.micro)
<1>1. s = [flags EXCEPT !.moved = p, !.matches = matches, !.mono = mono]
  BY Zenon DEF LastSeen
<1>2. matches \in BOOLEAN /\ mono \in BOOLEAN /\ (matches => p > -StartOf(opt.micro))
  BY Zenon
<1>3. flags \in Outcomes(Positions)
  BY DEF Typed
<1> HIDE DEF s, matches, mono
<1>4. s \in Outcomes(Positions)
  BY <1>1, <1>2, <1>3 DEF Outcomes
<1>5. /\ s.moved = p /\ s.settled = flags.settled /\ s.matches = matches
      /\ s.sampled = flags.sampled /\ s.reached = flags.reached
      /\ s.jam = flags.jam /\ s.limit = flags.limit /\ s.stuck = flags.stuck
      /\ s.over = flags.over /\ s.collapsed = flags.collapsed
  BY <1>1, <1>2, <1>3 DEF Outcomes
<1> QED BY <1>2, <1>4, <1>5 DEF s

\* The report of a settled probe, before the output is given back.
LEMMA RestReports ==
  ASSUME Typed, Gathered, pc = "report"
  PROVE  /\ Rest(code) \in Outcomes(Positions)
         /\ Possible(Rest(code), opt.micro, opt.suppress)
         /\ TerminalStop(Rest(code)) => flags.stuck /\ code = "jam"
<1> DEFINE o == Rest(code)
           seen == LastSeen(x)
           result == IF x < -OppositeOf(opt.micro) THEN "inconsistent"
                     ELSE IF code = "ok" /\ ~flags.reached THEN "timedOut" ELSE code
<1>0. x \in Positions /\ x \in Int
  BY DEF Typed, Positions
<1>1. o = [seen EXCEPT !.settled = TRUE, !.code = result]
  BY Zenon DEF Rest
<1>2. /\ seen \in Outcomes(Positions) /\ seen.moved = x
      /\ seen.matches => x > -StartOf(opt.micro)
      /\ seen.sampled = flags.sampled /\ seen.reached = flags.reached
      /\ seen.jam = flags.jam /\ seen.limit = flags.limit /\ seen.stuck = flags.stuck
      /\ seen.over = flags.over /\ seen.collapsed = flags.collapsed
  BY <1>0, SeenLast
<1>3. /\ result \in Codes
      /\ result = "ok" => flags.reached
      /\ result = "jam" => code = "jam"
      /\ x < -OppositeOf(opt.micro) => result = "inconsistent"
  BY DEF Typed, Codes
<1> HIDE DEF seen, result, o
<1>4. /\ o \in Outcomes(Positions) /\ o.code = result /\ o.moved = x /\ o.moved \in Int
      /\ o.settled = TRUE /\ o.matches = seen.matches /\ o.sampled = flags.sampled
      /\ o.reached = flags.reached /\ o.jam = flags.jam /\ o.limit = flags.limit
      /\ o.stuck = flags.stuck /\ o.over = flags.over /\ o.collapsed = flags.collapsed
  <2>1. o \in Outcomes(Positions)
    BY <1>1, <1>2, <1>3 DEF Outcomes
  <2>2. /\ o.code = result /\ o.moved = seen.moved
        /\ o.settled = TRUE /\ o.matches = seen.matches /\ o.sampled = seen.sampled
        /\ o.reached = seen.reached /\ o.jam = seen.jam /\ o.limit = seen.limit
        /\ o.stuck = seen.stuck /\ o.over = seen.over /\ o.collapsed = seen.collapsed
    BY <1>1, <1>2, <1>3 DEF Outcomes
  <2> QED BY <1>0, <1>2, <2>1, <2>2
<1>5. /\ flags.sampled
      /\ flags.stuck => flags.over \/ (flags.limit /\ flags.jam /\ flags.collapsed)
      /\ code = "jam" => flags.jam /\ (opt.suppress => flags.stuck)
  BY DEF Gathered
<1>6. Possible(o, opt.micro, opt.suppress)
  BY SettledIsPossible, <1>2, <1>3, <1>4, <1>5, Zenon
<1>7. TerminalStop(o) => flags.stuck /\ code = "jam"
  BY <1>3, <1>4 DEF TerminalStop
<1> QED BY <1>4, <1>6, <1>7 DEF o

\* The same when the output cannot be given back.
LEMMA DeniedReports ==
  ASSUME Typed, NEW o \in Outcomes(Positions), Possible(o, opt.micro, opt.suppress),
         ~TerminalStop(o), o.settled, o.sampled
  PROVE  LET d == [o EXCEPT !.code = IF @ = "ok" THEN "hardware" ELSE @]
         IN  /\ d \in Outcomes(Positions)
             /\ Possible(d, opt.micro, opt.suppress) /\ ~TerminalStop(d)
<1> DEFINE result == IF o.code = "ok" THEN "hardware" ELSE o.code
           d == [o EXCEPT !.code = result]
<1>1. /\ result \in Codes /\ result # "ok"
      /\ o.code # "ok" => result = o.code
      /\ result = "jam" => o.code = "jam"
  BY DEF Outcomes, Codes
<1> HIDE DEF result
<1>2. /\ d \in Outcomes(Positions) /\ d.code = result /\ d.settled = o.settled
      /\ d.sampled = o.sampled /\ d.moved = o.moved /\ d.matches = o.matches
      /\ d.reached = o.reached /\ d.jam = o.jam /\ d.limit = o.limit /\ d.stuck = o.stuck
      /\ d.over = o.over /\ d.collapsed = o.collapsed
  BY <1>1 DEF Outcomes
<1> HIDE DEF d
<1>3. ~TerminalStop(d)
  BY <1>1, <1>2 DEF TerminalStop
<1>4. /\ o.matches /\ Distance(o) >= StartOf(opt.micro) => o.moved > 0
      /\ o.moved < -OppositeOf(opt.micro) => o.code \in {"inconsistent", "activeStop"}
      /\ o.code = "jam" => o.jam /\ (opt.suppress => o.stuck)
      /\ o.stuck => o.over \/ (o.limit /\ o.jam /\ o.collapsed)
  BY Zenon DEF Possible
<1>5. /\ d.matches /\ Distance(d) >= StartOf(opt.micro) => d.moved > 0
      /\ d.moved < -OppositeOf(opt.micro) => d.code \in {"inconsistent", "activeStop"}
  BY <1>1, <1>2, <1>4 DEF Distance
<1>6. Possible(d, opt.micro, opt.suppress)
  BY <1>1, <1>2, <1>4, <1>5, Zenon DEF Possible, Unsettled
<1> QED BY <1>2, <1>3, <1>6 DEF d, result

-----------------------------------------------------------------------------
(* The steps outside the loop. *)

\* Nothing has happened yet.
LEMMA InitHolds == Init => IInv
<1> SUFFICES ASSUME Init PROVE IInv
  OBVIOUS
<1>1. Typed
  <2>1. 0 \in Positions /\ "ok" \in Codes
    BY ProbeAssumption DEF Positions, Codes
  <2>2. Nothing \in Outcomes(Positions)
    BY <2>1 DEF Nothing, Outcomes, Codes
  <2>3. flags \in Outcomes(Positions) /\ out \in Outcomes(Positions)
    <3>1. flags = [Nothing EXCEPT !.sampled = TRUE] /\ out = Nothing
      BY DEF Init
    <3> QED BY <2>2, <3>1 DEF Outcomes
  <2>4. recent \in Seq(Frames) /\ Len(recent) <= Deep + 1
    BY Thresholds DEF Init
  <2> QED BY <2>1, <2>3, <2>4 DEF Init, Typed
<1>2. Timed
  BY ProbeAssumption DEF Init, Timed, Ticking, Larger
<1>3. flags.sampled /\ ~flags.settled /\ ~flags.stuck
  BY DEF Init, Nothing
<1>4. Gathered
  BY <1>3 DEF Init, Gathered, OutcomeIsPossible
<1>5. Power
  BY DEF Init, Power, UnloadsAtStops
<1>6. Trails
  BY DEF Init, Trails, StuckStoodStill, HardTrail, ScanTrail, Idle
<1> QED BY <1>1, <1>2, <1>4, <1>5, <1>6 DEF IInv

\* A report ends the probe, whichever step makes it.
LEMMA ReportKeeps ==
  ASSUME IInv, UNCHANGED <<probe, watch, code, holding>>, x' \in Positions,
         NEW o \in Outcomes(Positions), Report(o), Possible(o, opt.micro, opt.suppress),
         on' \in BOOLEAN, stopped' \in BOOLEAN, stopped' => ~on', TerminalStop(o) => ~on',
         pc \in {"start", "watch"} => code = "ok"
  PROVE  IInv'
<1>1. /\ pc' = "done" /\ out' = o /\ opt' = opt
  BY SameOptions DEF Report
<1>2. Typed'
  BY <1>1 DEF IInv, Typed, watch, holding
<1>3. Timed'
  BY <1>1 DEF IInv, Timed, Ticking, Looping, watch, holding
<1>4. OutcomeIsPossible'
  BY <1>1 DEF OutcomeIsPossible
<1>5. Gathered'
  BY <1>1, <1>4 DEF IInv, Gathered, watch
<1>6. Power'
  BY <1>1 DEF Power, UnloadsAtStops
<1>7. Trails'
  BY <1>1 DEF Trails, StuckStoodStill
<1> QED BY <1>2, <1>3, <1>5, <1>6, <1>7 DEF IInv

\* A stop or a fault switches off and disturbs nothing else.
LEMMA StopKeeps ==
  ASSUME IInv, Stop
  PROVE  IInv'
<1>1. /\ UNCHANGED <<probe, pc, x, watch, code, holding, out>> /\ opt' = opt
      /\ stopped' = TRUE /\ on' = FALSE
  BY SameOptions DEF Stop
<1>2. Typed'
  BY <1>1 DEF IInv, Typed, watch, holding
<1>3. Timed'
  BY <1>1 DEF IInv, Timed, Ticking, watch, holding
<1>4. Gathered'
  BY <1>1 DEF IInv, Gathered, OutcomeIsPossible, watch
<1>5. Power'
  BY <1>1 DEF IInv, Power, UnloadsAtStops, watch
<1>6. Trails'
  BY <1>1 DEF IInv, Trails, HardTrail, ScanTrail, StuckStoodStill, Gained, Ago, watch
<1> QED BY <1>2, <1>3, <1>4, <1>5, <1>6 DEF IInv

\* Nothing moves.
LEMMA StutterKeeps ==
  ASSUME IInv, UNCHANGED vars
  PROVE  IInv'
<1>1. UNCHANGED <<probe, pc, x, watch, code, holding, out>> /\ opt' = opt
      /\ UNCHANGED <<on, stopped>>
  BY SameOptions DEF vars
<1>2. Typed'
  BY <1>1 DEF IInv, Typed, watch, holding
<1>3. Timed'
  BY <1>1 DEF IInv, Timed, Ticking, watch, holding
<1>4. Gathered'
  BY <1>1 DEF IInv, Gathered, OutcomeIsPossible, watch
<1>5. Power'
  BY <1>1 DEF IInv, Power, UnloadsAtStops, watch
<1>6. Trails'
  BY <1>1 DEF IInv, Trails, HardTrail, ScanTrail, StuckStoodStill, Gained, Ago, watch
<1> QED BY <1>2, <1>3, <1>4, <1>5, <1>6 DEF IInv

\* The start reports a failure, or enters the loop with the output on.
LEMMA StartKeeps ==
  ASSUME IInv, Start
  PROVE  IInv'
<1> USE DEF Start
<1>1. /\ x' \in Positions /\ on \in BOOLEAN /\ (stopped => ~on) /\ stopped \in BOOLEAN
      /\ pc \in {"start", "watch"} => code = "ok"
      /\ UNCHANGED <<probe, watch, code, holding>>
  BY DEF IInv, Typed, Power, Gathered
<1>2. CASE stopped /\ Report([Nothing EXCEPT !.code = "activeStop"]) /\ UNCHANGED <<on, stopped>>
  BY <1>1, <1>2, ReportKeeps, NothingIsPossible
<1>3. CASE ~stopped /\ Report(Nothing) /\ on' \in {on, FALSE} /\ UNCHANGED stopped
  <2>1. Nothing = [Nothing EXCEPT !.code = "hardware"]
    BY DEF Nothing
  <2>2. Report([Nothing EXCEPT !.code = "hardware"])
    BY <1>3, <2>1
  <2> QED BY <1>1, <1>3, <2>2, ReportKeeps, NothingIsPossible
<1>4. CASE /\ ~stopped /\ ~Inside(Target)
           /\ Report([Nothing EXCEPT !.code = "activeStop"]) /\ on' = FALSE /\ stopped' = TRUE
  BY <1>1, <1>4, ReportKeeps, NothingIsPossible
<1>5. CASE /\ ~stopped /\ Inside(Target) /\ on' = TRUE
           /\ pc' = "watch" /\ UNCHANGED <<out, stopped>>
  <2>1. pc = "start" /\ opt' = opt
    BY SameOptions
  <2>2. Typed'
    BY <1>5 DEF IInv, Typed, watch, holding
  <2>3. Timed'
    BY <1>5, <2>1 DEF IInv, Timed, Ticking, Looping, watch, holding
  <2>4. Gathered'
    BY <1>5, <2>1 DEF IInv, Gathered, OutcomeIsPossible, watch
  <2>5. Power'
    BY <1>5, <2>1 DEF IInv, Power, UnloadsAtStops, watch
  <2>6. Trails'
    BY <1>5, <2>1 DEF IInv, Trails, HardTrail, ScanTrail, StuckStoodStill, Ago, watch
  <2> QED BY <2>2, <2>3, <2>4, <2>5, <2>6 DEF IInv
<1> QED BY <1>2, <1>3, <1>4, <1>5

\* A terminal stop unloads; the hold starts with nothing of the loop.
LEMMA SettleKeeps ==
  ASSUME IInv, Settle
  PROVE  IInv'
<1>1. /\ pc = "settle" /\ pc' \in {"hold", "unload"} /\ clock' = 0
      /\ UNCHANGED <<probe, x, flags, code, stopped, on, out>>
      /\ fresh' = FALSE /\ still' = Idle /\ hard' = Idle /\ early' = Idle /\ scan' = Idle
      /\ hardFrom' = 0 /\ scanFrom' = 0 /\ recent' = <<>> /\ opt' = opt
  BY SameOptions DEF Settle, LeaveLoop, WaysOut
<1>2. Typed'
  <2>1. 0 \in Positions /\ <<>> \in Seq(Frames) /\ Len(<<>>) <= Deep + 1
    BY ProbeAssumption, Thresholds DEF Positions
  <2> QED BY <1>1, <2>1 DEF IInv, Typed
<1>3. Timed'
  BY <1>1, ProbeAssumption DEF Timed, Ticking, Larger, Looping
<1>4. Gathered'
  BY <1>1 DEF IInv, Gathered, OutcomeIsPossible
<1>5. Power'
  <2>1. flags.stuck /\ code = "jam" => pc' = "unload"
    <3>1. [flags EXCEPT !.code = code].stuck = flags.stuck
          /\ [flags EXCEPT !.code = code].code = code
      BY DEF IInv, Typed, Outcomes
    <3>2. flags.stuck /\ code = "jam" => TerminalStop([flags EXCEPT !.code = code])
      BY <3>1 DEF TerminalStop
    <3> QED BY <3>2 DEF Settle, LeaveLoop, WaysOut
  <2> QED BY <1>1, <2>1 DEF IInv, Power, UnloadsAtStops
<1>6. Trails'
  BY <1>1 DEF Trails, StuckStoodStill
<1> QED BY <1>2, <1>3, <1>4, <1>5, <1>6 DEF IInv

\* The hold waits, ends with rest or gives up; only its own timer runs.
LEMMA HoldKeeps ==
  ASSUME IInv, Hold
  PROVE  IInv'
<1>1. /\ pc = "hold" /\ pc' \in {"hold", "unload", "report"}
      /\ UNCHANGED <<probe, hard, hardFrom, early, scan, scanFrom, flags, recent, code, out>>
      /\ opt' = opt
  BY SameOptions DEF Hold
<1>2. /\ x' \in Positions /\ on' \in BOOLEAN /\ stopped' \in BOOLEAN /\ fresh' \in BOOLEAN
      /\ stopped' => ~on'
      /\ UNCHANGED on \/ on' = FALSE
  <2>1. x \in Positions /\ on \in BOOLEAN /\ stopped \in BOOLEAN /\ fresh \in BOOLEAN
        /\ (stopped => ~on)
    BY DEF IInv, Typed, Power
  <2>2. \A p \in Steps(x) : p \in Positions
    BY Stepping
  <2>3. x' = x \/ x' \in Steps(x)
    BY DEF Hold
  <2>4. fresh' = fresh \/ fresh' = TRUE
    BY DEF Hold
  <2>5. UNCHANGED <<on, stopped>> \/ (stopped' = TRUE /\ on' = FALSE)
    BY DEF Hold, Faulted
  <2>6. x' \in Positions /\ fresh' \in BOOLEAN
    BY <2>1, <2>2, <2>3, <2>4
  <2>7. on' \in BOOLEAN /\ stopped' \in BOOLEAN
    BY <2>1, <2>5
  <2>8. (stopped' => ~on') /\ (UNCHANGED on \/ on' = FALSE)
    <3>1. CASE stopped' = stopped /\ on' = on
      BY <2>1, <3>1
    <3>2. CASE stopped' = TRUE /\ on' = FALSE
      BY <3>2
    <3> QED BY <2>5, <3>1, <3>2
  <2> QED BY <2>6, <2>7, <2>8
<1>3. Typed'
  BY <1>1, <1>2 DEF IInv, Typed
<1>4. Timed'
  <2>1. clock \in Nat /\ clock <= SettleTimeout /\ SettleTimeout \in Nat /\ Timeout \in Nat
        /\ Ticking(still)
    BY <1>1, ProbeAssumption DEF IInv, Timed
  <2>2. clock' \in {clock, clock + 1} /\ (pc' = "hold" => clock' <= SettleTimeout)
    BY <1>1, <2>1 DEF Hold
  <2>3. still' = still \/ (clock' = clock + 1 /\ still' \in {Idle, Tick(still)})
    BY DEF Hold
  <2>4. Ticking(still)'
    BY <2>1, <2>2, <2>3 DEF Ticking, Tick, Idle
  <2>5. clock' \in Nat /\ clock' <= Larger(Timeout, SettleTimeout + 1)
    BY <2>1, <2>2 DEF Larger
  <2>6. Ticking(hard)' /\ Ticking(early)' /\ Ticking(scan)'
    BY <1>1, <2>1, <2>2 DEF IInv, Timed, Ticking
  <2>7. (opt.sustain = 0 => scan = Idle)'
    BY <1>1 DEF IInv, Timed
  <2> QED BY <1>1, <2>2, <2>4, <2>5, <2>6, <2>7 DEF Timed, Looping
<1>5. Gathered'
  BY <1>1 DEF IInv, Gathered, OutcomeIsPossible
<1>6. Power'
  BY <1>1, <1>2 DEF IInv, Power, UnloadsAtStops
<1>7. Trails'
  BY <1>1 DEF Trails, StuckStoodStill
<1> QED BY <1>3, <1>4, <1>5, <1>6, <1>7 DEF IInv

\* The unloading switches off and reports its own failure, if any.
LEMMA UnloadKeeps ==
  ASSUME IInv, Unload
  PROVE  IInv'
<1> USE DEF Unload
<1>1. /\ pc = "unload" /\ UNCHANGED <<probe, watch, code, holding, stopped>> /\ on' = FALSE
      /\ opt' = opt /\ x' \in Steps(x) /\ x' \in Positions
  BY SameOptions, Stepping
<1>2. CASE ~stopped /\ pc' = "report" /\ UNCHANGED out
  <2>2. Typed'
    BY <1>1, <1>2 DEF IInv, Typed, watch, holding
  <2>3. Timed'
    BY <1>1, <1>2 DEF IInv, Timed, Ticking, Looping, watch, holding
  <2>4. Gathered'
    BY <1>1, <1>2 DEF IInv, Gathered, OutcomeIsPossible, watch
  <2>5. Power'
    BY <1>1, <1>2 DEF Power, UnloadsAtStops
  <2>6. Trails'
    BY <1>1, <1>2 DEF Trails, StuckStoodStill
  <2> QED BY <2>2, <2>3, <2>4, <2>5, <2>6 DEF IInv
<1>3. CASE \E failure \in IF stopped THEN {"activeStop"} ELSE {"hardware", "timedOut"} :
             Report([LastSeen(x') EXCEPT !.code = failure])
  <2>1. PICK failure \in {"activeStop", "hardware", "timedOut"} :
               Report([LastSeen(x') EXCEPT !.code = failure])
    BY <1>3
  <2> DEFINE seen == LastSeen(x')
             o == [seen EXCEPT !.code = failure]
  <2>2. /\ stopped \in BOOLEAN /\ flags.sampled /\ ~flags.settled
        /\ flags.stuck => flags.over \/ (flags.limit /\ flags.jam /\ flags.collapsed)
    BY DEF IInv, Typed, Gathered
  <2>0. /\ seen \in Outcomes(Positions) /\ seen.settled = flags.settled
        /\ seen.sampled = flags.sampled /\ seen.stuck = flags.stuck
        /\ seen.over = flags.over /\ seen.limit = flags.limit /\ seen.jam = flags.jam
        /\ seen.collapsed = flags.collapsed
    BY <1>1, SeenLast DEF IInv
  <2>4. Report(o)
    BY <2>1
  <2> HIDE DEF seen
  <2>3. /\ o \in Outcomes(Positions) /\ o.code = failure
        /\ o.sampled = flags.sampled /\ o.settled = flags.settled /\ o.stuck = flags.stuck
        /\ o.over = flags.over /\ o.limit = flags.limit /\ o.jam = flags.jam
        /\ o.collapsed = flags.collapsed
    BY <2>0 DEF Outcomes, Codes
  <2> HIDE DEF o
  <2>5. Possible(o, opt.micro, opt.suppress)
    BY UnsettledIsPossible, <2>2, <2>3
  <2>6. ~TerminalStop(o)
    BY <2>3 DEF TerminalStop
  <2>7. on' \in BOOLEAN /\ stopped' \in BOOLEAN /\ pc \notin {"start", "watch"}
    BY <1>1, <2>2
  <2> QED BY <1>1, <2>3, <2>4, <2>5, <2>6, <2>7, ReportKeeps
<1> QED BY <1>2, <1>3

\* The report gives the output back unless the probe was stopped or ended at a stop.
LEMMA FinishKeeps ==
  ASSUME IInv, Finish
  PROVE  IInv'
<1> DEFINE o == Rest(code)
           d == [o EXCEPT !.code = IF @ = "ok" THEN "hardware" ELSE @]
<1>1. /\ pc = "report" /\ UNCHANGED <<probe, x, watch, code, holding, stopped>>
      /\ \/ (stopped \/ TerminalStop(o)) /\ Report(o) /\ UNCHANGED on
         \/ ~stopped /\ ~TerminalStop(o) /\ Report(o) /\ on' = TRUE
         \/ ~stopped /\ ~TerminalStop(o) /\ ~on /\ UNCHANGED on /\ Report(d)
  BY Zenon DEF Finish
<1>2. /\ o \in Outcomes(Positions) /\ Possible(o, opt.micro, opt.suppress)
      /\ TerminalStop(o) => flags.stuck /\ code = "jam"
  BY <1>1, RestReports DEF IInv
<1>3. o.settled /\ o.sampled
  <2>1. LastSeen(x) \in Outcomes(Positions) /\ LastSeen(x).sampled
    BY SeenLast DEF IInv, Typed, Gathered
  <2> QED BY <2>1 DEF Rest, Outcomes
<1> HIDE DEF o
<1>4. ~TerminalStop(o) => /\ d \in Outcomes(Positions) /\ ~TerminalStop(d)
                          /\ Possible(d, opt.micro, opt.suppress)
  BY <1>2, <1>3, DeniedReports DEF IInv
<1> HIDE DEF d
<1>5. /\ x' \in Positions /\ on \in BOOLEAN /\ stopped \in BOOLEAN /\ (stopped => ~on)
      /\ flags.stuck /\ code = "jam" => ~on
      /\ pc \notin {"start", "watch"} /\ UNCHANGED <<probe, watch, code, holding>>
      /\ stopped' = stopped
  BY <1>1 DEF IInv, Typed, Power
<1>6. CASE (stopped \/ TerminalStop(o)) /\ Report(o) /\ UNCHANGED on
  BY <1>2, <1>5, <1>6, ReportKeeps
<1>7. CASE ~stopped /\ ~TerminalStop(o) /\ Report(o) /\ on' = TRUE
  BY <1>2, <1>5, <1>7, ReportKeeps
<1>8. CASE ~stopped /\ ~TerminalStop(o) /\ ~on /\ UNCHANGED on /\ Report(d)
  BY <1>4, <1>5, <1>8, ReportKeeps
<1> QED BY <1>1, <1>6, <1>7, <1>8

-----------------------------------------------------------------------------
(* The steps of the loop. *)

\* A frame that is only counted.
LEMMA Sampling ==
  ASSUME Typed, NEW amp \in Amps
  PROVE  LET g == Sampled(amp)
         IN  /\ g \in Outcomes(Positions) /\ (flags.over \/ amp # "low" => g.over)
             /\ g.sampled = flags.sampled /\ g.settled = flags.settled
             /\ g.stuck = flags.stuck /\ g.jam = flags.jam /\ g.limit = flags.limit
             /\ g.collapsed = flags.collapsed
<1> DEFINE over == flags.over \/ amp # "low"
<1>1. Sampled(amp) = [flags EXCEPT !.over = over]
  BY DEF Sampled
<1>2. over \in BOOLEAN /\ flags \in Outcomes(Positions)
  BY DEF Typed
<1>3. flags.over \/ amp # "low" => over
  OBVIOUS
<1> HIDE DEF over
<1> QED BY <1>1, <1>2, <1>3 DEF Outcomes

\* With a trail of k frames behind the hard current timer, the nut stood still.
LEMMA HardStood ==
  ASSUME recent' \in Seq(Frames), HardTrail', hard' \in Nat,
         NEW k \in Nat, k <= hard', k <= Deep
  PROVE  /\ Len(recent') > k /\ Gained(k)' < NoProgress
         /\ \A i \in Len(recent') - k .. Len(recent') : recent'[i].amp # "low"
<1>1. NoProgress \in Nat /\ Deep \in Nat /\ hard' # Idle /\ Len(recent') \in Nat
  BY Thresholds DEF Idle
<1>2. /\ Len(recent') > Smaller(hard', Deep)
      /\ \A j \in 0 .. hard' : j < Len(recent') =>
           Ago(j)'.amp # "low" /\ Ago(0)'.at < Ago(j)'.at + NoProgress
  BY <1>1 DEF HardTrail
<1>3. Len(recent') > k
  BY <1>1, <1>2 DEF Smaller
<1>4. ASSUME NEW j \in 0 .. k
      PROVE  /\ Ago(j)' = recent'[Len(recent') - j] /\ Ago(j)'.at \in Int
             /\ Ago(j)'.amp # "low" /\ Ago(0)'.at < Ago(j)'.at + NoProgress
  <2>1. j \in 0 .. hard' /\ j < Len(recent') /\ Len(recent') - j \in 1 .. Len(recent')
    BY <1>1, <1>3
  <2>2. Ago(j)' = recent'[Len(recent') - j]
    BY DEF Ago
  <2>3. recent'[Len(recent') - j] \in Frames
    BY <2>1
  <2>4. Ago(j)'.at \in Int
    BY <2>2, <2>3 DEF Frames
  <2> QED BY <1>2, <2>1, <2>2, <2>4
<1>5. Gained(k)' < NoProgress
  <2>1. /\ Ago(0)' = recent'[Len(recent')] /\ Ago(k)' = recent'[Len(recent') - k]
        /\ Ago(0)'.at \in Int /\ Ago(k)'.at \in Int /\ Ago(0)'.at < Ago(k)'.at + NoProgress
    <3>1. 0 \in 0 .. k /\ k \in 0 .. k /\ Len(recent') - 0 = Len(recent')
      BY <1>1
    <3>2. Ago(0)' = recent'[Len(recent') - 0] /\ Ago(0)'.at \in Int
      BY <1>4, <3>1
    <3> QED BY <1>4, <3>1, <3>2
  <2>2. Gained(k)' = Ago(0)'.at - Ago(k)'.at
    BY <2>1 DEF Gained
  <2> QED BY <1>1, <2>1, <2>2
<1>6. ASSUME NEW i \in Len(recent') - k .. Len(recent')
      PROVE  recent'[i].amp # "low"
  <2> DEFINE j == Len(recent') - i
  <2>1. j \in 0 .. k /\ Len(recent') - j = i
    BY <1>1
  <2> HIDE DEF j
  <2> QED BY <1>4, <2>1
<1> QED BY <1>3, <1>5, <1>6

\* The same of the scan's timer.
LEMMA ScanStood ==
  ASSUME recent' \in Seq(Frames), ScanTrail', scan' \in Nat,
         NEW k \in Nat, k <= scan', k <= Deep
  PROVE  Len(recent') > k /\ Gained(k)' <= NoProgress
<1>1. NoProgress \in Nat /\ Deep \in Nat /\ scan' # Idle /\ Len(recent') \in Nat
  BY Thresholds DEF Idle
<1>2. /\ Len(recent') > Smaller(scan', Deep)
      /\ \A j \in 0 .. scan' : j < Len(recent') => Ago(0)'.at <= Ago(j)'.at + NoProgress
  BY <1>1 DEF ScanTrail
<1>3. Len(recent') > k
  BY <1>1, <1>2 DEF Smaller
<1>4. ASSUME NEW j \in 0 .. k
      PROVE  /\ Ago(j)' = recent'[Len(recent') - j] /\ Ago(j)'.at \in Int
             /\ Ago(0)'.at <= Ago(j)'.at + NoProgress
  <2>1. j \in 0 .. scan' /\ j < Len(recent') /\ Len(recent') - j \in 1 .. Len(recent')
    BY <1>1, <1>3
  <2>2. Ago(j)' = recent'[Len(recent') - j]
    BY DEF Ago
  <2>3. recent'[Len(recent') - j] \in Frames
    BY <2>1
  <2>4. Ago(j)'.at \in Int
    BY <2>2, <2>3 DEF Frames
  <2> QED BY <1>2, <2>1, <2>2, <2>4
<1>5. /\ Ago(0)' = recent'[Len(recent')] /\ Ago(k)' = recent'[Len(recent') - k]
      /\ Ago(0)'.at \in Int /\ Ago(k)'.at \in Int /\ Ago(0)'.at <= Ago(k)'.at + NoProgress
  <2>1. 0 \in 0 .. k /\ k \in 0 .. k /\ Len(recent') - 0 = Len(recent')
    BY <1>1
  <2>2. Ago(0)' = recent'[Len(recent') - 0] /\ Ago(0)'.at \in Int
    BY <1>4, <2>1
  <2> QED BY <1>4, <2>1, <2>2
<1>6. Gained(k)' = Ago(0)'.at - Ago(k)'.at
  BY <1>5 DEF Gained
<1> QED BY <1>1, <1>3, <1>5, <1>6

\* What every frame does, whatever it finds: a place, a memory, one tick.
LEMMA FrameBasics ==
  ASSUME IInv, pc = "watch", clock < Timeout, clock' = clock + 1, probe' = probe,
         NEW p \in Steps(x), NEW amp \in Amps, recent' = Remember(p, amp)
  PROVE  /\ p \in Positions /\ p \in Int /\ opt' = opt
         /\ recent' \in Seq(Frames) /\ Len(recent') <= Deep + 1
         /\ recent'[Len(recent')].amp = amp
         /\ clock' \in Nat /\ clock' <= Larger(Timeout, SettleTimeout + 1)
         /\ clock' <= Timeout
         /\ \A t : Ticking(t) => (t = Idle \/ (t \in Nat /\ t < clock'))
         /\ \A t : Ticking(t) => (Tick(t) \in Nat /\ Tick(t) < clock')
<1>1. p \in Positions /\ p \in Int /\ opt' = opt
  BY Stepping, SameOptions
<1>2. recent' \in Seq(Frames) /\ Len(recent') <= Deep + 1 /\ recent'[Len(recent')].amp = amp
  BY <1>1, Remembered DEF IInv, Typed
<1>3. clock \in Nat /\ Timeout \in Nat /\ SettleTimeout \in Nat
  BY ProbeAssumption DEF IInv, Timed
<1>4. clock' \in Nat /\ clock' <= Larger(Timeout, SettleTimeout + 1) /\ clock' <= Timeout
  BY <1>3 DEF Larger
<1>5. ASSUME NEW t, Ticking(t)
      PROVE  /\ t = Idle \/ (t \in Nat /\ t < clock')
             /\ Tick(t) \in Nat /\ Tick(t) < clock'
  BY <1>3, <1>5 DEF Ticking, Tick, Idle
<1> QED BY <1>1, <1>2, <1>4, <1>5

\* The emergency current ends the probe.
LEMMA EmergencyKeeps ==
  ASSUME IInv, pc = "watch", clock < Timeout, clock' = clock + 1,
         UNCHANGED <<probe, holding, out, hard, hardFrom, early, scan, scanFrom, on, stopped>>,
         NEW p \in Steps(x), x' = p, recent' = Remember(p, "emergency"), Leave("jam"),
         flags' = [Sampled("emergency") EXCEPT !.stuck = TRUE, !.jam = TRUE, !.limit = TRUE,
                                               !.collapsed = TRUE]
  PROVE  IInv'
<1>1. "emergency" \in Amps /\ pc' = "settle" /\ code' = "jam" /\ "jam" \in Codes
  BY DEF Amps, Leave, Codes
<1>2. /\ p \in Positions /\ opt' = opt
      /\ recent' \in Seq(Frames) /\ Len(recent') <= Deep + 1
      /\ recent'[Len(recent')].amp = "emergency"
      /\ clock' \in Nat /\ clock' <= Larger(Timeout, SettleTimeout + 1)
      /\ clock' <= Timeout
      /\ \A t : Ticking(t) => (t = Idle \/ (t \in Nat /\ t < clock'))
  BY <1>1, FrameBasics
<1>3. /\ flags' \in Outcomes(Positions) /\ flags'.sampled = flags.sampled
      /\ flags'.settled = flags.settled
      /\ flags'.jam = TRUE /\ flags'.stuck = TRUE /\ flags'.limit = TRUE
      /\ flags'.collapsed = TRUE
  <2> DEFINE g == Sampled("emergency")
  <2>1. g \in Outcomes(Positions) /\ g.sampled = flags.sampled /\ g.settled = flags.settled
    BY <1>1, Sampling DEF IInv
  <2> HIDE DEF g
  <2>2. flags' = [g EXCEPT !.stuck = TRUE, !.jam = TRUE, !.limit = TRUE, !.collapsed = TRUE]
    BY DEF g
  <2> QED BY <2>1, <2>2 DEF Outcomes
<1>4. Typed'
  BY <1>1, <1>2, <1>3 DEF IInv, Typed, holding
<1>5. Timed'
  BY <1>1, <1>2 DEF IInv, Timed, Ticking, Looping, holding
<1>6. Gathered'
  BY <1>1, <1>3 DEF IInv, Gathered, OutcomeIsPossible
<1>7. Power'
  BY <1>1 DEF IInv, Power, UnloadsAtStops
<1>8. Trails'
  BY <1>1, <1>2 DEF Trails, StuckStoodStill
<1> QED BY <1>4, <1>5, <1>6, <1>7, <1>8 DEF IInv

\* A frame after which the command is refused.
LEMMA RefusedKeeps ==
  ASSUME IInv, pc = "watch", clock < Timeout, clock' = clock + 1,
         UNCHANGED <<probe, holding, out, hard, hardFrom, early, scan, scanFrom>>,
         NEW p \in Steps(x), NEW amp \in Amps, x' = p, recent' = Remember(p, amp),
         flags' = Sampled(amp), Leave("activeStop") \/ Leave("hardware"),
         Faulted \/ UNCHANGED <<on, stopped>>
  PROVE  IInv'
<1>1. pc' = "settle" /\ code' \in {"activeStop", "hardware"} /\ code' \in Codes
  BY DEF Leave, Codes
<1>2. /\ p \in Positions /\ opt' = opt
      /\ recent' \in Seq(Frames) /\ Len(recent') <= Deep + 1
      /\ clock' \in Nat /\ clock' <= Larger(Timeout, SettleTimeout + 1)
      /\ clock' <= Timeout
      /\ \A t : Ticking(t) => (t = Idle \/ (t \in Nat /\ t < clock'))
  BY FrameBasics
<1>3. /\ flags' \in Outcomes(Positions) /\ (flags.over => flags'.over)
      /\ flags'.sampled = flags.sampled /\ flags'.settled = flags.settled
      /\ flags'.stuck = flags.stuck /\ flags'.jam = flags.jam /\ flags'.limit = flags.limit
      /\ flags'.collapsed = flags.collapsed
  BY Sampling DEF IInv
<1>4. on' \in BOOLEAN /\ stopped' \in BOOLEAN /\ (stopped' => ~on')
  <2>1. on \in BOOLEAN /\ stopped \in BOOLEAN /\ (stopped => ~on)
    BY DEF IInv, Typed, Power
  <2>2. CASE Faulted
    BY <2>2 DEF Faulted
  <2>3. CASE on' = on /\ stopped' = stopped
    BY <2>1, <2>3
  <2> QED BY <2>2, <2>3
<1>5. Typed'
  BY <1>1, <1>2, <1>3, <1>4 DEF IInv, Typed, holding
<1>6. Timed'
  BY <1>1, <1>2 DEF IInv, Timed, Ticking, Looping, holding
<1>7. Gathered'
  BY <1>1, <1>3 DEF IInv, Gathered, OutcomeIsPossible
<1>8. Power'
  BY <1>1, <1>4 DEF Power, UnloadsAtStops
<1>9. Trails'
  BY <1>1 DEF Trails, StuckStoodStill
<1> QED BY <1>5, <1>6, <1>7, <1>8, <1>9 DEF IInv

\* A frame that is judged: it goes on, or the loop ends with the verdict.
LEMMA JudgedKeeps ==
  ASSUME IInv, pc = "watch", clock < Timeout, clock' = clock + 1,
         UNCHANGED <<probe, holding, out, on, stopped>>,
         NEW p \in Steps(x), NEW amp \in Amps, NEW hit,
         x' = p, recent' = Remember(p, amp), flags' = Judged(p, amp, hit),
         hard' = HardTimer(p, amp), early' = EarlyTimer(p), scan' = ScanTimer(p),
         hardFrom' = IF amp # "low" /\ (hard = Idle \/ HardProgress(p)) THEN p ELSE hardFrom,
         scanFrom' = IF opt.sustain > 0 /\ ScanProgress(p) THEN p ELSE scanFrom,
         IF Verdict(p, amp, hit) = "none" THEN UNCHANGED <<pc, code>>
                                          ELSE Leave(Verdict(p, amp, hit))
  PROVE  IInv'
<1> DEFINE v == Verdict(p, amp, hit)
<1>1. /\ v \in Codes \union {"none"}
      /\ v \in {"none", "ok", "inconsistent"} => ~HardStuck(p, amp) /\ ~Sustained(p)
      /\ v = "jam" => ~EarlyEnd(p) /\ (Risk(p, amp, hit).stop \/ Sustained(p))
  BY Verdicts
<1>2. /\ p \in Positions /\ p \in Int /\ opt' = opt
      /\ recent' \in Seq(Frames) /\ Len(recent') <= Deep + 1
      /\ clock' \in Nat /\ clock' <= Larger(Timeout, SettleTimeout + 1)
      /\ clock' <= Timeout
      /\ \A t : Ticking(t) => (t = Idle \/ (t \in Nat /\ t < clock'))
      /\ \A t : Ticking(t) => (Tick(t) \in Nat /\ Tick(t) < clock')
  BY FrameBasics
<1>3. /\ flags' \in Outcomes(Positions)
      /\ flags'.sampled = flags.sampled /\ flags'.settled = flags.settled
      /\ flags'.stuck <=> flags.stuck \/ HardStuck(p, amp) \/ Sustained(p)
      /\ flags.over => flags'.over
      /\ HardStuck(p, amp) => flags'.over
      /\ flags.limit /\ flags.jam /\ flags.collapsed =>
           flags'.limit /\ flags'.jam /\ flags'.collapsed
      /\ Sustained(p) => flags'.limit /\ flags'.jam /\ flags'.collapsed
      /\ ~EarlyEnd(p) /\ Risk(p, amp, hit).jam => flags'.jam
  BY <1>2, Judgement DEF IInv
<1>4. /\ v = "none" => pc' = "watch" /\ code' = code
      /\ v # "none" => pc' = "settle" /\ code' = v
      /\ code = "ok" /\ ~flags.stuck /\ out = Nothing /\ out' = out
  BY DEF Leave, IInv, Gathered
<1> HIDE DEF v
<1>5. Typed'
  <2>1. hardFrom' \in Positions /\ scanFrom' \in Positions /\ code' \in Codes
    BY <1>1, <1>2, <1>4 DEF IInv, Typed
  <2> QED BY <1>2, <1>3, <1>4, <2>1 DEF IInv, Typed, holding
<1>6. Timed'
  <2>1. Ticking(hard) /\ Ticking(early) /\ Ticking(scan) /\ Ticking(still)
        /\ (opt.sustain = 0 => scan = Idle)
    BY DEF IInv, Timed
  <2>2. hard' \in {Idle, 0, Tick(hard)} /\ 0 < clock'
    <3>1. 0 < clock'
      BY DEF IInv, Timed
    <3> QED BY <3>1 DEF HardTimer
  <2>3. early' \in {early, Idle, Tick(early)}
    BY DEF EarlyTimer
  <2>4. scan' \in {scan, Idle, Tick(scan)} /\ (opt.sustain = 0 => scan' = scan)
    BY DEF ScanTimer
  <2>5. Ticking(hard)' /\ Ticking(early)' /\ Ticking(scan)' /\ Ticking(still)'
    <3>1. Ticking(hard)'
      BY <1>2, <2>1, <2>2 DEF Ticking
    <3>2. Ticking(early)'
      BY <1>2, <2>1, <2>3 DEF Ticking
    <3>3. Ticking(scan)'
      BY <1>2, <2>1, <2>4 DEF Ticking
    <3>4. Ticking(still)'
      BY <1>2, <2>1 DEF Ticking, holding
    <3> QED BY <3>1, <3>2, <3>3, <3>4
  <2> QED BY <1>2, <1>4, <2>1, <2>4, <2>5 DEF Timed, Looping
<1>7. Gathered'
  <2>1. pc' \in {"start", "watch"} => code' = "ok" /\ ~flags'.stuck
    BY <1>1, <1>3, <1>4
  <2>2. flags'.stuck => flags'.over \/ (flags'.limit /\ flags'.jam /\ flags'.collapsed)
    BY <1>3, <1>4, Zenon
  <2>3. code' = "jam" => flags'.jam /\ (opt'.suppress => flags'.stuck)
    <3> SUFFICES ASSUME code' = "jam" PROVE flags'.jam /\ (opt.suppress => flags'.stuck)
      BY <1>2
    <3>1. ~EarlyEnd(p) /\ (Risk(p, amp, hit).stop \/ Sustained(p))
      BY <1>1, <1>4
    <3>2. CASE Sustained(p)
      BY <1>3, <3>2
    <3>3. CASE Risk(p, amp, hit).stop
      <4>1. probe \in Probes
        BY DEF IInv, Typed
      <4>2. Risk(p, amp, hit).jam /\ (opt.suppress => HardStuck(p, amp))
        BY <3>3, <4>1, Risks
      <4> QED BY <1>3, <3>1, <4>2
    <3> QED BY <3>1, <3>2, <3>3
  <2>4. flags'.sampled /\ ~flags'.settled
    BY <1>3 DEF IInv, Gathered
  <2> QED BY <1>4, <2>1, <2>2, <2>3, <2>4 DEF Gathered, OutcomeIsPossible
<1>8. Power'
  BY <1>4 DEF IInv, Power, UnloadsAtStops
<1>9. Trails'
  <2>1. HardTrail'
    BY <1>2, HardGoesOn DEF IInv, Trails
  <2>2. ScanTrail'
    BY <1>2, ScanGoesOn DEF IInv, Trails
  <2>3. /\ opt.confirm \in Nat /\ opt.confirm <= Deep
        /\ opt.sustain \in Nat /\ opt.sustain <= Deep
    <3>1. probe \in Probes
      BY DEF IInv, Typed
    <3>2. opt.confirm \in {0, HardConfirm} /\ opt.sustain \in {0, SoftTimeout}
      BY <3>1, Options
    <3>3. Deep \in Nat /\ HardConfirm <= Deep /\ SoftTimeout <= Deep
          /\ HardConfirm \in Nat /\ SoftTimeout \in Nat
      BY Thresholds
    <3> QED BY <3>2, <3>3
  <2>4. CASE HardStuck(p, amp)
    <3>1. hard' \in Nat /\ opt.confirm <= hard'
      <4>1. amp # "low" /\ hard' >= opt.confirm
        BY <2>4 DEF HardStuck
      <4>2. Ticking(hard)
        BY DEF IInv, Timed
      <4>3. hard' \in {0, Tick(hard)}
        BY <4>1 DEF HardTimer
      <4> QED BY <1>2, <2>3, <4>1, <4>2, <4>3
    <3>2. /\ Len(recent') > opt.confirm /\ Gained(opt.confirm)' < NoProgress
          /\ \A i \in Len(recent') - opt.confirm .. Len(recent') : recent'[i].amp # "low"
      BY <1>2, <2>1, <2>3, <3>1, HardStood
    <3>3. StuckStoodStill'
      BY <1>2, <3>2 DEF StuckStoodStill, Gained
    <3> QED BY <2>1, <2>2, <3>3 DEF Trails
  <2>5. CASE Sustained(p)
    <3>1. scan' \in Nat /\ opt.sustain <= scan' /\ opt.sustain > 0
      <4>1. opt.sustain > 0 /\ scan' > 0 /\ scan' >= opt.sustain
        BY <2>5 DEF Sustained
      <4>2. scan' \in Nat
        BY <1>6, <4>1 DEF Timed, Ticking, Idle
      <4> QED BY <4>1, <4>2, <2>3
    <3>2. Len(recent') > opt.sustain /\ Gained(opt.sustain)' <= NoProgress
      BY <1>2, <2>2, <2>3, <3>1, ScanStood
    <3>3. StuckStoodStill'
      BY <1>2, <3>1, <3>2 DEF StuckStoodStill, Gained
    <3> QED BY <2>1, <2>2, <3>3 DEF Trails
  <2>6. CASE ~HardStuck(p, amp) /\ ~Sustained(p)
    <3>1. ~flags'.stuck
      BY <1>3, <1>4, <2>6
    <3> QED BY <2>1, <2>2, <3>1 DEF Trails, StuckStoodStill
  <2> QED BY <2>4, <2>5, <2>6
<1> QED BY <1>5, <1>6, <1>7, <1>8, <1>9 DEF IInv

\* One iteration: the deadline, a failed read, or a frame.
LEMMA WatchKeeps ==
  ASSUME IInv, Watch
  PROVE  IInv'
<1>1. pc = "watch" /\ UNCHANGED <<probe, holding, out>> /\ opt' = opt
  BY SameOptions DEF Watch
<1>2. code = "ok" /\ ~flags.stuck /\ out = Nothing
  BY <1>1 DEF IInv, Gathered
<1>3. CASE /\ UNCHANGED <<x, watch, on, stopped>> /\ pc' = "settle"
           /\ code' \in {"ok", "activeStop", "hardware"}
  <2>1. Typed'
    BY <1>1, <1>3 DEF IInv, Typed, watch, holding, Codes
  <2>2. Timed'
    BY <1>1, <1>3 DEF IInv, Timed, Ticking, Looping, watch, holding
  <2>3. Gathered'
    BY <1>1, <1>2, <1>3 DEF IInv, Gathered, OutcomeIsPossible, watch
  <2>4. Power'
    BY <1>1, <1>3 DEF IInv, Power, UnloadsAtStops
  <2>5. Trails'
    BY <1>3 DEF Trails, StuckStoodStill
  <2> QED BY <2>1, <2>2, <2>3, <2>4, <2>5 DEF IInv
<1>4. CASE /\ clock < Timeout /\ ~stopped /\ clock' = clock + 1
           /\ \E p \in Steps(x), amp \in {"low", "hard", "emergency"},
                 hit \in {"none", "contact", "jam", "limit"} : Frame(p, amp, hit)
  <2>1. PICK p \in Steps(x), amp \in Amps, hit \in {"none", "contact", "jam", "limit"} :
               Frame(p, amp, hit)
    BY <1>4, Zenon DEF Amps
  <2>2. x' = p /\ recent' = Remember(p, amp)
    BY <2>1 DEF Frame
  <2>3. CASE /\ amp = "emergency" /\ Leave("jam")
             /\ flags' = [Sampled(amp) EXCEPT !.stuck = TRUE, !.jam = TRUE, !.limit = TRUE,
                                              !.collapsed = TRUE]
             /\ UNCHANGED <<hard, hardFrom, early, scan, scanFrom, on, stopped>>
    BY <1>1, <1>4, <2>2, <2>3, EmergencyKeeps
  <2>4. CASE /\ amp # "emergency" /\ flags' = Sampled(amp)
             /\ \/ Leave("activeStop") /\ Faulted
                \/ Inside(p) /\ Leave("hardware") /\ UNCHANGED <<on, stopped>>
             /\ UNCHANGED <<hard, hardFrom, early, scan, scanFrom>>
    BY <1>1, <1>4, <2>2, <2>4, RefusedKeeps
  <2>5. CASE /\ amp # "emergency" /\ Inside(p) /\ UNCHANGED <<on, stopped>>
             /\ hard' = HardTimer(p, amp) /\ early' = EarlyTimer(p) /\ scan' = ScanTimer(p)
             /\ hardFrom' = IF amp # "low" /\ (hard = Idle \/ HardProgress(p))
                            THEN p ELSE hardFrom
             /\ scanFrom' = IF opt.sustain > 0 /\ ScanProgress(p) THEN p ELSE scanFrom
             /\ flags' = Judged(p, amp, hit)
             /\ IF Verdict(p, amp, hit) = "none" THEN UNCHANGED <<pc, code>>
                                                 ELSE Leave(Verdict(p, amp, hit))
    BY <1>1, <1>4, <2>2, <2>5, JudgedKeeps
  <2> QED BY <2>1, <2>3, <2>4, <2>5 DEF Frame
<1>5. \/ UNCHANGED <<x, watch, on, stopped>> /\ pc' = "settle"
           /\ code' \in {"ok", "activeStop", "hardware"}
      \/ /\ clock < Timeout /\ ~stopped /\ clock' = clock + 1
         /\ \E p \in Steps(x), amp \in {"low", "hard", "emergency"},
               hit \in {"none", "contact", "jam", "limit"} : Frame(p, amp, hit)
  BY <1>2 DEF Watch, Leave
<1> QED BY <1>3, <1>4, <1>5

-----------------------------------------------------------------------------
(* The invariant, and what it shows. *)

\* Every step keeps the invariant.
LEMMA StepKeeps == IInv /\ [Next]_vars => IInv'
<1> SUFFICES ASSUME IInv, [Next]_vars PROVE IInv'
  OBVIOUS
<1>1. CASE Start
  BY <1>1, StartKeeps
<1>2. CASE Watch
  BY <1>2, WatchKeeps
<1>3. CASE Settle
  BY <1>3, SettleKeeps
<1>4. CASE Hold
  BY <1>4, HoldKeeps
<1>5. CASE Unload
  BY <1>5, UnloadKeeps
<1>6. CASE Finish
  BY <1>6, FinishKeeps
<1>7. CASE Stop
  BY <1>7, StopKeeps
<1>8. CASE UNCHANGED vars
  BY <1>8, StutterKeeps
<1> QED BY <1>1, <1>2, <1>3, <1>4, <1>5, <1>6, <1>7, <1>8 DEF Next, Work, Ended

\* Every reachable state satisfies the invariant.
THEOREM Inductive == Spec => []IInv
<1>1. Init => IInv
  BY InitHolds
<1>2. IInv /\ [Next]_vars => IInv'
  BY StepKeeps
<1> QED BY <1>1, <1>2, PTL DEF Spec

\* The variables keep their types: no timer outlives the loop that runs it, and
\* no loop runs past its deadline by more than one iteration.
THEOREM TypeCorrect == Spec => []TypeOK
<1>1. IInv => TypeOK
  <2> SUFFICES ASSUME IInv PROVE TypeOK
    OBVIOUS
  <2>1. Timeout \in Nat /\ SettleTimeout \in Nat /\ clock \in Nat
        /\ clock <= Larger(Timeout, SettleTimeout + 1)
    BY ProbeAssumption DEF IInv, Timed
  <2>2. ASSUME NEW t, Ticking(t) PROVE t \in Idle .. Larger(Timeout, SettleTimeout)
    BY <2>1, <2>2 DEF Ticking, Idle, Larger
  <2>3. {hard, early, scan, still} \subseteq Idle .. Larger(Timeout, SettleTimeout)
    BY <2>2 DEF IInv, Timed
  <2>4. clock \in 0 .. Larger(Timeout, SettleTimeout + 1)
    BY <2>1 DEF Larger
  <2> QED BY <2>3, <2>4 DEF IInv, Typed, TypeOK
<1> QED BY <1>1, Inductive, PTL

\* Every report of a probe is one the searches of PreSelfCheck reckon with.
THEOREM ReportsArePossible == Spec => []OutcomeIsPossible
<1>1. IInv => OutcomeIsPossible
  BY DEF IInv, Gathered
<1> QED BY <1>1, Inductive, PTL

\* A probe that reports no progress under hard current, or for the sustained
\* time of a scan, stood still over that whole time.
THEOREM StandstillIsReal == Spec => []StuckStoodStill
<1>1. IInv => StuckStoodStill
  BY DEF IInv, Trails
<1> QED BY <1>1, Inductive, PTL

\* A probe that ended at a stop is never held there and comes back unpowered.
THEOREM StopsAreReleased == Spec => []UnloadsAtStops
<1>1. IInv => UnloadsAtStops
  BY DEF IInv, Power
<1> QED BY <1>1, Inductive, PTL

\* After a stop or a fault no sample is taken for a settled one.
THEOREM StopsTeachNothing == Spec => NothingLearntAfterStop
<1>1. IInv /\ [Next]_vars =>
        [stopped /\ pc \notin {"report", "done"} => pc' # "report" /\ ~out'.settled]_vars
  <2> SUFFICES ASSUME IInv, Next, stopped, pc \notin {"report", "done"}
               PROVE  pc' # "report" /\ ~out'.settled
    BY Zenon
  <2>1. out = Nothing /\ ~flags.settled /\ flags \in Outcomes(Positions) /\ ~Nothing.settled
    BY DEF IInv, Gathered, Typed, Nothing
  <2>2. CASE Start
    <3>1. Report([Nothing EXCEPT !.code = "activeStop"])
          \/ (pc' = "watch" /\ out' = out) \/ Report(Nothing)
      BY <2>2 DEF Start
    <3>2. ~[Nothing EXCEPT !.code = "activeStop"].settled
      BY NothingIsPossible
    <3> QED BY <2>1, <3>1, <3>2 DEF Report
  <2>3. CASE Watch
    BY <2>1, <2>3 DEF Watch, Leave, Frame
  <2>4. CASE Settle
    BY <2>1, <2>4 DEF Settle, LeaveLoop, WaysOut
  <2>5. CASE Hold
    BY <2>1, <2>5 DEF Hold
  <2>6. CASE Unload
    <3>1. Report([LastSeen(x') EXCEPT !.code = "activeStop"]) /\ x' \in Positions
      BY <2>6, Stepping DEF Unload
    <3>2. LastSeen(x') \in Outcomes(Positions) /\ LastSeen(x').settled = flags.settled
      BY <3>1, SeenLast DEF IInv
    <3>3. [LastSeen(x') EXCEPT !.code = "activeStop"].settled = flags.settled
      BY <3>2 DEF Outcomes
    <3> QED BY <2>1, <3>1, <3>3 DEF Report
  <2>7. CASE Stop
    BY <2>1, <2>7 DEF Stop
  <2> QED BY <2>2, <2>3, <2>4, <2>5, <2>6, <2>7 DEF Next, Work, Finish, Ended
<1> QED BY <1>1, Inductive, PTL DEF Spec, NothingLearntAfterStop

-----------------------------------------------------------------------------
(* A probe ends by its deadlines. *)

\* What is left at each place, and that the deadlines bound it.
Remaining ==
  /\ Left \in Nat
  /\ pc = "start"  => Left = Timeout + SettleTimeout + 7
  /\ pc = "watch"  => Left = Timeout - clock + SettleTimeout + 6
  /\ pc = "settle" => Left = SettleTimeout + 5
  /\ pc = "hold"   => Left = SettleTimeout - clock + 3
  /\ pc = "unload" => Left = 2
  /\ pc = "report" => Left = 1
  /\ pc = "done"   => Left = 0

\* The invariant keeps the clock within the deadline of the loop it runs in.
LEMMA LeftIs == IInv => Remaining
<1> SUFFICES ASSUME IInv PROVE Remaining
  OBVIOUS
<1>1. Timeout \in Nat /\ SettleTimeout \in Nat /\ clock \in Nat
  BY ProbeAssumption DEF IInv, Timed
<1>2. /\ pc = "start"  => Left = Timeout + SettleTimeout + 7
      /\ pc = "watch"  => Left = Timeout - clock + SettleTimeout + 6
      /\ pc = "settle" => Left = SettleTimeout + 5
      /\ pc = "hold"   => Left = SettleTimeout - clock + 3
      /\ pc = "unload" => Left = 2
      /\ pc = "report" => Left = 1
      /\ pc = "done"   => Left = 0
  BY DEF Left
<1>3. /\ pc \in {"start", "watch", "settle", "hold", "unload", "report", "done"}
      /\ pc = "watch" => clock <= Timeout
      /\ pc = "hold" => clock <= SettleTimeout
  BY DEF IInv, Typed, Timed, Looping
<1>4. Left \in Nat
  BY <1>1, <1>2, <1>3
<1> QED BY <1>2, <1>4 DEF Remaining

\* A probe takes no more steps than its two deadlines allow, whatever the nut, the
\* current and the link do and however often it is stopped.
THEOREM StepsAreCounted == Spec => StepsAreBounded
<1>1. IInv => Remaining
  BY LeftIs
<1>2. IInv /\ [Next]_vars /\ Remaining /\ Remaining' =>
        [Left' \in 0 .. Left /\ (Work => Left' < Left)]_vars
  <2> SUFFICES ASSUME IInv, Next, ~UNCHANGED vars, Remaining, Remaining'
               PROVE  Left' \in 0 .. Left /\ (Work => Left' < Left)
    BY Zenon
  <2>1. Timeout \in Nat /\ SettleTimeout \in Nat /\ clock \in Nat
        /\ Left \in Nat /\ Left' \in Nat
    BY ProbeAssumption DEF IInv, Timed, Remaining
  <2>2. ASSUME Work PROVE Left' < Left
    <3>1. CASE Start
      <4>1. pc = "start" /\ pc' \in {"watch", "done"} /\ clock' = clock
        BY <3>1 DEF Start, Report, watch
      <4> QED BY <2>1, <4>1 DEF Remaining
    <3>2. CASE Watch
      <4>1. pc = "watch" /\ (pc' = "settle" \/ (pc' = "watch" /\ clock' = clock + 1))
        <5>1. ASSUME NEW p, NEW amp, NEW hit, Frame(p, amp, hit)
              PROVE  pc' \in {pc, "settle"}
          BY <5>1 DEF Frame, Leave
        <5> QED BY <3>2, <5>1 DEF Watch, Leave
      <4>2. pc = "watch" => clock <= Timeout
        BY DEF IInv, Timed, Looping
      <4> QED BY <2>1, <4>1, <4>2 DEF Remaining
    <3>3. CASE Settle
      <4>1. pc = "settle" /\ pc' \in {"hold", "unload"} /\ clock' = 0
        BY <3>3 DEF Settle, LeaveLoop, WaysOut
      <4> QED BY <2>1, <4>1 DEF Remaining
    <3>4. CASE Hold
      <4>1. /\ pc = "hold" /\ clock <= SettleTimeout
            /\ pc' \in {"unload", "report"} \/ (pc' = "hold" /\ clock' = clock + 1)
        BY <3>4 DEF Hold, IInv, Timed
      <4> QED BY <2>1, <4>1 DEF Remaining
    <3>5. CASE Unload
      <4>1. pc = "unload" /\ pc' \in {"report", "done"}
        BY <3>5 DEF Unload, Report
      <4> QED BY <2>1, <4>1 DEF Remaining
    <3>6. CASE Finish
      <4>1. pc = "report" /\ pc' = "done"
        BY <3>6, Zenon DEF Finish, Report
      <4> QED BY <2>1, <4>1 DEF Remaining
    <3> QED BY <2>2, <3>1, <3>2, <3>3, <3>4, <3>5, <3>6 DEF Work
  <2>3. CASE Work
    BY <2>1, <2>2, <2>3
  <2>4. CASE Stop
    <3>1. pc' = pc /\ clock' = clock /\ pc # "done"
      BY <2>4 DEF Stop, watch
    <3>2. pc \in {"start", "watch", "settle", "hold", "unload", "report", "done"}
      BY DEF IInv, Typed
    <3>3. Left' = Left
      BY <2>1, <3>1, <3>2 DEF Remaining
    <3>4. ~Work
      BY <2>1, <2>2, <3>3
    <3> QED BY <2>1, <3>3, <3>4
  <2> QED BY <2>3, <2>4 DEF Next, Ended
<1> QED BY <1>1, <1>2, Inductive, PTL DEF Spec, StepsAreBounded
=============================================================================
