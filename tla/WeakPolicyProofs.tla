-------------------------- MODULE WeakPolicyProofs --------------------------
(* Proofs about the weak-network policy, for all counts and times that meet    *)
(* the assumptions: RecoveryEvidence (no sample counts on media from before an *)
(* interruption, and the exit is earned), StallEpisodes (an entry needs two    *)
(* physical stalls, and a lull ends an episode) and RttEvidence (references    *)
(* are current and validated, and the exit rests on a run of requests).  Each  *)
(* of the three has its own variables and specification.                       *)
EXTENDS RecoveryEvidence, StallEpisodes, RttEvidence, TLAPS

-----------------------------------------------------------------------------
(* RecoveryEvidence *)

\* A run of n samples, the last one `since' ticks ago, vouches for an age: it has lasted
\* that long.
Lasted(n, since, age) == n > 0 => age = Old \/ n + since <= age + 1

Backed(n, age) == Lasted(n, sampleAge, age)

\* Samples are only counted in usable playback, and after an invalidation the first has
\* no predecessor.
Sampled ==
    /\ fast > 0 \/ stable > 0 => sampleAge # Old
    /\ ~usable => sampleAge = Old

\* The runs of samples are not older than the last trouble.
Runs == \A n \in {fast, stable} : Backed(n, calm) /\ Backed(n, low)

\* Without playback since the interruption no motion is seen after the first sample.
Motion ==
    ~played =>
      /\ sampleAge # Old => ~moved
      /\ \A n \in {fast, stable} : Backed(n, motionAge)

\* Without new media there is none the evidence could rest on.
Media == ~arrived => transferAge = Old \/ (needsMedia /\ ~news)

\* The two halves of TypeOK.
Flags == {weak, usable, errors, needsMedia, news, moved, played, arrived} \subseteq BOOLEAN

CountTypes ==
    /\ fast \in 0 .. FastSamples /\ stable \in 0 .. StableSamples
    /\ {errorAge, stallAge, transferAge, motionAge, sampleAge, holdAge, calm, low}
         \subseteq Ages

EvidenceInv == TypeOK /\ Sampled /\ Runs /\ Motion /\ Media /\ NoCreditFromBefore

-----------------------------------------------------------------------------

LEMMA Numbers ==
    /\ FastSamples \in Nat /\ StableSamples \in Nat /\ Hold \in Nat /\ MaxGap \in Nat
    /\ MaxAge \in Nat /\ Old \in Nat
    /\ FastSamples <= StableSamples /\ 2 < FastSamples
    /\ MaxAge + 1 < FastSamples /\ StableSamples < Old
    /\ MaxGap + 1 < Old /\ Hold + 1 < Old /\ MaxAge < Old
  BY TimeAssumption

LEMMA Types == TypeOK <=> Flags /\ CountTypes
  BY DEF TypeOK, Flags, CountTypes

LEMMA InitEvidence == Init => EvidenceInv
<1> SUFFICES ASSUME Init PROVE EvidenceInv
  OBVIOUS
<1>0. Flags
  BY Zenon DEF Init, Flags
<1>1. TypeOK
  <2>1. CountTypes
    BY Numbers DEF Init, CountTypes, Ages
  <2> QED BY <1>0, <2>1, Types
<1>2. Sampled /\ Media /\ NoCreditFromBefore
  BY DEF Init, Sampled, Media, NoCreditFromBefore
<1>3. Runs /\ Motion
  BY DEF Init, Runs, Motion, Backed, Lasted
<1> QED BY <1>1, <1>2, <1>3 DEF EvidenceInv

\* Everything that invalidates the evidence starts it anew.
LEMMA InvalidateKeeps ==
    ASSUME EvidenceInv, Invalidate, {weak', usable', errors', moved'} \subseteq BOOLEAN,
           {errorAge', stallAge', transferAge', motionAge', low'} \subseteq Ages
    PROVE  EvidenceInv'
<1>1. /\ fast' = 0 /\ stable' = 0 /\ holdAge' = Old /\ sampleAge' = Old /\ calm' = 0
      /\ needsMedia' = TRUE /\ news' = FALSE /\ played' = FALSE /\ arrived' = FALSE
  BY DEF Invalidate, AfterInterruption, NeedsNewMedia
<1>2. {fast', stable', calm', holdAge', sampleAge'} \subseteq Ages
  BY <1>1, Numbers DEF Ages
<1>3. TypeOK'
  <2>1. Flags'
    BY <1>1, Zenon DEF Flags
  <2>2. fast' \in 0 .. FastSamples /\ stable' \in 0 .. StableSamples
    BY <1>1, Numbers
  <2>3. /\ errorAge' \in Ages /\ stallAge' \in Ages /\ transferAge' \in Ages
        /\ motionAge' \in Ages /\ low' \in Ages
    OBVIOUS
  <2>4. sampleAge' \in Ages /\ holdAge' \in Ages /\ calm' \in Ages
    BY <1>2
  <2>5. CountTypes'
    BY <2>2, <2>3, <2>4 DEF CountTypes
  <2> QED BY <2>1, <2>5 DEF TypeOK, Flags, CountTypes
<1>4. Sampled' /\ Media' /\ NoCreditFromBefore'
  BY <1>1 DEF Sampled, Media, NoCreditFromBefore
<1>5. Runs' /\ Motion'
  BY <1>1 DEF Runs, Motion, Backed, Lasted
<1> QED BY <1>3, <1>4, <1>5 DEF EvidenceInv

LEMMA ExitKeeps ==
    ASSUME EvidenceInv, NEW r \in Ratios, NEW b \in Buffers, SafePointAsks(r, b)
    PROVE  EvidenceInv'
<1>1. /\ weak' = FALSE /\ fast' = 0 /\ stable' = 0 /\ holdAge' = Old /\ stallAge' = Old
      /\ UNCHANGED <<usable, errors, errorAge, transferAge, motionAge, sampleAge, needsMedia,
                     news, moved, calm, low, played, arrived>>
  BY DEF SafePointAsks, Exit, historyVars
<1>2. Old \in Ages
  BY Numbers DEF Ages
<1>3. TypeOK'
  <2>1. Flags /\ CountTypes
    BY Types DEF EvidenceInv
  <2>2. Flags'
    BY <1>1, <2>1, Zenon DEF Flags
  <2>3. fast' \in 0 .. FastSamples /\ stable' \in 0 .. StableSamples
    BY <1>1, Numbers
  <2>4. /\ errorAge' \in Ages /\ stallAge' \in Ages /\ transferAge' \in Ages
        /\ motionAge' \in Ages /\ sampleAge' \in Ages /\ holdAge' \in Ages
        /\ calm' \in Ages /\ low' \in Ages
    BY <1>1, <1>2, <2>1 DEF CountTypes
  <2>5. CountTypes'
    BY <2>3, <2>4 DEF CountTypes
  <2> QED BY <2>2, <2>5 DEF TypeOK, Flags, CountTypes
<1>4. Sampled' /\ Media' /\ NoCreditFromBefore'
  BY <1>1 DEF EvidenceInv, Sampled, Media, NoCreditFromBefore
<1>5. Runs' /\ Motion'
  BY <1>1 DEF EvidenceInv, Runs, Motion, Backed, Lasted
<1> QED BY <1>3, <1>4, <1>5 DEF EvidenceInv

-----------------------------------------------------------------------------
(* A sample *)

\* A run that grows by one with a sample has lasted as long, if the sample before was
\* not now.
LEMMA RunGrows ==
    ASSUME NEW n \in Nat, NEW m \in Nat, NEW since \in Nat, NEW age \in Ages,
           m <= n + 1, n > 0 => since >= 1, Lasted(n, since, age)
    PROVE  Lasted(m, 0, age)
<1>1. age \in Nat
  BY Numbers DEF Ages
<1>2. CASE n = 0
  BY <1>1, <1>2 DEF Lasted
<1>3. CASE n > 0
  BY <1>1, <1>3 DEF Lasted
<1> QED BY <1>2, <1>3

\* What a sample counts: a run grows by one at most, on fresh media and motion, and a
\* sample in the region of weak entry ends both.
LEMMA SampleCounts ==
    ASSUME EvidenceInv, NEW r \in Ratios, NEW b \in Buffers, Sample(r, b)
    PROVE  /\ fast' \in 0 .. FastSamples /\ fast' <= fast + 1
           /\ stable' \in 0 .. StableSamples /\ stable' <= stable + 1
           /\ r = 0 \/ b = 0 => fast' = 0 /\ stable' = 0
           /\ fast' > 0 \/ stable' > 0 \/ (weak /\ ~weak')
                => transferAge <= MaxAge /\ ~needsMedia' /\ motionAge' <= MaxAge
           /\ weak /\ ~weak' => fast >= FastSamples - 1 \/ stable >= StableSamples - 1
           /\ weak /\ ~weak' => r # 0 /\ b = 2
<1> DEFINE need == needsMedia /\ ~(news /\ moved)
           moveAge == IF moved THEN 0 ELSE motionAge
           healthy == ~errors /\ Fresh(need, moveAge)
           f == IF healthy /\ r = 2 /\ b = 2 THEN Capped(fast + 1, FastSamples) ELSE 0
           s == StableAfter(healthy /\ r >= 1, b)
<1>1. /\ fast \in 0 .. FastSamples /\ stable \in 0 .. StableSamples
      /\ FastSamples \in Nat /\ StableSamples \in Nat
      /\ r \in 0 .. 2 /\ b \in 0 .. 2
  BY Numbers DEF EvidenceInv, TypeOK, Ratios, Buffers
<1>2. f \in 0 .. FastSamples /\ f <= fast + 1 /\ (f > 0 => healthy /\ r = 2 /\ b = 2)
  BY <1>1 DEF Capped
<1>3. Held(stable) \in 0 .. StableSamples /\ Held(stable) <= stable
  BY <1>1 DEF Held
<1>4. s \in 0 .. StableSamples /\ s <= stable + 1 /\ (s > 0 => healthy /\ r >= 1 /\ b # 0)
  <2>1. CASE ~(healthy /\ r >= 1) \/ b = 0
    BY <1>1, <2>1 DEF StableAfter
  <2>2. CASE healthy /\ r >= 1 /\ b = 1
    <3>1. s = Held(stable)
      BY <2>2 DEF StableAfter
    <3> QED BY <3>1, <2>2, <1>1, <1>3
  <2>3. CASE healthy /\ r >= 1 /\ b = 2
    <3>1. s = Capped(Held(stable) + 1, StableSamples)
      BY <2>3 DEF StableAfter
    <3> QED BY <3>1, <2>3, <1>1, <1>3 DEF Capped
  <2> QED BY <2>1, <2>2, <2>3, <1>1
<1>5. healthy => transferAge <= MaxAge /\ ~need /\ moveAge <= MaxAge
  BY DEF Fresh
<1>6. needsMedia' = need /\ motionAge' = moveAge
  BY DEF Sample
<1>7. CASE Qualified(r, b, f, s, need, moveAge, 0)
  <2>1. fast' = 0 /\ stable' = 0
    BY <1>7 DEF Sample, Exit
  <2>2. b = 2 /\ Fresh(need, moveAge) /\ Path(r, f, s)
    BY <1>7 DEF Qualified
  <2>3. f >= FastSamples \/ s >= StableSamples
    BY <2>2 DEF Path
  <2>4. r # 0
    BY <2>2, <1>1 DEF Path
  <2>5. fast >= FastSamples - 1 \/ stable >= StableSamples - 1
    BY <2>3, <1>1, <1>2, <1>4
  <2>6. transferAge <= MaxAge /\ ~needsMedia' /\ motionAge' <= MaxAge
    BY <2>2, <1>6 DEF Fresh
  <2>7. /\ fast' \in 0 .. FastSamples /\ fast' <= fast + 1
        /\ stable' \in 0 .. StableSamples /\ stable' <= stable + 1
    BY <2>1, <1>1
  <2> QED BY <2>1, <2>2, <2>4, <2>5, <2>6, <2>7
<1>8. CASE ~Qualified(r, b, f, s, need, moveAge, 0)
  <2>1. fast' = f /\ stable' = s /\ weak' = weak
    BY <1>8 DEF Sample
  <2>2. r = 0 \/ b = 0 => f = 0 /\ s = 0
    BY <1>1, <1>2, <1>4
  <2> QED BY <2>1, <2>2, <1>1, <1>2, <1>4, <1>5, <1>6
<1> QED BY <1>7, <1>8

LEMMA SampleKeeps ==
    ASSUME EvidenceInv, NEW r \in Ratios, NEW b \in Buffers, Sample(r, b)
    PROVE  EvidenceInv'
<1>1. /\ weak /\ usable /\ sampleAge \in (1 .. MaxGap) \cup {Old}
      /\ sampleAge' = 0 /\ moved' = FALSE
      /\ motionAge' = IF moved THEN 0 ELSE motionAge
      /\ needsMedia' = (needsMedia /\ ~(news /\ moved))
      /\ low' = IF r = 0 \/ b = 0 THEN 0 ELSE low
      /\ UNCHANGED <<usable, errors, errorAge, transferAge, news, calm, played, arrived>>
  BY DEF Sample
<1>2. weak' \in BOOLEAN /\ holdAge' \in Ages /\ stallAge' \in Ages
  <2>1. weak \in BOOLEAN /\ holdAge \in Ages /\ stallAge \in Ages /\ 0 \in Ages /\ Old \in Ages
    BY Numbers DEF EvidenceInv, TypeOK, Ages
  <2> QED BY <2>1 DEF Sample, Exit
<1>3. /\ fast' \in 0 .. FastSamples /\ fast' <= fast + 1
      /\ stable' \in 0 .. StableSamples /\ stable' <= stable + 1
      /\ r = 0 \/ b = 0 => fast' = 0 /\ stable' = 0
      /\ fast' > 0 \/ stable' > 0
           => transferAge <= MaxAge /\ ~needsMedia' /\ motionAge' <= MaxAge
  BY SampleCounts
<1>4. TypeOK'
  <2>1. {needsMedia, moved, news} \subseteq BOOLEAN
    BY DEF EvidenceInv, TypeOK
  <2>2. {needsMedia', moved'} \subseteq BOOLEAN
    BY <1>1, <2>1
  <2>3. {motionAge', low', sampleAge'} \subseteq Ages
    BY <1>1, Numbers DEF EvidenceInv, TypeOK, Ages
  <2> QED BY <1>1, <1>2, <1>3, <2>2, <2>3 DEF EvidenceInv, TypeOK
<1>5. Sampled'
  BY <1>1, Numbers DEF Sampled
<1>6. ASSUME NEW age \in Ages
      PROVE  /\ Backed(fast, age) => Lasted(fast', 0, age)
             /\ Backed(stable, age) => Lasted(stable', 0, age)
  <2>1. /\ fast \in Nat /\ stable \in Nat /\ fast' \in Nat /\ stable' \in Nat
        /\ sampleAge \in Nat /\ fast' <= fast + 1 /\ stable' <= stable + 1
    BY <1>1, <1>3, Numbers DEF EvidenceInv, TypeOK, Ages
  <2>2. fast > 0 \/ stable > 0 => sampleAge >= 1
    BY <1>1, Numbers DEF EvidenceInv, Sampled
  <2> QED BY <2>1, <2>2, RunGrows DEF Backed
<1>7. Runs'
  <2>1. calm \in Ages /\ low \in Ages /\ calm' = calm
    BY <1>1 DEF EvidenceInv, TypeOK
  <2>2. Backed(fast, calm)' /\ Backed(stable, calm)'
    BY <1>1, <1>6, <2>1 DEF EvidenceInv, Runs, Backed
  <2>3. CASE r = 0 \/ b = 0
    BY <2>3, <1>3 DEF Runs, Backed, Lasted
  <2>4. CASE ~(r = 0 \/ b = 0)
    <3>1. low' = low
      BY <1>1, <2>4
    <3>2. Backed(fast, low)' /\ Backed(stable, low)'
      BY <1>1, <1>6, <2>1, <3>1 DEF EvidenceInv, Runs, Backed
    <3> QED BY <2>2, <3>2 DEF Runs
  <2> QED BY <2>3, <2>4
<1>8. Motion'
  <2> SUFFICES ASSUME ~played PROVE \A n \in {fast', stable'} : Backed(n, motionAge)'
    BY <1>1 DEF Motion, Backed
  <2>1. CASE sampleAge = Old
    <3>1. fast = 0 /\ stable = 0
      BY <2>1 DEF EvidenceInv, TypeOK, Sampled
    <3>2. fast' \in Nat /\ stable' \in Nat /\ fast' <= 1 /\ stable' <= 1
      BY <3>1, <1>3, Numbers
    <3>3. motionAge' \in Nat
      BY <1>4, Numbers DEF TypeOK, Ages
    <3>4. \A n, age \in Nat : n <= 1 => Lasted(n, 0, age)
      BY DEF Lasted
    <3> QED BY <3>2, <3>3, <3>4, <1>1 DEF Backed
  <2>2. CASE sampleAge # Old
    <3>1. motionAge' = motionAge
      BY <2>2, <1>1 DEF EvidenceInv, Motion
    <3>2. Backed(fast, motionAge) /\ Backed(stable, motionAge) /\ motionAge \in Ages
      BY DEF EvidenceInv, Motion, TypeOK
    <3>3. Backed(fast, motionAge)' /\ Backed(stable, motionAge)'
      BY <3>1, <3>2, <1>1, <1>6 DEF Backed
    <3> QED BY <3>3
  <2> QED BY <2>1, <2>2
<1>9. Media' /\ NoCreditFromBefore'
  BY <1>1, <1>3, Numbers DEF EvidenceInv, TypeOK, Media, NoCreditFromBefore, Ages
<1> QED BY <1>4, <1>5, <1>7, <1>8, <1>9 DEF EvidenceInv

-----------------------------------------------------------------------------
(* Time *)

LEMMA OlderAge ==
    ASSUME NEW age \in Ages
    PROVE  /\ Older(age) \in Ages /\ (age = Old => Older(age) = Old)
           /\ Older(age) = Old \/ Older(age) = age + 1
  BY Numbers DEF Ages, Older

LEMMA TickKeeps ==
    ASSUME EvidenceInv, Tick
    PROVE  EvidenceInv'
<1>1. sampleAge' \in Ages /\ sampleAge' <= sampleAge + 1 /\ (sampleAge' = Old <=> sampleAge = Old)
  BY Numbers DEF Tick, EvidenceInv, TypeOK, Ages, Older, Capped
<1>2. holdAge' \in Ages
  BY Numbers DEF Tick, EvidenceInv, TypeOK, Ages, Older, Capped
<1>3. /\ {errorAge', stallAge', transferAge', motionAge', calm', low'} \subseteq Ages
      /\ transferAge = Old => transferAge' = Old
  BY OlderAge DEF Tick, EvidenceInv, TypeOK
<1>4. TypeOK'
  BY <1>1, <1>2, <1>3 DEF Tick, EvidenceInv, TypeOK
<1>5. \A n \in Nat, age \in Ages : Backed(n, age) => Lasted(n, sampleAge', Older(age))
  BY <1>1, OlderAge, Numbers DEF Backed, Lasted, Ages, EvidenceInv, TypeOK
<1>6. fast \in Nat /\ stable \in Nat /\ {calm, low, motionAge} \subseteq Ages
  BY Numbers DEF EvidenceInv, TypeOK
<1>7. Runs'
  BY <1>5, <1>6 DEF Tick, EvidenceInv, Runs, Backed
<1>8. Motion'
  BY <1>1, <1>5, <1>6 DEF Tick, EvidenceInv, Motion, Backed
<1>9. Sampled' /\ Media' /\ NoCreditFromBefore'
  BY <1>1, <1>3 DEF Tick, EvidenceInv, Sampled, Media, NoCreditFromBefore
<1> QED BY <1>4, <1>7, <1>8, <1>9 DEF EvidenceInv

-----------------------------------------------------------------------------
(* The invariant *)

LEMMA NextEvidence == EvidenceInv /\ [Next]_vars => EvidenceInv'
<1> SUFFICES ASSUME EvidenceInv, [Next]_vars PROVE EvidenceInv'
  OBVIOUS
<1>0. 0 \in Ages /\ Old \in Ages
  BY Numbers DEF Ages
<1>1. CASE UNCHANGED vars
  BY <1>1 DEF vars, stampVars, historyVars, EvidenceInv, TypeOK, Sampled, Runs, Motion, Media,
              NoCreditFromBefore, Backed
<1>2. CASE Enter
  BY <1>2, <1>0, Numbers DEF Enter, historyVars, EvidenceInv, TypeOK, Sampled, Runs, Motion,
                             Media, NoCreditFromBefore, Backed, Lasted, Ages
<1>3. CASE Interrupt
  <2>1. Invalidate /\ {weak', usable', errors', moved'} \subseteq BOOLEAN
    BY <1>3 DEF Interrupt, EvidenceInv, TypeOK
  <2>2. {errorAge', stallAge', transferAge', motionAge', low'} \subseteq Ages
    BY <1>3 DEF Interrupt, EvidenceInv, TypeOK
  <2> QED BY <2>1, <2>2, InvalidateKeeps
<1>4. CASE NewSource
  <2>1. Invalidate /\ {weak', usable', errors', moved'} \subseteq BOOLEAN
    BY <1>4 DEF NewSource, EvidenceInv, TypeOK
  <2>2. {errorAge', stallAge', transferAge', motionAge', low'} \subseteq Ages
    BY <1>4, <1>0 DEF NewSource, EvidenceInv, TypeOK
  <2> QED BY <2>1, <2>2, InvalidateKeeps
<1>5. CASE SampleAfterGap
  <2>1. Invalidate /\ {weak', usable', errors', moved'} \subseteq BOOLEAN
    BY <1>5 DEF SampleAfterGap, EvidenceInv, TypeOK
  <2>2. {errorAge', stallAge', transferAge', motionAge', low'} \subseteq Ages
    BY <1>5 DEF SampleAfterGap, EvidenceInv, TypeOK
  <2> QED BY <2>1, <2>2, InvalidateKeeps
<1>6. CASE NetworkError
  BY <1>6, <1>0, Numbers DEF NetworkError, EvidenceInv, TypeOK, Sampled, Runs,
                             Motion, Media, NoCreditFromBefore, Backed, Lasted, Ages
<1>7. CASE NetworkStall
  BY <1>7, <1>0, Numbers DEF NetworkStall, EvidenceInv, TypeOK, Sampled, Runs, Motion, Media,
                             NoCreditFromBefore, Backed, Lasted, Ages
<1>8. CASE Transfer
  BY <1>8, <1>0, Numbers DEF Transfer, EvidenceInv, TypeOK, Sampled, Runs, Motion, Media,
                             NoCreditFromBefore, Backed, Lasted, Ages
<1>9. CASE Advance
  <2>1. TypeOK'
    BY <1>9 DEF Advance, stampVars, EvidenceInv, TypeOK
  <2>2. Motion'
    BY <1>9 DEF Advance, stampVars, EvidenceInv, Motion, Sampled, Backed
  <2> QED BY <1>9, <2>1, <2>2 DEF Advance, stampVars, EvidenceInv, Sampled, Runs, Media,
                                  NoCreditFromBefore, Backed
<1>10. CASE Tick
  BY <1>10, TickKeeps
<1>11. ASSUME NEW r \in Ratios, NEW b \in Buffers, Sample(r, b) PROVE EvidenceInv'
  BY <1>11, SampleKeeps
<1>12. ASSUME NEW r \in Ratios, NEW b \in Buffers, SafePointAsks(r, b) PROVE EvidenceInv'
  BY <1>12, ExitKeeps
<1> QED BY <1>1, <1>2, <1>3, <1>4, <1>5, <1>6, <1>7, <1>8, <1>9, <1>10, <1>11, <1>12 DEF Next

LEMMA EvidenceInvariant == Spec => []EvidenceInv
  BY InitEvidence, NextEvidence, PTL DEF Spec

\* The evidence keeps its types: in particular no count passes the number it is compared
\* with, and none goes below zero.
THEOREM EvidenceTypes == Spec => []TypeOK
<1>1. EvidenceInv => TypeOK
  BY DEF EvidenceInv
<1> QED BY <1>1, EvidenceInvariant, PTL

\* No sample counts before new media has arrived since the last pause, seek, outage or
\* gap, for every hold, gap and age.
THEOREM CreditIsNew == Spec => []NoCreditFromBefore
<1>1. EvidenceInv => NoCreditFromBefore
  BY DEF EvidenceInv
<1> QED BY <1>1, EvidenceInvariant, PTL

-----------------------------------------------------------------------------
(* The exit *)

\* What ExitIsEarned says of a step.
ExitEarned == weak /\ ~weak' => calm >= FastSamples - 1 /\ low >= FastSamples - 1 /\ played

\* A run that is long enough vouches for everything.
LEMMA LongRun ==
    ASSUME EvidenceInv, NEW n \in {fast, stable}, NEW more \in {0, 1},
           n + more >= FastSamples, sampleAge \in Ages, more <= sampleAge
    PROVE  /\ calm >= FastSamples - 1 /\ low >= FastSamples - 1
           /\ ~played => motionAge >= FastSamples - 1 /\ ~moved
<1>1. n > 0 /\ n \in Nat
  BY Numbers DEF EvidenceInv, TypeOK
<1>2. \A age \in Ages : Backed(n, age) => age >= FastSamples - 1
  BY <1>1, Numbers DEF Backed, Lasted, Ages
<1>3. Backed(n, calm) /\ Backed(n, low) /\ (~played => Backed(n, motionAge))
  BY DEF EvidenceInv, Runs, Motion
<1>4. sampleAge # Old
  BY <1>1 DEF EvidenceInv, Sampled
<1> QED BY <1>2, <1>3, <1>4 DEF EvidenceInv, TypeOK, Motion

LEMMA SampleEarns ==
    ASSUME EvidenceInv, NEW r \in Ratios, NEW b \in Buffers, Sample(r, b)
    PROVE  ExitEarned
<1> SUFFICES ASSUME weak, ~weak'
             PROVE  calm >= FastSamples - 1 /\ low >= FastSamples - 1 /\ played
  BY DEF ExitEarned
<1>1. motionAge' <= MaxAge /\ (fast >= FastSamples - 1 \/ stable >= StableSamples - 1)
  BY SampleCounts
<1>2. motionAge' = (IF moved THEN 0 ELSE motionAge) /\ 1 <= sampleAge /\ sampleAge \in Ages
  BY Numbers DEF Sample, EvidenceInv, TypeOK, Ages
<1>3. \E n \in {fast, stable} : n + 1 >= FastSamples
  BY <1>1, Numbers DEF EvidenceInv, TypeOK
<1>4. /\ calm >= FastSamples - 1 /\ low >= FastSamples - 1
      /\ ~played => motionAge >= FastSamples - 1 /\ ~moved
  BY <1>2, <1>3, LongRun
<1>5. ~played => FALSE
  BY <1>1, <1>2, <1>4, Numbers DEF EvidenceInv, TypeOK, Ages
<1> QED BY <1>4, <1>5

LEMMA SafePointEarns ==
    ASSUME EvidenceInv, NEW r \in Ratios, NEW b \in Buffers, SafePointAsks(r, b)
    PROVE  ExitEarned
<1>1. motionAge <= MaxAge /\ (fast >= FastSamples \/ stable >= StableSamples)
  BY DEF SafePointAsks, Qualified, Fresh, Path
<1>2. sampleAge \in Ages /\ 0 <= sampleAge
  BY DEF EvidenceInv, TypeOK, Ages
<1>3. \E n \in {fast, stable} : n + 0 >= FastSamples
  BY <1>1, Numbers DEF EvidenceInv, TypeOK
<1>4. /\ calm >= FastSamples - 1 /\ low >= FastSamples - 1
      /\ ~played => motionAge >= FastSamples - 1 /\ ~moved
  BY <1>2, <1>3, LongRun
<1>5. ~played => FALSE
  BY <1>1, <1>4, Numbers DEF EvidenceInv, TypeOK, Ages
<1> QED BY <1>4, <1>5 DEF ExitEarned

LEMMA NextEarns == EvidenceInv /\ [Next]_vars => ExitEarned
<1> SUFFICES ASSUME EvidenceInv, [Next]_vars PROVE ExitEarned
  OBVIOUS
<1>1. CASE weak' = weak \/ Enter
  BY <1>1 DEF ExitEarned, Enter
<1>2. ASSUME NEW r \in Ratios, NEW b \in Buffers, Sample(r, b) PROVE ExitEarned
  BY <1>2, SampleEarns
<1>3. ASSUME NEW r \in Ratios, NEW b \in Buffers, SafePointAsks(r, b) PROVE ExitEarned
  BY <1>3, SafePointEarns
<1> QED BY <1>1, <1>2, <1>3 DEF Next, Interrupt, NewSource, NetworkError, NetworkStall, Transfer,
                               Advance, Tick, SampleAfterGap, vars

\* The weak profile is left only after an undisturbed run of good samples in which
\* playback has advanced, for all sample counts and times the assumption allows.
THEOREM ExitsAreEarned == Spec => ExitIsEarned
<1>1. EvidenceInv /\ [Next]_vars =>
        [weak /\ ~weak' =>
           calm >= FastSamples - 1 /\ low >= FastSamples - 1 /\ played]_vars
  BY NextEarns DEF ExitEarned
<1> QED BY <1>1, EvidenceInvariant, PTL DEF Spec, ExitIsEarned

-----------------------------------------------------------------------------
(* StallEpisodes *)

\* In the normal profile an episode that is open has not been forgotten by the player.
EpisodeKnown == ~weakMode /\ episode # "none" => started

\* A confirmation that is due was armed when playing resumed, and ends with the lull.
ConfirmationRuns ==
    ~weakMode =>
      /\ timer # None => started /\ (halted \/ lull # None)
      /\ timer # None /\ lull # None => timer + lull = Confirm
      /\ lull # None /\ episode # "none" => timer # None

\* Settling takes longer than the confirmation, so it outlasts every episode.
SettledIsCalm ==
    /\ halted => near = 0 /\ lull = None
    /\ lull # None /\ near <= Confirm => near <= lull
    /\ ~weakMode /\ lull # None /\ near > Confirm => lull = Confirm /\ episode = "none"

\* A physical stall that was counted has its episode, until a lull ends both.
CountedHasEpisode ==
    /\ lull = Confirm => ~counted
    /\ ~weakMode /\ counted => episode \notin {"none", "healthy"}

\* No incident without a physical stall of its own.
IncidentsAreReal == ~weakMode => incidents \subseteq real

\* The two halves of the type invariant.
StallFlags ==
    /\ weakMode \in BOOLEAN /\ smooth \in BOOLEAN /\ warm \in BOOLEAN
    /\ halted \in BOOLEAN /\ started \in BOOLEAN /\ counted \in BOOLEAN

StallNumbers ==
    /\ episode \in {"none", "healthy", "network", "warmup", "deduplicated"}
    /\ lastStall \in 0 .. LongAgo
    /\ incidents \subseteq 0 .. Window /\ real \subseteq 0 .. Window
    /\ timer \in None .. Confirm /\ lull \in None .. Confirm
    /\ seekLeft \in 0 .. Suppress /\ near \in 0 .. Settle

StallsInv ==
    /\ StallFlags /\ StallNumbers /\ EpisodeKnown /\ ConfirmationRuns /\ SettledIsCalm
    /\ CountedHasEpisode /\ IncidentsAreReal

\* What the assumption says, one constant at a time.
Times ==
    /\ Dedup \in Nat /\ Window \in Nat /\ Confirm \in Nat /\ Settle \in Nat /\ Suppress \in Nat
    /\ 0 < Dedup /\ 0 < Window /\ 0 < Confirm /\ 0 < Settle /\ 0 < Suppress
    /\ Confirm < Settle /\ Dedup <= Window

LEMMA TimesAreNumbers == Times
  BY StallAssumption DEF Times

LEMMA StallTypeHalves == StallTypeOK <=> StallFlags /\ StallNumbers
  BY Zenon DEF StallTypeOK, StallFlags, StallNumbers

LEMMA InitStalls == StallInit => StallsInv
<1> SUFFICES ASSUME StallInit PROVE StallsInv
  OBVIOUS
<1> Times
  BY TimesAreNumbers
<1> USE DEF Times, StallInit, None, LongAgo
<1>0. StallFlags
  BY Zenon DEF StallFlags
<1>1. StallNumbers
  BY DEF StallNumbers
<1>2. EpisodeKnown /\ ConfirmationRuns /\ SettledIsCalm
  BY DEF EpisodeKnown, ConfirmationRuns, SettledIsCalm
<1>3. CountedHasEpisode /\ IncidentsAreReal
  BY DEF CountedHasEpisode, IncidentsAreReal
<1> QED BY <1>0, <1>1, <1>2, <1>3 DEF StallsInv

\* All steps but the stalls themselves and the passing of time.
LEMMA ElsewhereKeeps ==
    ASSUME StallsInv,
           \/ Playing \/ Halt \/ ConfirmTimer \/ EnterElse
           \/ Backtrack \/ LeaveWeak \/ HandOff \/ WarmUp
    PROVE  StallsInv'
<1> Times
  BY TimesAreNumbers
<1> USE DEF Times, StallsInv, None, LongAgo, episodeVars, pastVars
<1>1. CASE Playing
  <2> USE <1>1 DEF Playing
  <2>0. StallFlags'
    BY DEF StallFlags
  <2>1. StallNumbers'
    BY DEF StallNumbers
  <2>2. EpisodeKnown' /\ ConfirmationRuns'
    BY DEF StallFlags, StallNumbers, EpisodeKnown, ConfirmationRuns, SettledIsCalm
  <2>3. SettledIsCalm'
    BY DEF StallFlags, StallNumbers, SettledIsCalm
  <2>4. CountedHasEpisode' /\ IncidentsAreReal'
    BY DEF StallFlags, StallNumbers, CountedHasEpisode, IncidentsAreReal, SettledIsCalm,
           ConfirmationRuns
  <2> QED BY <2>0, <2>1, <2>2, <2>3, <2>4
<1>2. CASE Halt
  <2> USE <1>2 DEF Halt
  <2>0. StallFlags'
    BY DEF StallFlags
  <2>1. StallNumbers'
    BY DEF StallNumbers
  <2>2. EpisodeKnown' /\ ConfirmationRuns'
    BY DEF StallFlags, StallNumbers, EpisodeKnown, ConfirmationRuns, SettledIsCalm
  <2>3. SettledIsCalm'
    BY DEF StallFlags, StallNumbers, SettledIsCalm
  <2>4. CountedHasEpisode' /\ IncidentsAreReal'
    BY DEF StallFlags, StallNumbers, CountedHasEpisode, IncidentsAreReal, SettledIsCalm,
           ConfirmationRuns
  <2> QED BY <2>0, <2>1, <2>2, <2>3, <2>4
<1>3. CASE ConfirmTimer
  <2> USE <1>3 DEF ConfirmTimer
  <2>0. StallFlags'
    BY DEF StallFlags
  <2>1. StallNumbers'
    BY DEF StallNumbers
  <2>2. EpisodeKnown' /\ ConfirmationRuns'
    BY DEF StallFlags, StallNumbers, EpisodeKnown, ConfirmationRuns, SettledIsCalm
  <2>3. SettledIsCalm'
    BY DEF StallFlags, StallNumbers, SettledIsCalm
  <2>4. CountedHasEpisode' /\ IncidentsAreReal'
    BY DEF StallFlags, StallNumbers, CountedHasEpisode, IncidentsAreReal, SettledIsCalm,
           ConfirmationRuns
  <2> QED BY <2>0, <2>1, <2>2, <2>3, <2>4
<1>4. CASE EnterElse
  <2> USE <1>4 DEF EnterElse
  <2>0. StallFlags'
    BY DEF StallFlags
  <2>1. StallNumbers'
    BY DEF StallNumbers
  <2>2. EpisodeKnown' /\ ConfirmationRuns'
    BY DEF StallFlags, StallNumbers, EpisodeKnown, ConfirmationRuns, SettledIsCalm
  <2>3. SettledIsCalm'
    BY DEF StallFlags, StallNumbers, SettledIsCalm
  <2>4. CountedHasEpisode' /\ IncidentsAreReal'
    BY DEF StallFlags, StallNumbers, CountedHasEpisode, IncidentsAreReal, SettledIsCalm,
           ConfirmationRuns
  <2> QED BY <2>0, <2>1, <2>2, <2>3, <2>4
<1>5. CASE Backtrack
  <2> USE <1>5 DEF Backtrack
  <2>0. StallFlags'
    BY DEF StallFlags
  <2>1. StallNumbers'
    BY DEF StallNumbers
  <2>2. EpisodeKnown' /\ ConfirmationRuns'
    BY DEF StallFlags, StallNumbers, EpisodeKnown, ConfirmationRuns, SettledIsCalm
  <2>3. SettledIsCalm'
    BY DEF StallFlags, StallNumbers, SettledIsCalm
  <2>4. CountedHasEpisode' /\ IncidentsAreReal'
    BY DEF StallFlags, StallNumbers, CountedHasEpisode, IncidentsAreReal, SettledIsCalm,
           ConfirmationRuns
  <2> QED BY <2>0, <2>1, <2>2, <2>3, <2>4
<1>6. CASE LeaveWeak
  <2> USE <1>6 DEF LeaveWeak
  <2>0. StallFlags'
    BY DEF StallFlags
  <2>1. StallNumbers'
    BY DEF StallNumbers
  <2>2. EpisodeKnown' /\ ConfirmationRuns'
    BY DEF StallFlags, StallNumbers, EpisodeKnown, ConfirmationRuns, SettledIsCalm
  <2>3. SettledIsCalm'
    BY DEF StallFlags, StallNumbers, SettledIsCalm
  <2>4. CountedHasEpisode' /\ IncidentsAreReal'
    BY DEF StallFlags, StallNumbers, CountedHasEpisode, IncidentsAreReal, SettledIsCalm,
           ConfirmationRuns
  <2> QED BY <2>0, <2>1, <2>2, <2>3, <2>4
<1>7. CASE HandOff
  <2> USE <1>7 DEF HandOff, Settled
  <2>0. StallFlags'
    BY DEF StallFlags
  <2>1. StallNumbers'
    BY DEF StallNumbers
  <2>2. EpisodeKnown' /\ ConfirmationRuns'
    BY DEF StallFlags, StallNumbers, EpisodeKnown, ConfirmationRuns, SettledIsCalm
  <2>3. SettledIsCalm'
    BY DEF StallFlags, StallNumbers, SettledIsCalm
  <2>4. CountedHasEpisode' /\ IncidentsAreReal'
    BY DEF StallFlags, StallNumbers, CountedHasEpisode, IncidentsAreReal, SettledIsCalm,
           ConfirmationRuns
  <2> QED BY <2>0, <2>1, <2>2, <2>3, <2>4
<1>8. CASE WarmUp
  <2> USE <1>8 DEF WarmUp
  <2>0. StallFlags'
    BY DEF StallFlags
  <2>1. StallNumbers'
    BY DEF StallNumbers
  <2>2. EpisodeKnown' /\ ConfirmationRuns'
    BY DEF StallFlags, StallNumbers, EpisodeKnown, ConfirmationRuns, SettledIsCalm
  <2>3. SettledIsCalm'
    BY DEF StallFlags, StallNumbers, SettledIsCalm
  <2>4. CountedHasEpisode' /\ IncidentsAreReal'
    BY DEF StallFlags, StallNumbers, CountedHasEpisode, IncidentsAreReal, SettledIsCalm,
           ConfirmationRuns
  <2> QED BY <2>0, <2>1, <2>2, <2>3, <2>4
<1> QED BY <1>1, <1>2, <1>3, <1>4, <1>5, <1>6, <1>7, <1>8

LEMMA TickKeepsStalls ==
    ASSUME StallsInv, StallTick
    PROVE  StallsInv'
<1> Times
  BY TimesAreNumbers
<1> USE DEF Times, StallsInv, StallTick, None, LongAgo
<1>0. StallFlags'
  BY DEF StallFlags
<1>1. StallNumbers'
  BY DEF StallNumbers, Up, Aged
<1>2. EpisodeKnown' /\ ConfirmationRuns'
  BY DEF StallNumbers, Up, EpisodeKnown, ConfirmationRuns, SettledIsCalm
<1>3. SettledIsCalm'
  BY DEF StallNumbers, Up, ConfirmationRuns, SettledIsCalm
<1>4. CountedHasEpisode'
  BY DEF StallFlags, StallNumbers, CountedHasEpisode
<1>5. IncidentsAreReal'
  BY DEF Aged, IncidentsAreReal
<1> QED BY <1>0, <1>1, <1>2, <1>3, <1>4, <1>5

LEMMA StallKeeps ==
    ASSUME StallsInv, NEW halts \in BOOLEAN, NEW healthy \in BOOLEAN,
           Stall(halts, healthy)
    PROVE  StallsInv'
<1> Times
  BY TimesAreNumbers
<1> USE DEF Times, None, LongAgo
<1>0. /\ timer' = -1 /\ near' = 0 /\ lull' = -1 /\ seekLeft' = seekLeft
      /\ smooth' = smooth /\ warm' = warm /\ halted' \in BOOLEAN
  BY DEF Stall, TimerAfterStall, StallsInv, StallFlags
<1>1. CASE seekLeft > 0
  <2>0. UNCHANGED <<started, episode, lastStall, incidents, weakMode, counted, real>>
    BY <1>1 DEF Stall, episodeVars
  <2>1. StallFlags'
    BY <1>0, <2>0 DEF StallsInv, StallFlags
  <2>2. StallNumbers'
    BY <1>0, <2>0 DEF StallsInv, StallNumbers
  <2>3. EpisodeKnown' /\ ConfirmationRuns' /\ SettledIsCalm'
    BY <1>0, <2>0 DEF StallsInv, EpisodeKnown, ConfirmationRuns, SettledIsCalm
  <2>4. CountedHasEpisode' /\ IncidentsAreReal'
    BY <1>0, <2>0 DEF StallsInv, CountedHasEpisode, IncidentsAreReal
  <2> QED BY <2>1, <2>2, <2>3, <2>4 DEF StallsInv
<1>2. CASE ~(seekLeft > 0) /\ healthy
  <2>0. /\ started' = TRUE /\ UNCHANGED <<lastStall, incidents, weakMode, counted, real>>
        /\ episode' = IF episode # "none" THEN episode
                      ELSE IF Duplicate THEN "deduplicated" ELSE "healthy"
    BY <1>2 DEF Stall, RecordHealthy
  <2>1. StallFlags'
    BY <1>0, <2>0 DEF StallsInv, StallFlags
  <2>2. StallNumbers'
    BY <1>0, <2>0 DEF StallsInv, StallNumbers
  <2>3. EpisodeKnown' /\ ConfirmationRuns' /\ SettledIsCalm'
    BY <1>0, <2>0 DEF EpisodeKnown, ConfirmationRuns, SettledIsCalm
  <2>4. CountedHasEpisode' /\ IncidentsAreReal'
    BY <1>0, <2>0 DEF StallsInv, CountedHasEpisode, IncidentsAreReal
  <2> QED BY <2>1, <2>2, <2>3, <2>4 DEF StallsInv
<1>3. CASE ~(seekLeft > 0) /\ ~healthy
  <2>0. started' = TRUE /\ lastStall' = 0 /\ RecordNetwork
    BY <1>3 DEF Stall, RecordNetwork
  <2>1. StallFlags'
    BY <1>0, <2>0 DEF StallsInv, StallFlags, RecordNetwork
  <2>2. StallNumbers'
    <3>1. episode' \in {"none", "healthy", "network", "warmup", "deduplicated"}
      BY <2>0 DEF StallsInv, StallNumbers, RecordNetwork
    <3>2. incidents' \subseteq incidents \cup {0} /\ real' \subseteq real \cup {0}
      BY <2>0 DEF RecordNetwork
    <3> QED BY <1>0, <2>0, <3>1, <3>2 DEF StallsInv, StallNumbers
  <2>3. EpisodeKnown' /\ ConfirmationRuns' /\ SettledIsCalm'
    BY <1>0, <2>0 DEF EpisodeKnown, ConfirmationRuns, SettledIsCalm
  <2>4. CountedHasEpisode'
    BY <1>0, <2>0 DEF StallsInv, CountedHasEpisode, RecordNetwork, Duplicate,
                      Counts
  <2>5. IncidentsAreReal'
    BY <2>0 DEF StallsInv, IncidentsAreReal, CountedHasEpisode, RecordNetwork,
                Counts
  <2> QED BY <2>1, <2>2, <2>3, <2>4, <2>5 DEF StallsInv
<1> QED BY <1>1, <1>2, <1>3

LEMMA NextStalls ==
    StallsInv /\ [StallNext]_stallVars => StallsInv'
<1> SUFFICES ASSUME StallsInv, [StallNext]_stallVars PROVE StallsInv'
  OBVIOUS
<1>1. CASE StallNext
  BY <1>1, ElsewhereKeeps, TickKeepsStalls, StallKeeps DEF StallNext
<1>2. CASE UNCHANGED stallVars
  BY <1>2 DEF StallsInv, StallFlags, StallNumbers, EpisodeKnown, ConfirmationRuns,
     SettledIsCalm, CountedHasEpisode, IncidentsAreReal, stallVars, episodeVars, pastVars,
     None, LongAgo
<1> QED BY <1>1, <1>2

LEMMA StallsInvariant == StallSpec => []StallsInv
<1>1. StallInit => StallsInv BY InitStalls
<1>2. StallsInv /\ [StallNext]_stallVars => StallsInv' BY NextStalls
<1> QED BY <1>1, <1>2, PTL DEF StallSpec

\* Ages, timers and the kinds of episodes stay within their ranges, for any times in the
\* order of the code's.
THEOREM StallTypes == StallSpec => []StallTypeOK
<1>1. StallsInv => StallTypeOK
  BY StallTypeHalves DEF StallsInv
<1> QED BY <1>1, StallsInvariant, PTL

\* In the normal profile a sustained time of playing has ended the episode: no interleaving
\* of stalls, pulses of playing, pauses, catch-up and profile changes voids the confirmation.
THEOREM LullsEndEpisodes ==
    StallSpec => []LullEndsEpisode
<1>1. StallsInv => LullEndsEpisode
  BY TimesAreNumbers DEF Times, StallsInv, ConfirmationRuns, LullEndsEpisode, None
<1> QED BY <1>1, StallsInvariant, PTL

\* The step of EntryNeedsTwoStalls.
EntersByTwo == ~weakMode /\ weakMode' /\ incidents' # incidents => \E a, b \in real' : a # b

LEMMA NextEntersByTwo ==
    StallsInv /\ [StallNext]_stallVars => EntersByTwo
<1> SUFFICES ASSUME StallsInv, [StallNext]_stallVars,
                    ~weakMode, weakMode', incidents' # incidents
             PROVE  \E a, b \in real' : a # b
  BY DEF EntersByTwo
<1>1. PICK halts, healthy \in BOOLEAN : Stall(halts, healthy)
  BY DEF StallNext, stallVars, episodeVars, pastVars, Playing,
         Halt, ConfirmTimer, EnterElse, Backtrack, LeaveWeak,
         HandOff, WarmUp, StallTick
<1>2. /\ RecordNetwork /\ Counts /\ warm
      /\ incidents' = incidents \cup {0} /\ Confirmed(incidents')
  BY <1>1 DEF Stall, episodeVars, RecordHealthy, RecordNetwork
<1>3. ~counted
  BY <1>2 DEF StallsInv, StallFlags, StallNumbers, CountedHasEpisode, Counts
<1>4. incidents' \subseteq real'
  BY <1>2, <1>3 DEF StallsInv, IncidentsAreReal, RecordNetwork
<1> QED BY <1>2, <1>4 DEF Confirmed

\* Stalls enter the weak profile only after two physical ones within the window.
THEOREM EntriesAreEarned ==
    StallSpec => EntryNeedsTwoStalls
<1>1. StallsInv /\ [StallNext]_stallVars => [EntersByTwo]_stallVars
  BY NextEntersByTwo
<1> QED BY <1>1, StallsInvariant, PTL DEF StallSpec, EntryNeedsTwoStalls, EntersByTwo

-----------------------------------------------------------------------------
(* RttEvidence *)

\* Evidence that counts is a run of requests, the last one of which was the last request.
RunIsUnbroken ==
    class = "rtt" =>
      /\ improved <= streak
      /\ improved > 0 =>
           /\ requestAge = goodAge /\ reference.kind = kind
           /\ reference.scope = scope /\ reference.base # NoLevel
           /\ candidate.n = 0

\* What is being collected is the run of the last requests, within a profile for slow
\* requests, and validation begins when it is complete.
CollectedIsRun ==
    /\ class # "rtt" => candidate.n = 0
    /\ candidate.n > 0 =>
         /\ kind = "whole" /\ candidate.last = requestAge
         /\ candidate.n + candidate.valid <= streak
         /\ candidate.mean # NoLevel => candidate.n = Collect
         /\ candidate.mean = NoLevel => candidate.valid = 0

\* The parts of the type invariant.
Bases == {NoLevel} \cup Levels
Contexts == [n : 0 .. Learn, base : Bases, age : 0 .. RttOld]
References == [kind : Kinds, scope : Scopes, base : Bases]
Candidates == [n : 0 .. Collect, lo : Levels, hi : Levels, mean : Bases,
               valid : 0 .. Validate - 1, start : 0 .. MaxCandidate + 1,
               last : 0 .. RttOld]

Scalars ==
    /\ class \in {"no", "rtt", "loss"} /\ scope \in Scopes /\ kind \in Kinds
    /\ slow \in 0 .. Slow /\ requestAge \in 0 .. RttOld
    /\ improved \in 0 .. Requests /\ goodAge \in 0 .. RttOld
    /\ streak \in 0 .. Collect + Validate

Records ==
    /\ contexts \in [Kinds -> Contexts] /\ reference \in References
    /\ candidate \in Candidates

RttInv ==
    /\ Scalars /\ Records
    /\ ReferenceIsCurrent /\ RunIsUnbroken /\ CollectedIsRun

Orders ==
    /\ Cap \in Nat /\ Overheads \subseteq Nat
    /\ Learn \in Nat /\ Slow \in Nat /\ Requests \in Nat /\ Collect \in Nat /\ Validate \in Nat
    /\ Span \in Nat /\ RequestGap \in Nat /\ Budget \in Nat /\ MaxBaseline \in Nat
    /\ 0 < Learn /\ 0 < Slow /\ 0 < Requests /\ 0 < Collect /\ 0 < Validate
    /\ 0 < Budget /\ 0 < MaxBaseline /\ Budget < MaxBaseline
    /\ Requests <= Collect + Validate
    /\ MaxCandidate \in Nat

LEMMA OrdersHold == Orders
<1>1. /\ Budget \in Nat /\ Collect + Validate + 2 \in Nat
  BY RttAssumption
<1>2. \A a, b \in Nat : a * b \in Nat
  OBVIOUS
<1>3. MaxCandidate \in Nat
  BY <1>1, <1>2 DEF MaxCandidate
<1> QED BY <1>3, RttAssumption DEF Orders

LEMMA RttTypeParts == RttTypeOK <=> Scalars /\ Records
  BY Zenon DEF RttTypeOK, Scalars, Records, Bases, Contexts, References, Candidates

\* The records a step starts from.
LEMMA EmptyRecords ==
    ASSUME Orders
    PROVE  /\ Empty \in Contexts /\ NoReference \in References
           /\ NoCandidate \in Candidates
           /\ Empty.base = NoLevel /\ NoReference.base = NoLevel
           /\ NoCandidate.n = 0 /\ NoCandidate.mean = NoLevel
           /\ NoCandidate.valid = 0
  BY DEF Orders, Empty, NoReference, NoCandidate, Contexts, References, Candidates,
         Bases, Levels, Kinds, Scopes, RttOld

LEMMA InitRtt == RttInit => RttInv
<1> SUFFICES ASSUME RttInit PROVE RttInv
  OBVIOUS
<1>1. Orders
  BY OrdersHold
<1>2. Scalars
  BY <1>1 DEF RttInit, Scalars, Orders, Scopes, Kinds, RttOld
<1>3. Records
  BY <1>1, EmptyRecords DEF RttInit, Records
<1>4. ReferenceIsCurrent /\ RunIsUnbroken /\ CollectedIsRun
  BY <1>1, EmptyRecords DEF RttInit, ReferenceIsCurrent, RunIsUnbroken, CollectedIsRun
<1> QED BY <1>2, <1>3, <1>4 DEF RttInv

\* An age a tick later.
LEMMA UpStays ==
    ASSUME NEW most \in Nat, NEW n \in 0 .. most
    PROVE  /\ OneUp(n, most) \in 0 .. most /\ OneUp(n, most) >= n
           /\ n < most => OneUp(n, most) = n + 1
           /\ n = most => OneUp(n, most) = most
  BY DEF OneUp

LEMMA TickKeepsRtt ==
    ASSUME Orders, RttInv, RttTick PROVE RttInv'
<1> USE DEF Orders
<1>0. RttOld \in Nat
  BY DEF RttOld
<1>1. /\ UNCHANGED <<class, scope, kind, slow, reference, improved, streak>>
      /\ requestAge' = OneUp(requestAge, RttOld) /\ goodAge' = OneUp(goodAge, RttOld)
  BY DEF RttTick
<1>2. requestAge' \in 0 .. RttOld /\ goodAge' \in 0 .. RttOld
  BY <1>0, <1>1, UpStays DEF RttInv, Scalars
<1>3. Scalars'
  BY <1>1, <1>2 DEF RttInv, Scalars, RttOld, Scopes, Kinds
<1>4. /\ contexts' \in [Kinds -> Contexts]
      /\ \A k \in Kinds : contexts'[k].base = contexts[k].base
  <2>1. ASSUME NEW k \in Kinds
        PROVE  /\ [contexts[k] EXCEPT !.age = OneUp(@, RttOld)] \in Contexts
               /\ [contexts[k] EXCEPT !.age = OneUp(@, RttOld)].base = contexts[k].base
    BY <1>0, UpStays DEF RttInv, Records, Contexts
  <2>2. contexts' = [k \in Kinds |->
                       IF contexts[k].n = 0 THEN contexts[k]
                       ELSE [contexts[k] EXCEPT !.age = OneUp(@, RttOld)]]
    BY DEF RttTick
  <2>3. \A k \in Kinds : contexts[k] \in Contexts
    BY DEF RttInv, Records
  <2> QED BY <2>1, <2>2, <2>3
<1>5. /\ candidate' \in Candidates
      /\ candidate'.n = candidate.n /\ candidate'.valid = candidate.valid
      /\ candidate'.mean = candidate.mean
      /\ candidate.n > 0 => candidate'.last = OneUp(candidate.last, RttOld)
  <2>1. CASE candidate.n = 0
    BY <2>1 DEF RttTick, RttInv, Records
  <2>2. CASE candidate.n # 0
    <3>1. candidate' = [candidate EXCEPT !.start = OneUp(@, MaxCandidate + 1),
                                         !.last = OneUp(@, RttOld)]
      BY <2>2 DEF RttTick
    <3>2. /\ OneUp(candidate.start, MaxCandidate + 1) \in 0 .. MaxCandidate + 1
          /\ OneUp(candidate.last, RttOld) \in 0 .. RttOld
      BY <1>0, UpStays DEF RttInv, Records, Candidates
    <3> QED BY <3>1, <3>2 DEF RttInv, Records, Candidates
  <2> QED BY <2>1, <2>2
<1>6. Records'
  <2>1. reference' \in References
    BY <1>1 DEF RttInv, Records
  <2>2. contexts' \in [Kinds -> Contexts] /\ candidate' \in Candidates
    BY <1>4, <1>5
  <2> QED BY <2>1, <2>2 DEF Records, Contexts, References, Candidates, Bases
<1>7. ReferenceIsCurrent'
  BY <1>1, <1>4 DEF RttInv, Records, References, ReferenceIsCurrent
<1>8. RunIsUnbroken'
  BY <1>1, <1>5 DEF RttInv, RunIsUnbroken
<1>9. CollectedIsRun'
  BY <1>1, <1>5 DEF RttInv, CollectedIsRun, Records, Candidates
<1> QED BY <1>3, <1>6, <1>7, <1>8, <1>9 DEF RttInv

\* An entry takes the baseline of the present scope for its reference.
LEMMA EntryRefers ==
    ASSUME Orders, NEW to \in {"rtt", "loss"}, NEW known \in [Kinds -> Contexts],
           NEW k \in Kinds, NEW at \in Scopes, EnterWeak(to, known, k, at)
    PROVE  /\ class' = to /\ improved' = 0 /\ goodAge' = RttOld
           /\ reference' \in References /\ reference'.scope = at
           /\ reference'.base = known[reference'.kind].base
  BY DEF EnterWeak, References, Contexts, Kinds

LEMMA InterruptKeeps ==
    ASSUME Orders, RttInv, NEW sampled \in BOOLEAN, RttInterrupt(sampled) PROVE RttInv'
<1> USE EmptyRecords DEF RttInterrupt, Orders
<1>1. Scalars'
  BY DEF RttInv, Scalars, RttOld, Scopes, Kinds
<1>2. Records'
  BY DEF RttInv, Records, Bases, Contexts, References, Candidates
<1>3. ReferenceIsCurrent' /\ RunIsUnbroken' /\ CollectedIsRun'
  BY DEF RttInv, ReferenceIsCurrent, RunIsUnbroken, CollectedIsRun
<1> QED BY <1>1, <1>2, <1>3 DEF RttInv

LEMMA NewSourceKeeps == ASSUME Orders, RttInv, RttNewSource PROVE RttInv'
<1> USE EmptyRecords DEF RttNewSource, Orders
<1>1. Scalars'
  BY DEF RttInv, Scalars, RttOld, Scopes, Kinds
<1>2. Records'
  BY DEF RttInv, Records, Bases, Contexts, References, Candidates
<1>3. ReferenceIsCurrent' /\ RunIsUnbroken' /\ CollectedIsRun'
  BY DEF RttInv, ReferenceIsCurrent, RunIsUnbroken, CollectedIsRun
<1> QED BY <1>1, <1>2, <1>3 DEF RttInv

LEMMA NetworkErrorKeeps ==
    ASSUME Orders, RttInv, NEW fatal \in BOOLEAN, RttNetworkError(fatal) PROVE RttInv'
<1> USE EmptyRecords DEF Orders
<1>0. /\ slow' = 0 /\ candidate' = NoCandidate
      /\ UNCHANGED <<scope, kind, contexts, requestAge, streak>>
  BY DEF RttNetworkError
<1>1. CASE fatal /\ class # "loss"
  <2>1. /\ class' = "loss" /\ improved' = 0 /\ goodAge' = RttOld
        /\ reference' \in References /\ reference'.scope = scope
        /\ reference'.base = contexts[reference'.kind].base
    BY <1>1, EntryRefers DEF RttNetworkError, RttInv, Scalars, Records
  <2>2. Scalars'
    BY <1>0, <2>1 DEF RttInv, Scalars, RttOld, Scopes, Kinds
  <2>3. Records'
    BY <1>0, <2>1 DEF RttInv, Records, Bases, Contexts, References, Candidates
  <2>4. ReferenceIsCurrent' /\ RunIsUnbroken' /\ CollectedIsRun'
    BY <1>0, <2>1 DEF ReferenceIsCurrent, RunIsUnbroken, CollectedIsRun
  <2> QED BY <2>2, <2>3, <2>4 DEF RttInv
<1>2. CASE ~(fatal /\ class # "loss")
  <2>1. UNCHANGED <<class, reference, improved, goodAge>>
    BY <1>2 DEF RttNetworkError
  <2>2. Scalars'
    BY <1>0, <2>1 DEF RttInv, Scalars, RttOld, Scopes, Kinds
  <2>3. Records'
    BY <1>0, <2>1 DEF RttInv, Records, Bases, Contexts, References, Candidates
  <2>4. ReferenceIsCurrent' /\ RunIsUnbroken' /\ CollectedIsRun'
    BY <1>0, <2>1 DEF RttInv, ReferenceIsCurrent, RunIsUnbroken, CollectedIsRun
  <2> QED BY <2>2, <2>3, <2>4 DEF RttInv
<1> QED BY <1>1, <1>2

LEMMA EnterLossKeeps == ASSUME Orders, RttInv, EnterLoss PROVE RttInv'
<1> USE DEF Orders
<1>1. /\ class = "no" /\ class' = "loss" /\ improved' = 0 /\ goodAge' = RttOld
      /\ reference' \in References /\ reference'.scope = scope
      /\ reference'.base = contexts[reference'.kind].base
      /\ UNCHANGED <<scope, kind, contexts, slow, requestAge, candidate, streak>>
  BY EntryRefers DEF EnterLoss, RttInv, Scalars, Records
<1>2. Scalars'
  BY <1>1 DEF RttInv, Scalars, RttOld, Scopes, Kinds
<1>3. Records'
  BY <1>1 DEF RttInv, Records, Bases, Contexts, References, Candidates
<1>4. ReferenceIsCurrent' /\ RunIsUnbroken' /\ CollectedIsRun'
  BY <1>1 DEF RttInv, ReferenceIsCurrent, RunIsUnbroken, CollectedIsRun
<1> QED BY <1>2, <1>3, <1>4 DEF RttInv

\* An exit of a profile for slow requests leaves nothing collected behind.
LEMMA ExitKeepsRtt == ASSUME Orders, RttInv, RttExit PROVE RttInv'
<1> USE DEF Orders, RttExit, evidenceVars
<1>1. Scalars'
  BY DEF RttInv, Scalars, RttOld, Scopes, Kinds
<1>2. Records'
  BY DEF RttInv, Records, Bases, Contexts, References, Candidates
<1>3. ReferenceIsCurrent' /\ RunIsUnbroken'
  BY DEF ReferenceIsCurrent, RunIsUnbroken
<1>4. candidate.n = 0
  BY DEF RttInv, RunIsUnbroken, CollectedIsRun, Earned
<1>5. CollectedIsRun'
  BY <1>4 DEF CollectedIsRun
<1> QED BY <1>1, <1>2, <1>3, <1>5 DEF RttInv

-----------------------------------------------------------------------------
(* A request *)

\* What is known of a kind of request, once a new scope or age has been seen.
InScope(at) == IF at = scope THEN contexts ELSE [x \in Kinds |-> Empty]
IsStale(k, at) == Stale(InScope(at)[k])
Known(k, at) == IF IsStale(k, at) THEN [InScope(at) EXCEPT ![k] = Empty] ELSE InScope(at)
IsKept(k, at) == Kept(k, at, IsStale(k, at))
IsComparable(k, at) ==
    IsKept(k, at) /\ reference.base # NoLevel /\ reference.kind = k /\ reference.scope = at

LEMMA KnownContexts ==
    ASSUME Orders, RttInv, NEW k \in Kinds, NEW at \in Scopes
    PROVE  /\ Known(k, at) \in [Kinds -> Contexts]
           /\ IsKept(k, at) => /\ at = scope
                               /\ Known(k, at)[reference.kind] = contexts[reference.kind]
<1>1. InScope(at) \in [Kinds -> Contexts]
  BY EmptyRecords DEF RttInv, Records, InScope
<1>2. Known(k, at) \in [Kinds -> Contexts]
  BY <1>1, EmptyRecords DEF Known
<1>3. ASSUME IsKept(k, at)
      PROVE  at = scope /\ Known(k, at)[reference.kind] = contexts[reference.kind]
  <2>1. at = scope /\ ~(IsStale(k, at) /\ reference.kind = k) /\ InScope(at) = contexts
    BY <1>3 DEF IsKept, Kept, InScope
  <2>2. reference.kind \in Kinds
    BY DEF RttInv, Records, References
  <2> QED BY <1>1, <2>1, <2>2 DEF Known
<1> QED BY <1>2, <1>3

\* The parts of a request that its cases share.
LEMMA SampleParts ==
    ASSUME NEW k, NEW at, NEW level, NEW headroom, NEW apt,
           SampleRequest(k, at, level, headroom, apt)
    PROVE  /\ scope' = at /\ kind' = k /\ requestAge' = 0
           /\ class = "no" =>
                /\ Classify(k, at, Known(k, at), IsKept(k, at), level, headroom, apt)
                /\ candidate' = IF at = scope THEN candidate ELSE NoCandidate
           /\ class # "no" => slow' = 0 /\ UNCHANGED class
           /\ class # "no" /\ IsComparable(k, at) =>
                Compare(k, at, Known(k, at), level, headroom)
           /\ class = "rtt" /\ ~IsComparable(k, at) =>
                Requalify(k, at, Known(k, at), IsKept(k, at),
                              at = scope /\ ~IsStale(k, at), level, headroom, apt)
           /\ class \notin {"no", "rtt"} /\ ~IsComparable(k, at) =>
                /\ contexts' = Known(k, at) /\ Keep(IsKept(k, at)) /\ streak' = 0
                /\ candidate' = IF at = scope THEN candidate ELSE NoCandidate
  BY DEF SampleRequest, KnownIn, InScope, IsStale, Known, IsKept, IsComparable

\* What the history says after a request.
LEMMA RunGrowsBy ==
    ASSUME Orders, RttInv, NEW k \in Kinds, NEW at \in Scopes, NEW good \in BOOLEAN
    PROVE  /\ Run(k, at, good) \in 0 .. Collect + Validate
           /\ good => Run(k, at, good) >= 1
           /\ good /\ k = kind /\ at = scope /\ requestAge <= Budget =>
                Run(k, at, good) = OneUp(streak, Collect + Validate)
  BY UpStays DEF Orders, RttInv, Scalars, Run

Longer(k, at) == Run(k, at, TRUE)

LEMMA GoodRunGrows ==
    ASSUME Orders, RttInv, NEW k \in Kinds, NEW at \in Scopes
    PROVE  /\ Longer(k, at) \in 0 .. Collect + Validate
           /\ Longer(k, at) >= 1
           /\ k = kind /\ at = scope /\ requestAge <= Budget =>
                Longer(k, at) = OneUp(streak, Collect + Validate)
  BY UpStays DEF Orders, RttInv, Scalars, Run, Longer

\* What goes with the reference.
LEMMA KeepKeeps ==
    ASSUME Orders, RttInv, NEW kept \in BOOLEAN, Keep(kept)
    PROVE  /\ reference' = IF kept THEN reference ELSE NoReference
           /\ reference' \in References
           /\ improved' \in 0 .. Requests /\ goodAge' \in 0 .. RttOld
  BY EmptyRecords DEF Keep, RttInv, Scalars, Records, Orders, RttOld

\* In the normal profile.
LEMMA ClassifyKeeps ==
    ASSUME Orders, RttInv, NEW k \in Kinds, NEW at \in Scopes, NEW level \in Overheads,
           NEW headroom \in BOOLEAN, NEW apt \in BOOLEAN, class = "no",
           SampleRequest(k, at, level, headroom, apt)
    PROVE  RttInv'
<1> USE DEF Orders
<1> DEFINE up == Elevated(level, Known(k, at)[k].base)
<1>0. /\ scope' = at /\ kind' = k /\ requestAge' = 0
      /\ Classify(k, at, Known(k, at), IsKept(k, at), level, headroom, apt)
      /\ candidate' = IF at = scope THEN candidate ELSE NoCandidate
  BY SampleParts
<1>1. Known(k, at) \in [Kinds -> Contexts]
  BY KnownContexts
<1>2. slow' \in 0 .. Slow /\ (slow' = Slow => up /\ headroom /\ apt)
  BY <1>0, UpStays DEF Classify, RttInv, Scalars
<1>3. contexts' \in [Kinds -> Contexts]
  <2>1. PICK mean \in Levels :
          contexts' = IF up \/ ~headroom \/ ~apt THEN Known(k, at)
                      ELSE [Known(k, at) EXCEPT ![k] =
                              [n |-> OneUp(@.n, Learn), age |-> 0,
                               base |-> IF @.n + 1 < Learn THEN @.base ELSE mean]]
    BY <1>0 DEF Classify
  <2>2. Known(k, at)[k] \in Contexts
    BY <1>1
  <2>3. [n |-> OneUp(Known(k, at)[k].n, Learn), age |-> 0,
         base |-> IF Known(k, at)[k].n + 1 < Learn THEN Known(k, at)[k].base ELSE mean]
          \in Contexts
    BY <2>2, UpStays DEF Contexts, Bases, RttOld
  <2> QED BY <1>1, <2>1, <2>3
<1>4. slow' = Slow => contexts' = Known(k, at)
  BY <1>0, <1>2 DEF Classify
<1>5. /\ reference' \in References /\ improved' \in 0 .. Requests /\ goodAge' \in 0 .. RttOld
      /\ class' \in {"no", "rtt"}
      /\ class' = "rtt" =>
           /\ improved' = 0 /\ reference'.scope = at
           /\ reference'.base = contexts'[reference'.kind].base
  <2>1. CASE slow' = Slow
    <3>1. EnterWeak("rtt", Known(k, at), k, at)
      BY <1>0, <2>1 DEF Classify
    <3> QED BY <1>1, <1>4, <2>1, <3>1, EntryRefers DEF RttOld
  <2>2. CASE slow' # Slow
    <3>1. Keep(IsKept(k, at)) /\ class' = class
      BY <1>0, <2>2 DEF Classify
    <3>2. IsKept(k, at) \in BOOLEAN
      BY DEF IsKept, Kept
    <3> QED BY <3>1, <3>2, KeepKeeps
  <2> QED BY <2>1, <2>2
<1>6. streak' = streak
  BY <1>0 DEF Classify
<1>7. candidate' \in Candidates /\ candidate'.n = 0
  BY <1>0, EmptyRecords DEF RttInv, Records, CollectedIsRun
<1>8. Scalars'
  BY <1>0, <1>2, <1>5, <1>6 DEF RttInv, Scalars, RttOld, Scopes, Kinds
<1>9. Records'
  BY <1>3, <1>5, <1>7 DEF Records, Bases, Contexts, References, Candidates
<1>10. ReferenceIsCurrent'
  BY <1>0, <1>5 DEF ReferenceIsCurrent
<1>11. RunIsUnbroken' /\ CollectedIsRun'
  BY <1>5, <1>6, <1>7 DEF RunIsUnbroken, CollectedIsRun, RttInv, Scalars
<1> QED BY <1>8, <1>9, <1>10, <1>11 DEF RttInv

\* In a weak profile, with a request of the reference's kind and scope.
LEMMA CompareKeeps ==
    ASSUME Orders, RttInv, NEW k \in Kinds, NEW at \in Scopes, NEW level \in Overheads,
           NEW headroom \in BOOLEAN, NEW apt \in BOOLEAN, class # "no", IsComparable(k, at),
           SampleRequest(k, at, level, headroom, apt)
    PROVE  RttInv' /\ reference' = reference
<1> USE DEF Orders
<1> DEFINE good == headroom /\ Near(level, reference.base)
<1>0. /\ scope' = at /\ kind' = k /\ requestAge' = 0 /\ slow' = 0 /\ class' = class
      /\ improved' = IF ~good THEN 0
                     ELSE IF Continues THEN OneUp(improved, Requests) ELSE 1
      /\ goodAge' = IF good THEN 0 ELSE RttOld
      /\ contexts' = [Known(k, at) EXCEPT ![k] = Refreshed(@, good)]
      /\ candidate' = NoCandidate /\ streak' = Run(k, at, good)
      /\ reference' = reference
  BY SampleParts DEF Compare
<1>1. /\ at = scope /\ reference.kind = k /\ reference.scope = at /\ reference.base # NoLevel
      /\ Known(k, at) \in [Kinds -> Contexts]
      /\ Known(k, at)[k] = contexts[k]
  BY KnownContexts DEF IsComparable
<1>2. good \in BOOLEAN
  BY DEF Near
<1> HIDE DEF good
<1>3. /\ contexts' \in [Kinds -> Contexts] /\ contexts'[k].base = contexts[k].base
  <2>1. /\ Refreshed(contexts[k], good) \in Contexts
        /\ Refreshed(contexts[k], good).base = contexts[k].base
    BY <1>1 DEF Refreshed, Contexts, RttOld
  <2> QED BY <1>0, <1>1, <2>1
<1>4. improved' \in 0 .. Requests
  BY <1>0, UpStays DEF RttInv, Scalars
<1>5. Scalars'
  <2>1. streak' \in 0 .. Collect + Validate
    BY <1>0, <1>2, RunGrowsBy
  <2> QED BY <1>0, <1>4, <2>1 DEF RttInv, Scalars, RttOld, Scopes, Kinds
<1>6. Records'
  BY <1>0, <1>3, EmptyRecords DEF RttInv, Records, Bases, Contexts, References, Candidates
<1>7. ReferenceIsCurrent'
  BY <1>0, <1>1, <1>3 DEF RttInv, ReferenceIsCurrent
<1>8. class = "rtt" => improved' <= streak'
  <2> SUFFICES ASSUME class = "rtt" PROVE improved' <= streak'
    OBVIOUS
  <2>1. CASE ~good
    BY <1>0, <1>2, <2>1, RunGrowsBy
  <2>2. CASE good /\ (~Continues \/ improved = 0)
    <3>1. streak' >= 1
      BY <1>0, <1>2, <2>2, RunGrowsBy
    <3>2. improved' = 1
      BY <1>0, <2>2 DEF OneUp
    <3>3. streak' \in Nat
      BY <1>5 DEF Scalars
    <3> QED BY <3>1, <3>2, <3>3
  <2>3. CASE good /\ Continues /\ improved # 0
    <3>1. /\ improved <= streak /\ requestAge = goodAge /\ kind = k
          /\ improved \in 0 .. Requests /\ streak \in 0 .. Collect + Validate
      BY <1>1, <2>3 DEF RttInv, RunIsUnbroken, Scalars
    <3>2. streak' = OneUp(streak, Collect + Validate)
      BY <1>0, <1>1, <1>2, <2>3, <3>1, RunGrowsBy DEF Continues
    <3>3. improved' = OneUp(improved, Requests)
      BY <1>0, <2>3
    <3> QED BY <3>1, <3>2, <3>3 DEF OneUp
  <2> QED BY <2>1, <2>2, <2>3
<1>9. RunIsUnbroken' /\ CollectedIsRun'
  BY <1>0, <1>1, <1>8, EmptyRecords DEF RunIsUnbroken, CollectedIsRun
<1> QED BY <1>0, <1>5, <1>6, <1>7, <1>9 DEF RttInv

\* In a profile of another class, where there is nothing to compare with.
LEMMA LossKeeps ==
    ASSUME Orders, RttInv, NEW k \in Kinds, NEW at \in Scopes, NEW level \in Overheads,
           NEW headroom \in BOOLEAN, NEW apt \in BOOLEAN, class = "loss", ~IsComparable(k, at),
           SampleRequest(k, at, level, headroom, apt)
    PROVE  RttInv'
<1> USE DEF Orders
<1>0. /\ scope' = at /\ kind' = k /\ requestAge' = 0 /\ slow' = 0 /\ class' = class
      /\ contexts' = Known(k, at) /\ Keep(IsKept(k, at)) /\ streak' = 0
      /\ candidate' = IF at = scope THEN candidate ELSE NoCandidate
  BY SampleParts
<1>1. IsKept(k, at) \in BOOLEAN
  BY DEF IsKept, Kept
<1>2. /\ reference' = IF IsKept(k, at) THEN reference ELSE NoReference
      /\ reference' \in References
      /\ improved' \in 0 .. Requests /\ goodAge' \in 0 .. RttOld
  BY <1>0, <1>1, KeepKeeps
<1>3. Scalars'
  BY <1>0, <1>2 DEF RttInv, Scalars, RttOld, Scopes, Kinds
<1>4. candidate' \in Candidates /\ candidate'.n = 0
  BY <1>0, EmptyRecords DEF RttInv, Records, CollectedIsRun
<1>5. Records'
  BY <1>0, <1>2, <1>4, KnownContexts DEF Records, Bases, Contexts, References, Candidates
<1>6. ReferenceIsCurrent'
  BY <1>0, <1>2, KnownContexts, EmptyRecords DEF RttInv, ReferenceIsCurrent
<1>7. RunIsUnbroken' /\ CollectedIsRun'
  BY <1>0, <1>4 DEF RunIsUnbroken, CollectedIsRun
<1> QED BY <1>3, <1>5, <1>6, <1>7 DEF RttInv

\* What a request in a profile for slow requests goes on collecting.
Taken(k, at) ==
    IF at = scope /\ ~IsStale(k, at) /\ Continued THEN candidate ELSE NoCandidate

\* A request that is good enough makes the run as long as what it adds to.
LEMMA TakenIsRun ==
    ASSUME Orders, RttInv, NEW k \in Kinds, NEW at \in Scopes, class = "rtt"
    PROVE  /\ Taken(k, at) \in Candidates
           /\ Taken(k, at).mean # NoLevel => Taken(k, at).n = Collect
           /\ Taken(k, at).mean = NoLevel => Taken(k, at).valid = 0
           /\ k = "whole" =>
                Taken(k, at).n + Taken(k, at).valid + 1 <= Longer(k, at)
<1> USE DEF Orders
<1>1. CASE Taken(k, at) = NoCandidate
  <2>1. /\ Taken(k, at) \in Candidates /\ Taken(k, at).n = 0
        /\ Taken(k, at).mean = NoLevel /\ Taken(k, at).valid = 0
    BY <1>1, EmptyRecords
  <2> QED BY <2>1, GoodRunGrows
<1>2. CASE Taken(k, at) # NoCandidate
  <2>1. /\ Taken(k, at) = candidate /\ at = scope
        /\ candidate.n > 0 /\ candidate.last <= Budget
    BY <1>2 DEF Taken, Continued
  <2>2. /\ kind = "whole" /\ candidate.last = requestAge
        /\ candidate.n + candidate.valid <= streak
        /\ candidate.mean # NoLevel => candidate.n = Collect
        /\ candidate.mean = NoLevel => candidate.valid = 0
    BY <2>1 DEF RttInv, CollectedIsRun
  <2>3. /\ candidate \in Candidates /\ candidate.n \in 0 .. Collect
        /\ candidate.valid \in 0 .. Validate - 1 /\ streak \in 0 .. Collect + Validate
    BY DEF RttInv, Records, Scalars, Candidates
  <2>4. k = "whole" => candidate.n + candidate.valid + 1 <= Longer(k, at)
    <3> SUFFICES ASSUME k = "whole"
                 PROVE  candidate.n + candidate.valid + 1 <= Longer(k, at)
      OBVIOUS
    <3>1. Longer(k, at) = OneUp(streak, Collect + Validate)
      BY <2>1, <2>2, GoodRunGrows
    <3> QED BY <2>2, <2>3, <3>1 DEF OneUp
  <2> QED BY <2>1, <2>2, <2>3, <2>4
<1> QED BY <1>1, <1>2

\* The record of a candidate with one request more.
LEMMA CollectedRecord ==
    ASSUME Orders, NEW c \in Candidates, c.mean = NoLevel, NEW level \in Levels,
           NEW more \in Collected(c, level)
    PROVE  /\ more \in Candidates /\ more.last = 0 /\ more.valid = c.valid
           /\ more.n = OneUp(c.n, Collect) /\ more.n > 0
           /\ more.mean # NoLevel => more.n = Collect
<1> USE DEF Orders
<1> DEFINE n == OneUp(c.n, Collect)
           lo == IF level < c.lo THEN level ELSE c.lo
           hi == IF level > c.hi THEN level ELSE c.hi
<1>1. PICK mean \in IF n = Collect /\ c.start >= Span THEN lo .. hi ELSE {NoLevel} :
        more = [c EXCEPT !.n = n, !.lo = lo, !.hi = hi, !.last = 0, !.mean = mean]
  BY DEF Collected
<1>2. /\ c.n \in 0 .. Collect /\ c.lo \in 0 .. Cap /\ c.hi \in 0 .. Cap /\ level \in 0 .. Cap
  BY DEF Candidates, Levels
<1>3. n \in 0 .. Collect /\ n > 0 /\ lo \in 0 .. Cap /\ hi \in 0 .. Cap
  BY <1>2 DEF OneUp
<1>4. mean \in Bases /\ (mean # NoLevel => n = Collect)
  <2>1. CASE n = Collect /\ c.start >= Span
    <3>1. mean \in 0 .. Cap
      BY <1>1, <1>3, <2>1
    <3> QED BY <2>1, <3>1 DEF Bases, Levels
  <2>2. CASE ~(n = Collect /\ c.start >= Span)
    BY <1>1, <2>2 DEF Bases
  <2> QED BY <2>1, <2>2
<1> HIDE DEF n, lo, hi
<1>5. /\ more.last = 0 /\ more.valid = c.valid /\ more.n = n /\ more.mean = mean
  BY <1>1 DEF Candidates
<1>6. more \in Candidates
  <2>1. lo \in Levels /\ hi \in Levels /\ 0 \in 0 .. RttOld
    BY <1>3 DEF Levels, RttOld
  <2> QED BY <1>1, <1>3, <1>4, <2>1 DEF Candidates
<1> QED BY <1>3, <1>4, <1>5, <1>6 DEF n

LEMMA RequalifyKeeps ==
    ASSUME Orders, RttInv, NEW k \in Kinds, NEW at \in Scopes, NEW level \in Overheads,
           NEW headroom \in BOOLEAN, NEW apt \in BOOLEAN, class = "rtt", ~IsComparable(k, at),
           SampleRequest(k, at, level, headroom, apt)
    PROVE  /\ RttInv'
           /\ reference' # reference /\ reference'.base # NoLevel =>
                streak' >= Collect + Validate
<1> USE DEF Orders
<1> DEFINE eligible == k = "whole" /\ level <= Cap /\ headroom /\ apt
           c == Taken(k, at)
           drop == ~eligible \/ (c.mean # NoLevel /\ ~Near(level, c.mean))
           promoted == c.mean # NoLevel /\ ~drop /\ Validated(c)
<1>0. /\ scope' = at /\ kind' = k /\ requestAge' = 0 /\ slow' = 0 /\ class' = class
      /\ streak' = Run(k, at, eligible)
      /\ promoted => Promote(c, k, at, Known(k, at))
      /\ ~promoted =>
           /\ improved' = 0 /\ goodAge' = RttOld /\ contexts' = Known(k, at)
           /\ reference' = IF IsKept(k, at) THEN reference ELSE NoReference
           /\ drop => candidate' = NoCandidate
           /\ ~drop /\ c.mean = NoLevel => candidate' \in Collected(c, level)
           /\ ~drop /\ c.mean # NoLevel =>
                candidate' = [c EXCEPT !.valid = @ + 1, !.last = 0]
  <2>1. /\ scope' = at /\ kind' = k /\ requestAge' = 0 /\ slow' = 0 /\ class' = class
        /\ Requalify(k, at, Known(k, at), IsKept(k, at),
                         at = scope /\ ~IsStale(k, at), level, headroom, apt)
    BY SampleParts
  <2>2. /\ streak' = Run(k, at, eligible)
        /\ IF promoted THEN Promote(c, k, at, Known(k, at))
           ELSE /\ improved' = 0 /\ goodAge' = RttOld /\ contexts' = Known(k, at)
                /\ reference' = IF IsKept(k, at) THEN reference ELSE NoReference
                /\ IF drop THEN candidate' = NoCandidate
                   ELSE IF c.mean = NoLevel THEN candidate' \in Collected(c, level)
                   ELSE candidate' = [c EXCEPT !.valid = @ + 1, !.last = 0]
    BY <2>1 DEF Requalify, Taken
  <2> HIDE DEF c, drop, eligible, promoted
  <2> QED BY <2>1, <2>2
<1>1. /\ c \in Candidates
      /\ c.mean # NoLevel => c.n = Collect
      /\ c.mean = NoLevel => c.valid = 0
      /\ k = "whole" => c.n + c.valid + 1 <= Longer(k, at)
  BY TakenIsRun
<1>2. /\ c.n \in 0 .. Collect /\ c.valid \in 0 .. Validate - 1 /\ c.mean \in Bases
  BY <1>1 DEF Candidates
<1>3. eligible \in BOOLEAN /\ streak' \in 0 .. Collect + Validate
  BY <1>0, RunGrowsBy
<1>4. ~drop => k = "whole" /\ level \in Levels /\ c.n + c.valid + 1 <= streak'
  <2> SUFFICES ASSUME ~drop
               PROVE  k = "whole" /\ level \in Levels /\ c.n + c.valid + 1 <= streak'
    OBVIOUS
  <2>1. eligible = TRUE
    BY <1>3
  <2>2. k = "whole" /\ level \in Levels
    BY DEF Levels
  <2>3. streak' = Longer(k, at)
    BY <1>0, <2>1, Zenon DEF Longer
  <2> HIDE DEF c
  <2> QED BY <1>1, <2>2, <2>3
<1> HIDE DEF c, drop, eligible
<1>5. CASE promoted
  <2>1. Promote(c, k, at, Known(k, at)) /\ c.mean \in Levels /\ ~drop
    BY <1>0, <1>2, <1>5 DEF Bases
  <2>2. streak' >= Collect + Validate
    BY <1>1, <1>2, <1>3, <1>4, <1>5, <2>1 DEF Validated
  <2>3. /\ contexts' = [Known(k, at) EXCEPT
                          ![k] = [n |-> Learn, base |-> c.mean, age |-> 0]]
        /\ reference' = [kind |-> k, scope |-> at, base |-> c.mean]
        /\ improved' = Requests /\ goodAge' = 0 /\ candidate' = NoCandidate
    BY <2>1 DEF Promote
  <2>4. [n |-> Learn, base |-> c.mean, age |-> 0] \in Contexts
    BY <2>1 DEF Contexts, Bases, RttOld
  <2>5. contexts' \in [Kinds -> Contexts] /\ contexts'[k].base = c.mean
    BY <2>3, <2>4, KnownContexts
  <2>6. reference' \in References /\ reference'.base = c.mean /\ reference'.base # NoLevel
        /\ reference'.kind = k /\ reference'.scope = at
    BY <1>2, <1>5, <2>3 DEF References
  <2>7. Scalars'
    BY <1>0, <1>3, <2>3 DEF RttInv, Scalars, RttOld, Scopes, Kinds
  <2>8. Records'
    BY <2>3, <2>5, <2>6, EmptyRecords
       DEF Records, Bases, Contexts, References, Candidates
  <2>9. ReferenceIsCurrent'
    BY <1>0, <2>5, <2>6 DEF ReferenceIsCurrent
  <2>10. RunIsUnbroken'
    BY <1>0, <1>3, <2>2, <2>3, <2>6, EmptyRecords DEF RunIsUnbroken
  <2>11. CollectedIsRun'
    BY <2>3, EmptyRecords DEF CollectedIsRun
  <2> QED BY <2>2, <2>7, <2>8, <2>9, <2>10, <2>11 DEF RttInv
<1>6. CASE ~promoted
  <2>1. /\ improved' = 0 /\ goodAge' = RttOld /\ contexts' = Known(k, at)
        /\ reference' = IF IsKept(k, at) THEN reference ELSE NoReference
    BY <1>0, <1>6
  <2>2. candidate' \in Candidates
        /\ (candidate'.n > 0 =>
              /\ k = "whole" /\ candidate'.last = 0
              /\ candidate'.n + candidate'.valid <= streak'
              /\ candidate'.mean # NoLevel => candidate'.n = Collect
              /\ candidate'.mean = NoLevel => candidate'.valid = 0)
    <3>1. CASE drop
      BY <1>0, <1>6, <3>1, EmptyRecords
    <3>2. CASE ~drop /\ c.mean = NoLevel
      <4>1. candidate' \in Collected(c, level)
        BY <1>0, <1>6, <3>2
      <4>2. /\ candidate' \in Candidates /\ candidate'.last = 0
            /\ candidate'.valid = c.valid /\ candidate'.n = OneUp(c.n, Collect)
            /\ candidate'.mean # NoLevel => candidate'.n = Collect
        BY <1>1, <1>4, <3>2, <4>1, CollectedRecord
      <4> QED BY <1>1, <1>2, <1>3, <1>4, <3>2, <4>2 DEF OneUp
    <3>3. CASE ~drop /\ c.mean # NoLevel
      <4>1. candidate' = [c EXCEPT !.valid = @ + 1, !.last = 0]
        BY <1>0, <1>6, <3>3
      <4>2. c.valid + 1 \in 0 .. Validate - 1
        BY <1>2, <1>6, <3>3 DEF Validated
      <4>3. /\ candidate' \in Candidates /\ candidate'.last = 0
            /\ candidate'.valid = c.valid + 1 /\ candidate'.n = c.n
            /\ candidate'.mean = c.mean
        <5>1. 0 \in 0 .. RttOld
          BY DEF RttOld
        <5> QED BY <1>1, <4>1, <4>2, <5>1 DEF Candidates
      <4> QED BY <1>1, <1>2, <1>3, <1>4, <3>3, <4>3
    <3> QED BY <3>1, <3>2, <3>3
  <2>3. reference' \in References
    BY <2>1, EmptyRecords DEF RttInv, Records
  <2>4. Scalars'
    BY <1>0, <1>3, <2>1 DEF RttInv, Scalars, RttOld, Scopes, Kinds
  <2>5. Records'
    BY <2>1, <2>2, <2>3, KnownContexts DEF Records, Bases, Contexts, References, Candidates
  <2>6. ReferenceIsCurrent'
    BY <1>0, <2>1, KnownContexts, EmptyRecords DEF RttInv, ReferenceIsCurrent
  <2>7. RunIsUnbroken'
    BY <1>3, <2>1 DEF RunIsUnbroken
  <2>8. CollectedIsRun'
    BY <1>0, <2>2 DEF CollectedIsRun
  <2>9. ~(reference' # reference /\ reference'.base # NoLevel)
    BY <2>1, EmptyRecords
  <2> QED BY <2>4, <2>5, <2>6, <2>7, <2>8, <2>9 DEF RttInv
<1> QED BY <1>5, <1>6

LEMMA SampleKeepsRtt ==
    ASSUME Orders, RttInv, NEW k \in Kinds, NEW at \in Scopes, NEW level \in Overheads,
           NEW headroom \in BOOLEAN, NEW apt \in BOOLEAN,
           SampleRequest(k, at, level, headroom, apt)
    PROVE  RttInv'
<1>1. class \in {"no", "rtt", "loss"}
  BY DEF RttInv, Scalars
<1> QED BY <1>1, ClassifyKeeps, CompareKeeps, LossKeeps, RequalifyKeeps

LEMMA NextRtt == RttInv /\ [RttNext]_rttVars => RttInv'
<1> SUFFICES ASSUME RttInv, [RttNext]_rttVars PROVE RttInv'
  OBVIOUS
<1>0. Orders
  BY OrdersHold
<1>1. CASE RttNext
  BY <1>0, <1>1, SampleKeepsRtt, InterruptKeeps, NetworkErrorKeeps, NewSourceKeeps,
     EnterLossKeeps, ExitKeepsRtt, TickKeepsRtt DEF RttNext
<1>2. CASE UNCHANGED rttVars
  <2>1. UNCHANGED <<class, scope, kind, contexts, slow, requestAge, reference, improved,
                    goodAge, candidate, streak>>
    BY <1>2 DEF rttVars, evidenceVars
  <2>2. Scalars' /\ Records'
    BY <2>1 DEF RttInv, Scalars, Records, Bases, Contexts, References, Candidates
  <2>3. ReferenceIsCurrent' /\ RunIsUnbroken' /\ CollectedIsRun'
    BY <2>1 DEF RttInv, ReferenceIsCurrent, RunIsUnbroken, CollectedIsRun
  <2> QED BY <2>2, <2>3 DEF RttInv
<1> QED BY <1>1, <1>2

LEMMA RttInvariant == RttSpec => []RttInv
<1>1. RttInit => RttInv
  BY InitRtt
<1>2. RttInv /\ [RttNext]_rttVars => RttInv'
  BY NextRtt
<1> QED BY <1>1, <1>2, PTL DEF RttSpec

\* Counts of requests and ages stay within the numbers they are compared with.
THEOREM RttTypes == RttSpec => []RttTypeOK
<1>1. RttInv => RttTypeOK
  BY RttTypeParts DEF RttInv
<1> QED BY <1>1, RttInvariant, PTL

\* The reference of a weak profile is the baseline its scope has for its kind, whatever scopes,
\* stale contexts and promotions the requests bring.
THEOREM ReferencesAreCurrent ==
    RttSpec => []ReferenceIsCurrent
<1>1. RttInv => ReferenceIsCurrent
  BY DEF RttInv
<1> QED BY <1>1, RttInvariant, PTL

\* The exit of a profile for slow requests rests on an unbroken run of good requests of one
\* kind and scope.
THEOREM ExitsRestOnRuns ==
    RttSpec => []EvidenceIsARun
<1>1. RttInv => EvidenceIsARun
  BY DEF RttInv, RunIsUnbroken, EvidenceIsARun
<1> QED BY <1>1, RttInvariant, PTL

\* The step of ReferenceIsValidated.
ValidatedFirst ==
    class = "rtt" /\ reference' # reference /\ reference'.base # NoLevel /\ class' = class =>
        streak' >= Collect + Validate

LEMMA NextValidates ==
    RttInv /\ [RttNext]_rttVars => ValidatedFirst
<1> SUFFICES ASSUME RttInv, [RttNext]_rttVars, class = "rtt", class' = class,
                    reference' # reference, reference'.base # NoLevel
             PROVE  streak' >= Collect + Validate
  BY DEF ValidatedFirst
<1>0. Orders
  BY OrdersHold
<1>1. PICK k \in Kinds, at \in Scopes, level \in Overheads,
           headroom \in BOOLEAN, apt \in BOOLEAN : SampleRequest(k, at, level, headroom, apt)
  <2>1. ~RttNewSource
    BY <1>0, EmptyRecords DEF RttNewSource
  <2> QED BY <2>1 DEF RttNext, rttVars, RttInterrupt, RttNetworkError, EnterLoss,
                      EnterWeak, RttExit, RttTick
<1> QED BY <1>0, <1>1, CompareKeeps, RequalifyKeeps

\* A reference that appears within such a profile was collected and then validated by as many
\* requests as the policy asks for.
THEOREM ReferencesAreValidated ==
    RttSpec => ReferenceIsValidated
<1>1. RttInv /\ [RttNext]_rttVars => [ValidatedFirst]_rttVars
  BY NextValidates
<1> QED BY <1>1, RttInvariant, PTL DEF RttSpec, ReferenceIsValidated, ValidatedFirst
=============================================================================
