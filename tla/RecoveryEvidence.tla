-------------------------- MODULE RecoveryEvidence --------------------------
(***************************************************************************)
(* When the weak-network profile may be left, as                           *)
(* src/web/hls-weak-network-policy.js decides it for a bandwidth or loss   *)
(* profile: two ways out, one fast and one stable, each over a number of   *)
(* healthy samples, a quiet time and fresh media (RttEvidence has what a   *)
(* profile for high request times asks for besides).                       *)
(*                                                                         *)
(* A stamp of the code is its age here, in ticks of the shortest spacing   *)
(* of samples that count; an age saturates at Old, which also stands for   *)
(* null.  The monotonic clock makes ages of the future impossible.  Ratio  *)
(* and buffer are the classes the thresholds make: ratio 2 is 1.7 or more, *)
(* 1 is 1.5 or more; buffer 2 is six seconds or more, 1 four or more.      *)
(***************************************************************************)
EXTENDS Integers

CONSTANTS
    FastSamples, StableSamples,     \* 20 and 30
    FastQuiet, StableQuiet,         \* 15 s and 30 s
    Hold,                           \* STABLE_RECOVERY_EVIDENCE_HOLD_MS
    MaxGap,                         \* RECOVERY_SAMPLE_GAP_MS
    MaxAge,                         \* mediaEvidenceMaxAgeMs: 8 s for segments of 2 s
    Old                             \* bound: where ages saturate

\* Media that is fresh for longer than a run of samples could have stood still since the
\* run began; the segments this package makes are too short for that.
ASSUME TimeAssumption ==
    /\ {FastSamples, StableSamples, FastQuiet, StableQuiet, Hold, MaxGap, MaxAge, Old}
         \subseteq Nat \ {0}
    /\ FastSamples <= StableSamples /\ FastQuiet <= StableQuiet
    /\ MaxAge + 1 < FastSamples
    /\ \A n \in {StableSamples, StableQuiet, Hold + 1, MaxGap + 1, MaxAge} : n < Old

VARIABLES
    weak,             \* hlsWeakNetworkMode
    usable,           \* playing, not seeking, online and not wasOffline
    errors,           \* hlsConsecutiveNetworkErrors > 0
    fast, stable,     \* fastRecoverySamples, stableRecoverySamples
    errorAge, stallAge, transferAge, motionAge, sampleAge, holdAge,
    needsMedia, news, \* recoveryNeedsMedia, mediaTransferSerial > recoveryAfterSerial
    moved,            \* the position or the end of its buffer is past recoveryMotion
    calm,             \* history: age of the last interruption, gap, error or network stall
    low,              \* history: age of the last sample below 1.5 or four seconds
    played, arrived   \* history: either has advanced in usable playback, and media has
                      \*   arrived, since the last interruption

stampVars == <<errorAge, stallAge, transferAge, motionAge, sampleAge, holdAge>>
historyVars == <<calm, low, played, arrived>>

vars == <<weak, usable, errors, fast, stable, stampVars, needsMedia, news, moved, historyVars>>

Ages == 0 .. Old
Older(age) == IF age < Old THEN age + 1 ELSE Old

TypeOK ==
    /\ {weak, usable, errors, needsMedia, news, moved, played, arrived} \subseteq BOOLEAN
    /\ fast \in 0 .. FastSamples /\ stable \in 0 .. StableSamples
    /\ {errorAge, stallAge, transferAge, motionAge, sampleAge, holdAge, calm, low}
         \subseteq Ages

Init ==
    /\ weak = FALSE /\ usable = TRUE /\ errors = FALSE
    /\ fast = 0 /\ stable = 0
    /\ errorAge = Old /\ stallAge = Old /\ transferAge = Old /\ motionAge = Old
    /\ sampleAge = Old /\ holdAge = Old
    /\ needsMedia = FALSE /\ news = FALSE /\ moved = FALSE
    /\ calm = Old /\ low = Old /\ played = FALSE /\ arrived = FALSE

-----------------------------------------------------------------------------
(* The evidence *)

\* Mutant: media from before the interruption will do.
NeedsNothing == FALSE

NeedsNewMedia == TRUE

\* Mutant: an interruption leaves the samples.
KeptAfterInterruption(n) == n

AfterInterruption(n) == 0

\* invalidateRecovery
Invalidate ==
    /\ fast' = AfterInterruption(fast) /\ stable' = AfterInterruption(stable)
    /\ holdAge' = Old /\ sampleAge' = Old
    /\ needsMedia' = NeedsNewMedia /\ news' = FALSE
    /\ calm' = 0 /\ played' = FALSE /\ arrived' = FALSE

Fresh(need, moveAge) == ~need /\ transferAge <= MaxAge /\ moveAge <= MaxAge

Quiet(time) == errorAge >= time /\ stallAge >= time

Path(ratio, f, s) ==
    \/ f >= FastSamples /\ ratio = 2 /\ Quiet(FastQuiet)
    \/ s >= StableSamples /\ ratio >= 1 /\ Quiet(StableQuiet)

\* qualifiedRecoveryPath: counters alone do not suffice at the moment of the exit.
Qualified(ratio, buffer, f, s, need, moveAge, lastAge) ==
    /\ usable /\ ~errors /\ buffer = 2 /\ lastAge <= MaxGap
    /\ Fresh(need, moveAge)
    /\ Path(ratio, f, s)

\* markWeakRecovery
Exit ==
    /\ weak' = FALSE
    /\ fast' = 0 /\ stable' = 0 /\ holdAge' = Old /\ stallAge' = Old

-----------------------------------------------------------------------------
(* sampleRecovery *)

Capped(n, most) == IF n < most THEN n ELSE most

\* Mutant: a dip in the buffer costs the count.
HeldNever(n) == 0

Held(n) == IF n > 0 /\ holdAge <= Hold THEN n ELSE 0

StableAfter(good, buffer) ==
    IF ~good \/ buffer = 0 THEN 0
    ELSE IF buffer = 1 THEN Held(stable)
    ELSE Capped(Held(stable) + 1, StableSamples)

\* A sample that counts, of the monitor in weak mode.
Sample(ratio, buffer) ==
    LET need == needsMedia /\ ~(news /\ moved)
        moveAge == IF moved THEN 0 ELSE motionAge
        healthy == ~errors /\ Fresh(need, moveAge)
        f == IF healthy /\ ratio = 2 /\ buffer = 2 THEN Capped(fast + 1, FastSamples) ELSE 0
        s == StableAfter(healthy /\ ratio >= 1, buffer)
    IN  /\ weak /\ usable
        /\ sampleAge \in (1 .. MaxGap) \cup {Old}
        /\ sampleAge' = 0 /\ motionAge' = moveAge /\ moved' = FALSE /\ needsMedia' = need
        /\ low' = IF ratio = 0 \/ buffer = 0 THEN 0 ELSE low
        /\ IF Qualified(ratio, buffer, f, s, need, moveAge, 0) THEN Exit
           ELSE /\ fast' = f /\ stable' = s
                /\ holdAge' = IF s > 0 /\ buffer = 2 THEN 0 ELSE IF s > 0 THEN holdAge ELSE Old
                /\ UNCHANGED <<weak, stallAge>>
        /\ UNCHANGED <<usable, errors, errorAge, transferAge, news, calm, played, arrived>>

\* The sample before is too long ago.
SampleAfterGap ==
    /\ weak /\ usable /\ sampleAge > MaxGap /\ sampleAge < Old
    /\ Invalidate
    /\ UNCHANGED <<weak, usable, errors, errorAge, stallAge, transferAge, motionAge, moved, low>>

\* A safe-point attempt asks between two samples.
SafePointAsks(ratio, buffer) ==
    /\ weak
    /\ Qualified(ratio, buffer, fast, stable, needsMedia, motionAge, sampleAge)
    /\ Exit
    /\ UNCHANGED <<usable, errors, errorAge, transferAge, motionAge, sampleAge, needsMedia,
                   news, moved, historyVars>>

-----------------------------------------------------------------------------
(* What happens to the player *)

\* Any of the causes; markWeakEntry.
Enter ==
    /\ ~weak /\ weak' = TRUE
    /\ fast' = 0 /\ stable' = 0 /\ holdAge' = Old
    /\ UNCHANGED <<usable, errors, errorAge, stallAge, transferAge, motionAge, sampleAge,
                   needsMedia, news, moved, historyVars>>

\* pause, seeking, offline, and their ends: each event invalidates.
Interrupt ==
    /\ usable' = ~usable
    /\ Invalidate
    /\ UNCHANGED <<weak, errors, errorAge, stallAge, transferAge, motionAge, moved, low>>

\* resetRequestContext: another manifest or another level.
NewSource ==
    /\ Invalidate
    /\ transferAge' = Old
    /\ UNCHANGED <<weak, usable, errors, errorAge, stallAge, motionAge, moved, low>>

NetworkError ==
    /\ errors' = TRUE /\ errorAge' = 0
    /\ fast' = 0 /\ stable' = 0 /\ holdAge' = Old
    /\ calm' = 0
    /\ UNCHANGED <<weak, usable, stallAge, transferAge, motionAge, sampleAge, needsMedia, news,
                   moved, low, played, arrived>>

\* recordStall, of a stall the network explains; others leave the evidence alone.
NetworkStall ==
    /\ stallAge' = 0 /\ fast' = 0 /\ stable' = 0 /\ holdAge' = Old
    /\ calm' = 0
    /\ UNCHANGED <<weak, usable, errors, errorAge, transferAge, motionAge, sampleAge,
                   needsMedia, news, moved, low, played, arrived>>

\* FRAG_LOADED with video: noteMediaTransfer.
Transfer ==
    /\ transferAge' = 0 /\ news' = TRUE /\ errors' = FALSE /\ arrived' = TRUE
    /\ UNCHANGED <<weak, usable, fast, stable, errorAge, stallAge, motionAge, sampleAge,
                   holdAge, needsMedia, moved, calm, low, played>>

\* Also by a seek, or by loading while paused.
Advance ==
    /\ moved' = TRUE /\ played' = (played \/ usable)
    /\ moved' # moved \/ played' # played
    /\ UNCHANGED <<weak, usable, errors, fast, stable, stampVars, needsMedia, news, calm, low,
                   arrived>>

\* An age of null stays null.
Tick ==
    /\ errorAge' = Older(errorAge) /\ stallAge' = Older(stallAge)
    /\ transferAge' = Older(transferAge) /\ motionAge' = Older(motionAge)
    /\ sampleAge' = Capped(Older(sampleAge), IF sampleAge = Old THEN Old ELSE MaxGap + 1)
    /\ holdAge' = Capped(Older(holdAge), IF holdAge = Old THEN Old ELSE Hold + 1)
    /\ calm' = Older(calm) /\ low' = Older(low)
    /\ UNCHANGED <<weak, usable, errors, fast, stable, needsMedia, news, moved, played, arrived>>

-----------------------------------------------------------------------------

Ratios == 0 .. 2
Buffers == 0 .. 2

Next ==
    \/ Enter \/ Interrupt \/ NewSource \/ NetworkError \/ NetworkStall \/ Transfer \/ Advance \/ Tick
    \/ SampleAfterGap
    \/ \E r \in Ratios, b \in Buffers : Sample(r, b) \/ SafePointAsks(r, b)

Spec == Init /\ [][Next]_vars

-----------------------------------------------------------------------------
(* What the policy promises *)

\* The profile is left only on a run of good samples after the last trouble: no pause,
\* seek, offline time, error, network stall or sampling gap, and no sample in the region
\* of weak entry, lies within the shortest run; and playback has advanced since it was
\* last interrupted: a seek, or media loaded during a pause, is not taken for that.
ExitIsEarned ==
    [][weak /\ ~weak' =>
         calm >= FastSamples - 1 /\ low >= FastSamples - 1 /\ played]_vars

\* No sample counts before new media has arrived since the last interruption: a sample
\* taken right after a pause, a seek or an offline time cannot live on media from before.
NoCreditFromBefore == fast > 0 \/ stable > 0 => arrived

-----------------------------------------------------------------------------
(* A healthy line is not kept in the weak profile *)

\* From some time on nothing disturbs playback, a good sample comes every tick, and media
\* arrives and playback advances before the evidence is stale.  The buffer may dip below
\* six seconds between segments ("complete two-second segments create a sawtooth buffer
\* even on a stable link", hls-weak-network-policy.js:438), for less than the hold.
Undisturbed ==
    \/ Transfer \/ Advance \/ Enter
    \/ \E ratio \in 1 .. 2 :
          \/ Sample(ratio, 2) \/ SafePointAsks(ratio, 2)
          \/ holdAge < Hold /\ Sample(ratio, 1)
    \/ SampleAfterGap
    \/ Tick /\ (weak => sampleAge = 0 /\ transferAge < MaxAge /\ motionAge < MaxAge)

\* Then the profile is left, again and again if it is entered again.
HealthyLineRecovers ==
    <>[][Undisturbed]_vars /\ []<><<Tick>>_vars => []<>(~weak)
=============================================================================
