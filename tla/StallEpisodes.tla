--------------------------- MODULE StallEpisodes ---------------------------
(***************************************************************************)
(* When repeated stalls of playback put the LL-HLS player into the weak    *)
(* profile: recordStall of src/web/hls-weak-network-policy.js, and what    *)
(* src/web/app.js feeds it.                                                *)
(*                                                                         *)
(* The browser reports one physical stall by several events (waiting,      *)
(* stalled, an error of hls.js), and a short pulse of `playing' may come   *)
(* between them.  Stamps are ages in ticks, as in RecoveryEvidence.  A due *)
(* timer fires before the next tick.  Pausing and seeking are one, a halt, *)
(* which `playing' ends.                                                   *)
(***************************************************************************)
EXTENDS Integers

CONSTANTS
    Dedup,            \* STALL_INCIDENT_DEDUP_MS
    Window,           \* STALL_WINDOW_MS, also the shortest quiet time of an exit
    Confirm,          \* HLS_STALL_RECOVERY_CONFIRM_MS
    Settle,           \* HLS_SMOOTH.settleMs
    Suppress          \* HLS_INTENTIONAL_SEEK_SUPPRESS_MS

\* The chain settles for longer than a lull is confirmed.
ASSUME StallAssumption ==
    /\ {Dedup, Window, Confirm, Settle, Suppress} \subseteq Nat \ {0}
    /\ Confirm < Settle /\ Dedup <= Window

VARIABLES
    weakMode, smooth, \* hlsWeakNetworkMode, hlsSmoothRecovery
    warm,             \* past the startup warm-up
    halted,           \* waiting for data, paused or seeking
    started,          \* hlsStallStartedAt
    episode,          \* stallEpisodeClassification, "none" when not stallEpisodeActive
    lastStall,        \* lastStallAt
    incidents,        \* stallIncidents within the window
    timer,            \* hlsRecoveryTimer: ticks left
    seekLeft,         \* what is left of the time when stalls are our own seek's
    near,             \* ticks the catch-up has been near its target
    lull,             \* history: ticks of playing since the last stall event or halt
    counted,          \* history: the present physical stall is in `real'
    real              \* history: ages of the physical network stalls past the warm-up

episodeVars == <<started, episode, lastStall, incidents>>
pastVars == <<lull, counted, real>>

stallVars == <<weakMode, smooth, warm, halted, episodeVars, timer, seekLeft, near, pastVars>>

None == -1
LongAgo == Window + 1

StallTypeOK ==
    /\ weakMode \in BOOLEAN /\ smooth \in BOOLEAN /\ warm \in BOOLEAN
    /\ halted \in BOOLEAN /\ started \in BOOLEAN /\ counted \in BOOLEAN
    /\ episode \in {"none", "healthy", "network", "warmup", "deduplicated"}
    /\ lastStall \in 0 .. LongAgo
    /\ incidents \subseteq 0 .. Window /\ real \subseteq 0 .. Window
    /\ timer \in None .. Confirm /\ lull \in None .. Confirm
    /\ seekLeft \in 0 .. Suppress /\ near \in 0 .. Settle

StallInit ==
    /\ weakMode = FALSE /\ smooth = FALSE /\ warm = FALSE /\ halted = TRUE
    /\ started = FALSE /\ episode = "none" /\ lastStall = LongAgo /\ incidents = {}
    /\ timer = None /\ seekLeft = 0 /\ near = 0
    /\ lull = None /\ counted = FALSE /\ real = {}

-----------------------------------------------------------------------------
(* recordStall *)

Duplicate == episode = "none" /\ lastStall < Dedup

\* Of a stall that the measured network does not explain.
RecordHealthy ==
    /\ episode' = IF episode # "none" THEN episode
                  ELSE IF Duplicate THEN "deduplicated" ELSE "healthy"
    /\ UNCHANGED <<lastStall, incidents, weakMode, counted, real>>

Counts == ~Duplicate /\ episode \in {"none", "healthy"}

Confirmed(list) == \E a, b \in list : a # b

\* Of a stall that it may explain; the second incident enters the weak profile.
RecordNetwork ==
    /\ lastStall' = 0
    /\ IF ~Counts
       THEN /\ episode' = IF Duplicate THEN "deduplicated" ELSE episode
            /\ UNCHANGED <<incidents, weakMode>>
       ELSE IF ~warm
       THEN episode' = "warmup" /\ incidents' = {} /\ UNCHANGED weakMode
       ELSE /\ episode' = "network" /\ incidents' = incidents \cup {0}
            /\ weakMode' = (weakMode \/ Confirmed(incidents'))
    /\ counted' = (counted \/ warm)
    /\ real' = IF warm /\ ~counted THEN real \cup {0} ELSE real

-----------------------------------------------------------------------------
(* The player *)

\* Mutant: a renewed stall leaves the confirmation running.
TimerGoesOn == timer

TimerAfterStall == None

\* markHlsStall, for an event that halts playback or does not.
Stall(halts, healthy) ==
    /\ timer' = TimerAfterStall /\ near' = 0
    /\ halted' = (halted \/ halts)
    /\ lull' = None
    /\ IF seekLeft > 0 THEN UNCHANGED <<episodeVars, weakMode, counted, real>>
       ELSE started' = TRUE /\ IF healthy THEN RecordHealthy ELSE RecordNetwork
    /\ UNCHANGED <<smooth, warm, seekLeft>>

\* The playing event; maybeResyncHlsAfterStall makes the timer anew.
Playing ==
    /\ halted /\ halted' = FALSE
    /\ timer' = IF started THEN Confirm ELSE timer
    /\ lull' = 0
    /\ UNCHANGED <<weakMode, smooth, warm, episodeVars, seekLeft, near, counted, real>>

\* Pause or seek.
Halt ==
    /\ ~halted /\ halted' = TRUE
    /\ near' = 0 /\ lull' = None
    /\ UNCHANGED <<weakMode, smooth, warm, episodeVars, timer, seekLeft, counted, real>>

ConfirmTimer ==
    /\ timer = 0 /\ timer' = None
    /\ IF halted THEN UNCHANGED <<started, episode>> ELSE started' = FALSE /\ episode' = "none"
    /\ UNCHANGED <<weakMode, smooth, warm, halted, lastStall, incidents, seekLeft, near, pastVars>>

-----------------------------------------------------------------------------
(* The profile and the catch-up: each new episode number voids the timer *)

\* For another cause than stalls.
EnterElse ==
    /\ ~weakMode /\ weakMode' = TRUE
    /\ timer' = None /\ near' = 0
    /\ UNCHANGED <<smooth, warm, halted, episodeVars, seekLeft, pastVars>>

\* moveHlsToWeakNetworkSafePoint: playback is ours to interrupt for a while.
Backtrack ==
    /\ weakMode /\ ~halted
    /\ seekLeft' = Suppress /\ started' = FALSE
    /\ halted' = TRUE /\ near' = 0 /\ lull' = None
    /\ UNCHANGED <<weakMode, smooth, warm, episode, lastStall, incidents, timer, counted, real>>

\* An exit follows a quiet time, and forgets every stall (markWeakRecovery).
LeaveWeak ==
    /\ weakMode /\ ~halted /\ lastStall >= Window
    /\ weakMode' = FALSE /\ smooth' = TRUE
    /\ started' = FALSE /\ episode' = "none" /\ lastStall' = LongAgo /\ incidents' = {}
    /\ timer' = None /\ seekLeft' = 0 /\ near' = 0
    /\ counted' = FALSE /\ real' = {}
    /\ UNCHANGED <<warm, halted, lull>>

\* Mutant: the chain ends without having settled.
SettledAtOnce == TRUE

Settled == near = Settle

HandOff ==
    /\ smooth /\ ~weakMode /\ ~halted /\ Settled
    /\ smooth' = FALSE /\ timer' = None
    /\ UNCHANGED <<weakMode, warm, halted, episodeVars, seekLeft, near, pastVars>>

WarmUp ==
    /\ ~warm /\ warm' = TRUE
    /\ UNCHANGED <<weakMode, smooth, halted, episodeVars, timer, seekLeft, near, pastVars>>

-----------------------------------------------------------------------------

\* Mutant: no incident ever leaves the window.
AgedForGood(ages) == {a + 1 : a \in ages}

Aged(ages) == {a + 1 : a \in ages \ {Window}}

Up(n, most) == IF n < most THEN n + 1 ELSE most

StallTick ==
    /\ timer # 0
    /\ timer' = IF timer > 0 THEN timer - 1 ELSE timer
    /\ lastStall' = Up(lastStall, LongAgo)
    /\ incidents' = Aged(incidents) /\ real' = Aged(real)
    /\ seekLeft' = IF seekLeft > 0 THEN seekLeft - 1 ELSE 0
    /\ near' = IF smooth /\ ~weakMode /\ ~halted THEN Up(near, Settle) ELSE 0
    /\ lull' = IF lull = None THEN lull ELSE Up(lull, Confirm)
    /\ counted' = (counted /\ lull' # Confirm)
    /\ UNCHANGED <<weakMode, smooth, warm, halted, started, episode>>

StallNext ==
    \/ \E halts, healthy \in BOOLEAN : Stall(halts, healthy)
    \/ Playing \/ Halt \/ ConfirmTimer
    \/ EnterElse \/ Backtrack \/ LeaveWeak \/ HandOff \/ WarmUp
    \/ StallTick

StallSpec == StallInit /\ [][StallNext]_stallVars

-----------------------------------------------------------------------------
(* What the policy promises *)

\* Stalls enter the weak profile only when two physical stalls past the warm-up, which a
\* sustained time of playing separates, lie within the window: neither the many events of
\* one stall, nor a short pulse of playing in it, nor its escalation counts twice.
EntryNeedsTwoStalls ==
    [][~weakMode /\ weakMode' /\ incidents' # incidents => \E a, b \in real' : a # b]_stallVars

\* In the normal profile a sustained time of playing ends the episode, so that a later
\* stall is an incident of its own: no other step voids the confirmation.
LullEndsEpisode == ~weakMode /\ lull = Confirm /\ timer = None => episode = "none"
=============================================================================
