---------------------------- MODULE HlsRecovery ----------------------------
(***************************************************************************)
(* The LL-HLS player of the page (src/web/app.js): recovery of failed      *)
(* requests, the weak-network profile with its one backtrack, the smooth   *)
(* catch-up after it, and the hand-over to WHEP.                           *)
(*                                                                         *)
(* A step is one JavaScript task.  A recovery timer closes over the value  *)
(* of hlsRecoveryWorkVersion when it was made, and does nothing when the   *)
(* version has moved on: `due' counts the timers that hold the present     *)
(* version.  stopCurrentPlayer clears every timer, so none outlives its    *)
(* player.  navigator.onLine changes in the step that runs its event.      *)
(* Of hls.js only this is used: a fatal error stops its loading before the *)
(* page hears of it, startLoad(-1) resumes it when the manifest is known,  *)
(* loadSource asks for the manifest afresh and forgets the old one and its *)
(* media.  Whether recoverMediaError resumes the loading is left open.     *)
(* What the policy measures is one bit, `fresh': media has arrived and     *)
(* moved since the evidence was last invalidated (see RecoveryEvidence).   *)
(***************************************************************************)
EXTENDS Integers

CONSTANTS
    MaxDue,           \* bound: recovery timers of one version
    MaxAttempts       \* HLS_WEAK_SAFE_POINT_MAX_ATTEMPTS

ASSUME BoundAssumption == MaxDue \in Nat \ {0} /\ MaxAttempts \in Nat \ {0}

VARIABLES
    active, auto, tried,          \* activeMode, requestedMode = "auto", codecFallbackTried
    online, wasOffline,           \* navigator.onLine and the policy's memory of it
    loading, manifest,            \* hls.js loads; it knows its manifest
    watchdog,                     \* watchdogTimer
    pending, due, sourceTimer,    \* hlsPendingNetworkRecovery, its timers, hlsSourceRecoveryTimer
    errors,                       \* hlsConsecutiveNetworkErrors > 0
    failures,                     \* hlsServerFailureCount
    weak, ready,                  \* weakNetworkClass ("no" in normal mode), weakBufferReady
    fresh,                        \* recoveryEvidenceFresh
    safePoint,                    \* hlsWeakSafePointTimer: the attempt it will make, or 0
    spent,                        \* hlsLastWeakSafePointAt > 0
    smooth, fast,                 \* hlsSmoothRecovery, and whether it plays above 1x
    native,                       \* config.maxLiveSyncPlaybackRate > 1
    backtracks,                   \* history: backtracks since this recovery chain began
    unaware,                      \* history: started offline, and no offline event since
    dropped,                      \* history: a reload was given up because the page was offline
    broken                        \* history: stopped by a fatal error the page does not
                                  \* recover from, and nothing started or queued since

playerVars == <<active, auto, tried>>
netVars == <<online, wasOffline>>
loadVars == <<loading, manifest>>
ticketVars == <<pending, due, sourceTimer>>
weakVars == <<weak, ready, safePoint, spent, backtracks>>
rateVars == <<smooth, fast, native>>
historyVars == <<unaware, dropped, broken>>

vars == <<playerVars, netVars, loadVars, watchdog, ticketVars, errors, failures, weakVars,
          fresh, rateVars, historyVars>>

TypeOK ==
    /\ active \in {"hls", "whep"} /\ pending \in {"none", "start", "reload"}
    /\ weak \in {"no", "rtt", "loss"}
    /\ due \in 0 .. MaxDue /\ safePoint \in 0 .. MaxAttempts
    /\ failures \in 0 .. 3 /\ backtracks \in Nat
    /\ auto \in BOOLEAN /\ tried \in BOOLEAN /\ online \in BOOLEAN /\ wasOffline \in BOOLEAN
    /\ loading \in BOOLEAN /\ manifest \in BOOLEAN /\ watchdog \in BOOLEAN
    /\ sourceTimer \in BOOLEAN /\ errors \in BOOLEAN /\ ready \in BOOLEAN /\ fresh \in BOOLEAN
    /\ spent \in BOOLEAN /\ smooth \in BOOLEAN /\ fast \in BOOLEAN /\ native \in BOOLEAN
    /\ unaware \in BOOLEAN /\ dropped \in BOOLEAN /\ broken \in BOOLEAN

Playing == active = "hls"

Init ==
    /\ active = "whep" /\ auto = TRUE /\ tried = FALSE
    /\ online = TRUE /\ wasOffline = FALSE
    /\ loading = FALSE /\ manifest = FALSE /\ watchdog = FALSE
    /\ pending = "none" /\ due = 0 /\ sourceTimer = FALSE
    /\ errors = FALSE /\ failures = 0
    /\ weak = "no" /\ ready = FALSE /\ safePoint = 0 /\ spent = FALSE /\ backtracks = 0
    /\ fresh = FALSE
    /\ smooth = FALSE /\ fast = FALSE /\ native = TRUE
    /\ unaware = FALSE /\ dropped = FALSE /\ broken = FALSE

-----------------------------------------------------------------------------
(* Starting and stopping *)

\* resetHlsNetworkMonitor and the timers that stopCurrentPlayer clears.
StopPlayer ==
    /\ wasOffline' = FALSE /\ pending' = "none" /\ due' = 0 /\ sourceTimer' = FALSE
    /\ errors' = FALSE
    /\ weak' = "no" /\ ready' = FALSE /\ safePoint' = 0 /\ spent' = FALSE /\ backtracks' = 0
    /\ fresh' = FALSE /\ smooth' = FALSE /\ fast' = FALSE /\ native' = TRUE
    /\ dropped' = FALSE /\ broken' = FALSE
    /\ UNCHANGED online

StartHls ==
    /\ StopPlayer
    /\ active' = "hls" /\ loading' = TRUE /\ manifest' = FALSE /\ watchdog' = TRUE
    /\ failures' = 0
    /\ unaware' = ~online

StartWhep ==
    /\ StopPlayer
    /\ active' = "whep" /\ loading' = FALSE /\ manifest' = FALSE /\ watchdog' = FALSE
    /\ unaware' = FALSE

ClickHls == StartHls /\ auto' = FALSE /\ UNCHANGED tried

ClickWhep == StartWhep /\ auto' = FALSE /\ UNCHANGED <<tried, failures>>

ClickAuto == StartWhep /\ auto' = TRUE /\ tried' = FALSE /\ UNCHANGED failures

\* WHEP could not be established in AUTO, or cannot carry the codec.
WhepFallsBack(t) == active = "whep" /\ (tried => t) /\ StartHls /\ tried' = t /\ UNCHANGED auto

MayHandOver == auto /\ ~tried

HandOver == MayHandOver /\ StartWhep /\ tried' = TRUE /\ UNCHANGED auto

-----------------------------------------------------------------------------
(* The weak-network profile: applyHlsNetworkProfile *)

\* An RTT profile may be upgraded once; otherwise the class stays until recovery.
WeakAfter(class) == IF weak = "no" \/ class = "loss" THEN class ELSE weak

\* Mutant: the profile leaves the native controller its rate.
NativeKept == native

NativeInWeak == FALSE

\* An upgrade keeps the episode: its safe-point timer and its spent budget.
EnterWeak(class) ==
    /\ weak' = WeakAfter(class)
    /\ ready' = (ready /\ weak' = weak)
    /\ safePoint' = IF weak = "no" THEN 1 ELSE safePoint
    /\ native' = NativeInWeak /\ fast' = FALSE
    /\ backtracks' = IF weak = "no" /\ ~smooth THEN 0 ELSE backtracks
    /\ UNCHANGED <<spent, smooth>>

StayInProfile == UNCHANGED <<weakVars, rateVars>>

Unaccelerated == fast' = FALSE /\ UNCHANGED <<weakVars, smooth, native>>

\* The path qualifies for an exit.  The last network error is 15 s old, so the timers
\* it made (8.25 s, then 2.5 s) have fired.
Qualifies ==
    weak # "no" /\ online /\ ~wasOffline /\ fresh /\ ~errors /\ due = 0 /\ ~sourceTimer

\* Mutant: a soft exit gives the budget back.
SpentForgotten == FALSE

SpentAfterExit == spent

\* The stream plays on: the profile is dropped and recovery that is still queued with it.
ExitWeak ==
    /\ Playing /\ Qualifies
    /\ weak' = "no" /\ ready' = FALSE /\ safePoint' = 0 /\ spent' = SpentAfterExit
    /\ smooth' = TRUE /\ fast' = FALSE /\ native' = FALSE
    /\ pending' = "none" /\ due' = 0 /\ sourceTimer' = FALSE
    /\ UNCHANGED <<playerVars, netVars, loadVars, watchdog, errors, failures, backtracks,
                   fresh, historyVars>>

-----------------------------------------------------------------------------
(* Recovery of failed requests *)

Outranks(mode) == pending = "none" \/ (mode = "reload" /\ pending # "reload")

\* Mutant: the timer is made with the version read before the increment.
DueTooOld(mode) == IF Outranks(mode) THEN 0 ELSE due + 1

DueAfterQueue(mode) == IF Outranks(mode) THEN 1 ELSE due + 1

\* queueHlsNetworkRecovery and the timer its callers make with the version it returns.
Queue(mode) ==
    /\ due < MaxDue
    /\ pending' = IF Outranks(mode) THEN mode ELSE pending
    /\ due' = DueAfterQueue(mode)
    /\ dropped' = (dropped /\ mode # "reload")
    /\ UNCHANGED sourceTimer

\* Mutant: a reload only restarts the loading.
ConfirmsNothing == sourceTimer

ConfirmsReload == sourceTimer \/ pending = "reload"

DueAfterRun == 0

\* runPendingHlsNetworkRecovery past its checks: load on; a reload is done 2.5 s later
\* unless playback has recovered.  Repeated errors do not put that off.
RunPending ==
    /\ pending' = "none" /\ due' = DueAfterRun
    /\ loading' = (loading \/ manifest)
    /\ broken' = (broken /\ ~loading')
    /\ sourceTimer' = ConfirmsReload
    /\ UNCHANGED manifest

RecoveryTimer ==
    /\ due > 0
    /\ IF pending # "none" /\ online THEN RunPending
       ELSE due' = due - 1 /\ UNCHANGED <<loadVars, broken, pending, sourceTimer>>
    /\ UNCHANGED <<playerVars, netVars, watchdog, errors, failures, weakVars, fresh, rateVars,
                   unaware, dropped>>

\* The confirmation.  Without a manifest there is no media to have recovered.
SourceTimer(recovered) ==
    /\ sourceTimer /\ sourceTimer' = FALSE
    /\ recovered => manifest
    /\ IF online /\ ~recovered
       THEN /\ pending' = "none" /\ due' = 0 /\ loading' = TRUE /\ manifest' = FALSE
            /\ fresh' = FALSE /\ dropped' = FALSE     \* onManifestRequest
            /\ broken' = FALSE
       ELSE /\ dropped' = (dropped \/ ~online)
            /\ UNCHANGED <<pending, due, loadVars, fresh, broken>>
    /\ UNCHANGED <<playerVars, netVars, watchdog, errors, failures, weakVars, rateVars, unaware>>

-----------------------------------------------------------------------------
(* Events of hls.js *)

\* Unless the codec is one that only WebRTC can play here.
ManifestParsed(handsOver) ==
    /\ Playing /\ online /\ loading /\ ~manifest
    /\ failures' = 0
    /\ IF handsOver THEN HandOver
       ELSE /\ manifest' = TRUE /\ errors' = FALSE
            /\ UNCHANGED <<playerVars, netVars, loading, watchdog, ticketVars, weakVars,
                           fresh, rateVars, historyVars>>

\* A fragment: it may be what the evidence waits for, or the fourth slow answer.  After
\* recoverMediaError those already listed load on, with the playlist standing still.
FragLoaded(moves, slow) ==
    /\ Playing /\ manifest /\ (loading \/ broken)
    /\ errors' = FALSE
    /\ fresh' = (fresh \/ moves)
    /\ IF slow /\ weak = "no" THEN EnterWeak("rtt") ELSE StayInProfile
    /\ UNCHANGED <<playerVars, netVars, loadVars, watchdog, ticketVars, failures,
                   historyVars>>

FreshAfterError == fresh /\ ~smooth

NetworkError(protect) ==
    /\ Playing
    /\ errors' = TRUE /\ fresh' = FreshAfterError
    /\ IF protect THEN EnterWeak("loss") ELSE Unaccelerated
    /\ UNCHANGED <<playerVars, netVars, loadVars, watchdog, ticketVars, failures, historyVars>>

\* A media error that is not fatal.  A stalled buffer may be the second stall.
MediaError(stallsAgain) ==
    /\ Playing
    /\ fresh' = FreshAfterError
    /\ IF stallsAgain /\ weak = "no" THEN EnterWeak("loss") ELSE Unaccelerated
    /\ UNCHANGED <<playerVars, netVars, loadVars, watchdog, ticketVars, errors, failures,
                   historyVars>>

\* A fatal media error of a codec that suits WebRTC better.
MediaErrorHandsOver ==
    /\ Playing
    /\ HandOver
    /\ UNCHANGED failures

\* Any other fatal media error asks hls.js to recover, which may throw, unless the codec
\* cannot be played: then, and for an error of another type, there is only a message.
FatalOtherError(resumes) ==
    /\ Playing
    /\ fresh' = FreshAfterError
    /\ Unaccelerated
    /\ IF resumes THEN UNCHANGED <<loading, broken>>
       ELSE loading' = FALSE /\ broken' = (broken \/ loading)
    /\ UNCHANGED <<playerVars, netVars, manifest, watchdog, ticketVars, errors, failures,
                   unaware, dropped>>

\* The playlist stands still: never fatal, but asks for a reload.
PlaylistUnchanged ==
    /\ Playing /\ manifest /\ loading
    /\ errors' = TRUE /\ fresh' = FreshAfterError
    /\ Unaccelerated
    /\ Queue("reload")
    /\ UNCHANGED <<playerVars, netVars, loadVars, watchdog, failures, unaware, broken>>

OneMore(n) == IF n < 3 THEN n + 1 ELSE n

\* What counts for the hand-over: an answer of 500 or above; any other answer clears it.
Counted(n, answer) == CASE answer = "5xx" -> OneMore(n) [] answer = "4xx" -> 0 [] OTHER -> n

\* A manifest or level error asks for a reload, another one for a restart.
FatalNetworkError(kind, answer) ==
    LET count == Counted(failures, answer)
    IN  /\ Playing /\ (kind = "start" => manifest)
        /\ failures' = count
        /\ IF MayHandOver /\ count = 3 THEN HandOver
           ELSE /\ errors' = TRUE /\ fresh' = FreshAfterError
                /\ loading' = FALSE /\ broken' = FALSE
                /\ EnterWeak("loss")
                /\ Queue(kind)
                /\ UNCHANGED <<playerVars, netVars, manifest, watchdog, unaware>>

-----------------------------------------------------------------------------
(* The monitor, the safe point and the catch-up *)

\* The buffer drains, or bandwidth is short for six ticks; or playback stalls twice.
Weakens ==
    /\ Playing /\ weak = "no"
    /\ EnterWeak("loss")
    /\ UNCHANGED <<playerVars, netVars, loadVars, watchdog, ticketVars, errors, failures,
                   fresh, historyVars>>

ReadinessChanges ==
    /\ Playing /\ weak # "no"
    /\ ready' = ~ready
    /\ UNCHANGED <<playerVars, netVars, loadVars, watchdog, ticketVars, errors, failures,
                   weak, safePoint, spent, backtracks, fresh, rateVars, historyVars>>

\* moveHlsToWeakNetworkSafePoint: whether a safe target exists is up to the buffer.
Backtrack(possible) ==
    IF possible /\ weak # "no" /\ ~spent
    THEN spent' = TRUE /\ backtracks' = backtracks + 1
    ELSE UNCHANGED <<spent, backtracks>>

LastAttempt == safePoint = MaxAttempts

\* One attempt of the safe-point timer, which gives up after MaxAttempts.
SafePointTimer(possible) ==
    /\ safePoint > 0
    /\ IF ready THEN safePoint' = 0 /\ UNCHANGED <<spent, backtracks>>
       ELSE /\ Backtrack(possible)
            /\ safePoint' = IF spent' # spent \/ LastAttempt THEN 0
                            ELSE safePoint + 1
    /\ UNCHANGED <<playerVars, netVars, loadVars, watchdog, ticketVars, errors, failures,
                   weak, ready, fresh, rateVars, historyVars>>

\* A tick of the monitor without a profile change; paused, seeking or offline it also
\* drops the evidence.
MonitorTick(usable, possible) ==
    /\ Playing /\ weak # "no"
    /\ IF ~ready /\ safePoint = 0 THEN Backtrack(possible) ELSE UNCHANGED <<spent, backtracks>>
    /\ fresh' = (fresh /\ usable)
    /\ UNCHANGED <<playerVars, netVars, loadVars, watchdog, ticketVars, errors, failures,
                   weak, ready, safePoint, rateVars, historyVars>>

\* pause, play, seeking, seeked, or a stall: invalidated evidence suspends the catch-up.
Interrupted ==
    /\ Playing
    /\ fresh' = FALSE
    /\ Unaccelerated
    /\ UNCHANGED <<playerVars, netVars, loadVars, watchdog, ticketVars, errors, failures,
                   historyVars>>

\* updateHlsCatchup: brake for buffer or evidence, or accelerate.
CatchUp(accelerate) ==
    /\ Playing /\ smooth /\ weak = "no"
    /\ accelerate => online /\ ~wasOffline /\ ~errors /\ fresh
    /\ fast' = accelerate
    /\ UNCHANGED <<playerVars, netVars, loadVars, watchdog, ticketVars, errors, failures,
                   weakVars, smooth, native, fresh, historyVars>>

\* Near its target for three seconds: the normal values return and the chain ends.
CaughtUp ==
    /\ Playing /\ smooth /\ weak = "no"
    /\ online /\ ~wasOffline /\ ~errors /\ fresh
    /\ smooth' = FALSE /\ fast' = FALSE /\ native' = TRUE
    /\ spent' = FALSE
    /\ UNCHANGED <<playerVars, netVars, loadVars, watchdog, ticketVars, errors, failures,
                   weak, ready, safePoint, backtracks, fresh, historyVars>>

-----------------------------------------------------------------------------
(* The network and the watchdog *)

GoOffline ==
    /\ online /\ online' = FALSE
    /\ unaware' = FALSE
    /\ IF Playing
       THEN wasOffline' = TRUE /\ fresh' = FALSE /\ fast' = FALSE
       ELSE UNCHANGED <<wasOffline, fresh, fast>>
    /\ UNCHANGED <<playerVars, loadVars, watchdog, ticketVars, errors, failures, weakVars,
                   smooth, native, dropped, broken>>

\* The event matters to a player that was told it was offline.  A weak profile gets its
\* safe-point attempts anew; queued work runs now, or loading just resumes.
GoOnline ==
    /\ ~online /\ online' = TRUE
    /\ IF Playing /\ wasOffline
       THEN /\ wasOffline' = FALSE /\ fresh' = FALSE
            /\ IF weak = "no" THEN EnterWeak("loss")
               ELSE safePoint' = 1 /\ UNCHANGED <<weak, ready, spent, backtracks, rateVars>>
            /\ IF pending # "none" THEN RunPending
               ELSE /\ loading' = (loading \/ manifest) /\ broken' = (broken /\ ~loading')
                    /\ UNCHANGED <<manifest, ticketVars>>
       ELSE UNCHANGED <<wasOffline, fresh, weakVars, rateVars, loadVars, ticketVars, broken>>
    /\ UNCHANGED <<playerVars, watchdog, errors, failures, unaware, dropped>>

PictureShown ==
    /\ watchdog /\ manifest
    /\ watchdog' = FALSE
    /\ UNCHANGED <<playerVars, netVars, loadVars, ticketVars, errors, failures, weakVars,
                   fresh, rateVars, historyVars>>

\* Eighteen seconds without a picture: AUTO hands over if the server failed or the codec
\* suits WebRTC better; otherwise the page only says so.
WatchdogTimer(preferred) ==
    /\ watchdog
    /\ IF MayHandOver /\ (preferred \/ failures > 0)
       THEN HandOver /\ UNCHANGED failures
       ELSE /\ watchdog' = FALSE
            /\ UNCHANGED <<playerVars, netVars, loadVars, ticketVars, errors, failures,
                           weakVars, fresh, rateVars, historyVars>>

-----------------------------------------------------------------------------

Viewer == ClickHls \/ ClickWhep \/ ClickAuto \/ \E t \in BOOLEAN : WhepFallsBack(t)

Events ==
    \/ MediaErrorHandsOver \/ PlaylistUnchanged
    \/ \E moves, slow \in BOOLEAN : FragLoaded(moves, slow)
    \/ \E b \in BOOLEAN : ManifestParsed(b) \/ NetworkError(b)
    \/ \E b \in BOOLEAN : MediaError(b) \/ FatalOtherError(b)
    \/ \E kind \in {"start", "reload"}, answer \in {"5xx", "4xx", "none"} :
          FatalNetworkError(kind, answer)

Media ==
    \/ Weakens \/ ExitWeak \/ ReadinessChanges \/ Interrupted \/ CaughtUp \/ PictureShown
    \/ \E b \in BOOLEAN : SafePointTimer(b) \/ CatchUp(b)
    \/ \E usable, possible \in BOOLEAN : MonitorTick(usable, possible)

Timers ==
    RecoveryTimer \/ \E b \in BOOLEAN : SourceTimer(b) \/ WatchdogTimer(b)

Next == Viewer \/ Events \/ Media \/ Timers \/ GoOffline \/ GoOnline

Spec == Init /\ [][Next]_vars

\* Timers fire; nothing else is promised, neither answers nor the network.
FairSpec ==
    Spec /\ WF_vars(RecoveryTimer) /\ WF_vars(\E b \in BOOLEAN : SourceTimer(b))

-----------------------------------------------------------------------------
(* What a correct player promises *)

\* A player whose loading a failed request has stopped has something ahead that resumes
\* it: a timer of the queued work, the reload's confirmation, or the online event;
\* whatever exits, further errors of any kind and other recoveries happened meanwhile.
\* There are just three ways to be left with nothing: a player started offline never
\* learns that the network is back, a reload whose confirmation fell due offline is not
\* asked for again, and a fatal media or other error that stopped a loading player is
\* not recovered from by the page (app.js:2603-2616).
RecoveryAhead ==
    Playing /\ ~loading =>
        \/ pending # "none" /\ due > 0
        \/ sourceTimer
        \/ wasOffline /\ (pending # "none" \/ manifest)
        \/ unaware \/ dropped \/ broken

\* A timer always stands for queued work: an exit, a reload or another timer that did the
\* work has made the others void.
TimersHaveWork == due > 0 => pending # "none"

\* One recovery chain, from the first weak entry to the handoff back to normal playback,
\* moves the viewer back at most once, and a new chain starts with that budget.
OneBacktrackPerChain ==
    /\ backtracks <= 1
    /\ weak = "no" /\ ~smooth => ~spent

\* There is one writer of the playback rate: while weak or catching up the native
\* controller may not accelerate, and the catch-up never does in weak mode or offline.
OneRateWriter ==
    /\ native <=> weak = "no" /\ ~smooth
    /\ fast => smooth /\ weak = "no" /\ online /\ ~errors

\* Work is not downgraded: while a reload is owed, nothing but its own run, an exit or a
\* new player takes it off the queue.
ReloadNotDowngraded == [][pending = "reload" => pending' # "start"]_vars

\* While timers fire, a player stopped by a failed request loads again, if the network
\* stays, however many errors arrive meanwhile; the three exceptions are RecoveryAhead's.
StoppedPlayerResumes ==
    Playing /\ ~loading /\ ~unaware /\ ~dropped /\ ~broken
        ~> loading \/ ~Playing \/ ~online
=============================================================================
