----------------------------- MODULE WhepPlayer -----------------------------
(***************************************************************************)
(* The life cycle of the web player (src/web/app.js): starting, replacing  *)
(* and recovering WHEP attempts, falling back to LL-HLS and back, and the  *)
(* ownership of the backend session each attempt creates.                  *)
(*                                                                         *)
(* JavaScript runs one task at a time, so a step is one task: a click, a   *)
(* timer, an event, or the continuation of an await.  A WHEP attempt is    *)
(* known by the generation that started it.  Delays are not modelled: a    *)
(* pending timer fires at any time, except where the code orders two.      *)
(* The browser has RTCPeerConnection; what happens inside an HLS player is *)
(* left to HlsGivesUp, its only way back to WHEP.                          *)
(***************************************************************************)
EXTENDS Integers, FiniteSets

CONSTANT MaxGen       \* bound: generations of players

ASSUME MaxGenAssumption == MaxGen \in Nat \ {0}

Attempts == 1 .. MaxGen
None == 0             \* null, no timer, no session

VARIABLES
    requested,        \* requestedMode: what the viewer asked for
    active,           \* activeMode
    gen,              \* generation
    attempt,          \* the attempt whose attemptActive holds (whepAttemptCleanup)
    step,             \* where that attempt awaits
    peer,             \* peerConnection, by the attempt that made it
    conn,             \* connectionState of each attempt's connection
    post,             \* the create request of each attempt
    created,          \* attempts whose createdSessionUrl is known
    released,         \* attempts whose releasedSessionUrl is set
    deletes,          \* DELETE requests sent, per session
    session,          \* whepSessionUrl
    keepalive,        \* the session whose keepalive interval runs
    polls,            \* keepalive requests under way, by session
    setupTimer, stableTimer,
    reconnect,        \* whepReconnectTimer and what it closed over
    reconnectAttempts,
    connectWatch, videoWatch,
    fallbackTried,    \* codecFallbackTried
    metadata,         \* the attempt's look at the manifest
    noHls,            \* effectiveHlsSupport() === false
    online,
    unloaded,         \* beforeunload ran, and nothing was started since
    promised,         \* history: a playing page announced that it will reconnect
    returns           \* history: HLS gave up for WHEP, since AUTO or the codec began

modeVars == <<requested, active, fallbackTried, noHls, returns>>
attemptVars == <<gen, attempt, step, peer, conn, metadata>>
sessionVars == <<created, released, deletes, session>>
requestVars == <<post, polls>>
timerVars == <<setupTimer, stableTimer, keepalive, connectWatch, videoWatch>>
recoveryVars == <<reconnect, reconnectAttempts>>
pageVars == <<online, unloaded, promised>>

vars == <<modeVars, attemptVars, sessionVars, requestVars, timerVars, recoveryVars,
          pageVars>>

NoTimer == [on |-> FALSE, gen |-> None, conn |-> None]

TypeOK ==
    /\ requested \in {"auto", "whep", "hls"} /\ active \in {"whep", "hls"}
    /\ gen \in Attempts
    /\ {attempt, peer, session, keepalive} \subseteq Attempts \cup {None}
    /\ step \in {"none", "offer", "posted", "body", "remote", "done"}
    /\ conn \in [Attempts -> {"none", "new", "connected", "disconnected", "failed", "closed"}]
    /\ post \in [Attempts -> {"none", "sent", "answered", "lost"}]
    /\ created \subseteq Attempts /\ released \subseteq created /\ polls \subseteq created
    /\ deletes \in [Attempts -> Nat]
    /\ reconnect \in [on : BOOLEAN, gen : Attempts \cup {None}, conn : Attempts \cup {None}]
    /\ reconnectAttempts \in 0 .. 2
    /\ metadata \in {"none", "fetch", "probe"}
    /\ {connectWatch, videoWatch} \subseteq {"off", "armed", "reading"}
    /\ {setupTimer, stableTimer, fallbackTried, noHls, online, unloaded,
        promised} \subseteq BOOLEAN
    /\ returns \in Nat

\* The page has loaded: its last line calls startAuto.
Init ==
    /\ requested = "auto" /\ active = "whep"
    /\ gen = 1 /\ attempt = 1 /\ step = "offer" /\ peer = 1
    /\ metadata = "fetch"
    /\ conn = [a \in Attempts |-> IF a = 1 THEN "new" ELSE "none"]
    /\ post = [a \in Attempts |-> "none"]
    /\ created = {} /\ released = {} /\ deletes = [a \in Attempts |-> 0]
    /\ session = None /\ keepalive = None /\ polls = {}
    /\ setupTimer = TRUE /\ stableTimer = FALSE
    /\ reconnect = NoTimer /\ reconnectAttempts = 0
    /\ connectWatch = "off" /\ videoWatch = "off"
    /\ fallbackTried = FALSE /\ noHls = FALSE
    /\ online = TRUE /\ unloaded = FALSE /\ promised = FALSE /\ returns = 0

IsCurrent(a) == attempt = a /\ gen = a /\ active = "whep" /\ peer = a

-----------------------------------------------------------------------------
(* Stopping a player *)

\* releaseCreatedSession: the attempt's session is deleted, the first time.
Released(a) == released \cup ({a} \cap created)

DeletesAfterRelease(a) ==
    [b \in Attempts |-> IF b \in ({a} \cap created) \ released THEN deletes[b] + 1
                        ELSE deletes[b]]

SessionAfterRelease(a) ==
    IF a \in created /\ peer = a /\ session = a THEN None ELSE session

\* stopCurrentPlayer runs the attempt's cleanup, then deletes what is still there.
DeletesAfterStop ==
    [b \in Attempts |-> IF b = SessionAfterRelease(attempt)
                        THEN DeletesAfterRelease(attempt)[b] + 1
                        ELSE DeletesAfterRelease(attempt)[b]]

\* Mutant: the connection is dropped without being closed.
ConnForgotten == conn

ConnAfterStop == [b \in Attempts |-> IF b = peer THEN "closed" ELSE conn[b]]

\* stopCurrentPlayer, but for the fields its callers set again.
StopCurrentPlayer ==
    /\ released' = Released(attempt)
    /\ deletes' = DeletesAfterStop
    /\ session' = None
    /\ stableTimer' = FALSE /\ keepalive' = None /\ connectWatch' = "off"
    /\ UNCHANGED created

-----------------------------------------------------------------------------
(* Starting a player *)

\* What a watchdog of an older generation still awaits has no effect: it compares
\* generations before anything else.
StartWhep ==
    LET a == gen + 1
    IN  /\ gen < MaxGen
        /\ gen' = a /\ attempt' = a /\ step' = "offer" /\ peer' = a
        /\ conn' = [ConnAfterStop EXCEPT ![a] = "new"]
        /\ metadata' = "fetch"
        /\ StopCurrentPlayer
        /\ active' = "whep" /\ noHls' = FALSE
        /\ setupTimer' = TRUE /\ videoWatch' = "off" /\ reconnect' = NoTimer
        /\ unloaded' = FALSE

StartHls ==
    /\ gen < MaxGen
    /\ gen' = gen + 1 /\ attempt' = None /\ step' = "none" /\ peer' = None
    /\ conn' = ConnAfterStop /\ metadata' = "none"
    /\ StopCurrentPlayer
    /\ active' = "hls"
    /\ setupTimer' = FALSE /\ videoWatch' = "off" /\ reconnect' = NoTimer
    /\ unloaded' = FALSE /\ promised' = FALSE

\* startAuto stops the player and starts WHEP in the same task.
ClickAuto ==
    /\ requested' = "auto"
    /\ reconnectAttempts' = 0 /\ fallbackTried' = FALSE /\ returns' = 0
    /\ StartWhep
    /\ promised' = FALSE
    /\ UNCHANGED <<requestVars, online>>

ClickWhep ==
    /\ requested' = "whep"
    /\ reconnectAttempts' = 0
    /\ StartWhep
    /\ promised' = FALSE
    /\ UNCHANGED <<requestVars, fallbackTried, online, returns>>

ClickHls ==
    /\ requested' = "hls"
    /\ reconnectAttempts' = 0
    /\ StartHls
    /\ UNCHANGED <<requestVars, fallbackTried, noHls, online, returns>>

\* beforeunload stops the player under a new generation and leaves the mode alone.
Unload ==
    /\ gen < MaxGen
    /\ gen' = gen + 1 /\ attempt' = None /\ step' = "none" /\ peer' = None
    /\ conn' = ConnAfterStop /\ metadata' = "none"
    /\ StopCurrentPlayer
    /\ setupTimer' = FALSE /\ videoWatch' = "off" /\ reconnect' = NoTimer
    /\ unloaded' = TRUE /\ promised' = FALSE
    /\ UNCHANGED <<requestVars, modeVars, reconnectAttempts, online>>

\* The player restarts WHEP, or falls back to HLS, on its own.
Restart ==
    /\ StartWhep
    /\ UNCHANGED <<requestVars, requested, fallbackTried, returns, reconnectAttempts,
                   online, promised>>

\* Mutant: every fallback starts the decision afresh.
FallBackForgetting(tried) ==
    /\ StartHls
    /\ fallbackTried' = FALSE
    /\ UNCHANGED <<requestVars, requested, noHls, returns, reconnectAttempts, online>>

FallBack(tried) ==
    /\ StartHls
    /\ fallbackTried' = tried
    /\ UNCHANGED <<requestVars, requested, noHls, returns, reconnectAttempts, online>>

\* In AUTO an HLS player that shows no picture, gets server errors or cannot decode
\* the codec hands over to WHEP, unless that was tried.
HlsGivesUp ==
    /\ active = "hls" /\ ~unloaded /\ requested = "auto" /\ ~fallbackTried
    /\ fallbackTried' = TRUE
    /\ returns' = returns + 1
    /\ StartWhep
    /\ UNCHANGED <<requestVars, requested, reconnectAttempts, online, promised>>

-----------------------------------------------------------------------------
(* Recovering WHEP *)

Bumped(n) == IF n < 2 THEN n + 1 ELSE n   \* the code only asks for n >= 2

\* scheduleWhepRecovery, with the generation and connection it closes over.
ScheduleWhepRecovery(c) ==
    IF reconnect.on THEN UNCHANGED recoveryVars
    ELSE /\ reconnect' = [on |-> TRUE, gen |-> gen, conn |-> c]
         /\ reconnectAttempts' = Bumped(reconnectAttempts)

\* Mutant: the timer does not look at the viewer's choice.
GivesUpWhepAnyMode == reconnectAttempts >= 2

GivesUpWhep == requested = "auto" /\ reconnectAttempts >= 2

StillWanted ==
    /\ reconnect.gen = gen /\ active = "whep" /\ peer = reconnect.conn
    /\ peer # None => conn[peer] # "connected"

ReconnectStale ==
    /\ reconnect.on /\ ~StillWanted
    /\ reconnect' = NoTimer
    /\ UNCHANGED <<modeVars, attemptVars, sessionVars, requestVars, timerVars,
                   reconnectAttempts, pageVars>>

ReconnectRestarts ==
    /\ reconnect.on /\ StillWanted /\ ~GivesUpWhep
    /\ Restart

ReconnectFallsBack ==
    /\ reconnect.on /\ StillWanted /\ GivesUpWhep /\ ~noHls
    /\ FallBack(TRUE)

\* HLS cannot play the codec either: the page only says so.
ReconnectEnds ==
    /\ reconnect.on /\ StillWanted /\ GivesUpWhep /\ noHls
    /\ reconnect' = NoTimer
    /\ fallbackTried' = TRUE
    /\ UNCHANGED <<requested, active, noHls, returns, attemptVars, sessionVars,
                   requestVars, timerVars, reconnectAttempts, pageVars>>

StableTimer ==
    /\ stableTimer
    /\ stableTimer' = FALSE
    /\ reconnectAttempts' =
         IF active = "whep" /\ peer # None /\ conn[peer] = "connected"
         THEN 0 ELSE reconnectAttempts
    /\ UNCHANGED <<modeVars, attemptVars, sessionVars, requestVars, setupTimer, keepalive,
                   connectWatch, videoWatch, reconnect, pageVars>>

-----------------------------------------------------------------------------
(* One WHEP attempt *)

\* The setup deadline stops the player but keeps its generation.  A video watchdog
\* that already awaits its report is not a timer any more and stays.
SetupTimeout ==
    /\ setupTimer /\ IsCurrent(attempt) /\ conn[attempt] # "connected"
    /\ attempt' = None /\ step' = "none" /\ peer' = None /\ conn' = ConnAfterStop
    /\ metadata' = "none"
    /\ StopCurrentPlayer
    /\ setupTimer' = FALSE
    /\ videoWatch' = IF videoWatch = "reading" THEN "reading" ELSE "off"
    /\ IF requested = "auto"
       THEN /\ reconnect' = [on |-> TRUE, gen |-> gen, conn |-> None]
            /\ reconnectAttempts' = Bumped(reconnectAttempts)
            /\ UNCHANGED promised
       ELSE /\ reconnect' = NoTimer
            /\ promised' = FALSE
            /\ UNCHANGED reconnectAttempts
    /\ UNCHANGED <<modeVars, gen, requestVars, online, unloaded>>

RecoversAfterFailure == requested = "auto"

\* The catch of startWhep, for an attempt that is still current: only in AUTO does
\* the page try again.
Fail ==
    /\ released' = Released(attempt)
    /\ deletes' = DeletesAfterRelease(attempt)
    /\ session' = SessionAfterRelease(attempt)
    /\ attempt' = None /\ step' = "none" /\ metadata' = "none"
    /\ setupTimer' = FALSE /\ keepalive' = None
    /\ conn' = ConnAfterStop
    /\ IF RecoversAfterFailure
       THEN ScheduleWhepRecovery(attempt) /\ UNCHANGED peer
       ELSE peer' = None /\ UNCHANGED recoveryVars
    /\ UNCHANGED <<modeVars, gen, created, stableTimer, connectWatch, videoWatch, online,
                   unloaded>>

\* The offer is made and its candidates are gathered: the create is sent.
OfferReady ==
    /\ step = "offer" /\ IsCurrent(attempt)
    /\ step' = "posted"
    /\ post' = [post EXCEPT ![attempt] = "sent"]
    /\ UNCHANGED <<modeVars, gen, attempt, peer, conn, metadata, sessionVars, polls,
                   timerVars, recoveryVars, pageVars>>

\* The browser makes no offer, or a manual attempt finds the codec missing in it.
OfferFails ==
    /\ step = "offer" /\ IsCurrent(attempt)
    /\ Fail
    /\ promised' = FALSE
    /\ UNCHANGED requestVars

OfferLacksCodec ==
    /\ step = "offer" /\ IsCurrent(attempt) /\ requested # "whep"
    /\ FallBack(TRUE)

\* The create is never aborted: whoever is current when its answer comes, the
\* answer's session is noted, and released if its attempt is over.
\* Mutant: an answer that comes too late is dropped.
LateRelease(a) == {}

LateAnswer(a) == IF IsCurrent(a) THEN {} ELSE {a}

CreateAnswered(a, accepted) ==
    LET late == IF accepted THEN LateAnswer(a) ELSE {}
    IN  /\ online /\ post[a] = "sent"
        /\ post' = [post EXCEPT ![a] = "answered"]
        /\ created' = IF accepted THEN created \cup {a} ELSE created
        /\ released' = released \cup late
        /\ deletes' = [b \in Attempts |-> IF b \in late THEN deletes[b] + 1 ELSE deletes[b]]
        /\ step' = IF IsCurrent(a) THEN "body" ELSE step
        /\ UNCHANGED <<modeVars, gen, attempt, peer, conn, metadata, session, polls,
                       timerVars, recoveryVars, pageVars>>

\* The request or its answer is lost on the way.
CreateLost(a) ==
    /\ post[a] = "sent"
    /\ post' = [post EXCEPT ![a] = "lost"]
    /\ IF IsCurrent(a) THEN Fail
       ELSE UNCHANGED <<modeVars, attemptVars, sessionVars, timerVars, recoveryVars, online,
                      unloaded>>
    /\ UNCHANGED <<polls, promised>>

\* The body of the answer is read: a session is installed,
BodyRead ==
    /\ step = "body" /\ IsCurrent(attempt) /\ attempt \in created
    /\ session' = attempt /\ keepalive' = attempt /\ step' = "remote"
    /\ UNCHANGED <<modeVars, gen, attempt, peer, conn, metadata, created, released, deletes,
                   requestVars, setupTimer, stableTimer, connectWatch, videoWatch,
                   recoveryVars, pageVars>>

\* the answer refuses the codec,
BodyRefusesCodec ==
    /\ step = "body" /\ IsCurrent(attempt) /\ attempt \notin created
    /\ requested # "whep"
    /\ FallBack(TRUE)

\* or the attempt fails on the body, or on applying it.
AnswerFails ==
    /\ step \in {"body", "remote"} /\ IsCurrent(attempt)
    /\ Fail
    /\ promised' = FALSE
    /\ UNCHANGED requestVars

AnswerApplied ==
    /\ step = "remote" /\ IsCurrent(attempt)
    /\ step' = "done"
    /\ connectWatch' = IF conn[attempt] # "connected" THEN "armed" ELSE connectWatch
    /\ UNCHANGED <<modeVars, gen, attempt, peer, conn, metadata, sessionVars, requestVars,
                   setupTimer, stableTimer, keepalive, videoWatch, recoveryVars,
                   pageVars>>

-----------------------------------------------------------------------------
(* What the manifest says, while the attempt goes on *)

\* A codec of another family than the one known before the attempt (there is none
\* for the first attempt of AUTO) starts the fallback decision afresh.
MetadataArrives(unsupported, codecChanged) ==
    /\ metadata = "fetch" /\ IsCurrent(attempt)
    /\ metadata' = "probe"
    /\ noHls' = unsupported
    /\ fallbackTried' = (fallbackTried /\ ~codecChanged)
    /\ returns' = IF codecChanged THEN 0 ELSE returns
    /\ UNCHANGED <<requested, active, gen, attempt, step, peer, conn, sessionVars,
                   requestVars, timerVars, recoveryVars, pageVars>>

\* The browser's own probe can only add a reason against HLS.
CapabilityProbed(unsupported) ==
    /\ metadata = "probe" /\ IsCurrent(attempt)
    /\ metadata' = "none"
    /\ noHls' = (noHls \/ unsupported)
    /\ UNCHANGED <<requested, active, fallbackTried, returns, gen, attempt, step, peer, conn,
                   sessionVars, requestVars, timerVars, recoveryVars, pageVars>>

-----------------------------------------------------------------------------
(* Media *)

Connected ==
    /\ online /\ step \in {"remote", "done"} /\ IsCurrent(attempt)
    /\ conn[attempt] \in {"new", "disconnected"}
    /\ conn' = [conn EXCEPT ![attempt] = "connected"]
    /\ setupTimer' = FALSE /\ connectWatch' = "off" /\ stableTimer' = TRUE
    /\ reconnect' = NoTimer
    /\ promised' = FALSE
    /\ UNCHANGED <<modeVars, gen, attempt, step, peer, metadata, sessionVars, requestVars,
                   keepalive, videoWatch, reconnectAttempts, online, unloaded>>

\* Mutant: only a failed connection is recovered.
RecoversFailedOnly(state) == state = "failed"

Recovers(state) == state \in {"failed", "disconnected"}

ConnectionDrops(state) ==
    /\ step \in {"remote", "done"} /\ IsCurrent(attempt)
    /\ \/ state = "disconnected" /\ conn[attempt] = "connected"
       \/ state = "failed" /\ conn[attempt] \in {"new", "connected", "disconnected"}
    /\ conn' = [conn EXCEPT ![attempt] = state]
    /\ IF Recovers(state) THEN ScheduleWhepRecovery(attempt) ELSE UNCHANGED recoveryVars
    /\ UNCHANGED <<modeVars, gen, attempt, step, peer, metadata, sessionVars, requestVars,
                   timerVars, pageVars>>

\* Audio and video have drifted apart; 150 ms later the page starts over.
SyncLost ==
    /\ IsCurrent(attempt) /\ conn[attempt] \in {"connected", "disconnected", "failed"}
    /\ step = "done"
    /\ Restart

ConnectWatchdogFires ==
    /\ connectWatch = "armed" /\ ~setupTimer   \* armed later, for the same time
    /\ connectWatch' = IF active = "whep" /\ peer # None /\ conn[peer] # "connected"
                       THEN "reading" ELSE "off"
    /\ UNCHANGED <<modeVars, attemptVars, sessionVars, requestVars, setupTimer, stableTimer,
                   keepalive, videoWatch, recoveryVars, pageVars>>

\* After the ICE report, which the connection may have outrun.
ConnectWatchdogFallsBack ==
    /\ connectWatch = "reading" /\ active = "whep" /\ peer # None
    /\ requested = "auto" /\ ~noHls
    /\ FallBack(fallbackTried)

ConnectWatchdogRecovers ==
    /\ connectWatch = "reading" /\ active = "whep" /\ peer # None
    /\ requested # "auto" \/ noHls
    /\ connectWatch' = "off"
    /\ ScheduleWhepRecovery(peer)
    /\ UNCHANGED <<modeVars, attemptVars, sessionVars, requestVars, setupTimer, stableTimer,
                   keepalive, videoWatch, pageVars>>

VideoTrack ==
    /\ step \in {"remote", "done"} /\ IsCurrent(attempt) /\ videoWatch = "off"
    /\ videoWatch' = "armed"
    /\ UNCHANGED <<modeVars, attemptVars, sessionVars, requestVars, setupTimer, stableTimer,
                   keepalive, connectWatch, recoveryVars, pageVars>>

FrameDecoded ==
    /\ videoWatch # "off" /\ peer # None
    /\ videoWatch' = "off"
    /\ UNCHANGED <<modeVars, attemptVars, sessionVars, requestVars, setupTimer, stableTimer,
                   keepalive, connectWatch, recoveryVars, pageVars>>

VideoWatchdogFires ==
    /\ videoWatch = "armed"
    /\ videoWatch' = IF active = "whep" /\ peer # None THEN "reading" ELSE "off"
    /\ UNCHANGED <<modeVars, attemptVars, sessionVars, requestVars, setupTimer, stableTimer,
                   keepalive, connectWatch, recoveryVars, pageVars>>

\* After the report only the generation is compared.
VideoWatchdogFallsBack ==
    /\ videoWatch = "reading" /\ requested = "auto" /\ ~noHls
    /\ FallBack(fallbackTried)

VideoWatchdogReports ==
    /\ videoWatch = "reading" /\ (requested # "auto" \/ noHls)
    /\ videoWatch' = "off"
    /\ UNCHANGED <<modeVars, attemptVars, sessionVars, requestVars, setupTimer, stableTimer,
                   keepalive, connectWatch, recoveryVars, pageVars>>

-----------------------------------------------------------------------------
(* Keepalive and the network *)

KeepaliveSent ==
    /\ keepalive # None /\ keepalive \notin polls
    /\ keepalive = gen /\ active = "whep" /\ session = keepalive
    /\ polls' = polls \cup {keepalive}
    /\ UNCHANGED <<modeVars, attemptVars, sessionVars, post, timerVars,
                   recoveryVars, pageVars>>

KeepaliveAnswered(a) ==
    /\ a \in polls
    /\ polls' = polls \ {a}
    /\ UNCHANGED <<modeVars, attemptVars, sessionVars, post, timerVars,
                   recoveryVars, pageVars>>

\* The session is unknown: a new one is made, if it is still this player's.
KeepaliveUnknown(a) ==
    /\ a \in polls /\ online
    /\ a = gen /\ active = "whep" /\ session = a
    /\ StartWhep
    /\ polls' = polls \ {a}
    /\ UNCHANGED <<requested, fallbackTried, returns, post, reconnectAttempts,
                   online, promised>>

GoOffline ==
    /\ online
    /\ online' = FALSE
    /\ promised' = (active = "whep" /\ peer # None /\ conn[peer] = "connected")
    /\ UNCHANGED <<modeVars, attemptVars, sessionVars, requestVars, timerVars, recoveryVars,
                   unloaded>>

GoOnline ==
    /\ ~online
    /\ online' = TRUE
    /\ IF active = "whep" /\ peer # None /\ conn[peer] # "connected"
       THEN ScheduleWhepRecovery(peer)
       ELSE UNCHANGED recoveryVars
    /\ promised' = (promised /\ (peer # None => conn[peer] # "connected"))
    /\ UNCHANGED <<modeVars, attemptVars, sessionVars, requestVars, timerVars, unloaded>>

-----------------------------------------------------------------------------

Viewer == ClickAuto \/ ClickWhep \/ ClickHls \/ Unload

Timers ==
    \/ ReconnectStale \/ ReconnectRestarts \/ ReconnectFallsBack \/ ReconnectEnds
    \/ StableTimer \/ SetupTimeout
    \/ ConnectWatchdogFires \/ ConnectWatchdogFallsBack \/ ConnectWatchdogRecovers
    \/ VideoWatchdogFires \/ VideoWatchdogFallsBack \/ VideoWatchdogReports
    \/ KeepaliveSent

AttemptSteps ==
    \/ OfferReady \/ OfferFails \/ OfferLacksCodec
    \/ \E a \in Attempts : CreateLost(a) \/ \E accepted \in BOOLEAN : CreateAnswered(a, accepted)
    \/ BodyRead \/ BodyRefusesCodec \/ AnswerFails \/ AnswerApplied
    \/ \E unsupported, changed \in BOOLEAN : MetadataArrives(unsupported, changed)
    \/ \E unsupported \in BOOLEAN : CapabilityProbed(unsupported)

Media ==
    \/ Connected \/ SyncLost \/ VideoTrack \/ FrameDecoded \/ HlsGivesUp
    \/ \E state \in {"disconnected", "failed"} : ConnectionDrops(state)

Outside ==
    \/ \E a \in Attempts : KeepaliveAnswered(a) \/ KeepaliveUnknown(a)
    \/ GoOffline \/ GoOnline

Next == Viewer \/ Timers \/ AttemptSteps \/ Media \/ Outside

Spec == Init /\ [][Next]_vars

-----------------------------------------------------------------------------
(* What a correct player promises *)

\* No session is leaked and none is deleted twice: one whose Location the page has
\* seen belongs to the running attempt, or a single DELETE was sent for it, however
\* late its answer came and however the attempt ended.
SessionsReleasedOnce ==
    \A a \in Attempts :
        /\ deletes[a] <= 1
        /\ a \in created /\ a # attempt <=> deletes[a] = 1

\* A session that is deleted is no longer used: it is not the current one, has no
\* keepalive, and its connection is closed.
DeletedUnused ==
    \A a \in Attempts : deletes[a] > 0 =>
        session # a /\ keepalive # a /\ conn[a] = "closed"

\* There is one player: an open connection is the current attempt's, and an HLS
\* player, or a page that unloads, has no connection, session, attempt or WHEP timer.
OnePlayer ==
    /\ \A a \in Attempts : conn[a] \notin {"none", "closed"} => IsCurrent(a)
    /\ active = "hls" \/ unloaded =>
         /\ peer = None /\ session = None /\ attempt = None
         /\ ~setupTimer /\ ~reconnect.on /\ keepalive = None /\ videoWatch = "off"

\* Nothing that was started before a viewer's choice undoes it: a manual mode stays
\* in force whatever timers, answers and reports of earlier players are still due.
ManualModeKept == requested # "auto" => active = requested

\* AUTO does not swing between the modes for ever: HLS hands over to WHEP at most
\* once until AUTO is asked for again or the stream changes its codec, and what
\* happened meanwhile never makes the page forget that it did.
AutoSettles == returns <= 1 /\ (returns = 1 => fallbackTried)

\* In AUTO a WHEP player that is not connected always has a deadline or a recovery
\* ahead of it, unless it gave up because HLS cannot play the codec.
AutoNeverStranded ==
    requested = "auto" /\ active = "whep" /\ ~unloaded =>
        \/ setupTimer \/ reconnect.on
        \/ peer # None /\ conn[peer] = "connected"
        \/ noHls /\ fallbackTried /\ reconnectAttempts >= 2

\* The offline message promises that WebRTC reconnects once the network is back
\* (app.js:2783).  While the promise stands and the page is online, the player is
\* connected or something will try again.
OfflinePromiseKept ==
    promised /\ online /\ active = "whep" =>
        \/ setupTimer \/ reconnect.on
        \/ peer # None /\ conn[peer] = "connected"
=============================================================================
