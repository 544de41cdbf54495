-------------------------- MODULE WhepPlayerProofs --------------------------
(* Proofs about the web player: who owns a backend session, a connection and *)
(* a keepalive, and that each session is released once; that there is one    *)
(* player, the choice of the viewer stands, AUTO changes mode back at most   *)
(* once and is never stranded.                                               *)
EXTENDS WhepPlayer, TLAPS

\* Who holds what: an attempt that runs is current, a session is its own and known,
\* and a keepalive is the session's.
Handles ==
    /\ attempt # None => IsCurrent(attempt)
    /\ step # "none" => attempt # None
    /\ session # None => session = attempt /\ session \in created
    /\ keepalive # None => keepalive = session

\* The sessions released are those of the attempts that are over, each once.
Ledger ==
    /\ released = created \ {attempt}
    /\ \A a \in Attempts : deletes[a] = IF a \in released THEN 1 ELSE 0

\* A session is known from an answer only, and a request was made on a connection.
Posts ==
    /\ \A a \in Attempts :
         /\ a \in created => post[a] = "answered"
         /\ a > gen => post[a] = "none"
         /\ post[a] # "none" => conn[a] # "none"
    /\ step = "offer" => post[attempt] = "none"
    /\ peer # None => conn[peer] # "none"

\* Only the running attempt has a connection that is open.
Connections == \A a \in Attempts : conn[a] \notin {"none", "closed"} => a = attempt

PlayerInv == TypeOK /\ Handles /\ Ledger /\ Posts /\ Connections

-----------------------------------------------------------------------------
(* Stopping a player *)

\* None is not an attempt, and the current generation is one.
LEMMA Numbers ==
    ASSUME TypeOK
    PROVE  /\ MaxGen \in Nat /\ gen \in Nat /\ gen \in Attempts /\ None \notin Attempts
           /\ \A a \in Attempts : a \in Nat /\ a # None
           /\ gen < MaxGen => gen + 1 \in Attempts /\ gen + 1 # gen /\ gen + 1 > gen
BY MaxGenAssumption DEF TypeOK, Attempts, None

\* Stopping releases the attempt's session, once, and leaves no session behind.
LEMMA StopLedger ==
    ASSUME PlayerInv
    PROVE  /\ Released(attempt) = created
           /\ SessionAfterRelease(attempt) = None
           /\ \A b \in Attempts : /\ DeletesAfterRelease(attempt)[b] = IF b \in created THEN 1 ELSE 0
                                  /\ DeletesAfterStop[b] = IF b \in created THEN 1 ELSE 0
           /\ DeletesAfterRelease(attempt) \in [Attempts -> Nat]
           /\ DeletesAfterStop \in [Attempts -> Nat]
<1>1. Released(attempt) = created
  BY DEF PlayerInv, Ledger, Released
<1>2. SessionAfterRelease(attempt) = None
  BY DEF PlayerInv, Handles, IsCurrent, SessionAfterRelease, None
<1>3. \A b \in Attempts : DeletesAfterRelease(attempt)[b] = IF b \in created THEN 1 ELSE 0
  BY DEF PlayerInv, Ledger, DeletesAfterRelease
<1>4. \A b \in Attempts : DeletesAfterStop[b] = IF b \in created THEN 1 ELSE 0
  BY <1>2, <1>3, Numbers DEF PlayerInv, DeletesAfterStop
<1>5. /\ DeletesAfterRelease(attempt) \in [Attempts -> Nat]
      /\ DeletesAfterStop \in [Attempts -> Nat]
  <2>1. deletes \in [Attempts -> Nat]
    BY DEF PlayerInv, TypeOK
  <2>2. DeletesAfterRelease(attempt) \in [Attempts -> Nat]
    BY <2>1 DEF DeletesAfterRelease
  <2> QED BY <2>2 DEF DeletesAfterStop
<1> QED BY <1>1, <1>2, <1>3, <1>4, <1>5

\* Stopping closes every connection that is open and makes none.
LEMMA StopConnections ==
    ASSUME PlayerInv
    PROVE  /\ ConnAfterStop \in
                [Attempts -> {"none", "new", "connected", "disconnected", "failed", "closed"}]
           /\ \A b \in Attempts : /\ ConnAfterStop[b] \in {"none", "closed"}
                                  /\ ConnAfterStop[b] = "none" <=> conn[b] = "none"
<1>1. \A b \in Attempts : ConnAfterStop[b] = IF b = peer THEN "closed" ELSE conn[b]
  BY DEF ConnAfterStop
<1>2. \A b \in Attempts : b # peer => conn[b] \in {"none", "closed"}
  BY Numbers DEF PlayerInv, Handles, Connections, IsCurrent
<1>3. \A b \in Attempts : b = peer => conn[b] # "none"
  BY Numbers DEF PlayerInv, Posts
<1>4. ConnAfterStop \in
        [Attempts -> {"none", "new", "connected", "disconnected", "failed", "closed"}]
  BY DEF PlayerInv, TypeOK, ConnAfterStop
<1> QED BY <1>1, <1>2, <1>3, <1>4

-----------------------------------------------------------------------------
(* One lemma per way a task treats the player *)

\* A new WHEP attempt owns nothing yet; nobody else does either.
LEMMA StartWhepKeeps ==
    ASSUME PlayerInv, StartWhep, UNCHANGED post
    PROVE  /\ (Handles /\ Ledger /\ Posts /\ Connections)'
           /\ {attempt', peer', session', keepalive'} \subseteq Attempts \cup {None}
           /\ gen' \in Attempts /\ step' = "offer" /\ active' = "whep"
           /\ conn' \in
                [Attempts -> {"none", "new", "connected", "disconnected", "failed", "closed"}]
           /\ created' = created /\ released' = created
           /\ deletes' \in [Attempts -> Nat]
           /\ setupTimer' = TRUE /\ reconnect' = NoTimer /\ videoWatch' = "off"
           /\ connectWatch' = "off" /\ stableTimer' = FALSE /\ metadata' = "fetch"
           /\ noHls' = FALSE /\ unloaded' = FALSE
<1> DEFINE a == gen + 1
<1>1. /\ a \in Attempts /\ a \notin created /\ post[a] = "none" /\ a # None
      /\ \A b \in Attempts : b > a => b > gen
  BY Numbers DEF PlayerInv, Posts, StartWhep
<1>2. /\ gen' = a /\ attempt' = a /\ peer' = a /\ step' = "offer"
      /\ session' = None /\ keepalive' = None /\ active' = "whep"
      /\ created' = created /\ post' = post
      /\ released' = Released(attempt) /\ deletes' = DeletesAfterStop
      /\ conn' = [ConnAfterStop EXCEPT ![a] = "new"]
      /\ setupTimer' = TRUE /\ reconnect' = NoTimer /\ videoWatch' = "off"
      /\ connectWatch' = "off" /\ stableTimer' = FALSE /\ metadata' = "fetch"
      /\ noHls' = FALSE /\ unloaded' = FALSE
  BY DEF StartWhep, StopCurrentPlayer
<1> HIDE DEF a
<1>3. /\ \A b \in Attempts : conn'[b] = IF b = a THEN "new" ELSE ConnAfterStop[b]
      /\ conn' \in
           [Attempts -> {"none", "new", "connected", "disconnected", "failed", "closed"}]
  BY <1>1, <1>2, StopConnections
<1>4. Handles'
  BY <1>1, <1>2 DEF Handles, IsCurrent
<1>5. Ledger'
  BY <1>1, <1>2, StopLedger DEF Ledger
<1>6. Posts'
  BY <1>1, <1>2, <1>3, StopConnections DEF PlayerInv, Posts
<1>7. Connections'
  BY <1>2, <1>3, StopConnections DEF Connections
<1> QED BY <1>1, <1>2, <1>3, <1>4, <1>5, <1>6, <1>7, StopLedger

\* A page that plays HLS, or unloads, has no attempt: a stopped player.
LEMMA StopKeeps ==
    ASSUME PlayerInv, StopCurrentPlayer, UNCHANGED post,
           attempt' = None, peer' = None, step' = "none", conn' = ConnAfterStop,
           gen' \in Attempts, gen' >= gen
    PROVE  /\ (Handles /\ Ledger /\ Posts /\ Connections)'
           /\ {attempt', peer', session', keepalive'} \subseteq Attempts \cup {None}
           /\ session' = None /\ keepalive' = None
           /\ conn' \in
                [Attempts -> {"none", "new", "connected", "disconnected", "failed", "closed"}]
           /\ created' = created /\ released' = created
           /\ deletes' \in [Attempts -> Nat]
           /\ connectWatch' = "off" /\ stableTimer' = FALSE
<1>1. /\ session' = None /\ keepalive' = None /\ created' = created /\ post' = post
      /\ released' = Released(attempt) /\ deletes' = DeletesAfterStop
      /\ connectWatch' = "off" /\ stableTimer' = FALSE
  BY DEF StopCurrentPlayer
<1>2. Handles'
  BY <1>1 DEF Handles
<1>3. Ledger'
  BY <1>1, StopLedger, Numbers DEF PlayerInv, TypeOK, Ledger
<1>4. Posts'
  <2>1. \A b \in Attempts : b > gen' => b > gen
    BY Numbers DEF PlayerInv, Attempts
  <2> QED BY <1>1, <2>1, StopConnections DEF PlayerInv, Posts
<1>5. Connections'
  BY StopConnections DEF Connections
<1> QED BY <1>1, <1>2, <1>3, <1>4, <1>5, StopLedger, StopConnections

LEMMA StartHlsKeeps ==
    ASSUME PlayerInv, StartHls, UNCHANGED post
    PROVE  /\ (Handles /\ Ledger /\ Posts /\ Connections)'
           /\ {attempt', peer', session', keepalive'} \subseteq Attempts \cup {None}
           /\ gen' \in Attempts /\ step' = "none" /\ active' = "hls"
           /\ conn' \in
                [Attempts -> {"none", "new", "connected", "disconnected", "failed", "closed"}]
           /\ created' = created /\ released' = created
           /\ deletes' \in [Attempts -> Nat]
           /\ attempt' = None /\ peer' = None /\ session' = None /\ keepalive' = None
           /\ setupTimer' = FALSE /\ reconnect' = NoTimer /\ videoWatch' = "off"
           /\ connectWatch' = "off" /\ stableTimer' = FALSE /\ metadata' = "none"
           /\ unloaded' = FALSE /\ promised' = FALSE
<1>1. /\ StopCurrentPlayer /\ attempt' = None /\ peer' = None /\ step' = "none"
      /\ conn' = ConnAfterStop /\ gen' \in Attempts /\ gen' >= gen /\ active' = "hls"
      /\ setupTimer' = FALSE /\ reconnect' = NoTimer /\ videoWatch' = "off"
      /\ metadata' = "none" /\ unloaded' = FALSE /\ promised' = FALSE
  BY Numbers DEF StartHls, PlayerInv
<1> QED BY <1>1, StopKeeps

\* A failed attempt is over; in AUTO its closed connection stays for the recovery.
LEMMA FailKeeps ==
    ASSUME PlayerInv, Fail, IsCurrent(attempt), post' \in [Attempts -> {"none", "sent", "answered", "lost"}],
           \A a \in Attempts : post'[a] # post[a] => post[a] = "sent" /\ post'[a] = "lost"
    PROVE  /\ (Handles /\ Ledger /\ Posts /\ Connections)'
           /\ {attempt', peer', session', keepalive'} \subseteq Attempts \cup {None}
           /\ session' = None /\ keepalive' = None /\ step' = "none"
           /\ conn' \in
                [Attempts -> {"none", "new", "connected", "disconnected", "failed", "closed"}]
           /\ created' = created /\ released' = created
           /\ deletes' \in [Attempts -> Nat]
<1>1. /\ session' = SessionAfterRelease(attempt) /\ keepalive' = None
      /\ created' = created /\ gen' = gen
      /\ released' = Released(attempt) /\ deletes' = DeletesAfterRelease(attempt)
      /\ attempt' = None /\ step' = "none" /\ conn' = ConnAfterStop
      /\ peer' \in {None, peer}
  BY DEF Fail
<1>2. Handles'
  BY <1>1, StopLedger DEF Handles
<1>3. Ledger'
  BY <1>1, StopLedger, Numbers DEF PlayerInv, TypeOK, Ledger
<1>4. Posts'
  <2>1. peer \in Attempts \cup {None}
    BY DEF PlayerInv, TypeOK
  <2>2. peer' # None => conn'[peer'] # "none"
    BY <1>1, <2>1, StopConnections DEF PlayerInv, Posts
  <2>3. ASSUME NEW a \in Attempts
        PROVE  /\ a \in created' => post'[a] = "answered"
               /\ a > gen' => post'[a] = "none"
               /\ post'[a] # "none" => conn'[a] # "none"
    BY <1>1, StopConnections DEF PlayerInv, Posts
  <2> QED BY <1>1, <2>2, <2>3 DEF Posts
<1>5. Connections'
  BY <1>1, StopConnections DEF Connections
<1> QED BY <1>1, <1>2, <1>3, <1>4, <1>5, StopLedger, StopConnections DEF PlayerInv, TypeOK

\* A task that leaves the ownership alone.
LEMMA OwnersUntouched ==
    ASSUME PlayerInv,
           UNCHANGED <<active, gen, attempt, step, peer, conn, sessionVars, post, keepalive>>
    PROVE  (Handles /\ Ledger /\ Posts /\ Connections)'
BY DEF PlayerInv, Handles, IsCurrent, Ledger, Posts, Connections, sessionVars

LEMMA RecoveryType ==
    ASSUME TypeOK, NEW c \in Attempts \cup {None}, ScheduleWhepRecovery(c)
    PROVE  /\ reconnect' \in [on : BOOLEAN, gen : Attempts \cup {None}, conn : Attempts \cup {None}]
           /\ reconnectAttempts' \in 0 .. 2
<1>1. CASE reconnect.on
  BY <1>1 DEF TypeOK, ScheduleWhepRecovery, recoveryVars
<1>2. CASE ~reconnect.on
  <2>1. reconnect' = [on |-> TRUE, gen |-> gen, conn |-> c] /\ gen \in Attempts
    BY <1>2 DEF TypeOK, ScheduleWhepRecovery
  <2>2. reconnectAttempts' = Bumped(reconnectAttempts) /\ reconnectAttempts \in 0 .. 2
    BY <1>2 DEF TypeOK, ScheduleWhepRecovery
  <2>3. reconnectAttempts' \in 0 .. 2
    BY <2>2 DEF Bumped
  <2> QED BY <2>1, <2>3
<1> QED BY <1>1, <1>2

LEMMA NoTimerType ==
    NoTimer \in [on : BOOLEAN, gen : Attempts \cup {None}, conn : Attempts \cup {None}]
BY DEF NoTimer

-----------------------------------------------------------------------------
(* The clicks, and the tasks that start another player *)

LEMMA ViewerKeeps == PlayerInv /\ Viewer => PlayerInv'
<1> SUFFICES ASSUME PlayerInv, Viewer
             PROVE  PlayerInv'
  OBVIOUS
<1>1. CASE ClickAuto
  <2>1. StartWhep /\ post' = post
    BY <1>1 DEF ClickAuto, requestVars
  <2>2. TypeOK'
    <3>1. /\ requested' \in {"auto", "whep", "hls"} /\ reconnectAttempts' \in 0 .. 2
          /\ polls' = polls /\ fallbackTried' = FALSE /\ returns' = 0 /\ promised' = FALSE /\ online' = online
      BY <1>1 DEF ClickAuto, requestVars
    <3> QED BY <2>1, <3>1, StartWhepKeeps, NoTimerType DEF PlayerInv, TypeOK
  <2> QED BY <2>1, <2>2, StartWhepKeeps DEF PlayerInv
<1>2. CASE ClickWhep
  <2>1. StartWhep /\ post' = post
    BY <1>2 DEF ClickWhep, requestVars
  <2>2. TypeOK'
    <3>1. /\ requested' \in {"auto", "whep", "hls"} /\ reconnectAttempts' \in 0 .. 2
          /\ polls' = polls /\ UNCHANGED <<fallbackTried, returns, online>> /\ promised' = FALSE
      BY <1>2 DEF ClickWhep, requestVars
    <3> QED BY <2>1, <3>1, StartWhepKeeps, NoTimerType DEF PlayerInv, TypeOK
  <2> QED BY <2>1, <2>2, StartWhepKeeps DEF PlayerInv
<1>3. CASE ClickHls
  <2>1. StartHls /\ post' = post
    BY <1>3 DEF ClickHls, requestVars
  <2>2. TypeOK'
    <3>1. /\ requested' \in {"auto", "whep", "hls"} /\ reconnectAttempts' \in 0 .. 2
          /\ polls' = polls /\ UNCHANGED <<fallbackTried, returns, online, noHls>>
      BY <1>3 DEF ClickHls, requestVars
    <3> QED BY <2>1, <3>1, StartHlsKeeps, NoTimerType DEF PlayerInv, TypeOK
  <2> QED BY <2>1, <2>2, StartHlsKeeps DEF PlayerInv
<1>4. CASE Unload
  <2>1. /\ StopCurrentPlayer /\ post' = post /\ attempt' = None /\ peer' = None
        /\ step' = "none" /\ conn' = ConnAfterStop /\ gen' \in Attempts /\ gen' >= gen
    BY <1>4, Numbers DEF Unload, requestVars, PlayerInv
  <2>2. TypeOK'
    BY <1>4, <2>1, StopKeeps, NoTimerType
    DEF PlayerInv, TypeOK, Unload, requestVars, modeVars
  <2> QED BY <2>1, <2>2, StopKeeps DEF PlayerInv
<1> QED BY <1>1, <1>2, <1>3, <1>4 DEF Viewer

LEMMA RestartKeeps == PlayerInv /\ Restart => PlayerInv'
<1> SUFFICES ASSUME PlayerInv, Restart
             PROVE  PlayerInv'
  OBVIOUS
<1>1. StartWhep /\ post' = post
  BY DEF Restart, requestVars
<1>2. TypeOK'
  BY <1>1, StartWhepKeeps, NoTimerType DEF PlayerInv, TypeOK, Restart, requestVars
<1> QED BY <1>1, <1>2, StartWhepKeeps DEF PlayerInv

LEMMA FallBackKeeps ==
    ASSUME PlayerInv, NEW tried \in BOOLEAN, FallBack(tried)
    PROVE  PlayerInv'
<1>1. StartHls /\ post' = post
  BY DEF FallBack, requestVars
<1>2. TypeOK'
  BY <1>1, StartHlsKeeps, NoTimerType DEF PlayerInv, TypeOK, FallBack, requestVars
<1> QED BY <1>1, <1>2, StartHlsKeeps DEF PlayerInv

-----------------------------------------------------------------------------
(* Timers *)

LEMMA TimersKeep == PlayerInv /\ Timers => PlayerInv'
<1> SUFFICES ASSUME PlayerInv, Timers
             PROVE  PlayerInv'
  OBVIOUS
<1> USE DEF modeVars, attemptVars, sessionVars, requestVars, timerVars, recoveryVars, pageVars
<1>1. CASE ReconnectStale
  <2>1. TypeOK'
    BY <1>1, NoTimerType DEF PlayerInv, TypeOK, ReconnectStale
  <2> QED BY <1>1, <2>1, OwnersUntouched DEF PlayerInv, ReconnectStale
<1>2. CASE ReconnectRestarts
  BY <1>2, RestartKeeps DEF ReconnectRestarts
<1>3. CASE ReconnectFallsBack
  BY <1>3, FallBackKeeps DEF ReconnectFallsBack
<1>4. CASE ReconnectEnds
  <2>1. TypeOK'
    BY <1>4, NoTimerType DEF PlayerInv, TypeOK, ReconnectEnds
  <2> QED BY <1>4, <2>1, OwnersUntouched DEF PlayerInv, ReconnectEnds
<1>5. CASE StableTimer
  <2>1. TypeOK'
    <3>1. stableTimer' = FALSE /\ reconnectAttempts' \in 0 .. 2
      BY <1>5 DEF PlayerInv, TypeOK, StableTimer
    <3> QED BY <1>5, <3>1 DEF PlayerInv, TypeOK, StableTimer
  <2> QED BY <1>5, <2>1, OwnersUntouched DEF PlayerInv, StableTimer
<1>6. CASE SetupTimeout
  <2>1. /\ StopCurrentPlayer /\ post' = post /\ attempt' = None /\ peer' = None
        /\ step' = "none" /\ conn' = ConnAfterStop /\ gen' \in Attempts /\ gen' >= gen
    BY <1>6, Numbers DEF SetupTimeout, PlayerInv
  <2>2. TypeOK'
    <3>1. /\ reconnect' \in [on : BOOLEAN, gen : Attempts \cup {None},
                             conn : Attempts \cup {None}]
          /\ reconnectAttempts' \in 0 .. 2 /\ promised' \in BOOLEAN
      <4>1. CASE requested = "auto"
        <5>1. reconnect' = [on |-> TRUE, gen |-> gen, conn |-> None] /\ gen \in Attempts
              /\ promised' = promised
          BY <1>6, <4>1 DEF SetupTimeout, PlayerInv, TypeOK
        <5>2. reconnectAttempts' = Bumped(reconnectAttempts) /\ reconnectAttempts \in 0 .. 2
          BY <1>6, <4>1 DEF SetupTimeout, PlayerInv, TypeOK
        <5>3. reconnectAttempts' \in 0 .. 2
          BY <5>2 DEF Bumped
        <5> QED BY <5>1, <5>3 DEF PlayerInv, TypeOK
      <4>2. CASE requested # "auto"
        BY <1>6, <4>2, NoTimerType DEF SetupTimeout, PlayerInv, TypeOK
      <4> QED BY <4>1, <4>2
    <3>2. /\ metadata' = "none" /\ setupTimer' = FALSE /\ videoWatch' \in {"off", "reading"}
          /\ requested' = requested /\ active' = active /\ fallbackTried' = fallbackTried
          /\ noHls' = noHls /\ returns' = returns /\ polls' = polls /\ online' = online
          /\ unloaded' = unloaded
      BY <1>6 DEF SetupTimeout
    <3> QED BY <2>1, <3>1, <3>2, StopKeeps DEF PlayerInv, TypeOK
  <2> QED BY <2>1, <2>2, StopKeeps DEF PlayerInv
<1>7. CASE ConnectWatchdogFires
  <2>1. TypeOK'
    BY <1>7 DEF PlayerInv, TypeOK, ConnectWatchdogFires
  <2> QED BY <1>7, <2>1, OwnersUntouched DEF PlayerInv, ConnectWatchdogFires
<1>8. CASE ConnectWatchdogFallsBack
  <2>1. fallbackTried \in BOOLEAN
    BY DEF PlayerInv, TypeOK
  <2> QED BY <1>8, <2>1, FallBackKeeps DEF ConnectWatchdogFallsBack
<1>9. CASE ConnectWatchdogRecovers
  <2>1. peer \in Attempts \cup {None} /\ ScheduleWhepRecovery(peer)
    BY <1>9 DEF PlayerInv, TypeOK, ConnectWatchdogRecovers
  <2>2. TypeOK'
    BY <1>9, <2>1, RecoveryType DEF PlayerInv, TypeOK, ConnectWatchdogRecovers
  <2> QED BY <1>9, <2>2, OwnersUntouched DEF PlayerInv, ConnectWatchdogRecovers
<1>10. CASE VideoWatchdogFires
  <2>1. TypeOK'
    BY <1>10 DEF PlayerInv, TypeOK, VideoWatchdogFires
  <2> QED BY <1>10, <2>1, OwnersUntouched DEF PlayerInv, VideoWatchdogFires
<1>11. CASE VideoWatchdogFallsBack
  <2>1. fallbackTried \in BOOLEAN
    BY DEF PlayerInv, TypeOK
  <2> QED BY <1>11, <2>1, FallBackKeeps DEF VideoWatchdogFallsBack
<1>12. CASE VideoWatchdogReports
  <2>1. TypeOK'
    BY <1>12 DEF PlayerInv, TypeOK, VideoWatchdogReports
  <2> QED BY <1>12, <2>1, OwnersUntouched DEF PlayerInv, VideoWatchdogReports
<1>13. CASE KeepaliveSent
  <2>1. polls' \subseteq created
    BY <1>13 DEF PlayerInv, TypeOK, Handles, KeepaliveSent
  <2>2. TypeOK'
    BY <1>13, <2>1 DEF PlayerInv, TypeOK, KeepaliveSent
  <2> QED BY <1>13, <2>2, OwnersUntouched DEF PlayerInv, KeepaliveSent
<1> QED BY <1>1, <1>2, <1>3, <1>4, <1>5, <1>6, <1>7, <1>8, <1>9, <1>10, <1>11, <1>12, <1>13
        DEF Timers

-----------------------------------------------------------------------------
(* The steps of an attempt *)

\* A failed attempt, whatever became of its request.
LEMMA FailedAttempt ==
    ASSUME PlayerInv, Fail, IsCurrent(attempt), polls' = polls, promised' \in BOOLEAN,
           post' \in [Attempts -> {"none", "sent", "answered", "lost"}],
           \A a \in Attempts : post'[a] # post[a] => post[a] = "sent" /\ post'[a] = "lost"
    PROVE  PlayerInv'
<1>1. attempt \in Attempts \cup {None}
  BY DEF PlayerInv, TypeOK
<1>2. /\ reconnect' \in [on : BOOLEAN, gen : Attempts \cup {None}, conn : Attempts \cup {None}]
      /\ reconnectAttempts' \in 0 .. 2
  <2>1. CASE RecoversAfterFailure
    BY <1>1, <2>1, RecoveryType DEF Fail, PlayerInv
  <2>2. CASE ~RecoversAfterFailure
    BY <2>2 DEF Fail, PlayerInv, TypeOK, recoveryVars
  <2> QED BY <2>1, <2>2
<1>3. /\ metadata' = "none" /\ setupTimer' = FALSE
      /\ UNCHANGED <<requested, active, fallbackTried, noHls, returns, gen, stableTimer,
                     connectWatch, videoWatch, online, unloaded>>
  BY DEF Fail, modeVars
<1>4. TypeOK'
  BY <1>2, <1>3, FailKeeps DEF PlayerInv, TypeOK
<1> QED BY <1>4, FailKeeps DEF PlayerInv

\* The answer of a create: noted, and released at once if its attempt is over.
LEMMA AnswerKeeps ==
    ASSUME PlayerInv, NEW a \in Attempts, NEW accepted \in BOOLEAN,
           CreateAnswered(a, accepted)
    PROVE  PlayerInv'
<1> DEFINE late == IF accepted THEN LateAnswer(a) ELSE {}
<1>1. /\ post[a] = "sent" /\ post' = [post EXCEPT ![a] = "answered"]
      /\ created' = IF accepted THEN created \cup {a} ELSE created
      /\ released' = released \cup late
      /\ deletes' = [b \in Attempts |-> IF b \in late THEN deletes[b] + 1 ELSE deletes[b]]
      /\ step' = IF IsCurrent(a) THEN "body" ELSE step
      /\ UNCHANGED <<modeVars, gen, attempt, peer, conn, metadata, session, polls,
                     timerVars, recoveryVars, pageVars>>
  BY DEF CreateAnswered
<1>2. a \notin created /\ a # None
  BY <1>1, Numbers DEF PlayerInv, Posts
<1>3. late = IF accepted /\ a # attempt THEN {a} ELSE {}
  BY <1>2 DEF LateAnswer, PlayerInv, Handles, IsCurrent
<1>4. IsCurrent(a) <=> a = attempt
  BY <1>2 DEF PlayerInv, Handles, IsCurrent
<1> HIDE DEF late
<1>5. /\ created' \subseteq Attempts /\ released' \subseteq created' /\ polls' \subseteq created'
      /\ created \subseteq created'
      /\ \A b \in Attempts : b \in created' => b \in created \/ b = a
  BY <1>1, <1>3 DEF PlayerInv, TypeOK
<1>6. \A b \in Attempts : /\ deletes[b] \in Nat
                          /\ deletes'[b] = IF b \in late THEN deletes[b] + 1 ELSE deletes[b]
  BY <1>1 DEF PlayerInv, TypeOK
<1>7. deletes' \in [Attempts -> Nat]
  BY <1>1, <1>6
<1>8. /\ post' \in [Attempts -> {"none", "sent", "answered", "lost"}]
      /\ \A b \in Attempts : post'[b] = IF b = a THEN "answered" ELSE post[b]
  BY <1>1 DEF PlayerInv, TypeOK
<1>9. TypeOK'
  BY <1>1, <1>5, <1>7, <1>8
  DEF PlayerInv, TypeOK, modeVars, timerVars, recoveryVars, pageVars
<1>10. Handles'
  BY <1>1, <1>2, <1>4, <1>5
  DEF PlayerInv, Handles, IsCurrent, modeVars, timerVars
<1>11. Ledger'
  <2>1. released' = created' \ {attempt'}
    BY <1>1, <1>2, <1>3 DEF PlayerInv, Ledger
  <2>2. \A b \in Attempts : deletes'[b] = IF b \in released' THEN 1 ELSE 0
    BY <1>1, <1>2, <1>3, <1>6 DEF PlayerInv, Ledger
  <2> QED BY <2>1, <2>2 DEF Ledger
<1>12. Posts'
  <2>1. ASSUME NEW b \in Attempts
        PROVE  /\ b \in created' => post'[b] = "answered"
               /\ b > gen' => post'[b] = "none"
               /\ post'[b] # "none" => conn'[b] # "none"
    BY <1>1, <1>5, <1>8 DEF PlayerInv, Posts
  <2>2. step' = "offer" => post'[attempt'] = "none"
    <3>1. CASE a = attempt
      BY <1>1, <1>4, <3>1
    <3>2. CASE a # attempt
      <4>1. step' = "offer" => attempt \in Attempts /\ post[attempt] = "none"
        BY <1>1, <1>4, <3>2 DEF PlayerInv, TypeOK, Handles, Posts
      <4> QED BY <1>1, <1>8, <3>2, <4>1
    <3> QED BY <3>1, <3>2
  <2>3. peer' # None => conn'[peer'] # "none"
    BY <1>1 DEF PlayerInv, Posts
  <2> QED BY <2>1, <2>2, <2>3 DEF Posts
<1>13. Connections'
  BY <1>1 DEF PlayerInv, Connections
<1> QED BY <1>9, <1>10, <1>11, <1>12, <1>13 DEF PlayerInv

\* The request of an attempt that is over is lost: nobody waits for it.
LEMMA LossKeeps ==
    ASSUME PlayerInv, NEW a \in Attempts, CreateLost(a)
    PROVE  PlayerInv'
<1>1. /\ post[a] = "sent" /\ post' = [post EXCEPT ![a] = "lost"]
      /\ polls' = polls /\ promised' = promised
  BY DEF CreateLost
<1>2. /\ post' \in [Attempts -> {"none", "sent", "answered", "lost"}]
      /\ \A b \in Attempts : post'[b] # post[b] => post[b] = "sent" /\ post'[b] = "lost"
  BY <1>1 DEF PlayerInv, TypeOK
<1>3. CASE IsCurrent(a)
  <2>1. Fail /\ IsCurrent(attempt) /\ promised' \in BOOLEAN
    BY <1>1, <1>3 DEF CreateLost, IsCurrent, PlayerInv, TypeOK
  <2> QED BY <1>1, <1>2, <2>1, FailedAttempt
<1>4. CASE ~IsCurrent(a)
  <2>1. UNCHANGED <<modeVars, attemptVars, sessionVars, timerVars, recoveryVars, online,
                    unloaded>>
    BY <1>4 DEF CreateLost
  <2>2. TypeOK'
    BY <1>1, <1>2, <2>1
    DEF PlayerInv, TypeOK, modeVars, attemptVars, sessionVars, timerVars, recoveryVars
  <2>3. (Handles /\ Ledger /\ Connections)'
    BY <2>1 DEF PlayerInv, Handles, IsCurrent, Ledger, Connections, modeVars, attemptVars,
                sessionVars, timerVars
  <2>4. Posts'
    <3>1. ASSUME NEW b \in Attempts
          PROVE  /\ b \in created' => post'[b] = "answered"
                 /\ b > gen' => post'[b] = "none"
                 /\ post'[b] # "none" => conn'[b] # "none"
      BY <1>2, <2>1 DEF PlayerInv, Posts, attemptVars, sessionVars
    <3>2. step' = "offer" => attempt \in Attempts /\ post[attempt] = "none"
      BY <2>1 DEF PlayerInv, TypeOK, Handles, Posts, attemptVars
    <3>3. step' = "offer" => post'[attempt'] = "none"
      BY <1>2, <2>1, <3>2 DEF attemptVars
    <3>4. peer' # None => conn'[peer'] # "none"
      BY <2>1 DEF PlayerInv, Posts, attemptVars
    <3> QED BY <3>1, <3>3, <3>4 DEF Posts
  <2> QED BY <2>2, <2>3, <2>4 DEF PlayerInv
<1> QED BY <1>3, <1>4

LEMMA AttemptStepsKeep == PlayerInv /\ AttemptSteps => PlayerInv'
<1> SUFFICES ASSUME PlayerInv, AttemptSteps
             PROVE  PlayerInv'
  OBVIOUS
<1> USE DEF modeVars, attemptVars, sessionVars, requestVars, timerVars, recoveryVars, pageVars
<1>1. CASE OfferReady
  <2>1. /\ attempt \in Attempts /\ post' = [post EXCEPT ![attempt] = "sent"]
        /\ step' = "posted" /\ conn[attempt] # "none" /\ post[attempt] = "none"
        /\ attempt = gen
    BY <1>1, Numbers DEF PlayerInv, TypeOK, OfferReady, IsCurrent, Posts
  <2>2. /\ post' \in [Attempts -> {"none", "sent", "answered", "lost"}]
        /\ \A b \in Attempts : post'[b] = IF b = attempt THEN "sent" ELSE post[b]
    BY <2>1 DEF PlayerInv, TypeOK
  <2>3. TypeOK'
    BY <1>1, <2>1, <2>2 DEF PlayerInv, TypeOK, OfferReady
  <2>4. (Handles /\ Ledger /\ Connections)'
    BY <1>1, <2>1, Numbers DEF PlayerInv, Handles, IsCurrent, Ledger, Connections, OfferReady
  <2>5. Posts'
    BY <1>1, <2>1, <2>2, Numbers DEF PlayerInv, Posts, OfferReady
  <2> QED BY <2>3, <2>4, <2>5 DEF PlayerInv
<1>2. CASE OfferFails
  BY <1>2, FailedAttempt DEF OfferFails, PlayerInv, TypeOK
<1>3. CASE OfferLacksCodec
  BY <1>3, FallBackKeeps DEF OfferLacksCodec
<1>4. CASE \E a \in Attempts : CreateLost(a)
  BY <1>4, LossKeeps
<1>5. CASE \E a \in Attempts : \E accepted \in BOOLEAN : CreateAnswered(a, accepted)
  BY <1>5, AnswerKeeps
<1>6. CASE BodyRead
  <2>1. attempt \in Attempts /\ session' = attempt /\ keepalive' = attempt /\ step' = "remote"
    BY <1>6 DEF PlayerInv, TypeOK, BodyRead
  <2>2. TypeOK'
    BY <1>6, <2>1 DEF PlayerInv, TypeOK, BodyRead
  <2>3. Handles'
    BY <1>6, <2>1, Numbers DEF PlayerInv, Handles, IsCurrent, BodyRead
  <2>4. (Ledger /\ Posts /\ Connections)'
    BY <1>6, <2>1 DEF PlayerInv, Ledger, Posts, Connections, BodyRead
  <2> QED BY <2>2, <2>3, <2>4 DEF PlayerInv
<1>7. CASE BodyRefusesCodec
  BY <1>7, FallBackKeeps DEF BodyRefusesCodec
<1>8. CASE AnswerFails
  BY <1>8, FailedAttempt DEF AnswerFails, PlayerInv, TypeOK
<1>9. CASE AnswerApplied
  <2>1. TypeOK'
    BY <1>9 DEF PlayerInv, TypeOK, AnswerApplied
  <2>2. (Handles /\ Ledger /\ Posts /\ Connections)'
    BY <1>9, Numbers DEF PlayerInv, Handles, IsCurrent, Ledger, Posts, Connections, AnswerApplied
  <2> QED BY <2>1, <2>2 DEF PlayerInv
<1>10. CASE \E unsupported, changed \in BOOLEAN : MetadataArrives(unsupported, changed)
  <2>1. PICK unsupported \in BOOLEAN, changed \in BOOLEAN : MetadataArrives(unsupported, changed)
    BY <1>10
  <2>2. TypeOK'
    BY <2>1 DEF PlayerInv, TypeOK, MetadataArrives
  <2> QED BY <2>1, <2>2, OwnersUntouched DEF PlayerInv, MetadataArrives
<1>11. CASE \E unsupported \in BOOLEAN : CapabilityProbed(unsupported)
  <2>1. PICK unsupported \in BOOLEAN : CapabilityProbed(unsupported)
    BY <1>11
  <2>2. TypeOK'
    BY <2>1 DEF PlayerInv, TypeOK, CapabilityProbed
  <2> QED BY <2>1, <2>2, OwnersUntouched DEF PlayerInv, CapabilityProbed
<1> QED BY <1>1, <1>2, <1>3, <1>4, <1>5, <1>6, <1>7, <1>8, <1>9, <1>10, <1>11 DEF AttemptSteps

-----------------------------------------------------------------------------
(* Media, the keepalive and the network *)

LEMMA MediaKeeps == PlayerInv /\ Media => PlayerInv'
<1> SUFFICES ASSUME PlayerInv, Media
             PROVE  PlayerInv'
  OBVIOUS
<1> USE DEF modeVars, attemptVars, sessionVars, requestVars, timerVars, recoveryVars, pageVars
<1>1. CASE Connected
  <2>1. /\ attempt \in Attempts /\ conn[attempt] # "none"
        /\ conn' = [conn EXCEPT ![attempt] = "connected"]
    BY <1>1, Numbers DEF PlayerInv, TypeOK, Connected, IsCurrent
  <2>2. /\ conn' \in
             [Attempts -> {"none", "new", "connected", "disconnected", "failed", "closed"}]
        /\ \A b \in Attempts : conn'[b] = IF b = attempt THEN "connected" ELSE conn[b]
    BY <2>1 DEF PlayerInv, TypeOK
  <2>3. TypeOK'
    BY <1>1, <2>2, NoTimerType DEF PlayerInv, TypeOK, Connected
  <2>4. (Handles /\ Ledger)'
    BY <1>1 DEF PlayerInv, Handles, IsCurrent, Ledger, Connected
  <2>5. (Posts /\ Connections)'
    <3>1. peer' # None => peer \in Attempts
      BY <1>1 DEF PlayerInv, TypeOK, Connected
    <3> QED BY <1>1, <2>2, <3>1 DEF PlayerInv, Posts, Connections, Connected
  <2> QED BY <2>3, <2>4, <2>5 DEF PlayerInv
<1>2. CASE SyncLost
  BY <1>2, RestartKeeps DEF SyncLost
<1>3. CASE VideoTrack
  <2>1. TypeOK'
    BY <1>3 DEF PlayerInv, TypeOK, VideoTrack
  <2> QED BY <1>3, <2>1, OwnersUntouched DEF PlayerInv, VideoTrack
<1>4. CASE FrameDecoded
  <2>1. TypeOK'
    BY <1>4 DEF PlayerInv, TypeOK, FrameDecoded
  <2> QED BY <1>4, <2>1, OwnersUntouched DEF PlayerInv, FrameDecoded
<1>5. CASE HlsGivesUp
  <2>1. StartWhep /\ post' = post
    BY <1>5 DEF HlsGivesUp
  <2>2. fallbackTried' = TRUE /\ returns' \in Nat
    BY <1>5 DEF HlsGivesUp, PlayerInv, TypeOK
  <2>3. TypeOK'
    BY <1>5, <2>1, <2>2, StartWhepKeeps, NoTimerType DEF PlayerInv, TypeOK, HlsGivesUp
  <2> QED BY <2>1, <2>3, StartWhepKeeps DEF PlayerInv
<1>6. CASE \E state \in {"disconnected", "failed"} : ConnectionDrops(state)
  <2>1. PICK state \in {"disconnected", "failed"} : ConnectionDrops(state)
    BY <1>6
  <2>2. /\ attempt \in Attempts /\ conn[attempt] # "none"
        /\ conn' = [conn EXCEPT ![attempt] = state]
    BY <2>1, Numbers DEF PlayerInv, TypeOK, ConnectionDrops, IsCurrent
  <2>3. /\ conn' \in
             [Attempts -> {"none", "new", "connected", "disconnected", "failed", "closed"}]
        /\ \A b \in Attempts : conn'[b] = IF b = attempt THEN state ELSE conn[b]
    BY <2>2 DEF PlayerInv, TypeOK
  <2>4. ScheduleWhepRecovery(attempt)
    BY <2>1 DEF ConnectionDrops, Recovers
  <2>5. TypeOK'
    BY <2>1, <2>2, <2>3, <2>4, RecoveryType DEF PlayerInv, TypeOK, ConnectionDrops
  <2>6. (Handles /\ Ledger)'
    BY <2>1 DEF PlayerInv, Handles, IsCurrent, Ledger, ConnectionDrops
  <2>7. (Posts /\ Connections)'
    <3>1. peer' # None => peer \in Attempts
      BY <2>1 DEF PlayerInv, TypeOK, ConnectionDrops
    <3> QED BY <2>1, <2>3, <3>1 DEF PlayerInv, Posts, Connections, ConnectionDrops
  <2> QED BY <2>5, <2>6, <2>7 DEF PlayerInv
<1> QED BY <1>1, <1>2, <1>3, <1>4, <1>5, <1>6 DEF Media

LEMMA OutsideKeeps == PlayerInv /\ Outside => PlayerInv'
<1> SUFFICES ASSUME PlayerInv, Outside
             PROVE  PlayerInv'
  OBVIOUS
<1> USE DEF modeVars, attemptVars, sessionVars, requestVars, timerVars, recoveryVars, pageVars
<1>1. CASE \E a \in Attempts : KeepaliveAnswered(a)
  <2>1. PICK a \in Attempts : KeepaliveAnswered(a)
    BY <1>1
  <2>2. TypeOK'
    BY <2>1 DEF PlayerInv, TypeOK, KeepaliveAnswered
  <2> QED BY <2>1, <2>2, OwnersUntouched DEF PlayerInv, KeepaliveAnswered
<1>2. CASE \E a \in Attempts : KeepaliveUnknown(a)
  <2>1. PICK a \in Attempts : KeepaliveUnknown(a)
    BY <1>2
  <2>2. StartWhep /\ post' = post
    BY <2>1 DEF KeepaliveUnknown
  <2>3. TypeOK'
    BY <2>1, <2>2, StartWhepKeeps, NoTimerType DEF PlayerInv, TypeOK, KeepaliveUnknown
  <2> QED BY <2>2, <2>3, StartWhepKeeps DEF PlayerInv
<1>3. CASE GoOffline
  <2>1. TypeOK'
    BY <1>3 DEF PlayerInv, TypeOK, GoOffline
  <2> QED BY <1>3, <2>1, OwnersUntouched DEF PlayerInv, GoOffline
<1>4. CASE GoOnline
  <2>1. /\ reconnect' \in [on : BOOLEAN, gen : Attempts \cup {None}, conn : Attempts \cup {None}]
        /\ reconnectAttempts' \in 0 .. 2
    <3>1. peer \in Attempts \cup {None}
      BY DEF PlayerInv, TypeOK
    <3>2. CASE ScheduleWhepRecovery(peer)
      BY <3>1, <3>2, RecoveryType DEF PlayerInv
    <3>3. CASE UNCHANGED recoveryVars
      BY <3>3 DEF PlayerInv, TypeOK
    <3> QED BY <1>4, <3>2, <3>3 DEF GoOnline
  <2>2. TypeOK'
    BY <1>4, <2>1 DEF PlayerInv, TypeOK, GoOnline
  <2> QED BY <1>4, <2>2, OwnersUntouched DEF PlayerInv, GoOnline
<1> QED BY <1>1, <1>2, <1>3, <1>4 DEF Outside

-----------------------------------------------------------------------------
(* The ownership invariant *)

LEMMA InitPlayer == Init => PlayerInv
<1> SUFFICES ASSUME Init
             PROVE  PlayerInv
  OBVIOUS
<1>1. 1 \in Attempts /\ 1 \in Nat /\ None \notin Attempts
  BY MaxGenAssumption DEF Attempts, None
<1>2. TypeOK
  <2>1. /\ conn \in
             [Attempts -> {"none", "new", "connected", "disconnected", "failed", "closed"}]
        /\ post \in [Attempts -> {"none", "sent", "answered", "lost"}]
        /\ deletes \in [Attempts -> Nat]
    BY DEF Init
  <2>2. /\ {attempt, peer, session, keepalive} \subseteq Attempts \cup {None}
        /\ gen \in Attempts /\ reconnectAttempts \in 0 .. 2 /\ returns \in Nat
    BY <1>1 DEF Init
  <2>3. reconnect \in [on : BOOLEAN, gen : Attempts \cup {None}, conn : Attempts \cup {None}]
    BY NoTimerType DEF Init
  <2>4. {setupTimer, stableTimer, fallbackTried, noHls, online, unloaded,
         promised} \subseteq BOOLEAN
    BY DEF Init
  <2> QED BY <2>1, <2>2, <2>3, <2>4 DEF Init, TypeOK
<1>3. Handles /\ Ledger /\ Connections
  BY <1>1 DEF Init, Handles, IsCurrent, Ledger, Connections, None
<1>4. Posts
  BY <1>1 DEF Init, Posts
<1> QED BY <1>2, <1>3, <1>4 DEF PlayerInv

LEMMA StutterKeeps == PlayerInv /\ UNCHANGED vars => PlayerInv'
<1> SUFFICES ASSUME PlayerInv, UNCHANGED vars
             PROVE  PlayerInv'
  OBVIOUS
<1> USE DEF vars, modeVars, attemptVars, sessionVars, requestVars, timerVars, recoveryVars, pageVars
<1>1. TypeOK'
  BY DEF PlayerInv, TypeOK
<1> QED BY <1>1, OwnersUntouched DEF PlayerInv

LEMMA NextPlayer == PlayerInv /\ [Next]_vars => PlayerInv'
BY ViewerKeeps, TimersKeep, AttemptStepsKeep, MediaKeeps, OutsideKeeps, StutterKeeps DEF Next

LEMMA PlayerInvariant == Spec => []PlayerInv
BY InitPlayer, NextPlayer, PTL DEF Spec

-----------------------------------------------------------------------------
(* The theorems of ownership *)

\* The player's variables keep their types: a session is known before it is released.
THEOREM PlayerTypes == Spec => []TypeOK
<1>1. PlayerInv => TypeOK
  BY DEF PlayerInv
<1> QED BY <1>1, PlayerInvariant, PTL

\* The DELETE of every session whose Location was seen is sent exactly once, when its
\* attempt is over and not before, for any number of attempts and any timing.
THEOREM ReleasedOnce == Spec => []SessionsReleasedOnce
<1>1. PlayerInv => SessionsReleasedOnce
  BY DEF PlayerInv, Ledger, SessionsReleasedOnce
<1> QED BY <1>1, PlayerInvariant, PTL

\* What was deleted is not in use: no session, keepalive or open connection of it.
THEOREM DeletedNotUsed == Spec => []DeletedUnused
<1>1. PlayerInv => DeletedUnused
  <2> SUFFICES ASSUME PlayerInv, NEW a \in Attempts, deletes[a] > 0
               PROVE  session # a /\ keepalive # a /\ conn[a] = "closed"
    BY DEF DeletedUnused
  <2>1. a \in created /\ a # attempt /\ a # None
    BY Numbers DEF PlayerInv, Ledger
  <2>2. session # a /\ keepalive # a
    BY <2>1 DEF PlayerInv, Handles
  <2>3. conn[a] = "closed"
    BY <2>1 DEF PlayerInv, Posts, Connections
  <2> QED BY <2>2, <2>3
<1> QED BY <1>1, PlayerInvariant, PTL

-----------------------------------------------------------------------------
(* Modes: one player, the choice of the viewer, AUTO *)

\* What OnePlayer says of a page that plays HLS or unloads.
Quiet ==
    active = "hls" \/ unloaded =>
      /\ peer = None /\ session = None /\ attempt = None
      /\ ~setupTimer /\ ~reconnect.on /\ keepalive = None /\ videoWatch = "off"

\* A recovery that is due in AUTO is this player's; HLS is known to be unsupported
\* only after the manifest was seen.
Pending ==
    /\ requested = "auto" /\ reconnect.on => reconnect.gen = gen /\ reconnect.conn = peer
    /\ noHls => metadata # "fetch"

ModeInv == Quiet /\ Pending /\ AutoNeverStranded /\ ManualModeKept /\ AutoSettles

-----------------------------------------------------------------------------
(* Tasks that start another player *)

LEMMA StartWhepModes ==
    ASSUME PlayerInv, StartWhep, UNCHANGED post
    PROVE  (Quiet /\ Pending /\ AutoNeverStranded)'
BY StartWhepKeeps DEF Quiet, Pending, AutoNeverStranded, NoTimer

LEMMA StartHlsModes ==
    ASSUME PlayerInv, StartHls, UNCHANGED post
    PROVE  (Quiet /\ Pending /\ AutoNeverStranded)'
BY StartHlsKeeps DEF Quiet, Pending, AutoNeverStranded, NoTimer

\* A restart keeps the mode the viewer asked for, as it was WHEP that ran.
LEMMA RestartModes ==
    ASSUME PlayerInv, ModeInv, Restart, active = "whep"
    PROVE  ModeInv'
<1>1. StartWhep /\ post' = post
  BY DEF Restart, requestVars
<1>2. (ManualModeKept /\ AutoSettles)'
  BY <1>1, StartWhepKeeps DEF ModeInv, ManualModeKept, AutoSettles, Restart
<1> QED BY <1>1, <1>2, StartWhepModes DEF ModeInv

\* The fallbacks to HLS happen in AUTO only.
LEMMA FallBackModes ==
    ASSUME PlayerInv, ModeInv, NEW tried \in BOOLEAN, FallBack(tried),
           requested = "auto", fallbackTried => tried
    PROVE  ModeInv'
<1>1. StartHls /\ post' = post
  BY DEF FallBack, requestVars
<1>2. (ManualModeKept /\ AutoSettles)'
  BY <1>1, StartHlsKeeps DEF ModeInv, ManualModeKept, AutoSettles, FallBack
<1> QED BY <1>1, <1>2, StartHlsModes DEF ModeInv

LEMMA ViewerModes == PlayerInv /\ ModeInv /\ Viewer => ModeInv'
<1> SUFFICES ASSUME PlayerInv, ModeInv, Viewer
             PROVE  ModeInv'
  OBVIOUS
<1>1. CASE ClickAuto
  <2>1. StartWhep /\ post' = post
    BY <1>1 DEF ClickAuto, requestVars
  <2> QED BY <1>1, <2>1, StartWhepModes DEF ClickAuto, ModeInv, ManualModeKept, AutoSettles
<1>2. CASE ClickWhep
  <2>1. StartWhep /\ post' = post
    BY <1>2 DEF ClickWhep, requestVars
  <2> QED BY <1>2, <2>1, StartWhepModes, StartWhepKeeps
          DEF ClickWhep, ModeInv, ManualModeKept, AutoSettles
<1>3. CASE ClickHls
  <2>1. StartHls /\ post' = post
    BY <1>3 DEF ClickHls, requestVars
  <2> QED BY <1>3, <2>1, StartHlsModes, StartHlsKeeps
          DEF ClickHls, ModeInv, ManualModeKept, AutoSettles
<1>4. CASE Unload
  <2>1. /\ attempt' = None /\ peer' = None /\ session' = None /\ keepalive' = None
        /\ setupTimer' = FALSE /\ videoWatch' = "off" /\ reconnect' = NoTimer
        /\ unloaded' = TRUE /\ metadata' = "none"
        /\ UNCHANGED <<requested, active, fallbackTried, noHls, returns>>
    BY <1>4 DEF Unload, StopCurrentPlayer, modeVars
  <2> QED BY <2>1 DEF ModeInv, Quiet, Pending, AutoNeverStranded, ManualModeKept, AutoSettles,
                      NoTimer
<1> QED BY <1>1, <1>2, <1>3, <1>4 DEF Viewer

-----------------------------------------------------------------------------
(* Timers *)

\* A recovery is pending after it was scheduled, for the connection there is.
LEMMA ScheduleModes ==
    ASSUME PlayerInv, ModeInv, ScheduleWhepRecovery(peer), gen' = gen, peer' = peer,
           requested' = requested
    PROVE  /\ reconnect'.on
           /\ requested' = "auto" => reconnect'.gen = gen' /\ reconnect'.conn = peer'
BY DEF PlayerInv, TypeOK, ModeInv, Pending, ScheduleWhepRecovery, recoveryVars

LEMMA TimerModes == PlayerInv /\ ModeInv /\ Timers => ModeInv'
<1> SUFFICES ASSUME PlayerInv, ModeInv, Timers
             PROVE  ModeInv'
  OBVIOUS
<1> USE DEF modeVars, attemptVars, sessionVars, requestVars, timerVars, recoveryVars, pageVars
<1>1. CASE ReconnectStale
  <2>1. requested = "auto" /\ active = "whep" /\ ~unloaded =>
           peer # None /\ conn[peer] = "connected"
    BY <1>1 DEF ReconnectStale, StillWanted, ModeInv, Pending
  <2> QED BY <1>1, <2>1 DEF ReconnectStale, ModeInv, Quiet, Pending, AutoNeverStranded,
                            ManualModeKept, AutoSettles, NoTimer
<1>2. CASE ReconnectRestarts
  BY <1>2, RestartModes DEF ReconnectRestarts, StillWanted
<1>3. CASE ReconnectFallsBack
  BY <1>3, FallBackModes DEF ReconnectFallsBack, GivesUpWhep
<1>4. CASE ReconnectEnds
  BY <1>4 DEF ReconnectEnds, GivesUpWhep, ModeInv, Quiet, Pending, AutoNeverStranded,
              ManualModeKept, AutoSettles, NoTimer
<1>5. CASE StableTimer
  <2>1. reconnectAttempts' = reconnectAttempts \/ (peer # None /\ conn[peer] = "connected")
    BY <1>5 DEF StableTimer
  <2> QED BY <1>5, <2>1 DEF StableTimer, ModeInv, Quiet, Pending, AutoNeverStranded,
                            ManualModeKept, AutoSettles
<1>6. CASE SetupTimeout
  <2>1. /\ attempt' = None /\ peer' = None /\ session' = None /\ keepalive' = None
        /\ setupTimer' = FALSE /\ metadata' = "none" /\ gen' = gen
        /\ videoWatch = "off" => videoWatch' = "off"
        /\ UNCHANGED <<requested, active, fallbackTried, noHls, returns, unloaded>>
        /\ active = "whep" /\ ~unloaded
    <3>1. active = "whep" /\ ~unloaded
      BY <1>6, Numbers DEF SetupTimeout, IsCurrent, ModeInv, Quiet, PlayerInv
    <3> QED BY <1>6, <3>1 DEF SetupTimeout, StopCurrentPlayer
  <2>2. requested = "auto" => reconnect' = [on |-> TRUE, gen |-> gen, conn |-> None]
    BY <1>6 DEF SetupTimeout
  <2> QED BY <2>1, <2>2 DEF ModeInv, Quiet, Pending, AutoNeverStranded, ManualModeKept,
                            AutoSettles
<1>7. CASE ConnectWatchdogFires
  BY <1>7 DEF ConnectWatchdogFires, ModeInv, Quiet, Pending, AutoNeverStranded,
              ManualModeKept, AutoSettles
<1>8. CASE ConnectWatchdogFallsBack
  <2>1. fallbackTried \in BOOLEAN
    BY DEF PlayerInv, TypeOK
  <2> QED BY <1>8, <2>1, FallBackModes DEF ConnectWatchdogFallsBack
<1>9. CASE ConnectWatchdogRecovers
  <2>1. /\ reconnect'.on
        /\ requested' = "auto" => reconnect'.gen = gen' /\ reconnect'.conn = peer'
    BY <1>9, ScheduleModes DEF ConnectWatchdogRecovers
  <2> QED BY <1>9, <2>1 DEF ConnectWatchdogRecovers, ModeInv, Quiet, Pending,
                            AutoNeverStranded, ManualModeKept, AutoSettles
<1>10. CASE VideoWatchdogFires
  BY <1>10 DEF VideoWatchdogFires, ModeInv, Quiet, Pending, AutoNeverStranded,
               ManualModeKept, AutoSettles
<1>11. CASE VideoWatchdogFallsBack
  <2>1. fallbackTried \in BOOLEAN
    BY DEF PlayerInv, TypeOK
  <2> QED BY <1>11, <2>1, FallBackModes DEF VideoWatchdogFallsBack
<1>12. CASE VideoWatchdogReports
  BY <1>12 DEF VideoWatchdogReports, ModeInv, Quiet, Pending, AutoNeverStranded,
               ManualModeKept, AutoSettles
<1>13. CASE KeepaliveSent
  BY <1>13 DEF KeepaliveSent, ModeInv, Quiet, Pending, AutoNeverStranded,
               ManualModeKept, AutoSettles
<1> QED BY <1>1, <1>2, <1>3, <1>4, <1>5, <1>6, <1>7, <1>8, <1>9, <1>10, <1>11, <1>12, <1>13
        DEF Timers

-----------------------------------------------------------------------------
(* The steps of an attempt *)

\* An attempt that fails in AUTO leaves a recovery behind.
LEMMA FailModes ==
    ASSUME PlayerInv, ModeInv, Fail, IsCurrent(attempt)
    PROVE  ModeInv'
<1>1. /\ active = "whep" /\ ~unloaded /\ peer = attempt /\ gen' = gen
      /\ UNCHANGED <<requested, active, fallbackTried, noHls, returns, unloaded>>
      /\ metadata' = "none"
  BY Numbers DEF Fail, IsCurrent, ModeInv, Quiet, PlayerInv, modeVars
<1>2. CASE requested = "auto"
  <2>1. ScheduleWhepRecovery(peer) /\ peer' = peer
    BY <1>1, <1>2 DEF Fail, RecoversAfterFailure
  <2>2. /\ reconnect'.on
        /\ requested' = "auto" => reconnect'.gen = gen' /\ reconnect'.conn = peer'
    BY <1>1, <2>1, ScheduleModes
  <2> QED BY <1>1, <2>2 DEF ModeInv, Quiet, Pending, AutoNeverStranded, ManualModeKept,
                            AutoSettles
<1>3. CASE requested # "auto"
  BY <1>1, <1>3 DEF ModeInv, Quiet, Pending, AutoNeverStranded, ManualModeKept, AutoSettles
<1> QED BY <1>2, <1>3

LEMMA AttemptModes == PlayerInv /\ ModeInv /\ AttemptSteps => ModeInv'
<1> SUFFICES ASSUME PlayerInv, ModeInv, AttemptSteps
             PROVE  ModeInv'
  OBVIOUS
<1> USE DEF modeVars, attemptVars, sessionVars, requestVars, timerVars, recoveryVars, pageVars
<1>0. active = "whep" /\ requested # "whep" => requested = "auto"
  BY DEF ModeInv, ManualModeKept
<1>1. CASE OfferReady
  BY <1>1 DEF OfferReady, ModeInv, Quiet, Pending, AutoNeverStranded, ManualModeKept,
              AutoSettles
<1>2. CASE OfferFails
  BY <1>2, FailModes DEF OfferFails
<1>3. CASE OfferLacksCodec
  BY <1>0, <1>3, FallBackModes DEF OfferLacksCodec, IsCurrent
<1>4. CASE \E a \in Attempts : CreateLost(a)
  <2>1. PICK a \in Attempts : CreateLost(a)
    BY <1>4
  <2>2. CASE IsCurrent(a)
    <3>1. Fail /\ IsCurrent(attempt)
      BY <2>1, <2>2 DEF CreateLost, IsCurrent
    <3> QED BY <3>1, FailModes
  <2>3. CASE ~IsCurrent(a)
    <3>1. UNCHANGED <<modeVars, attemptVars, sessionVars, timerVars, recoveryVars, online,
                      unloaded>>
      BY <2>1, <2>3 DEF CreateLost
    <3> QED BY <3>1 DEF ModeInv, Quiet, Pending, AutoNeverStranded, ManualModeKept,
                        AutoSettles
  <2> QED BY <2>2, <2>3
<1>5. CASE \E a \in Attempts : \E accepted \in BOOLEAN : CreateAnswered(a, accepted)
  BY <1>5 DEF CreateAnswered, ModeInv, Quiet, Pending, AutoNeverStranded, ManualModeKept,
              AutoSettles
<1>6. CASE BodyRead
  <2>1. active = "whep" /\ ~unloaded
    BY <1>6, Numbers DEF BodyRead, IsCurrent, ModeInv, Quiet, PlayerInv
  <2> QED BY <1>6, <2>1 DEF BodyRead, ModeInv, Quiet, Pending, AutoNeverStranded,
                            ManualModeKept, AutoSettles
<1>7. CASE BodyRefusesCodec
  BY <1>0, <1>7, FallBackModes DEF BodyRefusesCodec, IsCurrent
<1>8. CASE AnswerFails
  BY <1>8, FailModes DEF AnswerFails
<1>9. CASE AnswerApplied
  BY <1>9 DEF AnswerApplied, ModeInv, Quiet, Pending, AutoNeverStranded, ManualModeKept,
              AutoSettles
<1>10. CASE \E unsupported, changed \in BOOLEAN : MetadataArrives(unsupported, changed)
  <2>1. PICK unsupported \in BOOLEAN, changed \in BOOLEAN : MetadataArrives(unsupported, changed)
    BY <1>10
  <2>2. ~noHls /\ metadata' = "probe"
    BY <2>1 DEF MetadataArrives, ModeInv, Pending
  <2>3. /\ UNCHANGED <<requested, active, gen, attempt, peer, conn, session, setupTimer,
                       keepalive, videoWatch, reconnect, reconnectAttempts, unloaded>>
        /\ fallbackTried' = (fallbackTried /\ ~changed)
        /\ returns' = IF changed THEN 0 ELSE returns
    BY <2>1 DEF MetadataArrives
  <2>4. returns' <= 1 /\ (returns' = 1 => fallbackTried')
    <3>1. CASE changed
      BY <2>3, <3>1
    <3>2. CASE ~changed
      <4>1. returns' = returns /\ (fallbackTried => fallbackTried')
        BY <2>3, <3>2
      <4> QED BY <4>1 DEF ModeInv, AutoSettles
    <3> QED BY <3>1, <3>2
  <2> QED BY <2>2, <2>3, <2>4 DEF ModeInv, Quiet, Pending, AutoNeverStranded,
                                  ManualModeKept, AutoSettles
<1>11. CASE \E unsupported \in BOOLEAN : CapabilityProbed(unsupported)
  <2>1. PICK unsupported \in BOOLEAN : CapabilityProbed(unsupported)
    BY <1>11
  <2>2. noHls' = (noHls \/ unsupported) /\ metadata' = "none"
    BY <2>1 DEF CapabilityProbed
  <2>3. noHls => noHls'
    BY <2>2
  <2> QED BY <2>1, <2>2, <2>3 DEF CapabilityProbed, ModeInv, Quiet, Pending,
                                  AutoNeverStranded, ManualModeKept, AutoSettles
<1> QED BY <1>1, <1>2, <1>3, <1>4, <1>5, <1>6, <1>7, <1>8, <1>9, <1>10, <1>11 DEF AttemptSteps

-----------------------------------------------------------------------------
(* Media, the keepalive and the network *)

LEMMA MediaModes == PlayerInv /\ ModeInv /\ Media => ModeInv'
<1> SUFFICES ASSUME PlayerInv, ModeInv, Media
             PROVE  ModeInv'
  OBVIOUS
<1> USE DEF modeVars, attemptVars, sessionVars, requestVars, timerVars, recoveryVars, pageVars
<1>0. IsCurrent(attempt) => active = "whep" /\ ~unloaded /\ attempt \in Attempts /\ peer = attempt
                              /\ peer # None
  BY Numbers DEF IsCurrent, ModeInv, Quiet, PlayerInv
<1>1. CASE Connected
  <2>1. /\ IsCurrent(attempt) /\ reconnect' = NoTimer
        /\ conn' = [conn EXCEPT ![attempt] = "connected"]
        /\ setupTimer' = FALSE /\ UNCHANGED <<modeVars, peer, metadata, unloaded>>
    BY <1>1 DEF Connected
  <2>2. peer' # None /\ conn'[peer'] = "connected"
    BY <1>0, <2>1 DEF PlayerInv, TypeOK
  <2> QED BY <1>0, <2>1, <2>2 DEF ModeInv, Quiet, Pending, AutoNeverStranded,
                                  ManualModeKept, AutoSettles, NoTimer
<1>2. CASE SyncLost
  BY <1>0, <1>2, RestartModes DEF SyncLost
<1>3. CASE VideoTrack
  BY <1>0, <1>3 DEF VideoTrack, ModeInv, Quiet, Pending, AutoNeverStranded, ManualModeKept,
                    AutoSettles
<1>4. CASE FrameDecoded
  BY <1>4 DEF FrameDecoded, ModeInv, Quiet, Pending, AutoNeverStranded, ManualModeKept,
              AutoSettles
<1>5. CASE HlsGivesUp
  <2>1. StartWhep /\ post' = post
    BY <1>5 DEF HlsGivesUp
  <2>2. (ManualModeKept /\ AutoSettles)'
    <3>1. returns = 0
      BY <1>5 DEF HlsGivesUp, ModeInv, AutoSettles, PlayerInv, TypeOK
    <3>2. returns' = 1 /\ fallbackTried' = TRUE /\ requested' = "auto"
      BY <1>5, <3>1 DEF HlsGivesUp
    <3> QED BY <3>2 DEF ManualModeKept, AutoSettles
  <2> QED BY <2>1, <2>2, StartWhepModes DEF ModeInv
<1>6. CASE \E state \in {"disconnected", "failed"} : ConnectionDrops(state)
  <2>1. PICK state \in {"disconnected", "failed"} : ConnectionDrops(state)
    BY <1>6
  <2>2. ScheduleWhepRecovery(peer) /\ gen' = gen /\ peer' = peer /\ requested' = requested
    BY <1>0, <2>1 DEF ConnectionDrops, Recovers
  <2>3. /\ reconnect'.on
        /\ requested' = "auto" => reconnect'.gen = gen' /\ reconnect'.conn = peer'
    BY <2>2, ScheduleModes
  <2> QED BY <1>0, <2>1, <2>3 DEF ConnectionDrops, ModeInv, Quiet, Pending, AutoNeverStranded,
                                  ManualModeKept, AutoSettles
<1> QED BY <1>1, <1>2, <1>3, <1>4, <1>5, <1>6 DEF Media

LEMMA OutsideModes == PlayerInv /\ ModeInv /\ Outside => ModeInv'
<1> SUFFICES ASSUME PlayerInv, ModeInv, Outside
             PROVE  ModeInv'
  OBVIOUS
<1> USE DEF modeVars, attemptVars, sessionVars, requestVars, timerVars, recoveryVars, pageVars
<1>1. CASE \E a \in Attempts : KeepaliveAnswered(a)
  BY <1>1 DEF KeepaliveAnswered, ModeInv, Quiet, Pending, AutoNeverStranded, ManualModeKept,
              AutoSettles
<1>2. CASE \E a \in Attempts : KeepaliveUnknown(a)
  <2>1. PICK a \in Attempts : KeepaliveUnknown(a)
    BY <1>2
  <2>2. StartWhep /\ post' = post
    BY <2>1 DEF KeepaliveUnknown
  <2>3. (ManualModeKept /\ AutoSettles)'
    BY <2>1, <2>2, StartWhepKeeps DEF KeepaliveUnknown, ModeInv, ManualModeKept, AutoSettles
  <2> QED BY <2>2, <2>3, StartWhepModes DEF ModeInv
<1>3. CASE GoOffline
  BY <1>3 DEF GoOffline, ModeInv, Quiet, Pending, AutoNeverStranded, ManualModeKept,
              AutoSettles
<1>4. CASE GoOnline
  <2>1. /\ UNCHANGED <<modeVars, attemptVars, sessionVars, timerVars, unloaded>>
    BY <1>4 DEF GoOnline
  <2>2. CASE active = "whep" /\ peer # None /\ conn[peer] # "connected"
    <3>1. ScheduleWhepRecovery(peer)
      BY <1>4, <2>2 DEF GoOnline
    <3>2. /\ reconnect'.on
          /\ requested' = "auto" => reconnect'.gen = gen' /\ reconnect'.conn = peer'
      BY <2>1, <3>1, ScheduleModes
    <3> QED BY <2>1, <2>2, <3>2 DEF ModeInv, Quiet, Pending, AutoNeverStranded,
                                    ManualModeKept, AutoSettles
  <2>3. CASE ~(active = "whep" /\ peer # None /\ conn[peer] # "connected")
    <3>1. UNCHANGED recoveryVars
      BY <1>4, <2>3 DEF GoOnline
    <3> QED BY <2>1, <3>1 DEF ModeInv, Quiet, Pending, AutoNeverStranded, ManualModeKept,
                              AutoSettles
  <2> QED BY <2>2, <2>3
<1> QED BY <1>1, <1>2, <1>3, <1>4 DEF Outside

-----------------------------------------------------------------------------
(* The theorems of the modes *)

LEMMA InitModes == Init => ModeInv
BY DEF Init, ModeInv, Quiet, Pending, AutoNeverStranded, ManualModeKept, AutoSettles, NoTimer

LEMMA StutterModes == ModeInv /\ UNCHANGED vars => ModeInv'
BY DEF vars, modeVars, attemptVars, sessionVars, timerVars, recoveryVars, pageVars,
       ModeInv, Quiet, Pending, AutoNeverStranded, ManualModeKept, AutoSettles

LEMMA NextModes == PlayerInv /\ ModeInv /\ [Next]_vars => ModeInv'
BY ViewerModes, TimerModes, AttemptModes, MediaModes, OutsideModes, StutterModes DEF Next

LEMMA ModeInvariant == Spec => []ModeInv
BY PlayerInvariant, InitModes, NextModes, PTL DEF Spec

\* There is one player: every open connection is the current attempt's, and a page
\* that plays HLS or unloads holds nothing of WHEP and will not come back to it.
THEOREM PlayerIsOne == Spec => []OnePlayer
<1>1. PlayerInv /\ ModeInv => OnePlayer
  <2> SUFFICES ASSUME PlayerInv, ModeInv
               PROVE  OnePlayer
    OBVIOUS
  <2>1. \A a \in Attempts : conn[a] \notin {"none", "closed"} => IsCurrent(a)
    BY Numbers DEF PlayerInv, Handles, Connections
  <2> QED BY <2>1 DEF OnePlayer, ModeInv, Quiet
<1> QED BY <1>1, PlayerInvariant, ModeInvariant, PTL

\* The viewer's choice of a mode stands, whatever earlier players still have pending.
THEOREM ChoiceStands == Spec => []ManualModeKept
<1>1. ModeInv => ManualModeKept
  BY DEF ModeInv
<1> QED BY <1>1, ModeInvariant, PTL

\* AUTO comes back from HLS to WHEP at most once.
THEOREM AutoComesToRest == Spec => []AutoSettles
<1>1. ModeInv => AutoSettles
  BY DEF ModeInv
<1> QED BY <1>1, ModeInvariant, PTL

\* A player of AUTO that is not connected has a deadline or a recovery ahead of it.
THEOREM AutoIsNeverStranded == Spec => []AutoNeverStranded
<1>1. ModeInv => AutoNeverStranded
  BY DEF ModeInv
<1> QED BY <1>1, ModeInvariant, PTL
=============================================================================
