-------------------------- MODULE RequestObserver --------------------------
(***************************************************************************)
(* The request observer of src/web/hls-weak-network-policy.js: it wraps    *)
(* the loaders of one hls.js instance, forwards their callbacks and counts *)
(* what they do.  A statistics reset starts a new epoch and must not be    *)
(* mistaken for the end of a request: the callbacks of an open request     *)
(* belong to its player, its numbers to its epoch.                         *)
(*                                                                         *)
(* A loader is used for one request; a second load of it is not observed.  *)
(* The native loader (hls.js) may call back in any order, too late and     *)
(* more than once.  A callback may run anything of hls.js and of the page  *)
(* before it returns: where the code goes on after one, the model has a    *)
(* step of its own.  Bytes are reduced to whether any arrived.             *)
(***************************************************************************)
EXTENDS Integers, FiniteSets

CONSTANTS
    Loaders,
    NoLoader,
    MaxActive,        \* 32, the requests observed at a time
    MaxEpoch,         \* bound: statistics resets
    IdleEnabled       \* hooks.activeRecovery

ASSUME LoadersAssumption == IsFiniteSet(Loaders) /\ NoLoader \notin Loaders
ASSUME BoundAssumption == MaxActive \in Nat \ {0} /\ MaxEpoch \in Nat /\ IdleEnabled \in BOOLEAN

VARIABLES
    current,          \* hooks.isCurrent(): false for good once the player is replaced
    epoch,
    state,            \* of each loader: "idle", "open", "terminal"
    born,             \* the epoch of its record
    media,            \* loaders of whole media segments
    grown,            \* those whose present attempt has delivered bytes
    retried,          \* those that are past their first attempt
    active,           \* records that are sampled
    completed,        \* successful media requests, with the epoch they ended in
    counted,          \* totals, by loader
    idleSpent,        \* idleActionSpent
    resuming,         \* the request whose abort the idle action awaits
    delivered,        \* history: terminal callbacks forwarded, by loader
    answered,         \* history: loaders whose native end came while owned
    idleCalls         \* history: calls of onIdle

recordVars == <<state, born, media, grown, retried, active>>
totalVars == <<completed, counted>>
historyVars == <<delivered, answered, idleCalls>>

vars == <<current, epoch, recordVars, totalVars, idleSpent, resuming, historyVars>>

TypeOK ==
    /\ current \in BOOLEAN /\ epoch \in 0 .. MaxEpoch
    /\ state \in [Loaders -> {"idle", "open", "terminal"}]
    /\ born \in [Loaders -> 0 .. MaxEpoch]
    /\ media \subseteq Loaders /\ grown \subseteq Loaders /\ retried \subseteq Loaders
    /\ active \subseteq Loaders /\ answered \subseteq Loaders
    /\ completed \subseteq Loaders \X (0 .. MaxEpoch)
    /\ counted \in [Loaders -> Nat] /\ delivered \in [Loaders -> Nat]
    /\ idleSpent \in BOOLEAN /\ resuming \in Loaders \cup {NoLoader}
    /\ idleCalls \in Nat

Init ==
    /\ current = TRUE /\ epoch = 0
    /\ state = [l \in Loaders |-> "idle"] /\ born = [l \in Loaders |-> 0]
    /\ media = {} /\ grown = {} /\ retried = {} /\ active = {}
    /\ completed = {} /\ counted = [l \in Loaders |-> 0]
    /\ idleSpent = FALSE /\ resuming = NoLoader
    /\ delivered = [l \in Loaders |-> 0] /\ answered = {} /\ idleCalls = 0

-----------------------------------------------------------------------------

Owned(l) == state[l] = "open" /\ current

OwnsStats(l) == Owned(l) /\ born[l] = epoch

\* Mutant: a request of an older epoch is taken for one that was replaced.
ForwardsOfEpoch(l) == OwnsStats(l)

Forwards(l) == Owned(l)

Completion(l) == <<l, epoch>>

\* finish: the record is closed, and its end counted if it is of this epoch.
Finish(l, reason) ==
    /\ state' = [state EXCEPT ![l] = "terminal"]
    /\ active' = active \ {l}
    /\ counted' = IF OwnsStats(l) THEN [counted EXCEPT ![l] = @ + 1] ELSE counted
    /\ completed' = IF OwnsStats(l) /\ reason = "success" /\ l \in media
                    THEN completed \cup {Completion(l)} ELSE completed

Forward(l) ==
    delivered' = IF Forwards(l) THEN [delivered EXCEPT ![l] = @ + 1] ELSE delivered

HasRoom == Cardinality(active) < MaxActive

-----------------------------------------------------------------------------
(* hls.js: load, answer, abort, destroy *)

\* A manifest request resets the statistics before it starts.
Load(l, kind) ==
    LET now == IF kind = "manifest" /\ current THEN epoch + 1 ELSE epoch
        kept == IF now = epoch THEN active ELSE {}
    IN  /\ state[l] = "idle" /\ now <= MaxEpoch
        /\ epoch' = now
        /\ state' = [state EXCEPT ![l] = "open"] /\ born' = [born EXCEPT ![l] = now]
        /\ media' = IF kind = "media" THEN media \cup {l} ELSE media
        /\ active' = IF now # epoch \/ HasRoom THEN kept \cup {l} ELSE kept
        /\ completed' = IF now = epoch THEN completed ELSE {}
        /\ UNCHANGED <<current, grown, retried, counted, idleSpent, resuming, historyVars>>

\* The native loader refuses to start: load throws.
LoadThrows(l) ==
    /\ state[l] = "open"
    /\ Finish(l, "throw")
    /\ UNCHANGED <<current, epoch, born, media, grown, retried, idleSpent, resuming,
                   historyVars>>

\* The last bytes are sampled before the end; then the callback of hls.js is called,
\* if the request was still this player's.
NativeEnds(l, reason) ==
    /\ state[l] = "open"
    /\ Finish(l, reason)
    /\ Forward(l)
    /\ answered' = IF current THEN answered \cup {l} ELSE answered
    /\ UNCHANGED <<current, epoch, born, media, grown, retried, idleSpent, resuming, idleCalls>>

\* Native abort calls back through onAbort, unless its request is over.
Abort(l, callsBack) ==
    /\ state[l] = "open"
    /\ Finish(l, "abort")
    /\ IF callsBack THEN Forward(l) ELSE UNCHANGED delivered
    /\ UNCHANGED <<current, epoch, born, media, grown, retried, idleSpent, resuming, answered,
                   idleCalls>>

Destroy(l) ==
    /\ state[l] = "open"
    /\ Finish(l, "destroy")
    /\ UNCHANGED <<current, epoch, born, media, grown, retried, idleSpent, resuming,
                   historyVars>>

\* A callback that comes again, or after the end: `finish' says it is not owned.
LateCallback(l) ==
    /\ state[l] = "terminal"
    /\ Forward(l)
    /\ UNCHANGED <<current, epoch, recordVars, totalVars, idleSpent, resuming, answered,
                   idleCalls>>

\* sample: new bytes, or a new attempt of the native loader.
Sample(l, retries) ==
    /\ OwnsStats(l)
    /\ grown' = IF retries THEN grown \ {l} ELSE grown \cup {l}
    /\ retried' = IF retries THEN retried \cup {l} ELSE retried
    /\ UNCHANGED <<current, epoch, state, born, media, active, totalVars, idleSpent, resuming,
                   historyVars>>

-----------------------------------------------------------------------------
(* The page: reset, replacement, poll *)

\* Mutant: a reset leaves the records of the old epoch among the sampled ones.
ActiveForgotten == active

ActiveAfterReset == {}

Invalidate ==
    /\ epoch < MaxEpoch
    /\ epoch' = epoch + 1 /\ active' = ActiveAfterReset /\ completed' = {}
    /\ UNCHANGED <<current, state, born, media, grown, retried, counted, idleSpent, resuming,
                   historyVars>>

\* A new generation; the monitor's reset follows in the same task.
Replace ==
    /\ current /\ epoch < MaxEpoch
    /\ current' = FALSE
    /\ epoch' = epoch + 1 /\ active' = ActiveAfterReset /\ completed' = {}
    /\ UNCHANGED <<state, born, media, grown, retried, counted, idleSpent, resuming,
                   historyVars>>

SpentIdle == TRUE

\* poll: a media body has made no progress for its budget; its loader is aborted, once.
PollAborts(l) ==
    /\ IdleEnabled /\ ~idleSpent /\ resuming = NoLoader
    /\ l \in active /\ OwnsStats(l) /\ l \in media \cap grown /\ l \notin retried
    /\ idleSpent' = SpentIdle /\ resuming' = l
    /\ Finish(l, "abort")
    /\ Forward(l) \/ UNCHANGED delivered
    /\ UNCHANGED <<current, epoch, born, media, grown, retried, answered, idleCalls>>

\* Mutant: the poll goes on as if nothing could have happened meanwhile.
ActsBlindly == TRUE

StillActs == born[resuming] = epoch /\ current

\* The abort's callbacks have run; the page may have replaced the player in them.
PollResumes ==
    /\ resuming # NoLoader
    /\ idleCalls' = IF StillActs THEN idleCalls + 1 ELSE idleCalls
    /\ resuming' = NoLoader
    /\ UNCHANGED <<current, epoch, recordVars, totalVars, idleSpent, delivered, answered>>

-----------------------------------------------------------------------------

Native(l) ==
    \/ \E kind \in {"manifest", "media", "other"} : Load(l, kind)
    \/ \E reason \in {"success", "error", "timeout"} : NativeEnds(l, reason)
    \/ \E b \in BOOLEAN : Abort(l, b) \/ Sample(l, b)
    \/ LoadThrows(l) \/ Destroy(l) \/ LateCallback(l)

Page(l) == Invalidate \/ Replace \/ PollAborts(l) \/ PollResumes

Next == \E l \in Loaders : Native(l) \/ Page(l)

Spec == Init /\ [][Next]_vars

-----------------------------------------------------------------------------
(* What the observer promises *)

\* hls.js hears the end of a request at most once, and always hears a native end of a
\* request its player still owns: no statistics reset between swallows it.
EndsHeardOnce ==
    \A l \in Loaders :
        /\ delivered[l] <= 1
        /\ l \in answered => delivered[l] = 1

\* A retired player hears nothing: neither the end of a request that was open when it was
\* replaced, nor the idle action whose abort replaced it.
RetiredHearsNothing ==
    [][delivered' # delivered \/ idleCalls' # idleCalls => current]_vars

\* Telemetry is of the present epoch: what is sampled is open and was requested since the
\* last reset, as was every completion that accepts() vouches for, and each end counts once.
TelemetryOfThisEpoch ==
    /\ \A l \in active : state[l] = "open" /\ born[l] = epoch
    /\ \A c \in completed : c[2] = epoch /\ born[c[1]] = epoch /\ state[c[1]] = "terminal"
    /\ \A l \in Loaders : counted[l] <= 1

\* However many requests run, a bounded number is sampled.
ObservationBounded == Cardinality(active) <= MaxActive

\* A stuck body is aborted for the viewer at most once in the life of a player.
OneIdleAction == idleCalls <= 1
=============================================================================
