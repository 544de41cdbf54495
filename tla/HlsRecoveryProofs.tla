------------------------- MODULE HlsRecoveryProofs -------------------------
(* Proofs about the recovery of the LL-HLS player: a stopped player has its     *)
(* resumption ahead, timers stand for queued work, a recovery chain moves back *)
(* at most once, and the playback rate has one writer.                         *)
EXTENDS HlsRecovery, TLAPS

-----------------------------------------------------------------------------
(* The inductive invariant *)

\* A player is offline only if it was told, or started so.
OfflineIsKnown == Playing /\ ~online => wasOffline \/ unaware

\* What needs a manifest: a restart, and media that moves the evidence.
ManifestFirst ==
    /\ pending = "start" => manifest
    /\ fresh => manifest

\* A stopped player can resume, or a reload is owed or was given up, or
\* it is broken.
StoppedIsOwed ==
    Playing /\ ~loading =>
        pending # "none" \/ manifest \/ sourceTimer \/ dropped \/ broken

\* As RecoveryAhead; but a confirmation that recovery made needless is not relied on.
ResumesAhead ==
    Playing /\ ~loading =>
        \/ pending # "none" /\ due > 0
        \/ sourceTimer /\ ~manifest
        \/ wasOffline /\ (pending # "none" \/ manifest)
        \/ unaware \/ dropped \/ broken

\* Within a chain the budget counts the backtracks; before it, the budget is whole.
BudgetCounts ==
    /\ backtracks \in {0, 1}
    /\ weak = "no" /\ ~smooth => ~spent
    /\ weak # "no" \/ smooth => backtracks = IF spent THEN 1 ELSE 0

\* A page that plays WHEP holds no weak profile and no catch-up.
NoHlsNoProfile == ~Playing => weak = "no" /\ ~smooth /\ ~fast

RecoveryInv ==
    OfflineIsKnown /\ ManifestFirst /\ StoppedIsOwed /\ ResumesAhead /\ TimersHaveWork

ProfileInv ==
    BudgetCounts /\ OneRateWriter /\ NoHlsNoProfile

\* The step of ReloadNotDowngraded.
ReloadStays == pending = "reload" => pending' # "start"

-----------------------------------------------------------------------------
(* Types *)

Data ==
    /\ active \in {"hls", "whep"} /\ pending \in {"none", "start", "reload"}
    /\ weak \in {"no", "rtt", "loss"}
    /\ due \in 0 .. MaxDue /\ safePoint \in 0 .. MaxAttempts
    /\ failures \in 0 .. 3 /\ backtracks \in Nat

NetFlags ==
    /\ auto \in BOOLEAN /\ tried \in BOOLEAN /\ online \in BOOLEAN /\ wasOffline \in BOOLEAN

LoadFlags ==
    /\ loading \in BOOLEAN /\ manifest \in BOOLEAN /\ watchdog \in BOOLEAN
    /\ sourceTimer \in BOOLEAN /\ errors \in BOOLEAN

WeakFlags ==
    /\ ready \in BOOLEAN /\ fresh \in BOOLEAN /\ spent \in BOOLEAN /\ smooth \in BOOLEAN

RateFlags ==
    /\ fast \in BOOLEAN /\ native \in BOOLEAN /\ unaware \in BOOLEAN /\ dropped \in BOOLEAN
    /\ broken \in BOOLEAN

Flags == NetFlags /\ LoadFlags /\ WeakFlags /\ RateFlags

LEMMA TypeParts == TypeOK <=> Data /\ Flags
BY Zenon DEF TypeOK, Data, Flags, NetFlags, LoadFlags, WeakFlags, RateFlags

LEMMA PartsStep == ASSUME Data, Flags, [Next]_vars PROVE (Data /\ Flags)'
<1> USE BoundAssumption DEF Playing, StartHls, StopPlayer, StartWhep, HandOver, Queue,
            Outranks, DueAfterQueue, Unaccelerated, FreshAfterError, EnterWeak, WeakAfter,
            NativeInWeak, StayInProfile, Counted, OneMore, Qualifies, SpentAfterExit,
            Backtrack, LastAttempt, RunPending, DueAfterRun, ConfirmsReload, playerVars,
            netVars, loadVars, ticketVars, weakVars, rateVars, historyVars
<1>1. CASE ClickHls
  <2>1. Data'
    BY <1>1, SMT DEF Data, ClickHls
  <2>2. NetFlags'
    BY <1>1, Zenon DEF Flags, NetFlags, LoadFlags, WeakFlags, RateFlags, ClickHls
  <2>3. LoadFlags'
    BY <1>1, Zenon DEF Flags, NetFlags, LoadFlags, WeakFlags, RateFlags, ClickHls
  <2>4. WeakFlags'
    BY <1>1, Zenon DEF Flags, NetFlags, LoadFlags, WeakFlags, RateFlags, ClickHls
  <2>5. RateFlags'
    BY <1>1, Zenon DEF Flags, NetFlags, LoadFlags, WeakFlags, RateFlags, ClickHls
  <2> QED BY <2>1, <2>2, <2>3, <2>4, <2>5 DEF Flags
<1>2. CASE ClickWhep
  <2>1. Data'
    BY <1>2, SMT DEF Data, ClickWhep
  <2>2. NetFlags'
    BY <1>2, Zenon DEF Flags, NetFlags, LoadFlags, WeakFlags, RateFlags, ClickWhep
  <2>3. LoadFlags'
    BY <1>2, Zenon DEF Flags, NetFlags, LoadFlags, WeakFlags, RateFlags, ClickWhep
  <2>4. WeakFlags'
    BY <1>2, Zenon DEF Flags, NetFlags, LoadFlags, WeakFlags, RateFlags, ClickWhep
  <2>5. RateFlags'
    BY <1>2, Zenon DEF Flags, NetFlags, LoadFlags, WeakFlags, RateFlags, ClickWhep
  <2> QED BY <2>1, <2>2, <2>3, <2>4, <2>5 DEF Flags
<1>3. CASE ClickAuto
  <2>1. Data'
    BY <1>3, SMT DEF Data, ClickAuto
  <2>2. NetFlags'
    BY <1>3, Zenon DEF Flags, NetFlags, LoadFlags, WeakFlags, RateFlags, ClickAuto
  <2>3. LoadFlags'
    BY <1>3, Zenon DEF Flags, NetFlags, LoadFlags, WeakFlags, RateFlags, ClickAuto
  <2>4. WeakFlags'
    BY <1>3, Zenon DEF Flags, NetFlags, LoadFlags, WeakFlags, RateFlags, ClickAuto
  <2>5. RateFlags'
    BY <1>3, Zenon DEF Flags, NetFlags, LoadFlags, WeakFlags, RateFlags, ClickAuto
  <2> QED BY <2>1, <2>2, <2>3, <2>4, <2>5 DEF Flags
<1>4. ASSUME NEW t \in BOOLEAN,
            WhepFallsBack(t)
     PROVE  (Data /\ Flags)'
  <2>1. Data'
    BY <1>4, SMT DEF Data, WhepFallsBack
  <2>2. NetFlags'
    BY <1>4, Zenon DEF Flags, NetFlags, LoadFlags, WeakFlags, RateFlags, WhepFallsBack
  <2>3. LoadFlags'
    BY <1>4, Zenon DEF Flags, NetFlags, LoadFlags, WeakFlags, RateFlags, WhepFallsBack
  <2>4. WeakFlags'
    BY <1>4, Zenon DEF Flags, NetFlags, LoadFlags, WeakFlags, RateFlags, WhepFallsBack
  <2>5. RateFlags'
    BY <1>4, Zenon DEF Flags, NetFlags, LoadFlags, WeakFlags, RateFlags, WhepFallsBack
  <2> QED BY <2>1, <2>2, <2>3, <2>4, <2>5 DEF Flags
<1>5. CASE MediaErrorHandsOver
  <2>1. Data'
    BY <1>5, SMT DEF Data, MediaErrorHandsOver
  <2>2. NetFlags'
    BY <1>5, Zenon DEF Flags, NetFlags, LoadFlags, WeakFlags, RateFlags, MediaErrorHandsOver
  <2>3. LoadFlags'
    BY <1>5, Zenon DEF Flags, NetFlags, LoadFlags, WeakFlags, RateFlags, MediaErrorHandsOver
  <2>4. WeakFlags'
    BY <1>5, Zenon DEF Flags, NetFlags, LoadFlags, WeakFlags, RateFlags, MediaErrorHandsOver
  <2>5. RateFlags'
    BY <1>5, Zenon DEF Flags, NetFlags, LoadFlags, WeakFlags, RateFlags, MediaErrorHandsOver
  <2> QED BY <2>1, <2>2, <2>3, <2>4, <2>5 DEF Flags
<1>6. CASE PlaylistUnchanged
  <2>1. Data'
    BY <1>6, SMT DEF Data, PlaylistUnchanged
  <2>2. NetFlags'
    BY <1>6, Zenon DEF Flags, NetFlags, LoadFlags, WeakFlags, RateFlags, PlaylistUnchanged
  <2>3. LoadFlags'
    BY <1>6, Zenon DEF Flags, NetFlags, LoadFlags, WeakFlags, RateFlags, PlaylistUnchanged
  <2>4. WeakFlags'
    BY <1>6, Zenon DEF Flags, NetFlags, LoadFlags, WeakFlags, RateFlags, PlaylistUnchanged
  <2>5. RateFlags'
    BY <1>6, Zenon DEF Flags, NetFlags, LoadFlags, WeakFlags, RateFlags, PlaylistUnchanged
  <2> QED BY <2>1, <2>2, <2>3, <2>4, <2>5 DEF Flags
<1>7. ASSUME NEW moves \in BOOLEAN, NEW slow \in BOOLEAN,
            FragLoaded(moves, slow)
     PROVE  (Data /\ Flags)'
  <2>1. Data'
    BY <1>7, SMT DEF Data, FragLoaded
  <2>2. NetFlags'
    BY <1>7, Zenon DEF Flags, NetFlags, LoadFlags, WeakFlags, RateFlags, FragLoaded
  <2>3. LoadFlags'
    BY <1>7, Zenon DEF Flags, NetFlags, LoadFlags, WeakFlags, RateFlags, FragLoaded
  <2>4. WeakFlags'
    BY <1>7, Zenon DEF Flags, NetFlags, LoadFlags, WeakFlags, RateFlags, FragLoaded
  <2>5. RateFlags'
    BY <1>7, Zenon DEF Flags, NetFlags, LoadFlags, WeakFlags, RateFlags, FragLoaded
  <2> QED BY <2>1, <2>2, <2>3, <2>4, <2>5 DEF Flags
<1>8. ASSUME NEW b \in BOOLEAN,
            ManifestParsed(b)
     PROVE  (Data /\ Flags)'
  <2>1. Data'
    <3>1. CASE b
      BY <1>8, <3>1, SMT DEF Data, ManifestParsed
    <3>2. CASE ~b
      BY <1>8, <3>2, SMT DEF Data, ManifestParsed
    <3> QED BY <3>1, <3>2
  <2>2. NetFlags'
    BY <1>8, Zenon DEF Flags, NetFlags, LoadFlags, WeakFlags, RateFlags, ManifestParsed
  <2>3. LoadFlags'
    BY <1>8, Zenon DEF Flags, NetFlags, LoadFlags, WeakFlags, RateFlags, ManifestParsed
  <2>4. WeakFlags'
    BY <1>8, Zenon DEF Flags, NetFlags, LoadFlags, WeakFlags, RateFlags, ManifestParsed
  <2>5. RateFlags'
    BY <1>8, Zenon DEF Flags, NetFlags, LoadFlags, WeakFlags, RateFlags, ManifestParsed
  <2> QED BY <2>1, <2>2, <2>3, <2>4, <2>5 DEF Flags
<1>9. ASSUME NEW b \in BOOLEAN,
            NetworkError(b)
     PROVE  (Data /\ Flags)'
  <2>1. Data'
    BY <1>9, SMT DEF Data, NetworkError
  <2>2. NetFlags'
    BY <1>9, Zenon DEF Flags, NetFlags, LoadFlags, WeakFlags, RateFlags, NetworkError
  <2>3. LoadFlags'
    BY <1>9, Zenon DEF Flags, NetFlags, LoadFlags, WeakFlags, RateFlags, NetworkError
  <2>4. WeakFlags'
    BY <1>9, Zenon DEF Flags, NetFlags, LoadFlags, WeakFlags, RateFlags, NetworkError
  <2>5. RateFlags'
    BY <1>9, Zenon DEF Flags, NetFlags, LoadFlags, WeakFlags, RateFlags, NetworkError
  <2> QED BY <2>1, <2>2, <2>3, <2>4, <2>5 DEF Flags
<1>10. ASSUME NEW kind \in {"start", "reload"}, NEW answer \in {"5xx", "4xx", "none"},
            FatalNetworkError(kind, answer)
     PROVE  (Data /\ Flags)'
  <2>1. Data'
    BY <1>10, SMT DEF Data, FatalNetworkError
  <2>2. NetFlags'
    BY <1>10, Zenon DEF Flags, NetFlags, LoadFlags, WeakFlags, RateFlags, FatalNetworkError
  <2>3. LoadFlags'
    BY <1>10, Zenon DEF Flags, NetFlags, LoadFlags, WeakFlags, RateFlags, FatalNetworkError
  <2>4. WeakFlags'
    BY <1>10, Zenon DEF Flags, NetFlags, LoadFlags, WeakFlags, RateFlags, FatalNetworkError
  <2>5. RateFlags'
    BY <1>10, Zenon DEF Flags, NetFlags, LoadFlags, WeakFlags, RateFlags, FatalNetworkError
  <2> QED BY <2>1, <2>2, <2>3, <2>4, <2>5 DEF Flags
<1>11. CASE Weakens
  <2>1. Data'
    BY <1>11, SMT DEF Data, Weakens
  <2>2. NetFlags'
    BY <1>11, Zenon DEF Flags, NetFlags, LoadFlags, WeakFlags, RateFlags, Weakens
  <2>3. LoadFlags'
    BY <1>11, Zenon DEF Flags, NetFlags, LoadFlags, WeakFlags, RateFlags, Weakens
  <2>4. WeakFlags'
    BY <1>11, Zenon DEF Flags, NetFlags, LoadFlags, WeakFlags, RateFlags, Weakens
  <2>5. RateFlags'
    BY <1>11, Zenon DEF Flags, NetFlags, LoadFlags, WeakFlags, RateFlags, Weakens
  <2> QED BY <2>1, <2>2, <2>3, <2>4, <2>5 DEF Flags
<1>12. CASE ExitWeak
  <2>1. Data'
    BY <1>12, SMT DEF Data, ExitWeak
  <2>2. NetFlags'
    BY <1>12, Zenon DEF Flags, NetFlags, LoadFlags, WeakFlags, RateFlags, ExitWeak
  <2>3. LoadFlags'
    BY <1>12, Zenon DEF Flags, NetFlags, LoadFlags, WeakFlags, RateFlags, ExitWeak
  <2>4. WeakFlags'
    BY <1>12, Zenon DEF Flags, NetFlags, LoadFlags, WeakFlags, RateFlags, ExitWeak
  <2>5. RateFlags'
    BY <1>12, Zenon DEF Flags, NetFlags, LoadFlags, WeakFlags, RateFlags, ExitWeak
  <2> QED BY <2>1, <2>2, <2>3, <2>4, <2>5 DEF Flags
<1>13. CASE ReadinessChanges
  <2>1. Data'
    BY <1>13, SMT DEF Data, ReadinessChanges
  <2>2. NetFlags'
    BY <1>13, Zenon DEF Flags, NetFlags, LoadFlags, WeakFlags, RateFlags, ReadinessChanges
  <2>3. LoadFlags'
    BY <1>13, Zenon DEF Flags, NetFlags, LoadFlags, WeakFlags, RateFlags, ReadinessChanges
  <2>4. WeakFlags'
    BY <1>13, Zenon DEF Flags, NetFlags, LoadFlags, WeakFlags, RateFlags, ReadinessChanges
  <2>5. RateFlags'
    BY <1>13, Zenon DEF Flags, NetFlags, LoadFlags, WeakFlags, RateFlags, ReadinessChanges
  <2> QED BY <2>1, <2>2, <2>3, <2>4, <2>5 DEF Flags
<1>14. CASE Interrupted
  <2>1. Data'
    BY <1>14, SMT DEF Data, Interrupted
  <2>2. NetFlags'
    BY <1>14, Zenon DEF Flags, NetFlags, LoadFlags, WeakFlags, RateFlags, Interrupted
  <2>3. LoadFlags'
    BY <1>14, Zenon DEF Flags, NetFlags, LoadFlags, WeakFlags, RateFlags, Interrupted
  <2>4. WeakFlags'
    BY <1>14, Zenon DEF Flags, NetFlags, LoadFlags, WeakFlags, RateFlags, Interrupted
  <2>5. RateFlags'
    BY <1>14, Zenon DEF Flags, NetFlags, LoadFlags, WeakFlags, RateFlags, Interrupted
  <2> QED BY <2>1, <2>2, <2>3, <2>4, <2>5 DEF Flags
<1>15. CASE CaughtUp
  <2>1. Data'
    BY <1>15, SMT DEF Data, CaughtUp
  <2>2. NetFlags'
    BY <1>15, Zenon DEF Flags, NetFlags, LoadFlags, WeakFlags, RateFlags, CaughtUp
  <2>3. LoadFlags'
    BY <1>15, Zenon DEF Flags, NetFlags, LoadFlags, WeakFlags, RateFlags, CaughtUp
  <2>4. WeakFlags'
    BY <1>15, Zenon DEF Flags, NetFlags, LoadFlags, WeakFlags, RateFlags, CaughtUp
  <2>5. RateFlags'
    BY <1>15, Zenon DEF Flags, NetFlags, LoadFlags, WeakFlags, RateFlags, CaughtUp
  <2> QED BY <2>1, <2>2, <2>3, <2>4, <2>5 DEF Flags
<1>16. CASE PictureShown
  <2>1. Data'
    BY <1>16, SMT DEF Data, PictureShown
  <2>2. NetFlags'
    BY <1>16, Zenon DEF Flags, NetFlags, LoadFlags, WeakFlags, RateFlags, PictureShown
  <2>3. LoadFlags'
    BY <1>16, Zenon DEF Flags, NetFlags, LoadFlags, WeakFlags, RateFlags, PictureShown
  <2>4. WeakFlags'
    BY <1>16, Zenon DEF Flags, NetFlags, LoadFlags, WeakFlags, RateFlags, PictureShown
  <2>5. RateFlags'
    BY <1>16, Zenon DEF Flags, NetFlags, LoadFlags, WeakFlags, RateFlags, PictureShown
  <2> QED BY <2>1, <2>2, <2>3, <2>4, <2>5 DEF Flags
<1>17. ASSUME NEW b \in BOOLEAN,
            SafePointTimer(b)
     PROVE  (Data /\ Flags)'
  <2>1. Data'
    BY <1>17, SMT DEF Data, SafePointTimer
  <2>2. NetFlags'
    BY <1>17, Zenon DEF Flags, NetFlags, LoadFlags, WeakFlags, RateFlags, SafePointTimer
  <2>3. LoadFlags'
    BY <1>17, Zenon DEF Flags, NetFlags, LoadFlags, WeakFlags, RateFlags, SafePointTimer
  <2>4. WeakFlags'
    BY <1>17, Zenon DEF Flags, NetFlags, LoadFlags, WeakFlags, RateFlags, SafePointTimer
  <2>5. RateFlags'
    BY <1>17, Zenon DEF Flags, NetFlags, LoadFlags, WeakFlags, RateFlags, SafePointTimer
  <2> QED BY <2>1, <2>2, <2>3, <2>4, <2>5 DEF Flags
<1>18. ASSUME NEW b \in BOOLEAN,
            CatchUp(b)
     PROVE  (Data /\ Flags)'
  <2>1. Data'
    BY <1>18, SMT DEF Data, CatchUp
  <2>2. NetFlags'
    BY <1>18, Zenon DEF Flags, NetFlags, LoadFlags, WeakFlags, RateFlags, CatchUp
  <2>3. LoadFlags'
    BY <1>18, Zenon DEF Flags, NetFlags, LoadFlags, WeakFlags, RateFlags, CatchUp
  <2>4. WeakFlags'
    BY <1>18, Zenon DEF Flags, NetFlags, LoadFlags, WeakFlags, RateFlags, CatchUp
  <2>5. RateFlags'
    BY <1>18, Zenon DEF Flags, NetFlags, LoadFlags, WeakFlags, RateFlags, CatchUp
  <2> QED BY <2>1, <2>2, <2>3, <2>4, <2>5 DEF Flags
<1>19. ASSUME NEW usable \in BOOLEAN, NEW possible \in BOOLEAN,
            MonitorTick(usable, possible)
     PROVE  (Data /\ Flags)'
  <2>1. Data'
    BY <1>19, SMT DEF Data, MonitorTick
  <2>2. NetFlags'
    BY <1>19, Zenon DEF Flags, NetFlags, LoadFlags, WeakFlags, RateFlags, MonitorTick
  <2>3. LoadFlags'
    BY <1>19, Zenon DEF Flags, NetFlags, LoadFlags, WeakFlags, RateFlags, MonitorTick
  <2>4. WeakFlags'
    BY <1>19, Zenon DEF Flags, NetFlags, LoadFlags, WeakFlags, RateFlags, MonitorTick
  <2>5. RateFlags'
    BY <1>19, Zenon DEF Flags, NetFlags, LoadFlags, WeakFlags, RateFlags, MonitorTick
  <2> QED BY <2>1, <2>2, <2>3, <2>4, <2>5 DEF Flags
<1>20. CASE RecoveryTimer
  <2>1. Data'
    BY <1>20, SMT DEF Data, RecoveryTimer
  <2>2. NetFlags'
    BY <1>20, Zenon DEF Flags, NetFlags, LoadFlags, WeakFlags, RateFlags, RecoveryTimer
  <2>3. LoadFlags'
    BY <1>20, Zenon DEF Flags, NetFlags, LoadFlags, WeakFlags, RateFlags, RecoveryTimer
  <2>4. WeakFlags'
    BY <1>20, Zenon DEF Flags, NetFlags, LoadFlags, WeakFlags, RateFlags, RecoveryTimer
  <2>5. RateFlags'
    BY <1>20, Zenon DEF Flags, NetFlags, LoadFlags, WeakFlags, RateFlags, RecoveryTimer
  <2> QED BY <2>1, <2>2, <2>3, <2>4, <2>5 DEF Flags
<1>21. ASSUME NEW b \in BOOLEAN,
            SourceTimer(b)
     PROVE  (Data /\ Flags)'
  <2>1. Data'
    BY <1>21, SMT DEF Data, SourceTimer
  <2>2. NetFlags'
    BY <1>21, Zenon DEF Flags, NetFlags, LoadFlags, WeakFlags, RateFlags, SourceTimer
  <2>3. LoadFlags'
    BY <1>21, Zenon DEF Flags, NetFlags, LoadFlags, WeakFlags, RateFlags, SourceTimer
  <2>4. WeakFlags'
    BY <1>21, Zenon DEF Flags, NetFlags, LoadFlags, WeakFlags, RateFlags, SourceTimer
  <2>5. RateFlags'
    BY <1>21, Zenon DEF Flags, NetFlags, LoadFlags, WeakFlags, RateFlags, SourceTimer
  <2> QED BY <2>1, <2>2, <2>3, <2>4, <2>5 DEF Flags
<1>22. ASSUME NEW b \in BOOLEAN,
            WatchdogTimer(b)
     PROVE  (Data /\ Flags)'
  <2>1. Data'
    BY <1>22, SMT DEF Data, WatchdogTimer
  <2>2. NetFlags'
    BY <1>22, Zenon DEF Flags, NetFlags, LoadFlags, WeakFlags, RateFlags, WatchdogTimer
  <2>3. LoadFlags'
    BY <1>22, Zenon DEF Flags, NetFlags, LoadFlags, WeakFlags, RateFlags, WatchdogTimer
  <2>4. WeakFlags'
    BY <1>22, Zenon DEF Flags, NetFlags, LoadFlags, WeakFlags, RateFlags, WatchdogTimer
  <2>5. RateFlags'
    BY <1>22, Zenon DEF Flags, NetFlags, LoadFlags, WeakFlags, RateFlags, WatchdogTimer
  <2> QED BY <2>1, <2>2, <2>3, <2>4, <2>5 DEF Flags
<1>23. CASE GoOffline
  <2>1. Data'
    BY <1>23, SMT DEF Data, GoOffline
  <2>2. NetFlags'
    BY <1>23, Zenon DEF Flags, NetFlags, LoadFlags, WeakFlags, RateFlags, GoOffline
  <2>3. LoadFlags'
    BY <1>23, Zenon DEF Flags, NetFlags, LoadFlags, WeakFlags, RateFlags, GoOffline
  <2>4. WeakFlags'
    BY <1>23, Zenon DEF Flags, NetFlags, LoadFlags, WeakFlags, RateFlags, GoOffline
  <2>5. RateFlags'
    BY <1>23, Zenon DEF Flags, NetFlags, LoadFlags, WeakFlags, RateFlags, GoOffline
  <2> QED BY <2>1, <2>2, <2>3, <2>4, <2>5 DEF Flags
<1>24. CASE GoOnline
  <2>1. Data'
    BY <1>24, SMT DEF Data, GoOnline
  <2>2. NetFlags'
    BY <1>24, Zenon DEF Flags, NetFlags, LoadFlags, WeakFlags, RateFlags, GoOnline
  <2>3. LoadFlags'
    BY <1>24, Zenon DEF Flags, NetFlags, LoadFlags, WeakFlags, RateFlags, GoOnline
  <2>4. WeakFlags'
    BY <1>24, Zenon DEF Flags, NetFlags, LoadFlags, WeakFlags, RateFlags, GoOnline
  <2>5. RateFlags'
    BY <1>24, Zenon DEF Flags, NetFlags, LoadFlags, WeakFlags, RateFlags, GoOnline
  <2> QED BY <2>1, <2>2, <2>3, <2>4, <2>5 DEF Flags
<1>25. ASSUME NEW b \in BOOLEAN,
            MediaError(b)
     PROVE  (Data /\ Flags)'
  <2>1. Data'
    BY <1>25, SMT DEF Data, MediaError
  <2>2. NetFlags'
    BY <1>25, Zenon DEF Flags, NetFlags, LoadFlags, WeakFlags, RateFlags, MediaError
  <2>3. LoadFlags'
    BY <1>25, Zenon DEF Flags, NetFlags, LoadFlags, WeakFlags, RateFlags, MediaError
  <2>4. WeakFlags'
    BY <1>25, Zenon DEF Flags, NetFlags, LoadFlags, WeakFlags, RateFlags, MediaError
  <2>5. RateFlags'
    BY <1>25, Zenon DEF Flags, NetFlags, LoadFlags, WeakFlags, RateFlags, MediaError
  <2> QED BY <2>1, <2>2, <2>3, <2>4, <2>5 DEF Flags
<1>26. ASSUME NEW b \in BOOLEAN,
            FatalOtherError(b)
     PROVE  (Data /\ Flags)'
  <2>1. Data'
    BY <1>26, SMT DEF Data, FatalOtherError
  <2>2. NetFlags'
    BY <1>26, Zenon DEF Flags, NetFlags, LoadFlags, WeakFlags, RateFlags, FatalOtherError
  <2>3. LoadFlags'
    BY <1>26, Zenon DEF Flags, NetFlags, LoadFlags, WeakFlags, RateFlags, FatalOtherError
  <2>4. WeakFlags'
    BY <1>26, Zenon DEF Flags, NetFlags, LoadFlags, WeakFlags, RateFlags, FatalOtherError
  <2>5. RateFlags'
    BY <1>26, Zenon DEF Flags, NetFlags, LoadFlags, WeakFlags, RateFlags, FatalOtherError
  <2> QED BY <2>1, <2>2, <2>3, <2>4, <2>5 DEF Flags
<1>27. CASE UNCHANGED vars
  <2>1. Data'
    BY <1>27, SMT DEF Data, vars
  <2>2. NetFlags'
    BY <1>27, Zenon DEF Flags, NetFlags, LoadFlags, WeakFlags, RateFlags, vars
  <2>3. LoadFlags'
    BY <1>27, Zenon DEF Flags, NetFlags, LoadFlags, WeakFlags, RateFlags, vars
  <2>4. WeakFlags'
    BY <1>27, Zenon DEF Flags, NetFlags, LoadFlags, WeakFlags, RateFlags, vars
  <2>5. RateFlags'
    BY <1>27, Zenon DEF Flags, NetFlags, LoadFlags, WeakFlags, RateFlags, vars
  <2> QED BY <2>1, <2>2, <2>3, <2>4, <2>5 DEF Flags
<1> QED BY <1>1, <1>2, <1>3, <1>4, <1>5, <1>6, <1>7, <1>8, <1>9, <1>10, <1>11, <1>12, <1>13,
          <1>14, <1>15, <1>16, <1>17, <1>18, <1>19, <1>20, <1>21, <1>22, <1>23, <1>24, <1>25,
          <1>26, <1>27
    DEF Next, Viewer, Events, Media, Timers

LEMMA TypeStep == TypeOK /\ [Next]_vars => TypeOK'
BY TypeParts, PartsStep, PTL

-----------------------------------------------------------------------------
(* Preservation *)

LEMMA RecoveryStep == ASSUME TypeOK, TypeOK', RecoveryInv, [Next]_vars PROVE RecoveryInv' /\ ReloadStays
<1> USE BoundAssumption DEF Playing, StartHls, StopPlayer, StartWhep, HandOver, Queue,
            Outranks, DueAfterQueue, Unaccelerated, FreshAfterError, EnterWeak, WeakAfter,
            NativeInWeak, StayInProfile, Counted, OneMore, Qualifies, SpentAfterExit,
            Backtrack, LastAttempt, RunPending, DueAfterRun, ConfirmsReload, playerVars,
            netVars, loadVars, ticketVars, weakVars, rateVars, historyVars
<1> USE DEF TypeOK, RecoveryInv, OfflineIsKnown, ManifestFirst,
            StoppedIsOwed, ResumesAhead, TimersHaveWork, ReloadStays
<1>1. CASE ClickHls
  <2>1. StartHls
    BY <1>1 DEF ClickHls
  <2>2. loading' = TRUE /\ pending' = "none" /\ fresh' = FALSE /\ due' = 0
    BY <2>1
  <2>3. OfflineIsKnown'
    BY <2>1, Zenon
  <2> QED BY <2>2, <2>3, SMT
<1>2. CASE ClickWhep
  BY <1>2, SMT DEF ClickWhep
<1>3. CASE ClickAuto
  BY <1>3, SMT DEF ClickAuto
<1>4. ASSUME NEW t \in BOOLEAN,
            WhepFallsBack(t)
     PROVE  RecoveryInv' /\ ReloadStays
  <2>1. StartHls
    BY <1>4 DEF WhepFallsBack
  <2>2. loading' = TRUE /\ pending' = "none" /\ fresh' = FALSE /\ due' = 0
    BY <2>1
  <2>3. OfflineIsKnown'
    BY <2>1, Zenon
  <2> QED BY <2>2, <2>3, SMT
<1>5. CASE MediaErrorHandsOver
  BY <1>5, SMT DEF MediaErrorHandsOver
<1>6. CASE PlaylistUnchanged
  BY <1>6, SMT DEF PlaylistUnchanged
<1>7. ASSUME NEW moves \in BOOLEAN, NEW slow \in BOOLEAN,
            FragLoaded(moves, slow)
     PROVE  RecoveryInv' /\ ReloadStays
  BY <1>7, SMT DEF FragLoaded
<1>8. ASSUME NEW b \in BOOLEAN,
            ManifestParsed(b)
     PROVE  RecoveryInv' /\ ReloadStays
  <2>1. CASE b
    BY <1>8, <2>1, SMT DEF ManifestParsed
  <2>2. CASE ~b
    BY <1>8, <2>2, SMT DEF ManifestParsed
  <2> QED BY <2>1, <2>2
<1>9. ASSUME NEW b \in BOOLEAN,
            NetworkError(b)
     PROVE  RecoveryInv' /\ ReloadStays
  BY <1>9, SMT DEF NetworkError
<1>10. ASSUME NEW kind \in {"start", "reload"}, NEW answer \in {"5xx", "4xx", "none"},
            FatalNetworkError(kind, answer)
     PROVE  RecoveryInv' /\ ReloadStays
  BY <1>10, SMT DEF FatalNetworkError
<1>11. CASE Weakens
  BY <1>11, SMT DEF Weakens
<1>12. CASE ExitWeak
  BY <1>12, SMT DEF ExitWeak
<1>13. CASE ReadinessChanges
  BY <1>13, SMT DEF ReadinessChanges
<1>14. CASE Interrupted
  BY <1>14, SMT DEF Interrupted
<1>15. CASE CaughtUp
  BY <1>15, SMT DEF CaughtUp
<1>16. CASE PictureShown
  BY <1>16, SMT DEF PictureShown
<1>17. ASSUME NEW b \in BOOLEAN,
            SafePointTimer(b)
     PROVE  RecoveryInv' /\ ReloadStays
  BY <1>17, SMT DEF SafePointTimer
<1>18. ASSUME NEW b \in BOOLEAN,
            CatchUp(b)
     PROVE  RecoveryInv' /\ ReloadStays
  BY <1>18, SMT DEF CatchUp
<1>19. ASSUME NEW usable \in BOOLEAN, NEW possible \in BOOLEAN,
            MonitorTick(usable, possible)
     PROVE  RecoveryInv' /\ ReloadStays
  BY <1>19, SMT DEF MonitorTick
<1>20. CASE RecoveryTimer
  BY <1>20, SMT DEF RecoveryTimer
<1>21. ASSUME NEW b \in BOOLEAN,
            SourceTimer(b)
     PROVE  RecoveryInv' /\ ReloadStays
  BY <1>21, SMT DEF SourceTimer
<1>22. ASSUME NEW b \in BOOLEAN,
            WatchdogTimer(b)
     PROVE  RecoveryInv' /\ ReloadStays
  BY <1>22, SMT DEF WatchdogTimer
<1>23. CASE GoOffline
  BY <1>23, SMT DEF GoOffline
<1>24. CASE GoOnline
  BY <1>24, SMT DEF GoOnline
<1>25. ASSUME NEW b \in BOOLEAN,
            MediaError(b)
     PROVE  RecoveryInv' /\ ReloadStays
  BY <1>25, SMT DEF MediaError
<1>26. ASSUME NEW b \in BOOLEAN,
            FatalOtherError(b)
     PROVE  RecoveryInv' /\ ReloadStays
  BY <1>26, SMT DEF FatalOtherError
<1>27. CASE UNCHANGED vars
  BY <1>27, SMT DEF vars
<1> QED BY <1>1, <1>2, <1>3, <1>4, <1>5, <1>6, <1>7, <1>8, <1>9, <1>10, <1>11, <1>12, <1>13,
          <1>14, <1>15, <1>16, <1>17, <1>18, <1>19, <1>20, <1>21, <1>22, <1>23, <1>24, <1>25,
          <1>26, <1>27
    DEF Next, Viewer, Events, Media, Timers

LEMMA ProfileStep == ASSUME TypeOK, TypeOK', ProfileInv, [Next]_vars PROVE ProfileInv'
<1> USE BoundAssumption DEF Playing, StartHls, StopPlayer, StartWhep, HandOver, Queue,
            Outranks, DueAfterQueue, Unaccelerated, FreshAfterError, EnterWeak, WeakAfter,
            NativeInWeak, StayInProfile, Counted, OneMore, Qualifies, SpentAfterExit,
            Backtrack, LastAttempt, RunPending, DueAfterRun, ConfirmsReload, playerVars,
            netVars, loadVars, ticketVars, weakVars, rateVars, historyVars
<1> USE DEF TypeOK, ProfileInv, BudgetCounts, OneRateWriter,
            NoHlsNoProfile
<1>1. CASE ClickHls
  BY <1>1, SMT DEF ClickHls
<1>2. CASE ClickWhep
  BY <1>2, SMT DEF ClickWhep
<1>3. CASE ClickAuto
  BY <1>3, SMT DEF ClickAuto
<1>4. ASSUME NEW t \in BOOLEAN,
            WhepFallsBack(t)
     PROVE  ProfileInv'
  BY <1>4, SMT DEF WhepFallsBack
<1>5. CASE MediaErrorHandsOver
  BY <1>5, SMT DEF MediaErrorHandsOver
<1>6. CASE PlaylistUnchanged
  BY <1>6, SMT DEF PlaylistUnchanged
<1>7. ASSUME NEW moves \in BOOLEAN, NEW slow \in BOOLEAN,
            FragLoaded(moves, slow)
     PROVE  ProfileInv'
  BY <1>7, SMT DEF FragLoaded
<1>8. ASSUME NEW b \in BOOLEAN,
            ManifestParsed(b)
     PROVE  ProfileInv'
  <2>1. CASE b
    BY <1>8, <2>1, SMT DEF ManifestParsed
  <2>2. CASE ~b
    BY <1>8, <2>2, SMT DEF ManifestParsed
  <2> QED BY <2>1, <2>2
<1>9. ASSUME NEW b \in BOOLEAN,
            NetworkError(b)
     PROVE  ProfileInv'
  BY <1>9, SMT DEF NetworkError
<1>10. ASSUME NEW kind \in {"start", "reload"}, NEW answer \in {"5xx", "4xx", "none"},
            FatalNetworkError(kind, answer)
     PROVE  ProfileInv'
  BY <1>10, SMT DEF FatalNetworkError
<1>11. CASE Weakens
  BY <1>11, SMT DEF Weakens
<1>12. CASE ExitWeak
  BY <1>12, SMT DEF ExitWeak
<1>13. CASE ReadinessChanges
  BY <1>13, SMT DEF ReadinessChanges
<1>14. CASE Interrupted
  BY <1>14, SMT DEF Interrupted
<1>15. CASE CaughtUp
  BY <1>15, SMT DEF CaughtUp
<1>16. CASE PictureShown
  BY <1>16, SMT DEF PictureShown
<1>17. ASSUME NEW b \in BOOLEAN,
            SafePointTimer(b)
     PROVE  ProfileInv'
  BY <1>17, SMT DEF SafePointTimer
<1>18. ASSUME NEW b \in BOOLEAN,
            CatchUp(b)
     PROVE  ProfileInv'
  BY <1>18, SMT DEF CatchUp
<1>19. ASSUME NEW usable \in BOOLEAN, NEW possible \in BOOLEAN,
            MonitorTick(usable, possible)
     PROVE  ProfileInv'
  BY <1>19, SMT DEF MonitorTick
<1>20. CASE RecoveryTimer
  BY <1>20, SMT DEF RecoveryTimer
<1>21. ASSUME NEW b \in BOOLEAN,
            SourceTimer(b)
     PROVE  ProfileInv'
  BY <1>21, SMT DEF SourceTimer
<1>22. ASSUME NEW b \in BOOLEAN,
            WatchdogTimer(b)
     PROVE  ProfileInv'
  BY <1>22, SMT DEF WatchdogTimer
<1>23. CASE GoOffline
  BY <1>23, SMT DEF GoOffline
<1>24. CASE GoOnline
  BY <1>24, SMT DEF GoOnline
<1>25. ASSUME NEW b \in BOOLEAN,
            MediaError(b)
     PROVE  ProfileInv'
  BY <1>25, SMT DEF MediaError
<1>26. ASSUME NEW b \in BOOLEAN,
            FatalOtherError(b)
     PROVE  ProfileInv'
  BY <1>26, SMT DEF FatalOtherError
<1>27. CASE UNCHANGED vars
  BY <1>27, SMT DEF vars
<1> QED BY <1>1, <1>2, <1>3, <1>4, <1>5, <1>6, <1>7, <1>8, <1>9, <1>10, <1>11, <1>12, <1>13,
          <1>14, <1>15, <1>16, <1>17, <1>18, <1>19, <1>20, <1>21, <1>22, <1>23, <1>24, <1>25,
          <1>26, <1>27
    DEF Next, Viewer, Events, Media, Timers

-----------------------------------------------------------------------------
(* The theorems *)

LEMMA InitHolds == Init => TypeOK /\ RecoveryInv /\ ProfileInv
<1> SUFFICES ASSUME Init PROVE TypeOK /\ RecoveryInv /\ ProfileInv
  OBVIOUS
<1> USE BoundAssumption DEF Init
<1>1. Data
  BY SMT DEF Data
<1>2. Flags
  BY Zenon DEF Flags, NetFlags, LoadFlags, WeakFlags, RateFlags
<1>3. TypeOK
  BY <1>1, <1>2, TypeParts
<1>4. RecoveryInv
  BY <1>3 DEF RecoveryInv, OfflineIsKnown, ManifestFirst, StoppedIsOwed, ResumesAhead,
              TimersHaveWork, Playing, TypeOK
<1>5. ProfileInv
  BY <1>3 DEF ProfileInv, BudgetCounts, OneRateWriter, NoHlsNoProfile, Playing, TypeOK
<1> QED BY <1>3, <1>4, <1>5

\* Every state of the player has the types declared for it: among others the safe-point
\* timer makes no attempt past its last one, and no failure count leaves 0 .. 3.
THEOREM HlsTypes == Spec => []TypeOK
BY InitHolds, TypeStep, PTL DEF Spec

LEMMA RecoveryInductive == Spec => [](TypeOK /\ RecoveryInv)
BY InitHolds, TypeStep, RecoveryStep, HlsTypes, PTL DEF Spec

LEMMA ProfileInductive == Spec => [](TypeOK /\ ProfileInv)
BY InitHolds, TypeStep, ProfileStep, HlsTypes, PTL DEF Spec

\* A player that a failed request has stopped has its resumption ahead of it
\* (RecoveryAhead): a timer of the queued work, the reload's confirmation or the online
\* event.  The three ways the code gives up are the theorem's exceptions: a player
\* started offline, a reload confirmed offline, and a fatal error of another kind, which
\* only a later recovery of a request or an online event resumes.
THEOREM StoppedPlayerIsResumed == Spec => []RecoveryAhead
<1>1. TypeOK /\ RecoveryInv => RecoveryAhead
  BY DEF RecoveryInv, ResumesAhead, RecoveryAhead
<1> QED BY <1>1, RecoveryInductive, PTL

\* No recovery timer outlives the work it was made for (TimersHaveWork).
THEOREM TimersStandForWork == Spec => []TimersHaveWork
<1>1. RecoveryInv => TimersHaveWork
  BY DEF RecoveryInv
<1> QED BY <1>1, RecoveryInductive, PTL

\* A recovery chain moves the viewer back at most once, however often the profile is left
\* and entered within it (OneBacktrackPerChain).
THEOREM ChainBacktracksOnce == Spec => []OneBacktrackPerChain
<1>1. ProfileInv => OneBacktrackPerChain
  BY DEF ProfileInv, BudgetCounts, OneBacktrackPerChain
<1> QED BY <1>1, ProfileInductive, PTL

\* The native controller and the page never both set the rate (OneRateWriter).
THEOREM RateHasOneWriter == Spec => []OneRateWriter
<1>1. ProfileInv => OneRateWriter
  BY DEF ProfileInv
<1> QED BY <1>1, ProfileInductive, PTL

\* An owed reload is never replaced by a mere restart (ReloadNotDowngraded).
THEOREM ReloadOutlastsRestart == Spec => ReloadNotDowngraded
<1>1. TypeOK /\ TypeOK' /\ RecoveryInv /\ [Next]_vars
      => [pending = "reload" => pending' # "start"]_vars
  BY RecoveryStep DEF ReloadStays
<1> QED BY <1>1, RecoveryInductive, HlsTypes, PTL DEF Spec, ReloadNotDowngraded
=============================================================================
