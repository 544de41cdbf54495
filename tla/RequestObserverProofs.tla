----------------------- MODULE RequestObserverProofs -----------------------
(* Proofs about the request observer, for any number of requests, places and  *)
(* resets: every end is heard once, by the player that owns it, and telemetry *)
(* never mixes epochs.                                                        *)
EXTENDS RequestObserver, FiniteSetTheorems, TLAPS

-----------------------------------------------------------------------------
(* The inductive invariant *)

\* Before its end a request has been neither heard nor counted nor answered; after it, at
\* most once, and an answered one was heard.
Heard ==
    \A l \in Loaders :
        /\ delivered[l] \in {0, 1} /\ counted[l] \in {0, 1}
        /\ state[l] # "terminal" => delivered[l] = 0 /\ counted[l] = 0 /\ l \notin answered
        /\ l \in answered => delivered[l] = 1

Sampled == \A l \in active : state[l] = "open" /\ born[l] = epoch

Vouched == \A c \in completed : c[2] = epoch /\ born[c[1]] = epoch /\ state[c[1]] = "terminal"

Bounded == IsFiniteSet(active) /\ Cardinality(active) <= MaxActive

\* The one idle action is not begun, awaits its abort, or is over.
IdleOnce ==
    /\ idleSpent = FALSE => idleCalls = 0 /\ resuming = NoLoader
    /\ resuming # NoLoader => idleCalls = 0
    /\ idleCalls \in {0, 1}

\* The steps of the action property: who hears is current.
HeardByOwner == delivered' # delivered \/ idleCalls' # idleCalls => current = TRUE

-----------------------------------------------------------------------------
(* Types *)

LEMMA TypeStep == ASSUME TypeOK, [Next]_vars PROVE TypeOK'
<1> USE LoadersAssumption, BoundAssumption
    DEF TypeOK, recordVars, totalVars, historyVars
<1>1. ASSUME NEW l \in Loaders, NEW kind \in {"manifest", "media", "other"}, Load(l, kind)
      PROVE  TypeOK'
  BY <1>1 DEF Load
<1>2. ASSUME NEW l \in Loaders, LoadThrows(l) \/ Destroy(l)
      PROVE  TypeOK'
  BY <1>2 DEF LoadThrows, Destroy, Finish, Completion
<1>3. ASSUME NEW l \in Loaders, NEW reason \in {"success", "error", "timeout"},
             NativeEnds(l, reason)
      PROVE  TypeOK'
  BY <1>3 DEF NativeEnds, Finish, Completion, Forward
<1>4. ASSUME NEW l \in Loaders, NEW b \in BOOLEAN, Abort(l, b)
      PROVE  TypeOK'
  BY <1>4 DEF Abort, Finish, Completion, Forward
<1>5. ASSUME NEW l \in Loaders, NEW b \in BOOLEAN, Sample(l, b)
      PROVE  TypeOK'
  BY <1>5 DEF Sample
<1>6. ASSUME NEW l \in Loaders, LateCallback(l)
      PROVE  TypeOK'
  BY <1>6 DEF LateCallback, Forward
<1>7. CASE Invalidate \/ Replace
  <2>1. epoch' \in 0 .. MaxEpoch /\ completed' = {} /\ active' = {}
    BY <1>7 DEF Invalidate, Replace, ActiveAfterReset
  <2>2. current' \in BOOLEAN
    BY <1>7, Zenon DEF Invalidate, Replace
  <2>3. UNCHANGED <<state, born, media, grown, retried, counted, idleSpent, resuming,
                    historyVars>>
    BY <1>7 DEF Invalidate, Replace
  <2> QED BY <2>1, <2>2, <2>3
<1>8. ASSUME NEW l \in Loaders, PollAborts(l)
      PROVE  TypeOK'
  BY <1>8 DEF PollAborts, Finish, Completion, Forward, SpentIdle
<1>9. CASE PollResumes
  BY <1>9 DEF PollResumes
<1>10. CASE UNCHANGED vars
  BY <1>10 DEF vars
<1> QED BY <1>1, <1>2, <1>3, <1>4, <1>5, <1>6, <1>7, <1>8, <1>9, <1>10 DEF Next, Native, Page

-----------------------------------------------------------------------------
(* Preservation *)

\* What closing a record keeps, whether or not its end is forwarded.
LEMMA FinishKeeps ==
    ASSUME TypeOK, Heard, Sampled, Vouched, Bounded,
           NEW l \in Loaders, NEW reason, state[l] = "open", Finish(l, reason),
           UNCHANGED <<epoch, born>>
    PROVE  Sampled' /\ Vouched' /\ Bounded'
<1>1. Sampled'
  BY DEF TypeOK, Sampled, Finish
<1>2. Vouched'
  BY DEF TypeOK, Vouched, Finish, Completion, OwnsStats
<1>3. /\ IsFiniteSet(active \ {l})
      /\ Cardinality(active \ {l}) \in {Cardinality(active), Cardinality(active) - 1}
  BY FS_RemoveElement DEF Bounded
<1>4. Cardinality(active) \in Nat
  BY FS_CardinalityType DEF Bounded
<1>5. Bounded'
  BY <1>3, <1>4, BoundAssumption DEF Bounded, Finish
<1> QED BY <1>1, <1>2, <1>5

\* A request is heard and counted where it is closed, and never again.
LEMMA FinishHeard ==
    ASSUME TypeOK, Heard, NEW l \in Loaders, NEW reason, state[l] = "open",
           Finish(l, reason),
           Forward(l) \/ UNCHANGED delivered, UNCHANGED answered
    PROVE  Heard'
BY DEF TypeOK, Heard, Finish, OwnsStats, Forward, Forwards, Owned

LEMMA ObserverStep ==
    ASSUME TypeOK, TypeOK', Heard, Sampled, Vouched, Bounded, [Next]_vars
    PROVE  Heard' /\ Sampled' /\ Vouched' /\ Bounded'
<1> USE LoadersAssumption, BoundAssumption DEF recordVars, totalVars, historyVars
<1>1. ASSUME NEW l \in Loaders, NEW kind \in {"manifest", "media", "other"}, Load(l, kind)
      PROVE  Heard' /\ Sampled' /\ Vouched' /\ Bounded'
  <2>1. Heard'
    BY <1>1 DEF Load, TypeOK, Heard
  <2>2. Sampled'
    BY <1>1 DEF Load, TypeOK, Sampled
  <2>3. Vouched'
    BY <1>1 DEF Load, TypeOK, Vouched
  <2>4. Bounded'
    <3>1. l \notin active
      BY <1>1 DEF Load, Sampled
    <3>2. Cardinality(active \cup {l}) = Cardinality(active) + 1 /\ IsFiniteSet(active \cup {l})
      BY <3>1, FS_AddElement DEF Bounded
    <3>3. Cardinality({l}) = 1 /\ IsFiniteSet({l})
      BY FS_Singleton
    <3>4. Cardinality({}) = 0 /\ IsFiniteSet({})
      BY FS_EmptySet
    <3>5. Cardinality(active) \in Nat
      BY FS_CardinalityType DEF Bounded
    <3>6. \/ active' = active
          \/ active' = active \cup {l} /\ HasRoom
          \/ active' = {l} \/ active' = {}
      BY <1>1 DEF Load
    <3> QED BY <3>2, <3>3, <3>4, <3>5, <3>6 DEF Bounded, HasRoom
  <2> QED BY <2>1, <2>2, <2>3, <2>4
<1>2. ASSUME NEW l \in Loaders, LoadThrows(l) \/ Destroy(l)
      PROVE  Heard' /\ Sampled' /\ Vouched' /\ Bounded'
  <2>1. /\ state[l] = "open" /\ \E reason : Finish(l, reason)
        /\ UNCHANGED <<epoch, born, delivered, answered>>
    BY <1>2 DEF LoadThrows, Destroy
  <2> QED BY <2>1, FinishKeeps, FinishHeard
<1>3. ASSUME NEW l \in Loaders, NEW reason \in {"success", "error", "timeout"},
             NativeEnds(l, reason)
      PROVE  Heard' /\ Sampled' /\ Vouched' /\ Bounded'
  <2>1. /\ state[l] = "open" /\ Finish(l, reason) /\ Forward(l)
        /\ answered' = IF current THEN answered \cup {l} ELSE answered
        /\ UNCHANGED <<epoch, born>>
    BY <1>3 DEF NativeEnds
  <2>2. Heard'
    BY <2>1 DEF TypeOK, Heard, Finish, OwnsStats, Forward, Forwards, Owned
  <2> QED BY <2>1, <2>2, FinishKeeps
<1>4. ASSUME NEW l \in Loaders, NEW b \in BOOLEAN, Abort(l, b)
      PROVE  Heard' /\ Sampled' /\ Vouched' /\ Bounded'
  <2>1. /\ state[l] = "open" /\ Finish(l, "abort")
        /\ Forward(l) \/ UNCHANGED delivered
        /\ UNCHANGED <<epoch, born, answered>>
    BY <1>4 DEF Abort
  <2> QED BY <2>1, FinishKeeps, FinishHeard
<1>5. ASSUME NEW l \in Loaders, NEW b \in BOOLEAN, Sample(l, b)
      PROVE  Heard' /\ Sampled' /\ Vouched' /\ Bounded'
  BY <1>5 DEF Sample, Heard, Sampled, Vouched, Bounded
<1>6. ASSUME NEW l \in Loaders, LateCallback(l)
      PROVE  Heard' /\ Sampled' /\ Vouched' /\ Bounded'
  BY <1>6 DEF LateCallback, Forward, Forwards, Owned, Heard, Sampled, Vouched, Bounded
<1>7. CASE Invalidate \/ Replace
  <2>1. active' = {} /\ completed' = {} /\ UNCHANGED <<state, counted, delivered, answered>>
    BY <1>7 DEF Invalidate, Replace, ActiveAfterReset
  <2> QED BY <2>1, FS_EmptySet DEF Heard, Sampled, Vouched, Bounded
<1>8. ASSUME NEW l \in Loaders, PollAborts(l)
      PROVE  Heard' /\ Sampled' /\ Vouched' /\ Bounded'
  <2>1. /\ state[l] = "open" /\ Finish(l, "abort")
        /\ Forward(l) \/ UNCHANGED delivered
        /\ UNCHANGED <<epoch, born, answered>>
    BY <1>8 DEF PollAborts, OwnsStats, Owned
  <2> QED BY <2>1, FinishKeeps, FinishHeard
<1>9. CASE PollResumes
  BY <1>9 DEF PollResumes, Heard, Sampled, Vouched, Bounded
<1>10. CASE UNCHANGED vars
  BY <1>10 DEF vars, Heard, Sampled, Vouched, Bounded
<1> QED BY <1>1, <1>2, <1>3, <1>4, <1>5, <1>6, <1>7, <1>8, <1>9, <1>10 DEF Next, Native, Page

LEMMA IdleStep ==
    ASSUME TypeOK, TypeOK', IdleOnce, [Next]_vars
    PROVE  IdleOnce' /\ HeardByOwner
<1> USE LoadersAssumption
    DEF TypeOK, IdleOnce, HeardByOwner, recordVars, totalVars, historyVars
<1>1. ASSUME NEW l \in Loaders, NEW kind \in {"manifest", "media", "other"}, Load(l, kind)
      PROVE  IdleOnce' /\ HeardByOwner
  BY <1>1 DEF Load
<1>2. ASSUME NEW l \in Loaders, LoadThrows(l) \/ Destroy(l)
      PROVE  IdleOnce' /\ HeardByOwner
  BY <1>2 DEF LoadThrows, Destroy
<1>3. ASSUME NEW l \in Loaders, NEW reason \in {"success", "error", "timeout"},
             NativeEnds(l, reason)
      PROVE  IdleOnce' /\ HeardByOwner
  BY <1>3 DEF NativeEnds, Forward, Forwards, Owned
<1>4. ASSUME NEW l \in Loaders, NEW b \in BOOLEAN, Abort(l, b)
      PROVE  IdleOnce' /\ HeardByOwner
  BY <1>4 DEF Abort, Forward, Forwards, Owned
<1>5. ASSUME NEW l \in Loaders, NEW b \in BOOLEAN, Sample(l, b)
      PROVE  IdleOnce' /\ HeardByOwner
  BY <1>5 DEF Sample
<1>6. ASSUME NEW l \in Loaders, LateCallback(l)
      PROVE  IdleOnce' /\ HeardByOwner
  BY <1>6 DEF LateCallback, Forward, Forwards, Owned
<1>7. CASE Invalidate \/ Replace
  BY <1>7 DEF Invalidate, Replace
<1>8. ASSUME NEW l \in Loaders, PollAborts(l)
      PROVE  IdleOnce' /\ HeardByOwner
  BY <1>8 DEF PollAborts, SpentIdle, OwnsStats, Owned
<1>9. CASE PollResumes
  BY <1>9 DEF PollResumes, StillActs
<1>10. CASE UNCHANGED vars
  BY <1>10 DEF vars
<1> HIDE DEF TypeOK, IdleOnce, HeardByOwner, recordVars, totalVars, historyVars
<1> QED BY <1>1, <1>2, <1>3, <1>4, <1>5, <1>6, <1>7, <1>8, <1>9, <1>10 DEF Next, Native, Page

-----------------------------------------------------------------------------
(* The theorems *)

ObserverInv == Heard /\ Sampled /\ Vouched /\ Bounded /\ IdleOnce

LEMMA InitHolds == Init => TypeOK /\ ObserverInv
<1> SUFFICES ASSUME Init PROVE TypeOK /\ ObserverInv
  OBVIOUS
<1> USE LoadersAssumption, BoundAssumption DEF Init
<1>1. TypeOK
  <2>1. current \in BOOLEAN /\ idleSpent \in BOOLEAN
    BY Zenon
  <2>2. state \in [Loaders -> {"idle", "open", "terminal"}]
    OBVIOUS
  <2>3. born \in [Loaders -> 0 .. MaxEpoch] /\ epoch \in 0 .. MaxEpoch
    OBVIOUS
  <2>4. counted \in [Loaders -> Nat] /\ delivered \in [Loaders -> Nat] /\ idleCalls \in Nat
    OBVIOUS
  <2> QED BY <2>1, <2>2, <2>3, <2>4 DEF TypeOK
<1>2. Heard /\ Sampled /\ Vouched /\ IdleOnce
  BY DEF Heard, Sampled, Vouched, IdleOnce
<1>3. Bounded
  BY FS_EmptySet DEF Bounded
<1> QED BY <1>1, <1>2, <1>3 DEF ObserverInv

\* The observer's state has the declared types: among others no completion is stamped with
\* an epoch that has not begun.
THEOREM ObserverTypes == Spec => []TypeOK
BY InitHolds, TypeStep, PTL DEF Spec

LEMMA ObserverInductive == Spec => [](TypeOK /\ ObserverInv)
<1>1. TypeOK /\ TypeOK' /\ ObserverInv /\ [Next]_vars => ObserverInv'
  BY ObserverStep, IdleStep DEF ObserverInv
<1> QED BY <1>1, InitHolds, TypeStep, ObserverTypes, PTL DEF Spec

\* No reset of the statistics, however many there are, swallows or repeats the end of a
\* request that its player owns (EndsHeardOnce).
THEOREM EveryEndHeardOnce == Spec => []EndsHeardOnce
<1>1. ObserverInv => EndsHeardOnce
  BY DEF ObserverInv, Heard, EndsHeardOnce
<1> QED BY <1>1, ObserverInductive, PTL

\* Samples, completions and totals are of the present epoch (TelemetryOfThisEpoch).
THEOREM TelemetryIsCurrent == Spec => []TelemetryOfThisEpoch
<1>1. ObserverInv => TelemetryOfThisEpoch
  BY DEF ObserverInv, Heard, Sampled, Vouched, TelemetryOfThisEpoch
<1> QED BY <1>1, ObserverInductive, PTL

\* The number of sampled requests is bounded whatever is requested (ObservationBounded).
THEOREM ObservationIsBounded == Spec => []ObservationBounded
<1>1. ObserverInv => ObservationBounded
  BY DEF ObserverInv, Bounded, ObservationBounded
<1> QED BY <1>1, ObserverInductive, PTL

\* One player aborts at most one stuck body (OneIdleAction).
THEOREM IdleActsOnce == Spec => []OneIdleAction
<1>1. ObserverInv => OneIdleAction
  BY DEF ObserverInv, IdleOnce, OneIdleAction
<1> QED BY <1>1, ObserverInductive, PTL

\* A player that was replaced hears neither an end nor the idle action
\* (RetiredHearsNothing).
THEOREM RetiredStaysDeaf == Spec => RetiredHearsNothing
<1>1. TypeOK /\ TypeOK' /\ ObserverInv /\ [Next]_vars
      => [delivered' # delivered \/ idleCalls' # idleCalls => current]_vars
  BY IdleStep DEF ObserverInv, HeardByOwner
<1> QED BY <1>1, ObserverInductive, ObserverTypes, PTL DEF Spec, RetiredHearsNothing
=============================================================================
