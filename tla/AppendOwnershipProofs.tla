----------------------- MODULE AppendOwnershipProofs -----------------------
(* Proofs about append deadlines, for any number of executions: only the append *)
(* that runs is aborted, it keeps its deadline, and none is left behind.       *)
EXTENDS AppendOwnership, TLAPS

-----------------------------------------------------------------------------
(* The inductive invariant *)

\* Whoever owns the track has its listeners on the buffer, and nobody else has any.
OwnersListen ==
    /\ timers \subseteq {owner} /\ listening \subseteq {owner}
    /\ owner # 0 => owner \in listening

\* The buffer works on an execution only while it updates.
WorkUpdates == work # 0 => buffer = "busy"

\* While the buffer updates, an owner is the execution it works on; at rest there is none.
OwnerWorks ==
    /\ buffer = "idle" => owner = 0
    /\ buffer = "busy" /\ owner # 0 => owner = work

OwnershipInv ==
    TypeOK /\ OwnersListen /\ WorkUpdates /\ OwnerWorks /\ DeadlineKept

\* The step of AbortsOnlyItsOwnWork.
AbortsOwn == \A e \in aborted' \ aborted : buffer = "busy" /\ work = e

-----------------------------------------------------------------------------
(* Preservation *)

\* Executing an operation once every owner there was is finished.
LEMMA ExecuteKeeps ==
    ASSUME OwnershipInv, NEW next \in Appends \cup {Blocker, Flush, Nothing},
           NEW throws \in BOOLEAN, NEW cleared, NEW heard,
           cleared \subseteq Owned, heard \subseteq listening,
           buffer = "idle" \/ heard = listening,
           Execute(next, throws, cleared, heard), UNCHANGED historyVars
    PROVE  OwnershipInv'
<1> USE OperationsAssumption, BoundAssumption
<1>1. owner = 0 => timers = {} /\ listening = {}
  BY DEF OwnershipInv, TypeOK, OwnersListen
<1>2. owner # 0 => heard = listening /\ owner \in heard /\ Owned = {owner}
  BY DEF OwnershipInv, OwnersListen, OwnerWorks, Owned
<1>3. timers \subseteq {owner} /\ heard \subseteq {owner} /\ listening \subseteq {owner}
  BY DEF OwnershipInv, OwnersListen
<1>4. runs \in Nat /\ owner \in 0 .. runs /\ fired \subseteq 1 .. runs /\ aborted \subseteq fired
  BY DEF OwnershipInv, TypeOK
<1>5. CASE next \notin Appends
  <2>1. owner' = 0 /\ timers' = {} /\ listening' = {}
    BY <1>1, <1>2, <1>3, <1>5 DEF Execute, Finish, Finishers
  <2>2. head' = next /\ work' = 0 /\ buffer' \in {"idle", "busy"}
        /\ UNCHANGED <<runs, op, fired, aborted>>
    BY <1>5 DEF Execute, historyVars
  <2> QED BY <2>1, <2>2, <1>4
          DEF OwnershipInv, TypeOK, OwnersListen, WorkUpdates, OwnerWorks, DeadlineKept
<1>6. ASSUME next \in Appends
      PROVE  /\ runs' = runs + 1 /\ runs' \in 0 .. MaxRuns
             /\ op' \in [Runs -> Appends \cup {Nothing}] /\ UNCHANGED <<fired, aborted>>
  BY <1>4, <1>6 DEF Execute, Runs, historyVars, OwnershipInv, TypeOK
<1>7. CASE next \in Appends /\ throws
  <2>1. owner' = 0 /\ timers' = {} /\ listening' = {}
    BY <1>1, <1>2, <1>3, <1>7 DEF Execute, Finish, Finishers
  <2>2. head' = Nothing /\ work' = 0 /\ buffer' = "idle"
    BY <1>7 DEF Execute
  <2>3. runs' = runs + 1 /\ runs' \in 0 .. MaxRuns /\ UNCHANGED <<fired, aborted>>
    BY <1>6, <1>7
  <2>4. TypeOK'
    BY <2>1, <2>2, <2>3, <1>4, <1>6, <1>7 DEF TypeOK
  <2> QED BY <2>1, <2>2, <2>4
          DEF OwnershipInv, TypeOK, OwnersListen, WorkUpdates, OwnerWorks, DeadlineKept
<1>8. CASE next \in Appends /\ ~throws
  <2>1. runs + 1 \notin heard
    BY <1>3, <1>4
  <2>2. owner' = runs + 1 /\ timers' = {runs + 1} /\ listening' = {runs + 1}
    BY <1>1, <1>2, <1>3, <1>8, <2>1 DEF Execute, Finishers
  <2>3. head' = next /\ work' = runs + 1 /\ buffer' = "busy"
    BY <1>8 DEF Execute
  <2>4. runs' = runs + 1 /\ runs' \in 0 .. MaxRuns /\ UNCHANGED <<fired, aborted>>
    BY <1>6, <1>8
  <2>5. TypeOK'
    BY <2>2, <2>3, <2>4, <1>4, <1>6, <1>8 DEF TypeOK
  <2> QED BY <2>2, <2>3, <2>5
          DEF OwnershipInv, TypeOK, OwnersListen, WorkUpdates, OwnerWorks, DeadlineKept
<1> QED BY <1>5, <1>7, <1>8

LEMMA OwnershipStep ==
    ASSUME OwnershipInv, [Next]_vars
    PROVE  OwnershipInv' /\ AbortsOwn
<1> USE OperationsAssumption, BoundAssumption
<1>1. owner = 0 => timers = {} /\ listening = {}
  BY DEF OwnershipInv, TypeOK, OwnersListen
<1>2. UNCHANGED historyVars => AbortsOwn
  BY DEF AbortsOwn, historyVars
<1>3. ASSUME NEW next \in Appends \cup {Blocker, Flush, Nothing}, NEW throws \in BOOLEAN,
             Enqueue(next, throws)
      PROVE  OwnershipInv' /\ AbortsOwn
  BY <1>2, <1>3, ExecuteKeeps DEF Enqueue
<1>4. ASSUME NEW next \in Appends \cup {Blocker, Flush, Nothing}, NEW throws \in BOOLEAN,
             UpdateEnd(next, throws)
      PROVE  OwnershipInv' /\ AbortsOwn
  <2>1. CASE head = Nothing
    <3>1. owner' = 0 /\ timers' = {} /\ listening' = {}
      BY <1>1, <1>4, <2>1 DEF UpdateEnd, Finish, Finishers, OwnershipInv, OwnersListen
    <3>2. buffer' = "idle" /\ UNCHANGED <<head, runs, op, work, fired, aborted>>
      BY <1>4, <2>1 DEF UpdateEnd, queueVars, historyVars
    <3> QED BY <1>4, <1>2, <3>1, <3>2
            DEF UpdateEnd, OwnershipInv, TypeOK, OwnersListen, WorkUpdates, OwnerWorks,
                DeadlineKept, historyVars
  <2>2. CASE head # Nothing
    <3>1. ClearedByHead \subseteq Owned
      BY DEF ClearedByHead
    <3> QED BY <1>2, <1>4, <2>2, <3>1, ExecuteKeeps DEF UpdateEnd
  <2> QED BY <2>1, <2>2
<1>5. CASE Block
  <2>1. head' \in Appends \cup {Blocker, Flush, Nothing}
    BY <1>5 DEF Block, OwnershipInv, TypeOK, Runs
  <2> QED BY <1>2, <1>5, <2>1
          DEF Block, ownerVars, historyVars, OwnershipInv, TypeOK, OwnersListen, WorkUpdates,
              OwnerWorks, DeadlineKept
<1>6. CASE Settles
  BY <1>2, <1>6
     DEF Settles, queueVars, ownerVars, historyVars, OwnershipInv, TypeOK, OwnersListen,
         WorkUpdates, OwnerWorks, DeadlineKept
<1>7. CASE UpdateError
  <2>1. owner' = 0 /\ timers' = {} /\ listening' = {}
    BY <1>1, <1>7 DEF UpdateError, Finish, Finishers, OwnershipInv, OwnersListen
  <2> QED BY <1>2, <1>7, <2>1
          DEF UpdateError, queueVars, historyVars, OwnershipInv, TypeOK, OwnersListen,
              WorkUpdates, OwnerWorks, DeadlineKept
<1>8. CASE Reset
  <2>1. owner' = 0 /\ timers' = {} /\ listening' = {}
    BY <1>1, <1>8 DEF Reset, Finish, Owned, OwnershipInv, OwnersListen
  <2> QED BY <1>2, <1>8, <2>1
          DEF Reset, historyVars, OwnershipInv, TypeOK, OwnersListen, WorkUpdates, OwnerWorks,
              DeadlineKept
<1>9. ASSUME NEW e \in Runs, TimerFires(e)
      PROVE  OwnershipInv' /\ AbortsOwn
  <2>1. e = owner /\ e # 0
    BY <1>9 DEF TimerFires, OwnershipInv, TypeOK, OwnersListen
  <2>2. /\ owner' = 0 /\ timers' = {} /\ listening' = {}
        /\ fired' = fired \cup {e} /\ UNCHANGED <<head, runs, op>>
    BY <1>9, <2>1 DEF TimerFires, Finish, OwnershipInv, OwnersListen, queueVars
  <2>3. work # 0 => work = e \/ work \in fired
    BY <2>1 DEF OwnershipInv, DeadlineKept
  <2>4. CASE Current(e)
    <3>1. work = e /\ buffer = "busy"
      BY <2>1, <2>4 DEF Current, OwnershipInv, OwnerWorks
    <3>2. aborted' = aborted \cup {e} /\ buffer' = "ended" /\ work' = 0
      BY <1>9, <2>4 DEF TimerFires
    <3> QED BY <2>1, <2>2, <3>1, <3>2
            DEF OwnershipInv, TypeOK, OwnersListen, WorkUpdates, OwnerWorks, DeadlineKept,
                AbortsOwn
  <2>5. CASE ~Current(e)
    <3>1. UNCHANGED <<aborted, buffer, work>>
      BY <1>9, <2>5 DEF TimerFires
    <3> QED BY <2>1, <2>2, <2>3, <3>1
            DEF OwnershipInv, TypeOK, OwnersListen, WorkUpdates, OwnerWorks, DeadlineKept,
                AbortsOwn
  <2> QED BY <2>4, <2>5
<1>10. CASE UNCHANGED vars
  BY <1>2, <1>10
     DEF vars, queueVars, ownerVars, historyVars, OwnershipInv, TypeOK, OwnersListen,
         WorkUpdates, OwnerWorks, DeadlineKept
<1> QED BY <1>3, <1>4, <1>5, <1>6, <1>7, <1>8, <1>9, <1>10 DEF Next

-----------------------------------------------------------------------------
(* The theorems *)

LEMMA OwnershipInductive == Spec => []OwnershipInv
<1>1. Init => OwnershipInv
  BY BoundAssumption
     DEF Init, OwnershipInv, TypeOK, OwnersListen, WorkUpdates, OwnerWorks, DeadlineKept
<1> QED BY <1>1, OwnershipStep, PTL DEF Spec

\* Types; a timer that is set has its listeners, and what was aborted had fired.
THEOREM OwnershipTypes == Spec => []TypeOK
<1>1. OwnershipInv => TypeOK
  BY DEF OwnershipInv
<1> QED BY <1>1, OwnershipInductive, PTL

\* The append that runs keeps its deadline (DeadlineKept).
THEOREM DeadlineIsKept == Spec => []DeadlineKept
<1>1. OwnershipInv => DeadlineKept
  BY DEF OwnershipInv
<1> QED BY <1>1, OwnershipInductive, PTL

\* No deadline outlives its append (NothingLeftBehind).
THEOREM NoDeadlineLeft == Spec => []NothingLeftBehind
<1>1. OwnershipInv => NothingLeftBehind
  BY DEF OwnershipInv, OwnersListen, OwnerWorks, NothingLeftBehind
<1> QED BY <1>1, OwnershipInductive, PTL

\* A deadline aborts the very update it was armed for (AbortsOnlyItsOwnWork).
THEOREM DeadlineAbortsItsOwn == Spec => AbortsOnlyItsOwnWork
<1>1. OwnershipInv /\ [Next]_vars
      => [\A e \in aborted' \ aborted : buffer = "busy" /\ work = e]_vars
  BY OwnershipStep DEF AbortsOwn
<1> QED BY <1>1, OwnershipInductive, PTL DEF Spec, AbortsOnlyItsOwnWork
=============================================================================
