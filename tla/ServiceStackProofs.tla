------------------------- MODULE ServiceStackProofs -------------------------
(* Proofs about ServiceStack, for any set of process numbers: types, that    *)
(* there is never a second MediaMTX, and what a stop that reports success    *)
(* has left running.                                                         *)
EXTENDS ServiceStack, FiniteSetTheorems, TLAPS

\* Where the supervisor is when it has no MediaMTX: before one is started, when it was
\* reaped, and in a trap that returns to one of these places.
Resting == {"trapped", "test", "fork", "decide", "leave", "none"}

Childless ==
    \/ sup \in {"boot", "sleep", "reap"} \cup (Resting \ {"none"})
    \/ sup \in Cleanup /\ ret \in Resting

\* A supervisor that has found the sentinel, or will: it starts nothing more.
Quits ==
    /\ stopFile
    /\ \/ sup \in {"reap", "decide", "leave"}
       \/ sup \in Cleanup /\ ret \in {"reap", "decide", "leave", "none"}

\* What runs is the supervisor's own MediaMTX, or one it has ignored on its way out;
\* without a supervisor, what one has left.
OwnChild ==
    unheeded \/
    /\ sup = "reap" \/ (sup # "none" /\ ~Childless) => running \subseteq {child}
    /\ Childless \/ (sup = "unlist" /\ ret = "reap") => running = {} \/ Quits
    /\ \E p \in Pids : running \subseteq {p}

\* The MediaMTX processes that somebody knows the number of.
Known == running \ lost

\* What is known is the supervisor's, and on disk unless it is just recording it.
Recorded ==
    /\ ret # "wait"
    /\ ~managed =>
       /\ ~Recording => Known \subseteq {pidFile}
       /\ Childless => Known = {}
       /\ sup # "none" => Known \subseteq {child}

\* A script that is past the supervisor's end has none to reckon with.
PastSupervisor == {"media", "mediawait", "check", "launch", "finish"}

ScriptInv ==
    /\ script # "none" /\ step \in PastSupervisor => sup = "none"
    /\ script # "none" /\ step = "mediawait" => target = pidFile
    /\ script = "start" /\ step = "launch" => running = {}
    /\ script # "none" /\ step \notin {"edge", "ready"} => ~edge
    /\ script = "start" => last = "none"
    /\ script = "stop" => step # "ready"
    /\ script = "stop" /\ ~failed =>
       /\ step # "edge" => hung["edge"] # "known"
       /\ step \in PastSupervisor => hung["sup"] # "known"
       /\ ~managed /\ step = "finish" => Known = {}

\* Nothing of a service is left that has ended with success.
Over ==
    /\ \A x \in Fixed : hung[x] # "known"
    /\ group = {}

ServiceInv ==
    /\ Service => managed /\ last = "none"
    /\ ~managed => unit = "off" /\ ~leaving
    /\ managed /\ ~Service =>
       /\ script # "stop"
       /\ byHand \/ (sup = "none" /\ ~edge)
       /\ result => Over

\* TypeOK, one variable at a time.
MediaTypes == running \subseteq Pids /\ young \cup group \cup stuck \cup lost \subseteq running

SupTypes ==
    /\ sup \in Commands \cup Cleanup \cup {"none", "boot", "sleep"}
    /\ ret \in Commands \cup {"none"}
    /\ term \in BOOLEAN /\ child \in Pids \cup {0}
    /\ pidFile \in Pids \cup {0} /\ stopFile \in BOOLEAN /\ unheeded \in BOOLEAN

Steps == {"edge", "touch", "sup", "supwait", "media", "mediawait", "finish", "check",
          "launch", "ready"}

ScriptTypes ==
    /\ unit \in {"off", "busy", "up", "wait"} /\ script \in {"none", "start", "stop"}
    /\ step \in Steps
    /\ cause \in {"operator", "start", "loss", "term"} /\ last \in {"none", "ok", "failed"}
    /\ managed \in BOOLEAN /\ leaving \in BOOLEAN /\ result \in BOOLEAN /\ failed \in BOOLEAN
    /\ target \in Pids \cup {0}

OtherTypes ==
    /\ edge \in BOOLEAN /\ byHand \in BOOLEAN
    /\ hung \in [Fixed -> {"no", "known", "lost"}]

Types == MediaTypes /\ SupTypes /\ ScriptTypes /\ OtherTypes

StackInv ==
    /\ Types
    /\ OwnChild /\ Recorded /\ ScriptInv /\ ServiceInv
    /\ StopMeansStopped

\* The steps of the scripts, and what comes from outside.
ScriptStep ==
    \/ \E ok \in BOOLEAN :
          StopEdge(ok) \/ TouchStop(ok) \/ SupervisorStopped(ok) \/ MediaStopped(ok)
    \/ TermSupervisor \/ TermMedia \/ StopEnds \/ CheckPorts \/ Launch \/ Ready \/ NotReady

Outside ==
    \/ Operator \/ ManagerLeaves \/ ManagerPolls \/ Restart \/ ManagerKilled
    \/ EdgeCrashes \/ SupervisorCrashes
    \/ \E p \in Pids : MediaExits(p) \/ Exec(p)
    \/ \E x \in Fixed : Loosen(x)

-----------------------------------------------------------------------------
(* Types *)

LEMMA TypesAreTypeOK == Types <=> TypeOK
<1>1. young \cup group \cup stuck \cup lost \subseteq running <=>
      (young \subseteq running /\ group \subseteq running /\ stuck \subseteq running
        /\ lost \subseteq running)
  OBVIOUS
<1> QED BY <1>1 DEF Types, MediaTypes, SupTypes, ScriptTypes, OtherTypes, Steps, TypeOK

LEMMA InitTypes == Init => Types
  BY DEF Init, Types, MediaTypes, SupTypes, ScriptTypes, OtherTypes, Steps, Commands, Fixed

\* What ends, and what is forgotten, leaves the sets within what runs.
LEMMA MediaEndTypes ==
    ASSUME NEW S, MediaTypes, MediaEnd(S)
    PROVE  MediaTypes'
  BY DEF MediaTypes, MediaEnd

LEMMA ForgetTypes ==
    ASSUME NEW p, MediaTypes, Forget(p)
    PROVE  MediaTypes'
  BY DEF MediaTypes, Forget

LEMMA SameMediaTypes ==
    ASSUME MediaTypes, UNCHANGED mediaVars
    PROVE  MediaTypes'
  BY DEF MediaTypes, mediaVars

\* The supervisor acts only where there is one, and leaves the scripts alone.
LEMMA SupervisorIsThere ==
    ASSUME Supervisor
    PROVE  /\ sup # "none"
           /\ UNCHANGED <<unitVars, scriptVars, otherVars>>
  BY DEF Supervisor, SupUnchanged, SetTraps, ForgetStop, TestStop, Fork,
         SaveChild, WritePid, Reap, Decide, Sleep, Leave, Trap, CleanupTouch, CleanupDrain,
         CleanupUnlist, Does, Commands, Unrecorded

LEMMA SupervisorTypes ==
    ASSUME Types, Supervisor
    PROVE  Types'
<1>0. ScriptTypes' /\ OtherTypes'
  BY SupervisorIsThere DEF Types, ScriptTypes, OtherTypes, unitVars, scriptVars, otherVars
<1> SUFFICES MediaTypes' /\ SupTypes'
  BY <1>0 DEF Types
<1> USE DEF Types, SupTypes, Does, Quietly, Commands, Cleanup, Unrecorded, fileVars
<1>1. CASE SetTraps \/ ForgetStop \/ TestStop \/ Decide \/ SaveChild \/ WritePid
  BY <1>1, SameMediaTypes DEF SetTraps, ForgetStop, TestStop, Decide, SaveChild, WritePid
<1>4. ASSUME NEW p \in Pids, Fork(p) PROVE MediaTypes' /\ SupTypes'
  BY <1>4 DEF Fork, MediaTypes
<1>7. CASE Reap
  BY <1>7, SameMediaTypes DEF Reap
<1>9. CASE Sleep \/ Leave \/ Trap
  BY <1>9, SameMediaTypes DEF Sleep, Leave, Trap
<1>12. ASSUME NEW ok \in BOOLEAN, CleanupTouch(ok) PROVE MediaTypes' /\ SupTypes'
  BY <1>12, SameMediaTypes DEF CleanupTouch
<1>13. CASE CleanupDrain
  BY <1>13, SameMediaTypes DEF CleanupDrain
<1>14. CASE CleanupUnlist
  BY <1>14, SameMediaTypes, ForgetTypes DEF CleanupUnlist
<1> QED
  BY <1>1, <1>4, <1>7, <1>9, <1>12, <1>13, <1>14 DEF Supervisor

\* What is left when systemd has ended the service's group.
LEMMA ExitFacts ==
    ASSUME NEW ok \in BOOLEAN, ManagerExits(ok)
    PROVE  /\ unit' \in {"off", "wait"} /\ leaving' = FALSE /\ managed' = managed
           /\ MediaEnd(group \ stuck) /\ result' = (ok /\ group' = {}) /\ result' \in BOOLEAN
           /\ leaving => unit' = "off"
           /\ \/ byHand /\ UNCHANGED <<supVars, edge>>
              \/ ~byHand /\ SupEnds /\ edge' = FALSE
  BY DEF ManagerExits, GroupKilled

LEMMA ExitTypes ==
    ASSUME Types, NEW ok \in BOOLEAN, ManagerExits(ok), UNCHANGED <<fileVars, unheeded>>
    PROVE  MediaTypes' /\ SupTypes' /\ edge' \in BOOLEAN
<1>1. MediaTypes'
  BY ExitFacts, MediaEndTypes DEF Types
<1>2. SupTypes' /\ edge' \in BOOLEAN
  BY ExitFacts DEF Types, SupTypes, OtherTypes, SupEnds, supVars, fileVars
<1> QED BY <1>1, <1>2

LEMMA KillTypes ==
    ASSUME Types, NEW x \in Fixed, NEW dies \in BOOLEAN, KillOf(x, dies)
    PROVE  failed' \in BOOLEAN /\ hung' \in [Fixed -> {"no", "known", "lost"}]
<1>1. failed' \in BOOLEAN
  BY DEF KillOf, Types, ScriptTypes
<1>2. hung \in [Fixed -> {"no", "known", "lost"}]
  BY DEF Types, OtherTypes
<1>3. CASE dies
  BY <1>2, <1>3 DEF KillOf
<1>4. CASE ~dies
  BY <1>2, <1>4 DEF KillOf
<1> QED BY <1>1, <1>3, <1>4

LEMMA ScriptStepTypes ==
    ASSUME Types, ScriptStep
    PROVE  Types'
<1> USE DEF Types, SupTypes, ScriptTypes, OtherTypes, Steps, SupEnds, GoesTo, Begins,
            ScriptEnds, unitVars, supVars, fileVars, otherVars
<1>1. ASSUME NEW dies \in BOOLEAN, StopEdge(dies) PROVE Types'
  <2>1. MediaTypes' /\ SupTypes'
    BY <1>1, SameMediaTypes DEF StopEdge
  <2>2. failed' \in BOOLEAN /\ hung' \in [Fixed -> {"no", "known", "lost"}]
    BY <1>1, KillTypes DEF StopEdge, Fixed
  <2>3. OtherTypes'
    BY <1>1, <2>2 DEF StopEdge
  <2>4. step' \in Steps
    BY <1>1 DEF StopEdge
  <2>5. ScriptTypes'
    BY <1>1, <2>2, <2>4 DEF StopEdge
  <2> QED BY <2>1, <2>3, <2>5
<1>2. ASSUME NEW ok \in BOOLEAN, TouchStop(ok) PROVE Types'
  BY <1>2, SameMediaTypes DEF TouchStop
<1>3. CASE TermSupervisor
  <2>1. MediaTypes' /\ OtherTypes' /\ ScriptTypes'
    BY <1>3, SameMediaTypes DEF TermSupervisor
  <2>2. SupTypes'
    BY <1>3 DEF TermSupervisor
  <2> QED BY <2>1, <2>2
<1>4. ASSUME NEW dies \in BOOLEAN, SupervisorStopped(dies) PROVE Types'
  <2>1. MediaTypes' /\ SupTypes'
    BY <1>4, SameMediaTypes DEF SupervisorStopped
  <2>2. failed' \in BOOLEAN /\ hung' \in [Fixed -> {"no", "known", "lost"}]
    BY <1>4, KillTypes DEF SupervisorStopped, Fixed
  <2>3. OtherTypes' /\ ScriptTypes'
    BY <1>4, <2>2 DEF SupervisorStopped, AfterSupervisor
  <2> QED BY <2>1, <2>3
<1>5. CASE TermMedia
  <2>1. MediaTypes'
    BY <1>5, SameMediaTypes, ForgetTypes DEF TermMedia
  <2>2. SupTypes' /\ OtherTypes'
    BY <1>5 DEF TermMedia
  <2>3. ScriptTypes'
    BY <1>5 DEF TermMedia, AfterMedia
  <2> QED BY <2>1, <2>2, <2>3
<1>6. ASSUME NEW dies \in BOOLEAN, MediaStopped(dies) PROVE Types'
  <2>1. CASE dies
    BY <1>6, <2>1, MediaEndTypes DEF MediaStopped, AfterMedia
  <2>2. CASE ~dies
    <3>1. MediaTypes'
      BY <1>6, <2>2 DEF MediaStopped, MediaTypes
    <3>2. SupTypes' /\ ScriptTypes' /\ OtherTypes'
      BY <1>6, <2>2 DEF MediaStopped, AfterMedia
    <3> QED BY <3>1, <3>2
  <2> QED BY <2>1, <2>2
<1>7. CASE StopEnds
  <2>1. CASE leaving /\ cause # "term"
    <3>1. MediaTypes' /\ SupTypes'
      BY <1>7, <2>1, SameMediaTypes DEF StopEnds
    <3>2. OtherTypes'
      BY <1>7, <2>1 DEF StopEnds
    <3>3. ScriptTypes'
      BY <1>7, <2>1 DEF StopEnds
    <3> QED BY <3>1, <3>2, <3>3
  <2>2. CASE ~(leaving /\ cause # "term") /\ Service
    <3>1. PICK ok \in BOOLEAN : ManagerExits(ok)
      BY <1>7, <2>2 DEF StopEnds
    <3>2. MediaTypes' /\ SupTypes' /\ OtherTypes'
      <4>1. /\ sup' \in Commands \cup Cleanup \cup {"none", "boot", "sleep"}
            /\ ret' \in Commands \cup {"none"}
            /\ term' \in BOOLEAN /\ child' \in Pids \cup {0} /\ edge' \in BOOLEAN
        BY <3>1, ExitFacts
      <4>2. MediaTypes'
        BY <3>1, ExitFacts, MediaEndTypes
      <4> QED BY <1>7, <4>1, <4>2 DEF StopEnds
    <3>3. ScriptTypes'
      BY <1>7, <2>2, <3>1, ExitFacts DEF StopEnds, Report
    <3> QED BY <3>2, <3>3
  <2>3. CASE ~(leaving /\ cause # "term") /\ ~Service
    <3>1. MediaTypes' /\ SupTypes'
      BY <1>7, <2>3, SameMediaTypes DEF StopEnds, Report
    <3>2. OtherTypes'
      BY <1>7, <2>3 DEF StopEnds, Report
    <3>3. ScriptTypes'
      BY <1>7, <2>3 DEF StopEnds, Report
    <3> QED BY <3>1, <3>2, <3>3
  <2> QED BY <2>1, <2>2, <2>3
<1>8. CASE CheckPorts
  <2>1. CASE PortsFree
    <3>1. MediaTypes' /\ SupTypes'
      BY <1>8, <2>1, SameMediaTypes DEF CheckPorts
    <3>2. OtherTypes'
      BY <1>8, <2>1 DEF CheckPorts
    <3>3. ScriptTypes'
      BY <1>8, <2>1 DEF CheckPorts
    <3> QED BY <3>1, <3>2, <3>3
  <2>2. CASE ~PortsFree /\ Service /\ leaving
    <3>1. MediaTypes' /\ SupTypes'
      BY <1>8, <2>2, SameMediaTypes DEF CheckPorts
    <3>2. OtherTypes'
      BY <1>8, <2>2 DEF CheckPorts
    <3>3. ScriptTypes'
      BY <1>8, <2>2 DEF CheckPorts
    <3> QED BY <3>1, <3>2, <3>3
  <2>3. CASE ~PortsFree /\ Service /\ ~leaving
    <3>1. ManagerExits(FALSE)
      BY <1>8, <2>3 DEF CheckPorts
    <3>2. MediaTypes' /\ SupTypes' /\ OtherTypes'
      <4>1. /\ sup' \in Commands \cup Cleanup \cup {"none", "boot", "sleep"}
            /\ ret' \in Commands \cup {"none"}
            /\ term' \in BOOLEAN /\ child' \in Pids \cup {0} /\ edge' \in BOOLEAN
        BY <3>1, ExitFacts
      <4>2. MediaTypes'
        BY <3>1, ExitFacts, MediaEndTypes
      <4> QED BY <1>8, <4>1, <4>2 DEF CheckPorts
    <3>3. ScriptTypes'
      BY <1>8, <2>3, <3>1, ExitFacts DEF CheckPorts
    <3> QED BY <3>2, <3>3
  <2>4. CASE ~PortsFree /\ ~Service
    <3>1. MediaTypes' /\ SupTypes'
      BY <1>8, <2>4, SameMediaTypes DEF CheckPorts
    <3>2. OtherTypes'
      BY <1>8, <2>4 DEF CheckPorts
    <3>3. ScriptTypes'
      BY <1>8, <2>4 DEF CheckPorts
    <3> QED BY <3>1, <3>2, <3>3
  <2> QED BY <2>1, <2>2, <2>3, <2>4
<1>9. CASE Launch
  BY <1>9, SameMediaTypes DEF Launch
<1>10. CASE Ready
  <2>1. MediaTypes' /\ SupTypes'
    BY <1>10, SameMediaTypes DEF Ready
  <2>2. OtherTypes'
    BY <1>10 DEF Ready
  <2>3. ScriptTypes'
    BY <1>10 DEF Ready
  <2> QED BY <2>1, <2>2, <2>3
<1>11. CASE NotReady
  <2>1. MediaTypes' /\ SupTypes'
    BY <1>11, SameMediaTypes DEF NotReady
  <2>2. OtherTypes'
    BY <1>11 DEF NotReady
  <2>3. ScriptTypes'
    BY <1>11 DEF NotReady
  <2> QED BY <2>1, <2>2, <2>3
<1> QED
  BY <1>1, <1>2, <1>3, <1>4, <1>5, <1>6, <1>7, <1>8, <1>9, <1>10, <1>11 DEF ScriptStep

LEMMA OutsideTypes ==
    ASSUME Types, Outside
    PROVE  Types'
<1> USE DEF Types, SupTypes, ScriptTypes, OtherTypes, Steps, SupEnds, Begins, ScriptEnds,
            ElseUnchanged, unitVars, scriptVars, supVars, fileVars, otherVars
<1>1. CASE StartByHand \/ StopByHand \/ ManagerLeaves \/ ManagerPolls
  <2>1. UNCHANGED <<unitVars, target, supVars, mediaVars, unheeded, fileVars, otherVars>>
    BY <1>1 DEF StartByHand, StopByHand, ManagerLeaves, ManagerPolls
  <2>2. MediaTypes' /\ SupTypes' /\ OtherTypes'
    BY <2>1, SameMediaTypes
  <2>3. ScriptTypes'
    BY <1>1, <2>1 DEF StartByHand, StopByHand, ManagerLeaves, ManagerPolls
  <2> QED BY <2>2, <2>3
<1>2. ASSUME NEW from, StartService(from) PROVE Types'
  <2>1. MediaTypes' /\ SupTypes'
    BY <1>2, SameMediaTypes DEF StartService
  <2>2. OtherTypes'
    BY <1>2 DEF StartService
  <2>3. ScriptTypes'
    BY <1>2 DEF StartService
  <2> QED BY <2>1, <2>2, <2>3
<1>3. CASE StopService
  <2>1. MediaTypes' /\ SupTypes'
    BY <1>3, SameMediaTypes DEF StopService, Report
  <2>2. OtherTypes'
    BY <1>3 DEF StopService, Report
  <2>3. ScriptTypes'
    <3>1. CASE Service
      BY <1>3, <3>1 DEF StopService
    <3>2. CASE ~Service
      BY <1>3, <3>2 DEF StopService, Report
    <3> QED BY <3>1, <3>2
  <2> QED BY <2>1, <2>2, <2>3
<1>4. CASE ManagerKilled
  <2>1. ManagerExits(FALSE)
    BY <1>4 DEF ManagerKilled
  <2>2. MediaTypes'
    BY <2>1, ExitFacts, MediaEndTypes
  <2>3. SupTypes' /\ OtherTypes'
    BY <1>4, <2>1, ExitFacts DEF ManagerKilled
  <2>4. ScriptTypes'
    BY <1>4, <2>1, ExitFacts DEF ManagerKilled
  <2> QED BY <2>2, <2>3, <2>4
<1>5. CASE EdgeCrashes
  <2>1. MediaTypes' /\ SupTypes'
    BY <1>5, SameMediaTypes DEF EdgeCrashes
  <2>2. OtherTypes'
    BY <1>5 DEF EdgeCrashes
  <2>3. ScriptTypes'
    BY <1>5 DEF EdgeCrashes
  <2> QED BY <2>1, <2>2, <2>3
<1>6. CASE SupervisorCrashes
  <2>1. MediaTypes'
    BY <1>6, SameMediaTypes, ForgetTypes DEF SupervisorCrashes
  <2>2. SupTypes'
    BY <1>6 DEF SupervisorCrashes
  <2>3. ScriptTypes' /\ OtherTypes'
    BY <1>6 DEF SupervisorCrashes
  <2> QED BY <2>1, <2>2, <2>3
<1>7. ASSUME NEW p \in Pids, MediaExits(p) PROVE Types'
  BY <1>7, MediaEndTypes DEF MediaExits
<1>8. ASSUME NEW p \in Pids, Exec(p) PROVE Types'
  BY <1>8 DEF Exec, MediaTypes
<1>9. ASSUME NEW x \in Fixed, Loosen(x) PROVE Types'
  BY <1>9, SameMediaTypes DEF Loosen
<1> QED BY <1>1, <1>2, <1>3, <1>4, <1>5, <1>6, <1>7, <1>8, <1>9 DEF Outside, Operator, Restart

\* Every step is the supervisor's, a script's, or comes from outside.
LEMMA StepKinds ==
    ASSUME Next, Types
    PROVE  Supervisor \/ ScriptStep \/ Outside
<1>1. Scripts => ScriptStep
  BY DEF Scripts, ScriptStep, Died
<1>2. Obeys \/ Loosens => Outside
  BY DEF Obeys, Loosens, Outside, Types, MediaTypes
<1>3. Faults => ScriptStep \/ Outside
  BY DEF Faults, ScriptStep, Outside, TooSlow
<1> QED BY <1>1, <1>2, <1>3 DEF Next, Goes, Outside

LEMMA NextTypes == Types /\ [Next]_vars => Types'
<1>1. ASSUME Types, UNCHANGED vars PROVE Types'
  BY <1>1 DEF Types, MediaTypes, SupTypes, ScriptTypes, OtherTypes, vars, unitVars, scriptVars,
              supVars, mediaVars, fileVars, otherVars
<1> QED BY <1>1, StepKinds, SupervisorTypes, ScriptStepTypes, OutsideTypes

\* The processes' and the scripts' variables keep their types.
THEOREM StackTypes == Spec => []TypeOK
  BY InitTypes, NextTypes, TypesAreTypeOK, PTL DEF Spec

-----------------------------------------------------------------------------
(* The supervisor and its MediaMTX *)

LEMMA SupervisorKeepsChild ==
    ASSUME Types, OwnChild, ret # "wait", Supervisor
    PROVE  OwnChild'
<1> SUFFICES ASSUME ~unheeded, ~unheeded' PROVE OwnChild'
  BY DEF OwnChild, Types, SupTypes, Supervisor, SetTraps, ForgetStop, TestStop, Fork,
         SaveChild, WritePid, Reap, Decide, Sleep, Leave, Trap, CleanupTouch, CleanupDrain,
         CleanupUnlist, Quietly
<1> USE DEF Types, MediaTypes, SupTypes, OwnChild, Childless, Quits, Resting, Does, Quietly,
            Commands, Cleanup, Unrecorded, mediaVars, fileVars
<1>1. CASE SetTraps \/ ForgetStop
  BY <1>1 DEF SetTraps, ForgetStop
<1>2. CASE TestStop
  BY <1>2 DEF TestStop
<1>10. CASE Decide
  BY <1>10 DEF Decide
<1>3. ASSUME NEW p \in Pids, Fork(p) PROVE OwnChild'
  BY <1>3 DEF Fork
<1>4. CASE SaveChild \/ WritePid
  BY <1>4 DEF SaveChild, WritePid
<1>5. CASE Reap
  BY <1>5 DEF Reap
<1>6. CASE Sleep \/ Leave
  BY <1>6 DEF Sleep, Leave
<1>7. CASE Trap
  BY <1>7 DEF Trap
<1>8. ASSUME NEW ok \in BOOLEAN, CleanupTouch(ok) PROVE OwnChild'
  BY <1>8 DEF CleanupTouch
<1>9. CASE CleanupDrain
  BY <1>9 DEF CleanupDrain
<1>11. CASE CleanupUnlist
  BY <1>11 DEF CleanupUnlist, Forget
<1> QED
  BY <1>1, <1>2, <1>3, <1>4, <1>5, <1>6, <1>7, <1>8, <1>9, <1>10, <1>11 DEF Supervisor

LEMMA SupervisorKeepsRecord ==
    ASSUME Types, Recorded, Supervisor
    PROVE  Recorded'
<1>0. UNCHANGED managed
  BY SupervisorIsThere DEF unitVars
<1> USE <1>0 DEF Types, MediaTypes, SupTypes, Recorded, Known, Recording, Childless, Resting,
                 Does, Quietly, Commands, Cleanup, Unrecorded, mediaVars, fileVars
<1>1. CASE SetTraps \/ ForgetStop
  BY <1>1 DEF SetTraps, ForgetStop
<1>2. CASE TestStop \/ Decide
  BY <1>2 DEF TestStop, Decide
<1>3. ASSUME NEW p \in Pids, Fork(p) PROVE Recorded'
  BY <1>3 DEF Fork
<1>4. CASE SaveChild \/ WritePid
  BY <1>4 DEF SaveChild, WritePid
<1>5. CASE Reap
  BY <1>5 DEF Reap
<1>6. CASE Sleep \/ Leave
  BY <1>6 DEF Sleep, Leave
<1>7. CASE Trap
  BY <1>7 DEF Trap
<1>8. ASSUME NEW ok \in BOOLEAN, CleanupTouch(ok) PROVE Recorded'
  BY <1>8 DEF CleanupTouch
<1>9. CASE CleanupDrain
  BY <1>9 DEF CleanupDrain
<1>10. CASE CleanupUnlist
  BY <1>10 DEF CleanupUnlist, Forget
<1> QED
  BY <1>1, <1>2, <1>3, <1>4, <1>5, <1>6, <1>7, <1>8, <1>9, <1>10 DEF Supervisor

\* While the service is idle a supervisor is the manual stack's, whose MediaMTX is not in
\* the group.
LEMMA SupervisorKeepsGroup ==
    ASSUME Types, ServiceInv, Supervisor
    PROVE  managed /\ ~Service => group' = group
<1> USE DEF Types, MediaTypes
<1>1. managed /\ ~Service => byHand
  BY SupervisorIsThere DEF ServiceInv
<1>2. ASSUME NEW p \in Pids, Fork(p) PROVE managed /\ ~Service => group' = group
  BY <1>1, <1>2 DEF Fork
<1>3. CASE CleanupUnlist
  BY <1>3 DEF CleanupUnlist, Forget, mediaVars
<1>4. UNCHANGED mediaVars => group' = group
  BY DEF mediaVars
<1> QED
  BY <1>2, <1>3, <1>4 DEF Supervisor, SetTraps, ForgetStop, TestStop, SaveChild, WritePid, Reap,
     Decide, Sleep, Leave, Trap, CleanupTouch, CleanupDrain, Quietly

\* A script that has dealt with the supervisor runs alone.
LEMMA SupervisorKeepsScripts ==
    ASSUME ScriptInv, Supervisor
    PROVE  ScriptInv'
<1>1. script = "none" \/ step \notin PastSupervisor
  BY SupervisorIsThere DEF ScriptInv
<1>2. UNCHANGED <<script, step, last, failed, managed, edge, hung>>
  BY SupervisorIsThere DEF unitVars, scriptVars, otherVars
<1> QED BY <1>1, <1>2 DEF ScriptInv, PastSupervisor

LEMMA SupervisorKeeps ==
    ASSUME StackInv, Supervisor
    PROVE  StackInv'
<1> USE DEF StackInv
<1>0. sup # "none" /\ UNCHANGED <<managed, unit, leaving, result, script, last, edge, byHand,
                                  hung>>
  BY SupervisorIsThere DEF unitVars, scriptVars, otherVars
<1>1. OwnChild' /\ Recorded'
  BY SupervisorKeepsChild, SupervisorKeepsRecord DEF Recorded
<1>2. ScriptInv'
  BY SupervisorKeepsScripts
<1>3. managed /\ ~Service => byHand /\ group' = group
  BY <1>0, SupervisorKeepsGroup DEF ServiceInv
<1>4. ServiceInv'
  BY <1>0, <1>3 DEF ServiceInv, Over, Service
<1>5. StopMeansStopped'
  BY <1>0, <1>3 DEF ServiceInv, StopMeansStopped, Service
<1> QED BY <1>1, <1>2, <1>4, <1>5, SupervisorTypes

-----------------------------------------------------------------------------
(* The scripts *)

\* A step that leaves the supervisor and MediaMTX alone.
LEMMA ChildUntouched ==
    ASSUME OwnChild, Recorded,
           UNCHANGED <<managed, supVars, mediaVars, unheeded, pidFile>>,
           sup # "none" /\ stopFile => stopFile'
    PROVE  OwnChild' /\ Recorded'
<1> USE DEF supVars, mediaVars
<1>1. OwnChild'
  BY DEF OwnChild, Childless, Resting, Quits, Cleanup
<1>2. Recorded'
  BY DEF Recorded, Known, Recording, Childless
<1> QED BY <1>1, <1>2

\* Where MediaMTX processes end, or are lost to those that knew them, and the supervisor is
\* as before.
LEMMA FewerRun ==
    ASSUME OwnChild, Recorded, running' \subseteq running, Known' \subseteq Known,
           UNCHANGED <<managed, supVars, unheeded, fileVars>>
    PROVE  OwnChild' /\ Recorded'
<1> USE DEF supVars, fileVars
<1>1. OwnChild'
  BY DEF OwnChild, Childless, Quits
<1>2. Recorded'
  BY DEF Recorded, Recording, Childless
<1> QED BY <1>1, <1>2

\* A supervisor that is gone leaves what it had: on disk, or lost.
LEMMA ChildLeftBehind ==
    ASSUME OwnChild, SupEnds, UNCHANGED unheeded, running' \subseteq running,
           ~managed' => Known' \subseteq {pidFile'}
    PROVE  OwnChild' /\ Recorded'
<1>1. OwnChild'
  <2>1. sup' = "none" /\ ~Childless' /\ unheeded' = unheeded
    BY DEF SupEnds, Childless, Resting, Cleanup
  <2>2. unheeded \/ \E p \in Pids : running' \subseteq {p}
    BY DEF OwnChild
  <2> QED BY <2>1, <2>2 DEF OwnChild
<1>2. Recorded'
  BY DEF Recorded, SupEnds, Childless, Resting, Recording, Cleanup, Unrecorded
<1> QED BY <1>1, <1>2

\* A stop sets its failure when a process survives; only a stop keeps a pid file.
LEMMA KillFacts ==
    ASSUME Types, script # "none", NEW x \in Fixed, NEW dies \in BOOLEAN, KillOf(x, dies)
    PROVE  /\ ~failed' => ~failed /\ hung'[x] # "known"
           /\ \A y \in Fixed \ {x} : hung'[y] = hung[y]
           /\ script # "stop" => \A y \in Fixed : hung'[y] = "known" => hung[y] = "known"
<1>1. hung \in [Fixed -> {"no", "known", "lost"}]
  BY DEF Types, OtherTypes
<1>2. CASE dies
  BY <1>1, <1>2 DEF KillOf
<1>3. CASE ~dies
  <2>1. script = "stop" \/ script = "start"
    BY DEF Types, ScriptTypes
  <2> QED BY <1>1, <1>3, <2>1 DEF KillOf
<1> QED BY <1>2, <1>3

LEMMA StopEdgeKeeps ==
    ASSUME StackInv, NEW dies \in BOOLEAN, StopEdge(dies)
    PROVE  StackInv'
<1> USE DEF StackInv, StopEdge, GoesTo
<1>0. Types'
  BY ScriptStepTypes DEF ScriptStep
<1>1. OwnChild' /\ Recorded'
  BY ChildUntouched DEF unitVars, fileVars
<1>2. KillOf("edge", dies) /\ "edge" \in Fixed
  BY DEF Fixed
<1>3. ScriptInv'
  BY <1>2, KillFacts DEF ScriptInv, PastSupervisor, unitVars
<1>4. ServiceInv'
  <2>1. managed /\ ~Service => \A y \in Fixed : hung'[y] = "known" => hung[y] = "known"
    BY <1>2, KillFacts DEF ServiceInv
  <2> QED BY <2>1 DEF ServiceInv, Over, Service, unitVars, supVars, mediaVars
<1>5. StopMeansStopped'
  BY DEF StopMeansStopped
<1> QED BY <1>0, <1>1, <1>3, <1>4, <1>5

LEMMA TouchStopKeeps ==
    ASSUME StackInv, NEW ok \in BOOLEAN, TouchStop(ok)
    PROVE  StackInv'
<1> USE DEF StackInv, TouchStop, Runs, GoesTo
<1>0. Types'
  BY ScriptStepTypes DEF ScriptStep
<1>1. OwnChild' /\ Recorded'
  BY ChildUntouched DEF unitVars
<1>2. ScriptInv'
  BY DEF ScriptInv, PastSupervisor, unitVars, otherVars
<1>3. ServiceInv' /\ StopMeansStopped'
  BY DEF ServiceInv, Over, Service, StopMeansStopped, unitVars, supVars, mediaVars, otherVars
<1> QED BY <1>0, <1>1, <1>2, <1>3

LEMMA TermSupervisorKeeps ==
    ASSUME StackInv, TermSupervisor
    PROVE  StackInv'
<1> USE DEF StackInv, TermSupervisor, GoesTo
<1>0. Types'
  BY ScriptStepTypes DEF ScriptStep
<1>1. OwnChild' /\ Recorded'
  <2>1. CASE sup = "boot"
    <3>1. ~managed' => Known' \subseteq {pidFile'}
      BY <2>1 DEF Recorded, Known, Childless, unitVars, mediaVars, fileVars
    <3> QED BY <2>1, <3>1, ChildLeftBehind DEF mediaVars
  <2>2. CASE sup # "boot"
    <3>1. UNCHANGED <<managed, sup, ret, child, running, lost, unheeded, pidFile, stopFile>>
      BY <2>2 DEF unitVars, mediaVars, fileVars
    <3> QED BY <3>1 DEF OwnChild, Childless, Quits, Recorded, Known, Recording
  <2> QED BY <2>1, <2>2
<1>2. ScriptInv'
  BY DEF ScriptInv, PastSupervisor, unitVars, otherVars
<1>3. sup = "none" => sup' = "none"
  BY DEF SupEnds
<1>4. ServiceInv'
  BY <1>3 DEF ServiceInv, Over, Service, unitVars, mediaVars, otherVars
<1>5. StopMeansStopped'
  BY DEF StopMeansStopped
<1> QED BY <1>0, <1>1, <1>2, <1>4, <1>5

LEMMA SupervisorStoppedKeeps ==
    ASSUME StackInv, NEW dies \in BOOLEAN, SupervisorStopped(dies)
    PROVE  StackInv'
<1> USE DEF StackInv, SupervisorStopped, GoesTo, AfterSupervisor
<1>0. Types'
  BY ScriptStepTypes DEF ScriptStep
<1>1. OwnChild' /\ Recorded'
  <2>1. ~managed' => Known' \subseteq {pidFile'}
    BY DEF Recorded, Known, unitVars, mediaVars, fileVars
  <2> QED BY <2>1, ChildLeftBehind DEF mediaVars
<1>2. KillOf("sup", dies) /\ "sup" \in Fixed /\ "edge" \in Fixed \ {"sup"}
  BY DEF Fixed
<1>3. ScriptInv'
  BY <1>2, KillFacts DEF ScriptInv, PastSupervisor, SupEnds, unitVars
<1>4. ServiceInv'
  <2>1. managed /\ ~Service => \A y \in Fixed : hung'[y] = "known" => hung[y] = "known"
    BY <1>2, KillFacts DEF ServiceInv
  <2> QED BY <2>1 DEF ServiceInv, Over, Service, SupEnds, unitVars, mediaVars
<1>5. StopMeansStopped'
  BY DEF StopMeansStopped
<1> QED BY <1>0, <1>1, <1>3, <1>4, <1>5

\* What is not on disk was lost.
LEMMA TermMediaKeeps ==
    ASSUME StackInv, TermMedia
    PROVE  StackInv'
<1> USE DEF StackInv, TermMedia, GoesTo
<1>0. Types'
  BY ScriptStepTypes DEF ScriptStep
<1>1. sup = "none" /\ sup' = "none" /\ managed' = managed /\ unheeded' = unheeded
  BY DEF ScriptInv, PastSupervisor, unitVars, supVars
<1>2. running' = running /\ group' = group
  BY DEF Forget, mediaVars
<1>3. ~managed => Known \subseteq {pidFile}
  BY <1>1 DEF Recorded, Recording, Cleanup, Unrecorded
<1>4. ~managed => Known' \subseteq {pidFile'} /\ (step' # "mediawait" => Known' = {})
  <2>1. CASE pidFile \in running \ young
    BY <2>1, <1>3 DEF Known, mediaVars
  <2>2. CASE pidFile \notin running \ young
    <3>1. lost' = lost \cup ({pidFile} \cap running)
      BY <2>2 DEF Forget
    <3> QED BY <1>2, <1>3, <3>1 DEF Known
  <2> QED BY <2>1, <2>2
<1>5. OwnChild' /\ Recorded'
  BY <1>1, <1>2, <1>4 DEF OwnChild, Recorded, Recording, Childless, Resting, Cleanup,
                          Unrecorded, supVars
<1>6. ScriptInv'
  BY <1>1, <1>4 DEF ScriptInv, PastSupervisor, AfterMedia, otherVars, unitVars
<1>7. ServiceInv' /\ StopMeansStopped'
  BY <1>1, <1>2 DEF ServiceInv, Over, Service, StopMeansStopped, unitVars, otherVars
<1> QED BY <1>0, <1>5, <1>6, <1>7

LEMMA MediaStoppedKeeps ==
    ASSUME StackInv, NEW dies \in BOOLEAN, MediaStopped(dies)
    PROVE  StackInv'
<1> USE DEF StackInv, MediaStopped, GoesTo
<1>0. Types'
  BY ScriptStepTypes DEF ScriptStep
<1>1. /\ sup = "none" /\ sup' = "none" /\ target = pidFile
      /\ managed' = managed /\ unheeded' = unheeded
  BY DEF ScriptInv, PastSupervisor, unitVars, supVars
<1>2. running' \subseteq running /\ group' \subseteq group
  BY DEF MediaEnd
<1>3. ~managed => Known \subseteq {pidFile}
  BY <1>1 DEF Recorded, Recording, Cleanup, Unrecorded
<1>4. script = "stop" \/ script = "start"
  BY DEF Types, ScriptTypes
<1>5. ~managed => Known' \subseteq {pidFile'} /\ (script = "stop" /\ ~failed' => Known' = {})
  <2>1. CASE dies
    BY <1>1, <1>3, <2>1 DEF Known, MediaEnd
  <2>2. CASE ~dies
    BY <1>1, <1>3, <1>4, <2>2 DEF Known
  <2> QED BY <2>1, <2>2
<1>6. OwnChild' /\ Recorded'
  BY <1>1, <1>2, <1>5 DEF OwnChild, Recorded, Recording, Childless, Resting, Cleanup,
                          Unrecorded, supVars
<1>7. ScriptInv'
  <2>1. UNCHANGED <<script, last, edge, hung>> /\ step' = AfterMedia
    BY DEF otherVars
  <2>2. ~failed' => ~failed
    OBVIOUS
  <2> QED BY <1>1, <1>4, <1>5, <2>1, <2>2 DEF ScriptInv, PastSupervisor, AfterMedia
<1>8. ServiceInv' /\ StopMeansStopped'
  BY <1>1, <1>2 DEF ServiceInv, Over, Service, StopMeansStopped, unitVars, otherVars
<1> QED BY <1>0, <1>6, <1>7, <1>8

\* systemd leaves nothing of a service that has ended with success.
LEMMA ManagerExitsKeeps ==
    ASSUME StackInv, Types', Service, NEW ok \in BOOLEAN, ManagerExits(ok), ScriptEnds,
           ok => \A x \in Fixed : hung[x] # "known",
           last' \in IF leaving THEN {"failed", Report(result')} ELSE {"none", last},
           sup = "none" \/ UNCHANGED stopFile,
           UNCHANGED <<unheeded, byHand, hung>>
    PROVE  StackInv'
<1> USE DEF StackInv
<1>1. managed /\ managed' /\ last = "none"
  BY ExitFacts DEF ServiceInv
<1>2. running' \subseteq running
  BY ExitFacts DEF MediaEnd
<1>3. OwnChild' /\ Recorded'
  <2>1. CASE byHand
    <3>1. UNCHANGED <<sup, ret, child>>
      BY <2>1, ExitFacts DEF supVars
    <3> QED BY <1>1, <1>2, <3>1
        DEF OwnChild, Recorded, Childless, Resting, Quits, Cleanup
  <2>2. CASE ~byHand
    <3>1. SupEnds
      BY <2>2, ExitFacts
    <3> QED BY <1>1, <1>2, <3>1, ChildLeftBehind
  <2> QED BY <2>1, <2>2
<1>4. script' = "none" /\ unit' \in {"off", "wait"} /\ leaving' = FALSE
  BY ExitFacts DEF ScriptEnds
<1>5. ~Service' /\ (byHand' \/ (sup' = "none" /\ ~edge'))
  BY <1>4, ExitFacts DEF Service, SupEnds
<1>6. result' => Over'
  BY ExitFacts DEF Over
<1>7. ScriptInv' /\ ServiceInv'
  BY <1>1, <1>4, <1>5, <1>6 DEF ScriptInv, ServiceInv
<1>8. last' = "ok" => result'
  BY <1>1 DEF Report
<1>9. StopMeansStopped'
  BY <1>1, <1>5, <1>6, <1>8 DEF StopMeansStopped, Over
<1> QED BY <1>3, <1>7, <1>9

LEMMA StopEndsKeeps ==
    ASSUME StackInv, StopEnds
    PROVE  StackInv'
<1> USE DEF StackInv, StopEnds, Runs
<1>0. Types'
  BY ScriptStepTypes DEF ScriptStep
<1>1. sup = "none" /\ ~edge
  BY DEF ScriptInv, PastSupervisor
<1>2. ~failed => \A x \in Fixed : hung[x] # "known"
  BY DEF ScriptInv, PastSupervisor, Fixed
<1>3. CASE leaving /\ cause # "term"
  <2>1. /\ Begins("stop", "term") /\ UNCHANGED <<unitVars, supVars, mediaVars, edge, last>>
        /\ UNCHANGED <<unheeded, pidFile, byHand, hung>>
    BY <1>3
  <2>2. OwnChild' /\ Recorded'
    BY <1>1, <2>1, ChildUntouched DEF unitVars
  <2>3. ScriptInv'
    BY <2>1, <1>1 DEF Begins, ScriptInv, PastSupervisor
  <2>4. ServiceInv' /\ StopMeansStopped'
    BY <2>1 DEF Begins, ServiceInv, Over, Service, StopMeansStopped, unitVars, supVars, mediaVars
  <2> QED BY <1>0, <2>2, <2>3, <2>4
<1>4. CASE ~(leaving /\ cause # "term") /\ Service
  <2>1. /\ ManagerExits(cause = "term" /\ ~failed) /\ ScriptEnds
        /\ last' \in IF leaving THEN {"failed", Report(result')} ELSE {"none", last}
        /\ UNCHANGED <<unheeded, byHand, hung>>
    BY <1>4
  <2>2. (cause = "term" /\ ~failed) \in BOOLEAN
    OBVIOUS
  <2> QED BY <1>0, <1>1, <1>2, <1>4, <2>1, <2>2, ManagerExitsKeeps
<1>5. CASE ~(leaving /\ cause # "term") /\ ~Service
  <2>1. /\ ScriptEnds /\ last' = IF cause = "start" THEN "none" ELSE Report(~failed)
        /\ UNCHANGED <<unitVars, supVars, mediaVars, edge>>
        /\ UNCHANGED <<unheeded, pidFile, byHand, hung>>
    BY <1>5
  <2>2. OwnChild' /\ Recorded'
    BY <1>1, <2>1, ChildUntouched DEF unitVars
  <2>3. ~managed
    BY <1>5 DEF ServiceInv
  <2>4. ScriptInv' /\ ServiceInv'
    BY <1>5, <2>1, <2>3 DEF ScriptEnds, ScriptInv, ServiceInv, Service, unitVars
  <2>5. ~failed => Known = {}
    BY <2>3 DEF ScriptInv
  <2>6. StopMeansStopped'
    BY <1>1, <1>2, <2>1, <2>3, <2>5
    DEF Report, StopMeansStopped, Known, supVars, mediaVars, unitVars
  <2> QED BY <1>0, <2>2, <2>4, <2>6
<1> QED BY <1>3, <1>4, <1>5

LEMMA CheckPortsKeeps ==
    ASSUME StackInv, CheckPorts
    PROVE  StackInv'
<1> USE DEF StackInv, CheckPorts, Runs
<1>0. Types'
  BY ScriptStepTypes DEF ScriptStep
<1>1. sup = "none" /\ ~edge /\ last = "none"
  BY DEF ScriptInv, PastSupervisor
<1>2. CASE PortsFree
  <2>1. /\ GoesTo("launch") /\ UNCHANGED <<unitVars, failed, supVars, mediaVars, edge>>
        /\ UNCHANGED <<target, unheeded, pidFile, byHand, hung>>
    BY <1>2
  <2>2. OwnChild' /\ Recorded'
    BY <1>1, <2>1, ChildUntouched DEF unitVars
  <2>3. ScriptInv'
    BY <1>1, <1>2, <2>1 DEF GoesTo, ScriptInv, PastSupervisor, PortsFree, supVars, mediaVars
  <2>4. ServiceInv' /\ StopMeansStopped'
    BY <2>1 DEF GoesTo, ServiceInv, Over, Service, StopMeansStopped, unitVars, supVars, mediaVars
  <2> QED BY <1>0, <2>2, <2>3, <2>4
<1>3. CASE ~PortsFree /\ Service /\ leaving
  <2>1. /\ Begins("stop", "term") /\ UNCHANGED <<unitVars, last, supVars, mediaVars, edge>>
        /\ UNCHANGED <<unheeded, pidFile, byHand, hung>>
    BY <1>3
  <2>2. OwnChild' /\ Recorded'
    BY <1>1, <2>1, ChildUntouched DEF unitVars
  <2>3. ScriptInv'
    BY <2>1, <1>1 DEF Begins, ScriptInv, PastSupervisor
  <2>4. ServiceInv' /\ StopMeansStopped'
    BY <1>3, <2>1 DEF Begins, ServiceInv, Service, StopMeansStopped, unitVars
  <2> QED BY <1>0, <2>2, <2>3, <2>4
<1>4. CASE ~PortsFree /\ Service /\ ~leaving
  <2>1. /\ ManagerExits(FALSE) /\ ScriptEnds /\ last' = last
        /\ UNCHANGED <<unheeded, byHand, hung>>
    BY <1>4
  <2> QED BY <1>0, <1>1, <1>4, <2>1, ManagerExitsKeeps
<1>5. CASE ~PortsFree /\ ~Service
  <2>1. /\ ScriptEnds /\ last' = last /\ UNCHANGED <<unitVars, supVars, mediaVars, edge>>
        /\ UNCHANGED <<unheeded, pidFile, byHand, hung>>
    BY <1>5
  <2>2. OwnChild' /\ Recorded'
    BY <1>1, <2>1, ChildUntouched DEF unitVars
  <2>3. ScriptInv' /\ ServiceInv' /\ StopMeansStopped'
    BY <1>1, <1>5, <2>1 DEF ScriptEnds, ScriptInv, ServiceInv, Over, Service,
                            StopMeansStopped, unitVars, supVars, mediaVars
  <2> QED BY <1>0, <2>2, <2>3
<1> QED BY <1>2, <1>3, <1>4, <1>5

LEMMA LaunchKeeps ==
    ASSUME StackInv, Launch
    PROVE  StackInv'
<1> USE DEF StackInv, Launch, Runs, GoesTo
<1>0. Types'
  BY ScriptStepTypes DEF ScriptStep
<1>1. running = {} /\ running' = {}
  BY DEF ScriptInv, mediaVars
<1>2. OwnChild' /\ Recorded'
  BY <1>1, PidAssumption DEF OwnChild, Recorded, Known
<1>3. ScriptInv' /\ StopMeansStopped'
  BY DEF ScriptInv, PastSupervisor, StopMeansStopped
<1>4. ServiceInv'
  BY DEF ServiceInv, Over, Service, unitVars, mediaVars
<1> QED BY <1>0, <1>2, <1>3, <1>4

LEMMA ReadyKeeps ==
    ASSUME StackInv, Ready
    PROVE  StackInv'
<1> USE DEF StackInv, Ready, Runs, ScriptEnds
<1>0. Types'
  BY ScriptStepTypes DEF ScriptStep
<1>1. OwnChild' /\ Recorded'
  BY ChildUntouched DEF fileVars
<1>2. last = "none"
  BY DEF ScriptInv
<1>3. ScriptInv' /\ StopMeansStopped'
  BY <1>2 DEF ScriptInv, StopMeansStopped
<1>4. Service' <=> Service
  BY DEF Service
<1>5. ServiceInv'
  BY <1>2, <1>4 DEF ServiceInv, Over, supVars, mediaVars, otherVars, Service
<1> QED BY <1>0, <1>1, <1>3, <1>5

LEMMA NotReadyKeeps ==
    ASSUME StackInv, NotReady
    PROVE  StackInv'
<1> USE DEF StackInv, NotReady, Runs
<1>0. Types'
  BY ScriptStepTypes DEF ScriptStep
<1>1. managed' = managed
  BY DEF unitVars
<1>2. OwnChild' /\ Recorded'
  BY <1>1, ChildUntouched DEF fileVars
<1>3. last = "none"
  BY DEF ScriptInv, Types, ScriptTypes
<1>4. CASE managed /\ ~Service
  <2>1. ~Service' /\ script' = "none"
    BY <1>4 DEF Service, ScriptEnds
  <2> QED BY <1>0, <1>1, <1>2, <1>3, <1>4, <2>1
      DEF ScriptInv, ServiceInv, Over, StopMeansStopped, supVars, mediaVars, otherVars
<1>5. CASE ~(managed /\ ~Service)
  <2>1. Begins("stop", "start") /\ UNCHANGED unitVars
    BY <1>5
  <2>2. ScriptInv' /\ StopMeansStopped'
    BY <1>3, <2>1 DEF Begins, ScriptInv, PastSupervisor, StopMeansStopped
  <2>3. ServiceInv'
    BY <1>3, <1>5, <2>1 DEF Begins, ServiceInv, Service, unitVars
  <2> QED BY <1>0, <1>2, <2>2, <2>3
<1> QED BY <1>4, <1>5

LEMMA ScriptsKeep ==
    ASSUME StackInv, ScriptStep
    PROVE  StackInv'
  BY StopEdgeKeeps, TouchStopKeeps, TermSupervisorKeeps, SupervisorStoppedKeeps, TermMediaKeeps,
     MediaStoppedKeeps, StopEndsKeeps, CheckPortsKeeps, LaunchKeeps, ReadyKeeps, NotReadyKeeps
  DEF ScriptStep

-----------------------------------------------------------------------------
(* From outside *)

LEMMA OutsideKeeps ==
    ASSUME StackInv, Outside
    PROVE  StackInv'
<1>0. Types'
  BY OutsideTypes DEF StackInv
<1> USE DEF StackInv
<1>1. ASSUME StartByHand \/ StopByHand \/ ManagerLeaves \/ ManagerPolls PROVE StackInv'
  <2> USE <1>1 DEF StartByHand, StopByHand, ManagerLeaves, ManagerPolls, Begins
  <2>1. UNCHANGED <<unitVars, supVars, mediaVars, unheeded, fileVars, otherVars>>
    BY DEF ElseUnchanged
  <2>2. OwnChild' /\ Recorded'
    BY <2>1, ChildUntouched DEF unitVars, fileVars
  <2>3. /\ script' # "none" /\ step' = "edge" /\ (script' = "start" => last' = "none")
        /\ script = "none"
        /\ script' = "stop" => ~managed \/ Service
        /\ Service => last' = "none"
    BY DEF ServiceInv, Service
  <2>4. ScriptInv' /\ StopMeansStopped'
    BY <2>3 DEF ScriptInv, PastSupervisor, StopMeansStopped
  <2>5. ServiceInv'
    BY <2>1, <2>3 DEF ServiceInv, Over, Service, unitVars, supVars, mediaVars, otherVars
  <2> QED BY <1>0, <2>2, <2>4, <2>5
<1>2. ASSUME NEW from, StartService(from) PROVE StackInv'
  <2> USE <1>2 DEF StartService, Begins
  <2>1. OwnChild' /\ Recorded'
    BY ChildUntouched DEF ElseUnchanged, fileVars
  <2>2. ScriptInv' /\ StopMeansStopped'
    BY DEF ScriptInv, PastSupervisor, StopMeansStopped
  <2>3. ServiceInv'
    BY DEF ServiceInv, Service
  <2> QED BY <1>0, <2>1, <2>2, <2>3
<1>3. ASSUME StopService PROVE StackInv'
  <2> USE <1>3 DEF StopService
  <2>1. UNCHANGED <<managed, result, script, step, failed, target, supVars, mediaVars, unheeded,
                    fileVars, otherVars>>
    BY DEF ElseUnchanged
  <2>2. OwnChild' /\ Recorded'
    BY <2>1, ChildUntouched DEF fileVars
  <2>3. CASE Service
    <3>1. Service' /\ last' = last
      BY <2>3 DEF Service
    <3> QED BY <1>0, <2>1, <2>2, <2>3, <3>1
        DEF ScriptInv, ServiceInv, StopMeansStopped, Known, supVars, mediaVars, fileVars, otherVars
  <2>4. CASE ~Service
    <3>1. ~Service' /\ last' = Report(result) /\ script = "none"
      BY <2>4 DEF Service
    <3>2. ScriptInv'
      BY <2>1, <3>1 DEF ScriptInv
    <3>3. ServiceInv'
      BY <2>1, <2>4, <3>1 DEF ServiceInv, Over, supVars, mediaVars, otherVars
    <3>4. StopMeansStopped'
      BY <3>1, <3>3 DEF ServiceInv, Over, StopMeansStopped, Report
    <3> QED BY <1>0, <2>2, <3>2, <3>3, <3>4
  <2> QED BY <2>3, <2>4
<1>4. ASSUME ManagerKilled PROVE StackInv'
  <2>1. /\ Service /\ ManagerExits(FALSE) /\ ScriptEnds
        /\ last' \in IF leaving THEN {"failed", Report(result')} ELSE {"none", last}
        /\ stopFile' = stopFile /\ UNCHANGED <<unheeded, byHand, hung>>
    BY <1>4 DEF ManagerKilled, fileVars
  <2> QED BY <1>0, <2>1, ManagerExitsKeeps
<1>5. ASSUME EdgeCrashes PROVE StackInv'
  <2> USE <1>5 DEF EdgeCrashes
  <2>1. OwnChild' /\ Recorded'
    BY ChildUntouched DEF unitVars, fileVars
  <2>2. ScriptInv' /\ ServiceInv' /\ StopMeansStopped'
    BY DEF ScriptInv, ServiceInv, Over, Service, StopMeansStopped, Known, unitVars, scriptVars,
           supVars, mediaVars, fileVars
  <2> QED BY <1>0, <2>1, <2>2
<1>6. ASSUME SupervisorCrashes PROVE StackInv'
  <2> USE <1>6 DEF SupervisorCrashes
  <2>1. running' = running /\ group' = group /\ lost \subseteq lost'
    BY DEF Forget, mediaVars
  <2>2. ~managed => Known' \subseteq {pidFile}
    <3>1. CASE Recording
      BY <2>1, <3>1 DEF Recorded, Known, Forget
    <3>2. CASE ~Recording
      BY <3>2 DEF Recorded, Known, mediaVars
    <3> QED BY <3>1, <3>2
  <2>3. OwnChild' /\ Recorded'
    BY <2>1, <2>2, ChildLeftBehind DEF unitVars, fileVars
  <2>4. Known' \subseteq Known
    BY <2>1 DEF Known
  <2>5. ScriptInv'
    BY <2>1, <2>4 DEF ScriptInv, SupEnds, unitVars, scriptVars, fileVars, otherVars
  <2>6. ServiceInv' /\ StopMeansStopped'
    BY <2>1 DEF ServiceInv, Over, Service, StopMeansStopped, SupEnds, unitVars, scriptVars,
                otherVars
  <2> QED BY <1>0, <2>3, <2>5, <2>6
<1>7. ASSUME NEW p \in Pids, MediaExits(p) \/ Exec(p) PROVE StackInv'
  <2>1. /\ running' \subseteq running /\ group' \subseteq group /\ Known' \subseteq Known
        /\ running \ running' \subseteq {p} /\ lost' = lost \cap running'
    BY <1>7 DEF MediaExits, MediaEnd, Exec, Known, Types, MediaTypes
  <2>2. UNCHANGED <<unitVars, scriptVars, supVars, unheeded, fileVars, otherVars>>
    BY <1>7 DEF MediaExits, Exec
  <2>3. OwnChild' /\ Recorded'
    BY <2>1, <2>2, FewerRun DEF unitVars
  <2>4. ScriptInv'
    BY <2>1, <2>2 DEF ScriptInv, unitVars, scriptVars, supVars, fileVars, otherVars
  <2>5. ServiceInv' /\ StopMeansStopped'
    BY <2>1, <2>2 DEF ServiceInv, Over, Service, StopMeansStopped, unitVars, scriptVars,
                      supVars, otherVars
  <2> QED BY <1>0, <2>3, <2>4, <2>5
<1>8. ASSUME NEW x \in Fixed, Loosen(x) PROVE StackInv'
  <2> USE <1>8 DEF Loosen
  <2>1. OwnChild' /\ Recorded'
    BY ChildUntouched DEF unitVars, fileVars
  <2>2. \A y \in Fixed : hung'[y] = "known" => hung[y] = "known"
    BY DEF Types, OtherTypes
  <2>3. ScriptInv'
    BY <2>2 DEF ScriptInv, Fixed, Known, unitVars, scriptVars, supVars, mediaVars, fileVars
  <2>4. ServiceInv' /\ StopMeansStopped'
    BY <2>2 DEF ServiceInv, Over, Service, StopMeansStopped, unitVars, scriptVars, supVars,
                mediaVars
  <2> QED BY <1>0, <2>1, <2>3, <2>4
<1> QED BY <1>1, <1>2, <1>3, <1>4, <1>5, <1>6, <1>7, <1>8 DEF Outside, Operator, Restart

-----------------------------------------------------------------------------
(* The theorems *)

LEMMA InitStack == Init => StackInv
<1> SUFFICES ASSUME Init PROVE StackInv
  OBVIOUS
<1>1. OwnChild /\ Recorded
  BY PidAssumption DEF Init, OwnChild, Recorded, Known, Childless, Resting, Cleanup
<1>2. ScriptInv /\ ServiceInv /\ StopMeansStopped
  BY DEF Init, ScriptInv, ServiceInv, Over, Service, StopMeansStopped, Fixed
<1> QED BY <1>1, <1>2, InitTypes DEF StackInv

LEMMA NextStack == StackInv /\ [Next]_vars => StackInv'
<1>1. ASSUME StackInv, UNCHANGED vars PROVE StackInv'
  <2> USE <1>1 DEF StackInv, vars
  <2>1. Types'
    BY NextTypes
  <2>2. OwnChild' /\ Recorded'
    BY ChildUntouched DEF unitVars, fileVars
  <2>3. ScriptInv' /\ ServiceInv' /\ StopMeansStopped'
    BY DEF ScriptInv, ServiceInv, Over, Service, StopMeansStopped, Known, unitVars, scriptVars,
           supVars, mediaVars, fileVars, otherVars
  <2> QED BY <2>1, <2>2, <2>3
<1>2. ASSUME StackInv, Next PROVE StackInv'
  BY <1>2, StepKinds, SupervisorKeeps, ScriptsKeep, OutsideKeeps DEF StackInv
<1> QED BY <1>1, <1>2

LEMMA StackInvariant == Spec => []StackInv
  BY InitStack, NextStack, PTL DEF Spec

\* A stop that reports success has left nothing of the service, or, without systemd, nothing
\* but a MediaMTX that nobody knows any more, and no supervisor that could start one,
\* wherever its signal met the supervisor and whatever had crashed or survived KILL before.
THEOREM StopsAreStops == Spec => []StopMeansStopped
<1>1. StackInv => StopMeansStopped
  BY DEF StackInv
<1> QED BY <1>1, StackInvariant, PTL

\* At most one MediaMTX runs, after any crashes, failed stops and reused process numbers;
\* but for a supervisor that ignored it while it was young and could not leave the sentinel.
THEOREM MediaServerIsOne == Spec => []OneMediaServer
<1>1. StackInv => OneMediaServer
  <2> SUFFICES ASSUME StackInv, ~unheeded PROVE Cardinality(running) <= 1
    BY DEF OneMediaServer
  <2>1. PICK p \in Pids : running \subseteq {p}
    BY DEF StackInv, OwnChild
  <2>2. IsFiniteSet({p}) /\ Cardinality({p}) = 1
    BY FS_Singleton
  <2>3. IsFiniteSet(running) /\ Cardinality(running) <= Cardinality({p})
    BY <2>1, <2>2, FS_Subset
  <2> QED BY <2>2, <2>3
<1> QED BY <1>1, StackInvariant, PTL
=============================================================================
