---------------------------- MODULE ServiceStack ----------------------------
(***************************************************************************)
(* The processes of the package and the scripts that start, watch and stop *)
(* them: start.sh, stop.sh, the supervisor of MediaMTX with its signal     *)
(* traps (mediamtx-supervisor.sh), and, when the package is installed as a *)
(* service, service-manager.sh under systemd.                              *)
(*                                                                         *)
(* A step is one command of a script, or what a process or systemd does    *)
(* meanwhile.  A process is killed, crashes or exits in one step.  Process *)
(* numbers are reused.  The gateway and Caddy are one process, `edge': the *)
(* scripts treat them alike.  One script runs at a time, by hand or by the *)
(* manager; its number on disk identifies the supervisor, whose start and  *)
(* pid file are one step.  On a host with the service installed the stack  *)
(* may also be started by hand, while the service is not active.           *)
(*                                                                         *)
(* Time enters by four facts: the 3 s between TERM and KILL are enough for *)
(* the commands that record a new MediaMTX, or to end it that early; they  *)
(* are up before the 5 s of the supervisor's cleanup; a forked MediaMTX    *)
(* execs within the second that stop.sh gives a recorded number; and one   *)
(* that runs has its ports by the time a start looks for them.  When it    *)
(* execs is otherwise open: a signal may find it `young'.                  *)
(***************************************************************************)
EXTENDS Integers, FiniteSets

CONSTANTS Pids        \* process numbers a MediaMTX may get

ASSUME PidAssumption == Pids \subseteq Nat \ {0} /\ Pids # {}

VARIABLES
    managed,          \* installed as a service of systemd
    unit,             \* the service: "off", "busy" (its manager starts), "up", "wait"
    leaving,          \* systemctl stop: its signal waits for the manager's present command
    result,           \* systemd's Result of the service is success
    script, step,     \* the script that runs: "none", "start", "stop"; its next command
    cause,            \* why: "operator", "start" (clean-up), "loss" (the poll), "term"
    failed, target,   \* STOP_CLEANUP_FAILED; the pid a script read
    last,             \* what the last stop reported: "none" since a start, "ok", "failed"
    sup, ret, term,   \* the supervisor's next command; where its trap returns; a pending TERM
    child, running,   \* its MediaMTX, or 0; every MediaMTX that runs
    young,            \* those forked that have not exec'd yet
    group,            \* those in the service's control group
    stuck,            \* those that have survived KILL
    lost,             \* history: those whose number nobody has on disk any more
    unheeded,         \* history: a trap ignored a young one and left no sentinel either
    pidFile, stopFile,\* mediamtx.pid, mediamtx.stop
    edge,             \* the gateway and Caddy run
    byHand,           \* supervisor and edge were started by hand, not by the manager
    hung              \* a supervisor, or an edge, that has survived KILL: its pid file is
                      \* "known", or "lost" when start.sh removed it

unitVars == <<managed, unit, leaving, result>>
scriptVars == <<script, step, cause, failed, target, last>>
supVars == <<sup, ret, term, child>>
mediaVars == <<running, young, group, stuck, lost>>
fileVars == <<pidFile, stopFile>>
otherVars == <<edge, byHand, hung>>

vars == <<unitVars, scriptVars, supVars, mediaVars, unheeded, fileVars, otherVars>>

Cleanup == {"touch", "drain", "unlist"}

\* Between the start of a MediaMTX and its record on disk.
Unrecorded == {"save", "write"}

\* The supervisor is there, or in a trap that will return there.
Recording == sup \in Unrecorded \/ (sup \in Cleanup /\ ret \in Unrecorded)

Commands == {"trapped", "test", "fork", "wait", "reap", "decide", "leave"} \cup Unrecorded

\* What runs under a number of its own on disk, apart from MediaMTX.
Fixed == {"sup", "edge"}

TypeOK ==
    /\ unit \in {"off", "busy", "up", "wait"} /\ script \in {"none", "start", "stop"}
    /\ step \in {"edge", "touch", "sup", "supwait", "media", "mediawait", "finish", "check",
                 "launch", "ready"}
    /\ cause \in {"operator", "start", "loss", "term"} /\ last \in {"none", "ok", "failed"}
    /\ sup \in Commands \cup Cleanup \cup {"none", "boot", "sleep"}
    /\ ret \in Commands \cup {"none"}
    /\ running \subseteq Pids /\ {child, target, pidFile} \subseteq Pids \cup {0}
    /\ young \cup group \cup stuck \cup lost \subseteq running
    /\ {managed, leaving, result, failed, term, unheeded, stopFile, edge,
        byHand} \subseteq BOOLEAN
    /\ hung \in [Fixed -> {"no", "known", "lost"}]

Init ==
    /\ managed \in BOOLEAN
    /\ unit = "off" /\ leaving = FALSE /\ result = TRUE
    /\ script = "none" /\ step = "finish" /\ cause = "operator" /\ failed = FALSE
    /\ target = 0 /\ last = "none"
    /\ sup = "none" /\ ret = "none" /\ term = FALSE /\ child = 0
    /\ running = {} /\ young = {} /\ group = {} /\ stuck = {} /\ lost = {}
    /\ unheeded = FALSE /\ pidFile = 0 /\ stopFile = FALSE
    /\ edge = FALSE /\ byHand = FALSE /\ hung = [x \in Fixed |-> "no"]

-----------------------------------------------------------------------------
(* MediaMTX processes *)

\* Those in S end.
MediaEnd(S) ==
    /\ running' = running \ S /\ young' = young \ S /\ group' = group \ S
    /\ stuck' = stuck \ S /\ lost' = lost \ S

\* The number of p is on no file any more.
Forget(p) == lost' = lost \cup ({p} \cap running) /\ UNCHANGED <<running, young, group, stuck>>

MediaExits(p) ==
    /\ p \in running /\ MediaEnd({p})
    /\ UNCHANGED <<unitVars, scriptVars, supVars, unheeded, fileVars, otherVars>>

Exec(p) ==
    /\ p \in young /\ young' = young \ {p}
    /\ UNCHANGED <<unitVars, scriptVars, supVars, running, group, stuck, lost, unheeded,
                   fileVars, otherVars>>

-----------------------------------------------------------------------------
(* mediamtx-supervisor.sh *)

SupUnchanged == UNCHANGED <<unitVars, scriptVars, otherVars>>

\* A command, unless a signal is to be handled first.
Does(from, to) == sup = from /\ ~term /\ sup' = to /\ UNCHANGED term

Quietly == UNCHANGED <<ret, child, mediaVars, unheeded>>

SetTraps == Does("boot", "trapped") /\ Quietly /\ UNCHANGED fileVars

ForgetStop == Does("trapped", "test") /\ stopFile' = FALSE /\ Quietly /\ UNCHANGED pidFile

TestStop ==
    Does("test", IF stopFile THEN "leave" ELSE "fork") /\ Quietly /\ UNCHANGED fileVars

Fork(p) ==
    /\ Does("fork", "save") /\ p \notin running
    /\ child' = p /\ running' = running \cup {p} /\ young' = young \cup {p}
    /\ group' = IF byHand THEN group ELSE group \cup {p}
    /\ UNCHANGED <<ret, stuck, lost, unheeded, fileVars>>

SaveChild == Does("save", "write") /\ Quietly /\ UNCHANGED fileVars

WritePid == Does("write", "wait") /\ pidFile' = child /\ Quietly /\ UNCHANGED stopFile

\* `wait' returns when MediaMTX has exited, or because a trap has run.
Reap ==
    /\ sup = "reap" \/ (sup = "wait" /\ child \notin running)
    /\ ~term /\ sup' = "decide"
    /\ child' = 0 /\ pidFile' = 0 /\ UNCHANGED <<ret, term, mediaVars, unheeded, stopFile>>

Decide ==
    Does("decide", IF stopFile THEN "leave" ELSE "sleep") /\ Quietly /\ UNCHANGED fileVars

\* The back-off, 1 to 15 s; a trap waits for its end.
Sleep == sup = "sleep" /\ sup' = "test" /\ Quietly /\ UNCHANGED <<term, fileVars>>

\* The end of the script runs the trap for EXIT.
Leave ==
    /\ Does("leave", "touch") /\ ret' = "none" /\ pidFile' = 0
    /\ UNCHANGED <<child, mediaVars, unheeded, stopFile>>

Trap ==
    /\ term /\ sup \in Commands
    /\ term' = FALSE /\ sup' = "touch" /\ ret' = IF sup = "wait" THEN "reap" ELSE sup
    /\ UNCHANGED <<child, mediaVars, unheeded, fileVars>>

\* cleanup: the sentinel (best effort), then the end of a child that is known and has
\* exec'd; another's command line is not MediaMTX's, and it is ignored.
CleanupTouch(ok) ==
    /\ sup = "touch" /\ stopFile' = (stopFile \/ ok)
    /\ sup' = IF child \in running \ young /\ ret # "save" THEN "drain" ELSE "unlist"
    /\ unheeded' = (unheeded \/ (child \in young /\ ret = "reap" /\ ~stopFile'))
    /\ UNCHANGED <<ret, term, child, mediaVars, pidFile>>

CleanupDrain ==
    /\ sup = "drain" /\ child \notin running /\ sup' = "unlist"
    /\ Quietly /\ UNCHANGED <<term, fileVars>>

\* A child that was ignored is lost, unless it is yet to be recorded.
CleanupUnlist ==
    /\ sup = "unlist" /\ pidFile' = 0 /\ sup' = ret /\ ret' = "none"
    /\ IF ret \in Unrecorded THEN UNCHANGED mediaVars ELSE Forget(child)
    /\ UNCHANGED <<term, child, unheeded, stopFile>>

Supervisor ==
    /\ \/ SetTraps \/ ForgetStop \/ TestStop \/ SaveChild \/ WritePid \/ Reap \/ Decide
       \/ Sleep \/ Leave \/ Trap \/ CleanupDrain \/ CleanupUnlist
       \/ \E p \in Pids : Fork(p)
       \/ \E ok \in BOOLEAN : CleanupTouch(ok)
    /\ SupUnchanged

-----------------------------------------------------------------------------
(* start.sh and stop.sh *)

\* The supervisor's process is gone; its MediaMTX is not.
SupEnds == sup' = "none" /\ ret' = "none" /\ term' = FALSE /\ child' = 0

\* The manager runs, and the script that runs is its own.
Service == unit \in {"busy", "up"}

\* systemd kills what is left in the service's control group when its manager has ended.
GroupKilled ==
    /\ MediaEnd(group \ stuck)
    /\ IF byHand THEN UNCHANGED <<supVars, edge>> ELSE SupEnds /\ edge' = FALSE

\* The result is success only after a stop that was asked for, with nothing left behind
\* (of what start.sh has lost track of, MediaMTX alone is followed here).
ManagerExits(ok) ==
    /\ unit' = IF leaving THEN "off" ELSE "wait"
    /\ leaving' = FALSE /\ UNCHANGED managed
    /\ GroupKilled
    /\ result' = (ok /\ group' = {})

Runs(s, to) == script = s /\ step = to

GoesTo(to) == step' = to /\ UNCHANGED <<script, cause, last>>

ScriptEnds ==
    script' = "none" /\ step' = "finish" /\ cause' = "operator" /\ failed' = FALSE

Begins(s, why) == script' = s /\ step' = "edge" /\ cause' = why /\ failed' = FALSE

\* A process survives KILL.  stop.sh keeps its pid file and reports it; start.sh removes
\* the file.  (At most one of each kind is stuck.)
KillOf(x, dies) ==
    /\ failed' = (failed \/ ~dies)
    /\ IF dies THEN hung' = [hung EXCEPT ![x] = IF @ = "known" THEN "no" ELSE @]
       ELSE /\ hung[x] # "lost"
            /\ hung' = [hung EXCEPT ![x] = IF script = "start" THEN "lost" ELSE "known"]

StopEdge(dies) ==
    /\ script # "none" /\ step = "edge" /\ edge' = FALSE
    /\ dies \/ edge \/ hung["edge"] = "known"
    /\ KillOf("edge", dies)
    /\ GoesTo(IF script = "stop" THEN "touch" ELSE "sup")
    /\ UNCHANGED <<unitVars, target, supVars, mediaVars, unheeded, fileVars, byHand>>

TouchStop(ok) ==
    /\ Runs("stop", "touch") /\ GoesTo("sup")
    /\ stopFile' = (stopFile \/ ok) /\ failed' = (failed \/ ~ok)
    /\ UNCHANGED <<unitVars, target, supVars, mediaVars, unheeded, pidFile, otherVars>>

\* Without its traps the supervisor just ends.
TermSupervisor ==
    /\ script # "none" /\ step = "sup"
    /\ IF sup = "boot" THEN SupEnds ELSE term' = (sup # "none") /\ UNCHANGED <<sup, ret, child>>
    /\ GoesTo("supwait")
    /\ UNCHANGED <<unitVars, failed, target, mediaVars, unheeded, fileVars, otherVars>>

\* Mutant: MediaMTX is stopped before its supervisor, and the stop is over then.
AfterSupervisorSkipped == IF script = "stop" THEN "finish" ELSE "media"

AfterSupervisor == "media"

\* It has ended, or is killed after three seconds; a stuck one executes nothing more.
SupervisorStopped(dies) ==
    /\ script # "none" /\ step = "supwait" /\ ~Recording
    /\ dies \/ sup # "none" \/ hung["sup"] = "known"
    /\ KillOf("sup", dies)
    /\ SupEnds /\ GoesTo(AfterSupervisor)
    /\ UNCHANGED <<unitVars, target, mediaVars, unheeded, fileVars, edge, byHand>>

AfterMedia == IF script = "stop" THEN "finish" ELSE "check"

\* stop.sh waits for the exec of a number that is on file; start.sh takes the number for
\* another process's and removes the file.
TermMedia ==
    /\ script # "none" /\ step = "media"
    /\ IF pidFile \in running \ young
       THEN target' = pidFile /\ GoesTo("mediawait") /\ UNCHANGED <<mediaVars, pidFile>>
       ELSE /\ pidFile \in young => script = "start"
            /\ GoesTo(AfterMedia) /\ pidFile' = 0 /\ Forget(pidFile) /\ UNCHANGED target
    /\ UNCHANGED <<unitVars, failed, supVars, unheeded, stopFile, otherVars>>

\* It has ended, is killed, or is stuck in the kernel.  stop.sh then keeps the pid file and
\* reports it; start.sh removes the file and trusts its look at the ports.
MediaStopped(dies) ==
    /\ script # "none" /\ step = "mediawait"
    /\ target \notin running => dies
    /\ IF dies THEN MediaEnd({target})
       ELSE /\ stuck' = stuck \cup {target}
            /\ lost' = IF script = "start" THEN lost \cup {target} ELSE lost
            /\ UNCHANGED <<running, young, group>>
    /\ failed' = (failed \/ ~dies)
    /\ pidFile' = IF dies \/ script = "start" THEN 0 ELSE pidFile
    /\ target' = 0 /\ GoesTo(AfterMedia)
    /\ UNCHANGED <<unitVars, supVars, unheeded, stopFile, otherVars>>

Report(ok) == IF ok THEN "ok" ELSE "failed"

\* stop.sh ends, and with it the manager that ran it.  A manager that was asked to leave
\* meanwhile runs it once more for that.
StopEnds ==
    /\ Runs("stop", "finish")
    /\ stopFile' = FALSE
    /\ IF leaving /\ cause # "term"
       THEN /\ Begins("stop", "term")
            /\ UNCHANGED <<unitVars, supVars, mediaVars, edge, last>>
       ELSE /\ ScriptEnds
            /\ IF Service
               THEN /\ ManagerExits(cause = "term" /\ ~failed)
                    /\ last' = IF leaving THEN Report(result') ELSE "none"
               ELSE /\ last' = IF cause = "start" THEN "none" ELSE Report(~failed)
                    /\ UNCHANGED <<unitVars, supVars, mediaVars, edge>>
    /\ UNCHANGED <<target, unheeded, pidFile, byHand, hung>>

\* Mutant: the ports are not looked at.
PortsFreeUnseen == TRUE

PortsFree == running = {} /\ hung["edge"] = "no"

\* A start is refused while a MediaMTX, the gateway or Caddy holds the ports.  A manager
\* that was asked to leave meanwhile runs stop.sh for that first.
CheckPorts ==
    /\ Runs("start", "check") /\ young = {} /\ stopFile' = FALSE
    /\ IF PortsFree
       THEN GoesTo("launch") /\ UNCHANGED <<unitVars, failed, supVars, mediaVars, edge>>
       ELSE IF Service /\ leaving
       THEN Begins("stop", "term") /\ UNCHANGED <<unitVars, last, supVars, mediaVars, edge>>
       ELSE /\ ScriptEnds /\ UNCHANGED last
            /\ IF Service THEN ManagerExits(FALSE)
               ELSE UNCHANGED <<unitVars, supVars, mediaVars, edge>>
    /\ UNCHANGED <<target, unheeded, pidFile, byHand, hung>>

Launch ==
    /\ Runs("start", "launch") /\ GoesTo("ready")
    /\ sup' = "boot" /\ edge' = TRUE /\ byHand' = ~Service
    /\ UNCHANGED <<unitVars, failed, target, ret, term, child, mediaVars, unheeded, fileVars,
                   hung>>

Ready ==
    /\ Runs("start", "ready") /\ sup # "none" /\ edge /\ pidFile \in running \ young
    /\ ScriptEnds
    /\ unit' = IF Service THEN "up" ELSE unit
    /\ UNCHANGED <<managed, leaving, result, target, last, supVars, mediaVars, unheeded,
                   fileVars, otherVars>>

\* The start has failed; stop.sh cleans up.  By hand beside the installed service that
\* only stops the idle service, and leaves what was started.
NotReady ==
    /\ Runs("start", "ready")
    /\ IF managed /\ ~Service
       THEN ScriptEnds /\ unit' = "off" /\ UNCHANGED <<managed, leaving, result>>
       ELSE Begins("stop", "start") /\ UNCHANGED unitVars
    /\ UNCHANGED <<target, last, supVars, mediaVars, unheeded, fileVars, otherVars>>

\* One of the processes is not there at a look after the first second.
Died == NotReady /\ (sup \in {"none", "sleep"} \/ ~edge)

\* Fifteen seconds were not enough.
TooSlow == NotReady /\ sup \notin {"none", "sleep"} /\ edge

Scripts ==
    \/ StopEdge(TRUE) \/ TouchStop(TRUE) \/ TermSupervisor \/ SupervisorStopped(TRUE)
    \/ TermMedia \/ MediaStopped(TRUE) \/ StopEnds \/ CheckPorts \/ Launch \/ Ready \/ Died

-----------------------------------------------------------------------------
(* The operator, the manager and systemd *)

ElseUnchanged == UNCHANGED <<target, supVars, mediaVars, unheeded, fileVars, otherVars>>

\* A start by hand is refused only while the service is active; so it may be between two
\* runs of the service, also while that waits for its restart.
StartByHand ==
    /\ script = "none" /\ ~Service
    /\ Begins("start", "operator") /\ last' = "none" /\ UNCHANGED unitVars
    /\ ElseUnchanged

\* systemctl start, or Restart=on-failure after three seconds.
StartService(from) ==
    /\ managed /\ script = "none" /\ unit = from /\ unit' = "busy" /\ result' = TRUE
    /\ Begins("start", "operator") /\ last' = "none"
    /\ UNCHANGED <<managed, leaving>> /\ ElseUnchanged

Restart == StartService("wait")

StopByHand ==
    /\ ~managed /\ script = "none"
    /\ Begins("stop", "operator") /\ UNCHANGED <<unitVars, last>> /\ ElseUnchanged

\* With the service installed stop.sh is systemctl stop, and reports what systemd says of
\* the service: also of one that is idle, whose stop does nothing.
StopService ==
    /\ managed
    /\ IF Service
       THEN ~leaving /\ leaving' = TRUE /\ UNCHANGED <<unit, last>>
       ELSE script = "none" /\ unit' = "off" /\ last' = Report(result) /\ UNCHANGED leaving
    /\ UNCHANGED <<managed, result, script, step, cause, failed>> /\ ElseUnchanged

\* The manager's trap, between its commands.
ManagerLeaves ==
    /\ Service /\ leaving /\ script = "none"
    /\ Begins("stop", "term") /\ UNCHANGED <<unitVars, last>> /\ ElseUnchanged

\* Mutant: only the supervisor is watched.
LossOfSupervisor == sup = "none"

Loss == sup = "none" \/ ~edge

ManagerPolls ==
    /\ unit = "up" /\ ~leaving /\ script = "none" /\ Loss
    /\ Begins("stop", "loss") /\ UNCHANGED <<unitVars, last>> /\ ElseUnchanged

\* The manager is killed, or takes longer than TimeoutStopSec to leave.  The files stay.
ManagerKilled ==
    /\ Service
    /\ ManagerExits(FALSE)
    /\ ScriptEnds /\ target' = 0 /\ last' = IF leaving THEN "failed" ELSE last
    /\ UNCHANGED <<unheeded, fileVars, byHand, hung>>

-----------------------------------------------------------------------------
(* What processes do by themselves *)

\* A MediaMTX that was told to exits; it need not.
MediaObeys(p) == (sup = "drain" /\ p = child) \/ (step = "mediawait" /\ p = target)

EdgeCrashes ==
    /\ edge /\ edge' = FALSE
    /\ UNCHANGED <<unitVars, scriptVars, supVars, mediaVars, unheeded, fileVars, byHand, hung>>

\* Killed: no trap runs.
SupervisorCrashes ==
    /\ sup # "none" /\ SupEnds
    /\ IF Recording THEN Forget(child) ELSE UNCHANGED mediaVars
    /\ UNCHANGED <<unitVars, scriptVars, unheeded, fileVars, otherVars>>

\* What survived KILL ends when the kernel lets it.
Loosen(x) ==
    /\ hung[x] # "no" /\ hung' = [hung EXCEPT ![x] = "no"]
    /\ UNCHANGED <<unitVars, scriptVars, supVars, mediaVars, unheeded, fileVars, edge, byHand>>

Loosens == (\E p \in stuck : MediaExits(p)) \/ \E x \in Fixed : Loosen(x)

Faults ==
    \/ ManagerKilled \/ EdgeCrashes \/ SupervisorCrashes
    \/ \E p \in Pids : MediaExits(p) /\ ~MediaObeys(p)
    \/ MediaStopped(FALSE) \/ TouchStop(FALSE) \/ StopEdge(FALSE) \/ SupervisorStopped(FALSE)
    \/ TooSlow

Obeys == \E p \in Pids : (MediaObeys(p) /\ MediaExits(p)) \/ Exec(p)

\* Everything that goes on without the operator and without faults.
Goes ==
    \/ Supervisor \/ Scripts \/ Obeys \/ Loosens
    \/ ManagerLeaves \/ ManagerPolls \/ Restart

Operator == StartByHand \/ StartService("off") \/ StopByHand \/ StopService

Next == Goes \/ Faults \/ Operator

Spec == Init /\ [][Next]_vars

\* Every process runs and obeys, timers fire and systemd restarts.
FairSpec ==
    /\ Spec
    /\ WF_vars(Supervisor) /\ WF_vars(Obeys) /\ WF_vars(Loosens) /\ WF_vars(Scripts)
    /\ WF_vars(ManagerLeaves \/ ManagerPolls \/ Restart)

-----------------------------------------------------------------------------
(* What the operator may rely on *)

\* A stop that reports success has left nothing running of what it stops, and nothing that
\* could start it again, whatever the supervisor was about to do when its signal came;
\* only then are the publishing credentials cleared (stop.sh:235).  With the service
\* installed it stops the service, and not a stack started by hand beside it.  Without,
\* it stops everything but what nobody knows any more (`lost'): a MediaMTX whose
\* supervisor was killed before recording it or was told to end before it exec'd, and
\* what start.sh removed the pid file of while it was stuck or young (start.sh:543).
StopMeansStopped ==
    last = "ok" /\ script = "none" =>
        /\ \A x \in Fixed : hung[x] # "known"
        /\ IF managed THEN group = {} /\ (byHand \/ (sup = "none" /\ ~edge))
           ELSE running \subseteq lost /\ sup = "none" /\ ~edge

\* The last lines of a start name the way to stop it (start.sh:854): after a stop that
\* reports success nothing of it is up.
StopStopsWhatStarted == last = "ok" /\ script = "none" => sup = "none" /\ ~edge

\* There is never a second MediaMTX, whatever was left behind by crashes, failed stops
\* and process numbers that were given out again; unless a supervisor was told to end
\* before its MediaMTX exec'd and could not leave the sentinel that ends its own loop.
OneMediaServer == unheeded \/ Cardinality(running) <= 1

\* When faults cease and the operator lets it run, the supervised MediaMTX is up again,
\* and the service is complete, whichever of its processes had died; unless a MediaMTX
\* that a run by hand has lost holds the ports.
Settled ==
    /\ sup # "none" => running # {}
    /\ \/ unit = "off" \/ (unit = "up" /\ sup # "none" /\ edge)
       \/ running \ group # {}

StackComesBack == <>[][Goes]_vars => <>[]Settled
=============================================================================
