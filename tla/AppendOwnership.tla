-------------------------- MODULE AppendOwnership --------------------------
(***************************************************************************)
(* The deadline of an append to a SourceBuffer, as withAppendOwnership of  *)
(* src/web/hls-weak-network-policy.js binds it: each execution of an       *)
(* append has an owner, with a timer and listeners of its own.  hls.js     *)
(* itself keeps the deadline on the track and clears it through the head   *)
(* of its queue of operations, which need not be the append that runs.     *)
(*                                                                         *)
(* One track.  Of hls.js (external): its listeners on the buffer were      *)
(* added first; at the end of an update it completes the head of the       *)
(* queue, shifts it and executes the next one; a blocker can get before    *)
(* the head while an update runs, and the operation behind it may then be  *)
(* executed again; it executes nothing while an event of the buffer is     *)
(* outstanding.  The browser dispatches `updateend' in a task after        *)
(* `updating' became false, to the listeners there were when the dispatch  *)
(* began and that nobody has removed since.                                *)
(***************************************************************************)
EXTENDS Integers

CONSTANTS
    Appends,          \* operations
    Blocker, Flush,   \* operations that are no appends; a flush updates the buffer too
    Nothing,          \* the queue is empty
    MaxRuns           \* bound: executions of appends

ASSUME OperationsAssumption == Appends \cap {Blocker, Flush, Nothing} = {} /\ Blocker # Flush
ASSUME BoundAssumption == MaxRuns \in Nat

VARIABLES
    head,             \* currentOp
    runs, op,         \* executions so far, and the operation of each
    buffer,           \* "idle", "busy" (updating), "ended" or "failed": its event is queued
    work,             \* the execution the buffer is busy with, or 0
    owner,            \* appendOwners.get(type): an execution or 0
    timers,           \* executions whose timer is set
    listening,        \* executions whose listeners are on the buffer
    fired, aborted    \* history: executions whose timer fired; and was acted on

queueVars == <<head, runs, op>>
ownerVars == <<owner, timers, listening>>
historyVars == <<fired, aborted>>

vars == <<queueVars, buffer, work, ownerVars, historyVars>>

Runs == 1 .. MaxRuns

TypeOK ==
    /\ head \in Appends \cup {Blocker, Flush, Nothing}
    /\ runs \in 0 .. MaxRuns /\ op \in [Runs -> Appends \cup {Nothing}]
    /\ buffer \in {"idle", "busy", "ended", "failed"}
    /\ work \in 0 .. runs /\ owner \in 0 .. runs
    /\ timers \subseteq listening /\ listening \subseteq 1 .. runs
    /\ aborted \subseteq fired /\ fired \subseteq 1 .. runs

Init ==
    /\ head = Nothing /\ runs = 0 /\ op = [r \in Runs |-> Nothing]
    /\ buffer = "idle" /\ work = 0
    /\ owner = 0 /\ timers = {} /\ listening = {}
    /\ fired = {} /\ aborted = {}

-----------------------------------------------------------------------------

\* clearBufferAppendTimeoutId: the owners of the track are finished.
Owned == IF owner = 0 THEN {} ELSE {owner}

\* The owners in `done' finish: their timers, their listeners, and their place in the map.
Finish(done) ==
    /\ owner' = IF owner \in done THEN 0 ELSE owner
    /\ timers' = timers \ done /\ listening' = listening \ done

\* Mutant: a listener finishes whichever append owns the track by then.
FinishOwner(heard, removed, started) == IF heard = {} THEN {} ELSE started

\* Mutant: without listeners of its own an append is completed by the queue alone.
FinishNobody(heard, removed, started) == {}

\* The executions that finish themselves on an event: their listeners were there when it
\* came and are still; those of the append `started' while it is dispatched were not.
Finishers(heard, removed, started) == heard \ removed

\* The next operation is executed on a buffer at rest, once the owners `cleared' are
\* finished.  appendExecutor finishes the owner there is, becomes the owner and arms its
\* deadline; when appendBuffer throws it has finished itself, and hls.js moves on.
Execute(next, throws, cleared, heard) ==
    LET r       == runs + 1
        retired == cleared \cup Owned
        over    == Finishers(heard, retired, {r})
    IN  IF next \notin Appends
        THEN /\ head' = next
             /\ buffer' = IF next = Flush THEN "busy" ELSE "idle"
             /\ work' = 0
             /\ Finish(cleared \cup Finishers(heard, cleared, {}))
             /\ UNCHANGED <<runs, op>>
        ELSE /\ r \in Runs /\ runs' = r /\ op' = [op EXCEPT ![r] = next]
             /\ IF throws
                THEN /\ head' = Nothing /\ buffer' = "idle" /\ work' = 0
                     /\ Finish(retired \cup over)
                ELSE /\ head' = next /\ buffer' = "busy" /\ work' = r
                     /\ owner' = IF r \in over THEN 0 ELSE r
                     /\ timers' = ((timers \ retired) \cup {r}) \ over
                     /\ listening' = ((listening \ retired) \cup {r}) \ over

\* An operation arrives at an empty queue, or takes the place of a blocker.
Enqueue(next, throws) ==
    /\ buffer = "idle"
    /\ Execute(next, throws, {}, {})
    /\ UNCHANGED historyVars

\* A blocker before the head of a running update, and its removal.
Block ==
    /\ buffer = "busy" /\ head' \in {Blocker, IF work = 0 THEN Flush ELSE op[work]}
    /\ UNCHANGED <<runs, op, buffer, work, ownerVars, historyVars>>

Settles ==
    /\ buffer = "busy" /\ buffer' \in {"ended", "failed"} /\ work' = 0
    /\ UNCHANGED <<queueVars, ownerVars, historyVars>>

\* What completing, or failing, the head of the queue clears.
ClearedByHead == IF head \in Appends THEN Owned ELSE {}

\* The event `updateend': hls.js first, then the listeners that are left.
UpdateEnd(next, throws) ==
    /\ buffer = "ended"
    /\ IF head = Nothing
       THEN /\ buffer' = "idle" /\ Finish(Finishers(listening, {}, {}))
            /\ UNCHANGED <<queueVars, work>>
       ELSE Execute(next, throws, ClearedByHead, listening)
    /\ UNCHANGED historyVars

\* The event `error', which `updateend' follows.
UpdateError ==
    /\ buffer = "failed" /\ buffer' = "ended"
    /\ Finish(ClearedByHead \cup Finishers(listening, {}, {}))
    /\ UNCHANGED <<queueVars, work, historyVars>>

\* Mutant: the buffer is not asked whether it is still updating.
CurrentIfOwner(e) == owner = e /\ head = op[e]

\* The deadline counts for the owner of the track, at the head, while the buffer updates.
Current(e) == owner = e /\ head = op[e] /\ buffer = "busy"

\* The deadline: appendTimeoutHandler aborts the update and fails the head.
TimerFires(e) ==
    /\ e \in timers
    /\ fired' = fired \cup {e}
    /\ Finish({e})
    /\ IF Current(e)
       THEN aborted' = aborted \cup {e} /\ buffer' = "ended" /\ work' = 0
       ELSE UNCHANGED <<aborted, buffer, work>>
    /\ UNCHANGED queueVars

\* removeBuffer of the track, or destroy of the controller.
Reset ==
    /\ Finish(Owned)
    /\ head' = Nothing /\ buffer' = "idle" /\ work' = 0
    /\ UNCHANGED <<runs, op, historyVars>>

Next ==
    \/ \E next \in Appends \cup {Blocker, Flush, Nothing}, throws \in BOOLEAN :
          Enqueue(next, throws) \/ UpdateEnd(next, throws)
    \/ Block \/ Settles \/ UpdateError \/ Reset
    \/ \E e \in Runs : TimerFires(e)

Spec == Init /\ [][Next]_vars

-----------------------------------------------------------------------------
(* What ownership promises *)

\* Only the append that runs may be aborted by its own deadline (README.md:315): never an
\* idle buffer, a flush, or the append that came after it.
AbortsOnlyItsOwnWork ==
    [][\A e \in aborted' \ aborted : buffer = "busy" /\ work = e]_vars

\* An append that runs has its deadline, whatever was completed, blocked or executed
\* around it, until that deadline fires.
DeadlineKept ==
    work # 0 /\ work \notin fired => owner = work /\ work \in timers /\ work \in listening

\* No deadline is left behind: there is at most that of the owner, and none on a buffer at
\* rest, also when the head of the queue was not the append that ended.
NothingLeftBehind ==
    /\ timers \cup listening \subseteq {owner}
    /\ buffer = "idle" \/ (buffer = "busy" /\ work = 0) => owner = 0
=============================================================================
