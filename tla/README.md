# A verification project for the live streaming package

TLA+ models, model-checking runs and machine-checked proofs for the parts of the
package that have state worth getting wrong: the helper's WHEP gateway
(`src/src/helper.go`), the web player (`src/web/app.js` with
`src/web/hls-weak-network-policy.js`) and the scripts that start, watch and stop the
processes. Every definition is written from the source; `PROJECT.json` maps each one to
the lines it stands for.

## The system

A publisher (OBS) sends WHIP or RTMP to MediaMTX. Viewers load a page through Caddy;
the page plays WHEP (WebRTC) or LL-HLS. The helper process stands between Caddy and
MediaMTX: it serves the page, proxies LL-HLS and is the only way to MediaMTX's WHEP
endpoint. Shell scripts supervise the processes and install them under systemd.

| component | state it keeps | operations | interacts with |
|---|---|---|---|
| WHEP guard and gateway, `helper.go:1242-1928` | per-group posts and active counter, a lease per session path, stamp of the last sweep | create, PATCH, DELETE, keepalive, viewers list | player (HTTP), MediaMTX (HTTP), limiter |
| operation limiter, `helper.go:1086-1163`, `1652-1674` | per-group window and count, twice (burst, minute) | one hit per operation | gateway |
| SDP filter, addresses, `helper.go:1165-1240`, `1515-1595` | none | pure functions | gateway |
| HLS proxy and serving, `helper.go:840-1084`, `1934-2090` | GET limiter | rewrite headers, cookies | Caddy, MediaMTX |
| downloader, certificates, keys, `helper.go:91-656` | files | one-shot commands | file system |
| WHEP player, `app.js:1137-1515`, `1585-2103` | generation, mode, connection, session URL, six timers, recovery counter | start, replace, recover, fall back, stop | gateway, HLS player |
| HLS player, `app.js:131-1136`, `2105-2654` | hls.js instance, recovery tickets, source recovery epoch, safe point | start, error recovery, weak-network profile | policy, observer |
| weak-network policy, `hls-weak-network-policy.js` | sample windows, mode, path qualification, stall episodes, online edge | sample, enter, exit, requalify | HLS player |
| request observer (same file) | epoch, up to 32 active requests | begin, progress, end, idle | HLS player |
| append ownership, `hls-weak-network-policy.js:739-791` | owner of each track, its timer and listeners | execute, finish, deadline, reset | hls.js, SourceBuffer |
| supervisor, service manager, start and stop | pid file, stop file, back-off, credentials | start, watch, restart, stop, signal traps | processes, systemd |
| systemd install and uninstall | unit files and their ownership marks | install, roll back, remove | systemd |

What makes it hard: request handlers run concurrently and read the time once, before
they wait; leases expire in whichever handler happens to sweep; MediaMTX may refuse, time
out or name a path that is taken; the page has up to eight timers, three kinds of
watchdog, answers that arrive after their player is gone, a network that goes and comes
back, and a viewer who clicks at any time. Recovery work of the LL-HLS player is queued
and overtaken by other work; evidence about the network is gathered over many samples and
must not survive what invalidates it; hls.js calls back late, twice or out of order. On
the host a process may die between any two commands of a script.

What makes each correct: the guard counts every slot exactly once and never blocks a
group for slots nobody uses; only its owner or expiry ends a lease. The limiter never
lets more than twice its limit through and does not punish a client that waits as told.
The player deletes every backend session exactly once, is only one player at a time,
obeys the viewer's choice of mode, settles in AUTO, and always has something ahead of it
that ends a state without picture. A stalled LL-HLS player loads again and moves the viewer
back once per recovery at most; the weak-network profile is entered and left on evidence
of the present time and source only, and is left on a healthy line. A stop that reports
success has stopped the service or, where none is installed, all that has a pid file, and what
dies without being told to comes back.
`PROJECT.json` lists the hazards line by line with the property that covers each.

## Modules

**`WhepGateway`** is the guard and the handler. The mutex makes one guard call atomic,
so an action is one critical section of one handler: `Arrive` reads the clock,
`Throttled` stands for a limiter refusal, `TouchSession`, `OwnsSession` and the four
`Reserve...` actions are the guard calls on entry (each with the sweep that opens them:
`SweptSessions`, `SweptActive`, `SweptPosts`, `SweptClients`), `BodyFails`, `Forward`,
`BackendFails`, `BackendRejects`, `CreateUnusable`, `CreateAnswered`, `PatchAnswered` and
`DeleteAnswered` are the exits of `ServeHTTP`. A request that stops before the guard
changes nothing and is left out. A handler's stamp may be up to `MaxLag` old at its
first guard call and `MaxHold` at its last; the assumption `MaxHold <= SessionTTL`
is what the 15 s read timeout, the 20 s backend timeout and the lease time give. An
action that writes the guard's state keeps the code's order of checks: the table, the
pruning, the active limit, the windows. `clients` holds the groups with an entry; a
group that is not in it has an empty entry in `posts` and `active`.

**`WhepCreateWindow`** adds the history of granted creates, to state the rolling windows
without the pruned lists that implement them.

**`SlotPool`** is what the guard promises in terms of slots: tickets (creates under way)
and leases. **`WhepSlotRefinement`** maps the gateway to it: the tickets of a group are
its creates between reservation and answer, its leases the paths in the session table.

**`OperationLimiter`** is `hitAt` and `allowOperationAt`. The two limiters have a mutex
each, so a hit is an action and other requests run between the two. Counts saturate one
above the limit: the code only compares a count with the limit.

**`WhepPlayer`** is the page's WHEP side. A step is one JavaScript task: a click, a timer,
an event or the continuation of an await. An attempt is known by the generation that
started it, and `IsCurrent` is `isCurrentConnection`. `StopCurrentPlayer` and `StartWhep`
or `StartHls` happen inside the actions that call them, as in the code. Abstracted:
delays (a pending timer fires at any time, except the connect watchdog, which is armed
later than the setup timer and for the same 15 s); the body of `startAuto`, whose own
increment of the generation happens in the task that increments it again; the HLS
player, of which only its way back to WHEP is left (`HlsGivesUp`, which is
`HandOver` of `HlsRecovery`); the backend's
sessions (a keepalive may be told 404 at any time); pause, seek, sound and status
texts. The browser has `RTCPeerConnection`. A watchdog report for an older generation
is dropped when the generation changes, since its first comparison discards it.

**`HlsRecovery`** is the LL-HLS player: its start, its reaction to errors of hls.js, the queue
of recovery work, the weak profile with its one backtrack, the smooth catch-up and the
hand-over to WHEP. A step is one JavaScript task. A recovery timer holds the
`hlsRecoveryWorkVersion` it was made under and does nothing under another; `due` counts
the timers that hold the present one. Of hls.js, four facts are used: a fatal error of any
type stops its loading before the page hears of it, `startLoad(-1)` resumes it once the
manifest is known, `loadSource` forgets the manifest, and `PLAYLIST_UNCHANGED` is never
fatal. After a fatal media error the page calls `recoverMediaError`, unless the codec
cannot be played, and after one of another type it only shows a message; whether hls.js
resumes its loading by itself is a choice (1.7.3, vendored in `src/web`, loads on the
fragments it knows but does not restart the playlist). `navigator.onLine` changes
in the task of its event. What the policy measured is one bit, `fresh`; `RecoveryEvidence`
says when it may be set. Left out: `beforeunload`, native HLS, the hard resync.

**`RequestObserver`** wraps the loaders of one hls.js instance. Native callbacks come in any
order, too late, and repeatedly; a step ends where the code calls out, so that a callback
may replace the player before the code goes on. The idle action is switched off in the
shipped page (`HLS_BODY_IDLE_RECOVERY_ENABLED`, `app.js:17`); the model has both, the run
switches it on.

**`AppendOwnership`** is the deadline of each append on one track. The queue of operations of
hls.js and the browser's dispatch of `updateend` are external; the module's header names
what is assumed of them.

Three modules model the policy, each one question of it. A stamp of the code is its age
here, saturating where the code no longer tells ages apart, so time has no horizon.

- **`RecoveryEvidence`**: what leaves the weak profile. The ratio of rates and the buffer are the
  classes that the thresholds make. History variables keep the samples since the last trouble
  (`calm`, `low`) and whether media arrived and playback advanced since the last
  interruption (`arrived`, `played`); the code has counters and stamps instead.
- **`StallEpisodes`**: what repeated stalls enter it. `real` keeps the physical stalls,
  which the code must infer from several kinds of events; the confirmation of the page
  (`app.js:1083`) is part of the model. A `stalled` event without `waiting` leaves its
  episode open until the next `playing`, after the page's own backtrack an episode stays
  open in weak mode only, and an exit clears everything.
- **`RttEvidence`**: the baseline of request times, entry by slow requests, and the
  requalification of a path whose usual times have changed. A time is a level of 100 ms;
  what is learned from several requests may be any level in their range. The levels
  end at the cap, although the code bounds a reference learned in the normal profile by none;
  no property depends on one above it.

Each has a specification of its own (`Spec`, `StallSpec`, `RttSpec`) and no name in common with
the others, so that their proofs share a module.

**`ServiceStack`** is the process side: `start.sh`, `stop.sh`, the supervisor of MediaMTX with its
signal traps, the service manager's poll, and systemd as the unit configures it. A step is one
command of a script. Process numbers are reused. The gateway and Caddy, which the scripts
treat alike, are one process `edge`. Where the service is installed the stack may also be
started by hand while the service is not active (`byHand`); `group` is what systemd
would kill with it. Any process may be killed between two steps, and MediaMTX, supervisor or edge
may survive KILL for a while (`stuck`, `hung`, at most one of the last two kinds each). A forked MediaMTX is
`young` until it execs, and a signal may find it so. Four facts about time are in the
header: the pause between TERM and KILL is longer than the commands that record a new
MediaMTX, the cleanup waits longer than that, a recorded MediaMTX execs within the second
`stop.sh` gives it, and one that runs has its ports when a start looks for them. Left out: two
scripts at a time, a script killed by hand midway, a `systemd-notify` that fails, and
`stop.sh --preserve-credentials` by hand.

The theorems are in modules of their own, named after the module they are about
(`WhepGatewayProofs`, with the rolling windows and the refinement, `OperationLimiterProofs`,
`WhepPlayerProofs`, `HlsRecoveryProofs`, `RequestObserverProofs`, `AppendOwnershipProofs`,
`WeakPolicyProofs`, with the three modules of the policy, `ServiceStackProofs`). The `MC...` modules hold
the values of constants that a configuration cannot write, and two of them a specification for TLC
with a bound or a choice of its own (`MCWhepPlayer`, `MCWeakPolicy`).

## Runs

Deadlock is checked in every run; only the unattended page of `MCWhepPlayer`, where AUTO has nothing
left to try, is allowed to rest. An invariant that is proved and says little on a small
instance beyond that, such as most type invariants, is not repeated in a run.

| run | what it shows | bounds and why they are enough |
|---|---|---|
| `slots` | slots are counted exactly, the limit holds, a sweep leaves nothing expired, a refusal is justified, a lease is changed by its owner or expiry only, an evicted group held nothing; the gateway implements `SlotPool` | two handlers (every hazard is a race of two), three addresses in two groups (a neighbour of the same group, and a stranger), two paths, one slot and one table entry so that both limits bite, a lease time of 2 and a horizon of 5 so that leases expire under a request and sweeps run twice |
| `create_window` | rolling windows | one group, windows of 2 and 4, limits of 2 and 3, a lag of 1 so that stamps are out of order, a horizon of two minute windows |
| `operation_limiter` | twice the limit at most, running windows kept, the wait is enough | two groups for a table of one entry, a burst window of 5 with a limit of 2, stamps a tick late, a horizon of 7: two full burst windows meet with three of the four operations allowed, which is the most there can be, since the operation that opens a window is never near the next one. The minute limit of 4 in a window of 6 is wide enough to let them; the minute limiter is the same code with its own constants. Windows of both end and are cleaned up by the other group's hit; that a third handler's hit with an old stamp does not shorten a wait is left to the proof `WaitsAreEnough` |
| `player` | sessions deleted once, one player, a manual mode stays, AUTO never strands; AUTO returns from HLS to WHEP once, and remembers it | `AttendedGens`, three generations on a page where anything may happen: one player, its replacement and a third, started by any cause (a fourth was also run, 7.2 million states, and shows nothing new); `MaxGen`, five where nobody clicks and the network stays, so that a second return is possible (WHEP, HLS, WHEP, HLS, WHEP); a click on AUTO rightly starts the count anew, and `AutoComesToRest` proves the property with clicks and for any number of generations |
| `player_offline` | the finding below | three generations |
| `hls_recovery` | a player stopped by a failed request has something ahead, and loads again; one backtrack per chain; one writer of the rate | two timers of one version (one runs, one finds its work done) and two of the safe-point attempts (one waits, one gives up); no other bound: episodes, errors and outages repeat for ever |
| `request_observer` | each end heard once, by a current player only; telemetry is of its epoch | three requests for two places, so that one is not observed; two resets, so that a request outlives more than one |
| `append_ownership` | a running append keeps its deadline, nothing else is aborted, nothing is left behind | two appends executed four times in all: an append executed again while the other one's deadline is pending |
| `weak_policy` | no credit from before an interruption, exits are earned, a healthy line leaves the profile; an entry by stalls needs two physical ones, a lull ends an episode | the exit: counts and ages in the order of the code's constants, scaled down; the two ways out differ in each of them. The entry: the code's times in ticks of half a second, the window shortened to three times the dedup time. The two share no variable, so `MCWeakPolicy` runs the one or the other, never both |
| `rtt_evidence` | references are of the present scope, validated before use; the exit's evidence is a run; a profile whose reference is out of reach can be left | three levels (under, at and over the cap), counts of 2, both kinds of request |
| `service_stack` | a stop that reports success has stopped what it stops, one MediaMTX at a time, the stack comes back | installed as a service or not, with runs by hand beside it; two process numbers, so that a number is given out again while a file still has it, or a second MediaMTX could run |
| `manual_stop` | fails: a stack started by hand outlives the stop that its start names | the same constants, no faults |

**Fairness.** Most properties are safety, and `AutoNeverStranded` and `RecoveryAhead` state as invariants
that something is pending. Four runs check liveness:

- `StoppedPlayerResumes`: weak fairness of the two timer actions of `HlsRecovery`. A timer
  of the page fires; neither answers nor the network are promised, which is why the
  conclusion also admits that the page is offline or on WHEP.
- `HealthyLineRecovers`, `RttProfileCanBeLeft`: no fairness of actions. The premise describes
  the line: from some time on only undisturbed steps, and time goes on. Without it the
  profile is rightly kept.
- `StackComesBack`: weak fairness of the supervisor, of a process that execs or obeys its signal, of
  the kernel that lets go of what survived KILL, of
  the running script and of the manager with systemd's `Restart=`. Processes run; a task is not
  uninterruptible for ever (one that is holds the ports, and no restart helps); that
  faults and the operator cease is the premise of the property.

`AtMostTwiceTheLimit` and the rolling windows are stated for windows shortened by the delay between
reading the clock and taking the lock. The comment at `helper.go:1320` calls the
limits exact; they are, up to that delay.

### Findings

`manual_stop` fails, by design. With the unit installed but idle, `start.sh` allows a start
by hand (`start.sh:40-46`; it foresees "a manual run between service runs", `594-596`) and
ends with "停止：sudo ./stop.sh" (`854`). That command then takes the branch of the unit
(`stop.sh:68-124`): `systemctl stop` of the idle service does nothing, its state is
inactive, dead and success, and `stop.sh` reports success, with `--clear-credentials` even
clears them, while the whole manual stack runs on. The start's own clean-up after a failure
(`start.sh:516-522`) goes the same way. `StopMeansStopped` therefore speaks of the service
where one is installed.

`player_offline` fails, by design. The offline message says that WebRTC will reconnect
once the network is back (`app.js:2783`). In manual WHEP mode, an attempt that was started
while the page was offline fails on its create request; the `catch` of `startWhep` then
sets `peerConnection` to null and schedules nothing (`app.js:2101`), and the `online`
handler recovers only a page with a `peerConnection` (`app.js:2803`). The page is online
with no player and nothing pending. In AUTO the catch schedules a recovery.

Observations that contradict no text: a recovery timer that fires while offline
does nothing and is gone (`app.js:838`), which is harmless when the `online` handler knows of
the outage, and leaves a player started offline for its watchdog (`RecoveryAhead` calls it
`unaware`); a reload whose confirmation falls due offline is given up (`app.js:868`,
`dropped`); a fatal media error of a codec that cannot be played and a fatal error of
another type leave a stopped player with a message (`app.js:2603`, `2616`), and
`recoverMediaError` leaves it to hls.js (`broken`), until a later request fails or the
network comes back; a loaded fragment does not clear `hlsServerFailureCount` (`app.js:2563`);
`start.sh:543` removes the pid file of a process that survives KILL, where `stop.sh:188`
keeps it and reports failure, and of a MediaMTX that has not exec'd, so without systemd a
later stop may report success over it (`lost`); a supervisor that is told to end before its
MediaMTX has exec'd takes it for another process (`mediamtx-supervisor.sh:26`) and removes its
pid file, with the same effect, and if it could not write the sentinel either, it goes on and
starts a second one (`unheeded`); the connect watchdog is nearly always preceded
by the setup timer; `beforeunload` stops the player even when the navigation is
cancelled; a create that MediaMTX accepted and the gateway refused, or whose answer was
lost, leaves the backend session to MediaMTX's own timeout; a refused burst operation
still consumes the minute budget, so `RetryIsEnough` speaks of the limits that refused.

## Proofs

**The gateway**, for any finite sets of groups, paths and handlers and any limits, under the
named assumptions of `WhepGateway` (`TableAssumption`, `LimitAssumption`,
`TimeAssumption`).

- `TypeCorrect`: `Spec => []TypeOK`. `TypeInv` adds `RequestShape`: a request under way
  names an address, and a path unless it is a create. One lemma per kind of step.
- `SlotsAccounted`: `Spec => []SlotAccounting`, the equation `active = creates in flight +
  leases` per group. It is inductive together with the types: the sweep subtracts the
  number of leases it drops (`SweepCount`, `SweepAccounts`), a reservation adds one
  holder, commit moves one, cancel and release remove one, and the guard `active > 0`
  never saturates because a holder is there to be removed.
- `ActiveLimitHolds`: `WithinActiveLimit` speaks of the holders, so it follows from the
  accounting and `ActiveBounded` (the counter is at most the limit), which is inductive
  given the types alone.
- `SweepsComplete`: the strengthening `TimeInv` says that a handler's stamp is not ahead of the clock and,
  by `MaxHold <= SessionTTL`, not older than the lease time; so a commit or a
  keepalive after a sweep cannot install a lease that the sweep should have ended.
- `RefusalsJustified`: a refusal counts the slots after its own sweep; accounting turns
  the count into holders and `SweepComplete` makes the leases among them fresh.
- `LeasesOwned`: an action property, one step per action, from `TimeInv`: what a sweep with
  an old stamp drops is expired for the clock too.
- `ForgottenHoldNothing`: inductive given the types. The sweep drops only groups whose counter and
  stamps it has emptied (`SweptForgotten`), a create enters its own group (`EnterForgets`),
  and what goes back to a group without slots leaves it without (`ReturnForgets`).

- `GatewayIsAPool`: `Spec => PoolSpec`, the refinement of `SlotPool`. A guard call that
  only sweeps is `Expire`, as is a release; a granted reservation is `Grant` together
  with what its sweep ended; a create that fails is `GiveBack`, a committed one
  `Establish`; everything else is a stutter. The pool's guard speaks of the holders and
  the code's of the counter after the sweep, so the accounting is what makes the step of
  `Grant` go through.
- `WindowsRoll`: `HSpec => []RollingWindows`, for all windows and limits of
  `WhepCreateWindow`. The code keeps a pruned list of stamps and the property speaks of
  the whole history. `HistoryInv` says that the list is always a latest part of the history,
  and that what was dropped is older than the minute window. A grant appends to both,
  and counts the part of the list in its window below the limit (`CountLatest`), which
  is all of the history there; a stamp out of order is at most `MaxLag` behind, hence
  the shortened window (`AppendRolls`).

**The player**, for any number `MaxGen` of start attempts. Two inductive invariants:

- `PlayerInv` says who holds what: `Handles` (a running attempt is the current one, the
  session is its own, the keepalive is the session's), `Ledger` (the released sessions
  are the known ones of attempts that are over, each with one DELETE), `Posts` (a
  session is known from an answer, which was asked for on a connection) and
  `Connections` (only the running attempt's is open). `SessionsReleasedOnce` alone is
  not inductive: without `Handles` a late answer could belong to an attempt that has
  already released its session. It gives `PlayerTypes`, `ReleasedOnce` and
  `DeletedNotUsed`.
- `ModeInv`, inductive given `PlayerInv`: `Quiet` (a page on HLS holds nothing of WHEP),
  `Pending` (a recovery that is due in AUTO is the present player's, so the timer will
  not be dropped as stale) and the three mode properties. It gives `PlayerIsOne`,
  `ChoiceStands`, `AutoComesToRest` and `AutoIsNeverStranded`.

Both are proved by one lemma per group of actions of `Next` (`Viewer`, `Timers`,
`AttemptSteps`, `Media`, `Outside`), and one step per action under it, over lemmas about
`StopCurrentPlayer`, `StartWhep`, `StartHls` and a failing attempt, which the actions share.

**The operation limiter**, for any windows, limits and table size. `LimiterInv` says that a
handler's stamp is never ahead of the clock (`Handlers`), so a window that still runs by
the clock runs for every hit as well, and neither a cleanup nor a hit ends it
(`WindowsKept`). `Bounded` is the size of the table, part of `LimiterTypes`. `WaitsAreEnough`
rests on `WaitInv`: a handler is not older than the lag (`Prompt`), and a limiter that has
refused a group keeps no entry of it, or the one it refused by, which is over in time, or one
that was opened later (`Covered`). A table that refused because it was full stays closed until its
next cleanup (`Closed`), which is what keeps a hit with an old stamp from opening a window
in between. The proof needs limits of at least one, which the code's constants are.

`TwiceTheLimitHolds` counts. A fixed window knows one number, the property speaks of the stamps
of all operations. `LedgerInv` divides the operations that a limiter let through for a group
into those of the present window, as many as its counter says, those of the window
before, at most the limit, and older ones; a dropped entry stands for a window that is over.
With the bounds on their stamps (`Split`), a set of operations that lie closer together than
the shortened window meets only two neighbours, so it has at most twice the limit of
members, and stays so when windows move on (`Thin`). Requests between their two hits are in
the ledger of the burst limiter and not yet in the minute limiter's, which is why the
ledger is about operations and not about the history alone.

**The LL-HLS player**, for any number of timers and attempts. `RecoveryInv` is the inductive form of
`RecoveryAhead`: an outage that was seen is remembered (`OfflineIsKnown`), a restart is
queued and evidence counts only with a manifest (`ManifestFirst`), and a player whose loading stopped
can resume or is owed a reload (`StoppedIsOwed`), with a timer or an event for it, unless an
error outside the recovery of requests stopped it (`broken`)
(`ResumesAhead`); `TimersHaveWork` is needed because a timer that finds no work is a lost
wake-up. `ProfileInv` has the budget of the
backtrack with its timers (`BudgetCounts`) and `OneRateWriter`, with `NoHlsNoProfile` for the
hand-over. Together they give `StoppedPlayerIsResumed`, `TimersStandForWork`,
`ChainBacktracksOnce`, `RateHasOneWriter` and, as an action property, `ReloadOutlastsRestart`.

**The request observer**, for any finite set of loaders. `ObserverInv` says what has been heard of a
request in each state of its record, that a sampled request is open and of its epoch, and that
`accepts()` vouches only for those; the action property `RetiredStaysDeaf` follows step by step.

**Append ownership**, for any set of appends and executions. `OwnershipInv`: an owner listens to
its buffer (`OwnersListen`), running work updates the buffer (`WorkUpdates`) and is the
owner's (`OwnerWorks`). The last is what a deadline needs to know before it aborts.

**The weak-network policy** is three models, proved in one module. *Recovery evidence*, for any
constants in the order of `TimeAssumption`: the counters of the exit
speak of the code's own stamps, the promise of the history. `EvidenceInv` ties them: a run of
`n` samples has lasted `n - 1` ticks (`Runs`), so an interruption that is younger has
reset it, and media or motion fresher than the run came after it (`Motion`, `Media`).
This yields `CreditIsNew` and `ExitsAreEarned`.

*Stall episodes*, for any times in the order of `StallAssumption`. In `StallsInv`, a confirmation that
is due was armed when playing resumed, and its timer and the lull add up to the
confirmation time (`ConfirmationRuns`); the catch-up ends only after more playing than that,
so that it finds no episode to void (`SettledIsCalm`); a physical stall that was counted keeps
its episode until a lull ends both (`CountedHasEpisode`); so an incident that the policy counts is
a physical stall of its own (`IncidentsAreReal`). This yields `LullsEndEpisodes` and, as an
action property, `EntriesAreEarned`. Most of it holds in the normal profile only: the page's own
backtrack leaves an episode open, and the exit clears it.

*Request times*, for any counts and times in the order of `RttAssumption`. The code keeps stamps and
counters, the promises speak of runs of requests. `RttInv`: evidence that counts has the stamp of the
last request, and was met with a reference of its kind and scope (`RunIsUnbroken`); a candidate
is the run of the last requests, whole segments of one scope, and exists only in a profile for
slow requests (`CollectedIsRun`), which an exit leaves without one. With `ReferenceIsCurrent`, inductive
with the types, it gives `ReferencesAreCurrent`, `ExitsRestOnRuns` and `ReferencesAreValidated`.

**The service stack**, for any set of process numbers. `StackInv`: what runs is the supervisor's own
MediaMTX, or one it ignored and then found the sentinel (`Quits`), or what a supervisor that is gone
has left (`OwnChild`, given `~unheeded`); without systemd what somebody knows of (`Known`, what runs
and is not `lost`) is in the pid file, unless it is just being recorded (`Recorded`); a script
that has passed the end of the supervisor has none to reckon with, and a stop without a failure
has left no survivor of KILL (`ScriptInv`); an idle service that ended with success has left
nothing, and a supervisor beside it is of a run by hand (`ServiceInv`, `Over`). It gives `MediaServerIsOne`
and `StopsAreStops`, with one lemma per process: the supervisor's commands and traps, the scripts, the
manager, and the faults. `Recorded` needs the header's facts about time: without them a stop could
pass while a new MediaMTX is being recorded.

Only model-checked is what the provers cannot do, liveness: `StoppedPlayerResumes`, `HealthyLineRecovers`,
`RttProfileCanBeLeft` and `StackComesBack`. Every invariant and every action property that a run checks is a theorem.

## Not modelled, and the plan

Left out for good: the Caddy configuration, packaging and diagnosis scripts, vendored
code, the downloader's parsing, key generation, header and cookie rewriting: no protocol
state. Still worth doing:

1. the counters by which bandwidth and a draining buffer enter the weak profile
   (`hls-weak-network-policy.js:253`); `HlsRecovery` lets it be entered at any time;
2. the HLS-first start of AUTO in browsers without `RTCPeerConnection`, its offline retry
   (`app.js:2656-2734`) and `beforeunload`;
3. `WhepEndToEnd`: player, gateway and backend, for the backend session that a failed create
   leaves alive (`helper.go:1889`), with an abstract specification of one session per player;
4. `UnitOwnership`: install, stability gate, roll back and uninstall, interrupted;
5. `SdpFilter`: the candidate filter against a reference definition;
6. the RTP reorder window that one of the MediaMTX patches changes.
