---------------------------- MODULE WhepGateway ----------------------------
(***************************************************************************)
(* The WHEP gateway of the helper process (src/src/helper.go): the guard   *)
(* table that owns per-viewer session slots, and the HTTP handler that     *)
(* reserves a slot, forwards the request to MediaMTX and then commits,     *)
(* cancels or releases it.  Every request runs in a goroutine of its own;  *)
(* the guard's mutex makes one guard operation atomic, so a step of this   *)
(* specification is one critical section of one handler.  A handler reads  *)
(* the time once, on entry, and uses that stamp for all its guard calls.   *)
(*                                                                         *)
(* Requests that never reach the guard (OPTIONS, a query string, a wrong   *)
(* media type, an unknown path) change no state and are left out.  The     *)
(* per-operation limiter is the module OperationLimiter; its refusal is the *)
(* nondeterministic Throttled here.  The backend may answer anything.      *)
(***************************************************************************)
EXTENDS Integers, Sequences, FiniteSets

CONSTANTS
    IPs,              \* full client addresses
    NoIP,             \* no address: an empty table cell
    Keys,             \* limiter groups: an IPv4 address or an IPv6 /64
    KeyOf,            \* the group of an address
    Paths,            \* public session paths /rtc/live/whep/<id>
    NoPath,           \* the path of a request that has none
    Reqs,             \* handler goroutines
    MaxActive,        \* active slots of one group
    MaxClients,       \* entries of the client table
    ShortWindow, ShortLimit, MinuteWindow, MinuteLimit,
    SessionTTL,       \* a lease not refreshed for longer is swept
    CleanupInterval,  \* the sweep runs at most once per interval
    MaxLag,           \* bound: from reading the clock to the first guard call
    MaxHold,          \* bound: from reading the clock to the response
    MaxTime           \* bound: horizon of the clock

ASSUME TableAssumption ==
    /\ IsFiniteSet(Keys) /\ IsFiniteSet(Paths) /\ IsFiniteSet(Reqs)
    /\ KeyOf \in [IPs -> Keys]
    /\ NoIP \notin IPs /\ NoPath \notin Paths

ASSUME LimitAssumption ==
    /\ MaxActive \in Nat /\ MaxClients \in Nat
    /\ ShortWindow \in Nat /\ ShortLimit \in Nat
    /\ MinuteWindow \in Nat /\ MinuteLimit \in Nat
    /\ SessionTTL \in Nat /\ CleanupInterval \in Nat \ {0}

ASSUME TimeAssumption ==
    /\ MaxLag \in Nat /\ MaxHold \in Nat /\ MaxTime \in Nat
    /\ MaxLag <= MaxHold /\ MaxHold <= SessionTTL
    /\ ShortWindow <= MinuteWindow /\ MinuteWindow <= CleanupInterval

VARIABLES
    clock,        \* the helper's monotonic clock
    clients,      \* groups that have an entry in the client table
    posts,        \* stamps of the creates accepted, per group
    active,       \* slots taken, per group
    sessions,     \* the lease of each path
    lastCleanup,  \* when the last sweep ran
    req           \* what each handler is doing

guardVars == <<clients, posts, active, sessions, lastCleanup>>
vars == <<clock, clients, posts, active, sessions, lastCleanup, req>>

Kinds == {"create", "keepalive", "patch", "delete"}

Idle == [pc |-> "idle", kind |-> "none", ip |-> NoIP, path |-> NoPath, now |-> 0]
NoLease == [ip |-> NoIP, lastSeen |-> 0]

Requests == [pc : {"idle", "arrived", "admitted", "forwarded"},
             kind : Kinds \cup {"none"},
             ip : IPs \cup {NoIP},
             path : Paths \cup {NoPath},
             now : Nat]
Leases == [ip : IPs \cup {NoIP}, lastSeen : Nat]

TypeOK ==
    /\ clock \in Nat
    /\ clients \in SUBSET Keys
    /\ posts \in [Keys -> Seq(Nat)]
    /\ active \in [Keys -> Nat]
    /\ sessions \in [Paths -> Leases]
    /\ lastCleanup \in Nat
    /\ req \in [Reqs -> Requests]

Init ==
    /\ clock = 0
    /\ clients = {}
    /\ posts = [k \in Keys |-> <<>>]
    /\ active = [k \in Keys |-> 0]
    /\ sessions = [p \in Paths |-> NoLease]
    /\ lastCleanup = 0
    /\ req = [r \in Reqs |-> Idle]

-----------------------------------------------------------------------------
(* The guard table *)

Monus(a, b) == IF a > b THEN a - b ELSE 0

Leased(p) == sessions[p].ip # NoIP

\* The scan drops stamps from the front while they are before the cutoff and stops
\* at the first that is not, whatever the order of the stamps behind it.
PruneTimes(stamps, cutoff) ==
    LET old == {i \in DOMAIN stamps : \A j \in 1 .. i : stamps[j] < cutoff}
    IN  SubSeq(stamps, Cardinality(old) + 1, Len(stamps))

SweepDue(now) == now - lastCleanup >= CleanupInterval

Expired(now) ==
    {p \in Paths : /\ SweepDue(now)
                   /\ Leased(p)
                   /\ now - sessions[p].lastSeen > SessionTTL}

ExpiredOf(k, now) == {p \in Expired(now) : KeyOf[sessions[p].ip] = k}

SweptSessions(now) ==
    [p \in Paths |-> IF p \in Expired(now) THEN NoLease ELSE sessions[p]]

\* Mutant: the sweep ends leases without counting them out.
SweptActiveLeaky(now) == active

SweptActive(now) ==
    [k \in Keys |-> Monus(active[k], Cardinality(ExpiredOf(k, now)))]

SweptPosts(now) ==
    IF SweepDue(now)
    THEN [k \in Keys |-> PruneTimes(posts[k], now - MinuteWindow)]
    ELSE posts

\* Mutant: a group without recent posts is evicted although it holds slots.
SweptClientsByPosts(now) ==
    IF SweepDue(now) THEN {k \in clients : SweptPosts(now)[k] # <<>>} ELSE clients

SweptClients(now) ==
    IF SweepDue(now)
    THEN {k \in clients : SweptActive(now)[k] > 0 \/ SweptPosts(now)[k] # <<>>}
    ELSE clients

\* Mutant: every guard call postpones the next sweep.
SweptCleanupAlways(now) == now

SweptCleanup(now) == IF SweepDue(now) THEN now ELSE lastCleanup

\* cleanupLocked as the whole effect of a guard call on the client table.
SweepClients(now) ==
    /\ clients' = SweptClients(now)
    /\ posts' = SweptPosts(now)
    /\ active' = SweptActive(now)
    /\ lastCleanup' = SweptCleanup(now)

-----------------------------------------------------------------------------
(* A request arrives and is admitted *)

Finish(r) == req' = [req EXCEPT ![r] = Idle]

Advance(r, pc) ==
    req' = [req EXCEPT ![r] = [pc |-> pc, kind |-> req[r].kind, ip |-> req[r].ip,
                               path |-> req[r].path, now |-> req[r].now]]

Arrive(r, kind, ip, path) ==
    /\ req[r].pc = "idle"
    /\ kind = "create" <=> path = NoPath
    /\ req' = [req EXCEPT ![r] = [pc |-> "arrived", kind |-> kind, ip |-> ip,
                                  path |-> path, now |-> clock]]
    /\ UNCHANGED <<clock, guardVars>>

\* allowOperation refuses: 429 before the guard is consulted.
Throttled(r) ==
    /\ req[r].pc = "arrived"
    /\ Finish(r)
    /\ UNCHANGED <<clock, guardVars>>

\* A keepalive is answered by the gateway itself, from the guard alone.
TouchSession(r) ==
    /\ req[r].pc = "arrived" /\ req[r].kind = "keepalive"
    /\ LET now == req[r].now
           p == req[r].path
           swept == SweptSessions(now)
       IN  /\ sessions' = IF swept[p].ip = req[r].ip
                          THEN [swept EXCEPT ![p] = [ip |-> req[r].ip, lastSeen |-> now]]
                          ELSE swept
           /\ SweepClients(now)
    /\ Finish(r)
    /\ UNCHANGED clock

OwnsSession(r) ==
    /\ req[r].pc = "arrived" /\ req[r].kind \in {"patch", "delete"}
    /\ LET now == req[r].now
           swept == SweptSessions(now)
       IN  /\ sessions' = swept
           /\ SweepClients(now)
           /\ IF swept[req[r].path].ip = req[r].ip
              THEN Advance(r, "admitted")
              ELSE Finish(r)
    /\ UNCHANGED clock

\* The viewers endpoint lists the sessions after a sweep of its own.
Snapshots ==
    /\ sessions' = SweptSessions(clock)
    /\ SweepClients(clock)
    /\ UNCHANGED <<clock, req>>

-----------------------------------------------------------------------------
(* reserveCreate: the checks in the order of the code *)

KeyOfReq(r) == KeyOf[req[r].ip]

\* What the create sees once the sweep and the pruning of its own group ran.
RecentPosts(r) ==
    PruneTimes(SweptPosts(req[r].now)[KeyOfReq(r)], req[r].now - MinuteWindow)

BurstPosts(r) == PruneTimes(RecentPosts(r), req[r].now - ShortWindow)

TableFull(r) ==
    /\ KeyOfReq(r) \notin SweptClients(req[r].now)
    /\ Cardinality(SweptClients(req[r].now)) >= MaxClients

\* Mutant: only established sessions count, not the creates in flight.
SlotsTakenByLeases(r) ==
    Cardinality({p \in Paths : Leased(p) /\ KeyOf[sessions[p].ip] = KeyOfReq(r)})
        >= MaxActive

\* Mutant: the counter is read before the sweep.
SlotsTakenBeforeSweep(r) == active[KeyOfReq(r)] >= MaxActive

SlotsTaken(r) == SweptActive(req[r].now)[KeyOfReq(r)] >= MaxActive

\* Mutant: the minute window is forgotten.
WindowExceededBurstOnly(r) == Len(BurstPosts(r)) >= ShortLimit

WindowExceeded(r) ==
    \/ Len(BurstPosts(r)) >= ShortLimit
    \/ Len(RecentPosts(r)) >= MinuteLimit

\* "client-table-full": nothing but the sweep happens.
ReserveTableFull(r) ==
    /\ req[r].pc = "arrived" /\ req[r].kind = "create"
    /\ TableFull(r)
    /\ sessions' = SweptSessions(req[r].now)
    /\ SweepClients(req[r].now)
    /\ Finish(r)
    /\ UNCHANGED clock

\* A refused create leaves its group in the table, with the posts pruned.
EnterClient(r) ==
    LET now == req[r].now
    IN  /\ sessions' = SweptSessions(now)
        /\ clients' = SweptClients(now) \cup {KeyOfReq(r)}
        /\ lastCleanup' = SweptCleanup(now)

\* "active-session-limit", decided before the windows are looked at.
ReserveActiveLimit(r) ==
    /\ req[r].pc = "arrived" /\ req[r].kind = "create"
    /\ ~TableFull(r) /\ SlotsTaken(r)
    /\ EnterClient(r)
    /\ posts' = [SweptPosts(req[r].now) EXCEPT ![KeyOfReq(r)] = RecentPosts(r)]
    /\ active' = SweptActive(req[r].now)
    /\ Finish(r)
    /\ UNCHANGED clock

\* "burst-rate-limit" or "minute-rate-limit".
ReserveRateLimit(r) ==
    /\ req[r].pc = "arrived" /\ req[r].kind = "create"
    /\ ~TableFull(r) /\ ~SlotsTaken(r) /\ WindowExceeded(r)
    /\ EnterClient(r)
    /\ posts' = [SweptPosts(req[r].now) EXCEPT ![KeyOfReq(r)] = RecentPosts(r)]
    /\ active' = SweptActive(req[r].now)
    /\ Finish(r)
    /\ UNCHANGED clock

ReserveGranted(r) ==
    /\ req[r].pc = "arrived" /\ req[r].kind = "create"
    /\ ~TableFull(r) /\ ~SlotsTaken(r) /\ ~WindowExceeded(r)
    /\ EnterClient(r)
    /\ posts' = [SweptPosts(req[r].now) EXCEPT
                    ![KeyOfReq(r)] = Append(RecentPosts(r), req[r].now)]
    /\ active' = [SweptActive(req[r].now) EXCEPT ![KeyOfReq(r)] = @ + 1]
    /\ Advance(r, "admitted")
    /\ UNCHANGED clock

-----------------------------------------------------------------------------
(* The admitted request runs to its response *)

\* The slot of a create goes back; a patch or a delete holds none.
CancelReservation(r) ==
    active' = IF req[r].kind = "create"
              THEN [active EXCEPT ![KeyOfReq(r)] = Monus(@, 1)]
              ELSE active

\* The body is too large, cannot be read, or the backend request cannot be built.
BodyFails(r) ==
    /\ req[r].pc = "admitted"
    /\ CancelReservation(r)
    /\ Finish(r)
    /\ UNCHANGED <<clock, clients, posts, sessions, lastCleanup>>

Forward(r) ==
    /\ req[r].pc = "admitted"
    /\ Advance(r, "forwarded")
    /\ UNCHANGED <<clock, guardVars>>

\* The backend does not answer in time, the viewer hangs up, or the answer cannot
\* be read.  The lease of a delete stays, although the backend may have obeyed.
BackendFails(r) ==
    /\ req[r].pc = "forwarded"
    /\ CancelReservation(r)
    /\ Finish(r)
    /\ UNCHANGED <<clock, clients, posts, sessions, lastCleanup>>

\* Mutant: the lease is released whoever holds it by now.
ReleaseAnyOwner(r) ==
    LET p == req[r].path
        owned == Leased(p)
    IN  /\ sessions' = IF owned THEN [sessions EXCEPT ![p] = NoLease] ELSE sessions
        /\ active' = IF owned THEN [active EXCEPT ![KeyOf[sessions[p].ip]] = Monus(@, 1)]
                     ELSE active

\* releaseSession looks the lease up again: it may be gone, or another viewer's.
ReleaseSession(r) ==
    LET p == req[r].path
        owned == sessions[p].ip = req[r].ip
    IN  /\ sessions' = IF owned THEN [sessions EXCEPT ![p] = NoLease] ELSE sessions
        /\ active' = IF owned THEN [active EXCEPT ![KeyOfReq(r)] = Monus(@, 1)]
                     ELSE active

\* A status of 400 or more: a create gives its slot back, a delete its lease.
BackendRejects(r) ==
    /\ req[r].pc = "forwarded"
    /\ IF req[r].kind = "delete"
       THEN ReleaseSession(r)
       ELSE CancelReservation(r) /\ UNCHANGED sessions
    /\ Finish(r)
    /\ UNCHANGED <<clock, clients, posts, lastCleanup>>

PatchAnswered(r) ==
    /\ req[r].pc = "forwarded" /\ req[r].kind = "patch"
    /\ Finish(r)
    /\ UNCHANGED <<clock, guardVars>>

DeleteAnswered(r) ==
    /\ req[r].pc = "forwarded" /\ req[r].kind = "delete"
    /\ ReleaseSession(r)
    /\ Finish(r)
    /\ UNCHANGED <<clock, clients, posts, lastCleanup>>

\* No approved candidate, or a Location or id the gateway does not accept.
CreateUnusable(r) ==
    /\ req[r].pc = "forwarded" /\ req[r].kind = "create"
    /\ CancelReservation(r)
    /\ Finish(r)
    /\ UNCHANGED <<clock, clients, posts, sessions, lastCleanup>>

\* commitSession: the slot passes from the reservation to the lease of path p,
\* unless the backend named a path that already has one.
CreateAnswered(r, p) ==
    /\ req[r].pc = "forwarded" /\ req[r].kind = "create"
    /\ IF Leased(p)
       THEN CancelReservation(r) /\ UNCHANGED sessions
       ELSE /\ sessions' = [sessions EXCEPT
                               ![p] = [ip |-> req[r].ip, lastSeen |-> req[r].now]]
            /\ UNCHANGED active
    /\ Finish(r)
    /\ UNCHANGED <<clock, clients, posts, lastCleanup>>

-----------------------------------------------------------------------------
(* Time.  The two bounds stand for the server's read timeout, the backend      *)
(* client's timeout and the delay between two statements of a handler.         *)

Tick ==
    /\ clock < MaxTime
    /\ \A r \in Reqs :
         /\ req[r].pc = "arrived" => clock < req[r].now + MaxLag
         /\ req[r].pc # "idle" => clock < req[r].now + MaxHold
    /\ clock' = clock + 1
    /\ UNCHANGED <<guardVars, req>>

\* What a handler does by itself once the request has arrived.
Handle(r) ==
    \/ Throttled(r)
    \/ TouchSession(r) \/ OwnsSession(r)
    \/ ReserveTableFull(r) \/ ReserveActiveLimit(r)
    \/ ReserveRateLimit(r) \/ ReserveGranted(r)
    \/ BodyFails(r) \/ Forward(r)
    \/ BackendFails(r) \/ BackendRejects(r)
    \/ PatchAnswered(r) \/ DeleteAnswered(r) \/ CreateUnusable(r)
    \/ \E p \in Paths : CreateAnswered(r, p)

Next ==
    \/ \E r \in Reqs, kind \in Kinds, ip \in IPs, path \in Paths \cup {NoPath} :
         Arrive(r, kind, ip, path)
    \/ \E r \in Reqs : Handle(r)
    \/ Snapshots
    \/ Tick

Spec == Init /\ [][Next]_vars

-----------------------------------------------------------------------------
(* What the slots are for *)

Reserving(k) ==
    {r \in Reqs : /\ req[r].kind = "create"
                  /\ req[r].pc \in {"admitted", "forwarded"}
                  /\ KeyOf[req[r].ip] = k}

LeasesOf(k) == {p \in Paths : Leased(p) /\ KeyOf[sessions[p].ip] = k}

\* The counter of a group is exactly the number of its creates in flight and of
\* its leases, whatever mix of answers, failures, sweeps and repeated deletes
\* took place: no path of the handler forgets a slot or gives one back twice.
SlotAccounting ==
    \A k \in Keys : active[k] = Cardinality(Reserving(k)) + Cardinality(LeasesOf(k))

\* A group never has more than MaxActive creates in flight and leases together,
\* so concurrent creates cannot race past the limit that is checked before the
\* backend is asked.
WithinActiveLimit ==
    \A k \in Keys : Cardinality(Reserving(k)) + Cardinality(LeasesOf(k)) <= MaxActive

\* The table forgets a group only when nothing counts against it any more: a
\* group without an entry holds no slot.
ForgottenGroupsHoldNothing ==
    \A k \in Keys \ clients : active[k] = 0 /\ posts[k] = <<>>

\* A sweep leaves no expired lease behind, and no later answer or keepalive with
\* an old stamp brings one back.
SweepComplete ==
    \A p \in Paths : Leased(p) => lastCleanup - sessions[p].lastSeen <= SessionTTL

\* A viewer is told "active-session-limit" only for slots that are in use: a
\* create in flight, or a lease refreshed within the TTL and one sweep interval.
ActiveLimitJustified ==
    [][\A r \in Reqs : ReserveActiveLimit(r) =>
         LET k == KeyOfReq(r)
             fresh == {p \in LeasesOf(k) :
                         req[r].now - sessions[p].lastSeen < SessionTTL + CleanupInterval}
         IN  Cardinality(Reserving(k)) + Cardinality(fresh) >= MaxActive]_vars

\* A lease changes only by its owner's request or because it expired: another
\* viewer, even of the same group, can neither refresh, end nor take it over.
LeaseChangedByOwnerOnly ==
    [][\A p \in Paths : Leased(p) /\ sessions'[p] # sessions[p] =>
         \/ /\ ~Leased(p)'
            /\ clock - sessions[p].lastSeen > SessionTTL
         \/ \E r \in Reqs : /\ req[r].path = p
                            /\ req[r].ip = sessions[p].ip
                            /\ req'[r].pc = "idle"]_vars
=============================================================================
