-------------------------- MODULE OperationLimiter --------------------------
(***************************************************************************)
(* The operation limits of the WHEP gateway (src/src/helper.go,            *)
(* fixedLimiter and allowOperationAt): every create, PATCH, DELETE and     *)
(* keepalive is counted by two fixed-window limiters, a burst one and a    *)
(* minute one, with the same stamp.  Each limiter has a mutex of its own,  *)
(* so other requests run between the two.  The page's general GET limiter  *)
(* is a third instance of the same code.                                   *)
(***************************************************************************)
EXTENDS Integers, Sequences, FiniteSets

CONSTANTS
    Keys,         \* limiter groups
    Reqs,         \* handler goroutines
    BurstLimit, BurstWindow, MinuteLimit, MinuteWindow,
    MaxEntries,   \* entries of a limiter table
    MaxLag,       \* bound: from reading the clock to the last hit
    MaxTime       \* bound: horizon of the clock

ASSUME LimiterAssumption ==
    /\ IsFiniteSet(Keys)
    /\ {MaxEntries, MaxLag, MaxTime} \subseteq Nat
    /\ {BurstLimit, MinuteLimit, BurstWindow, MinuteWindow} \subseteq Nat \ {0}

Limiters == {"burst", "minute"}

Limit == [l \in Limiters |-> IF l = "burst" THEN BurstLimit ELSE MinuteLimit]
Window == [l \in Limiters |-> IF l = "burst" THEN BurstWindow ELSE MinuteWindow]

VARIABLES
    clock,
    entries,       \* per limiter and group: start of the window and hits in it
    lastCleanup,   \* per limiter
    req,           \* what each handler is doing
    admitted       \* history: stamps of the operations let through, per group

vars == <<clock, entries, lastCleanup, req, admitted>>

NoEntry == [window |-> -1, count |-> 0]
Idle == [pc |-> "idle", key |-> "none", now |-> 0, refused |-> {}, retry |-> 0]

Init ==
    /\ clock = 0
    /\ entries = [l \in Limiters |-> [k \in Keys |-> NoEntry]]
    /\ lastCleanup = [l \in Limiters |-> 0]
    /\ req = [r \in Reqs |-> Idle]
    /\ admitted = [k \in Keys |-> <<>>]

TypeOK ==
    /\ clock \in Nat
    /\ entries \in [Limiters -> [Keys -> [window : Nat \cup {-1}, count : Nat]]]
    /\ lastCleanup \in [Limiters -> Nat]
    /\ \A r \in Reqs : /\ req[r].pc \in {"idle", "burst", "minute"}
                       /\ req[r].now <= clock /\ req[r].retry \in Nat
                       /\ req[r].refused \in SUBSET Limiters
    /\ \A l \in Limiters :
         Cardinality({k \in Keys : entries[l][k] # NoEntry}) <= MaxEntries

-----------------------------------------------------------------------------
(* hitAt *)

\* Whole seconds until a deadline, at least one.
RetryAfterSeconds(deadline, now) == IF deadline - now < 1 THEN 1 ELSE deadline - now

Over(l, entry, now) == now - entry.window >= Window[l]

\* Mutant: the table is emptied, running windows included.
CleanedAll(l, now) ==
    IF now - lastCleanup[l] >= Window[l] THEN [k \in Keys |-> NoEntry] ELSE entries[l]

\* At most once per window, the entries whose window is over are dropped.
Cleaned(l, now) ==
    IF now - lastCleanup[l] >= Window[l]
    THEN [k \in Keys |-> IF Over(l, entries[l][k], now) THEN NoEntry ELSE entries[l][k]]
    ELSE entries[l]

CleanupStamp(l, now) ==
    IF now - lastCleanup[l] >= Window[l] THEN now ELSE lastCleanup[l]

TableFull(l, k, now) ==
    /\ Cleaned(l, now)[k] = NoEntry
    /\ Cardinality({j \in Keys : Cleaned(l, now)[j] # NoEntry}) >= MaxEntries

\* The code only asks whether a count is over the limit, so counts above it are one.
OneMore(l, count) == IF count > Limit[l] THEN count ELSE count + 1

\* Mutant: a new window starts on every hit after the limit was reached.
CountedRestarting(l, k, now) ==
    LET entry == Cleaned(l, now)[k]
    IN  IF entry = NoEntry \/ Over(l, entry, now) \/ entry.count >= Limit[l]
        THEN [window |-> now, count |-> 1]
        ELSE [entry EXCEPT !.count = OneMore(l, @)]

\* The entry with this hit counted, in a new window if the old one is over.
Counted(l, k, now) ==
    LET entry == Cleaned(l, now)[k]
    IN  IF entry = NoEntry \/ Over(l, entry, now)
        THEN [window |-> now, count |-> 1]
        ELSE [entry EXCEPT !.count = OneMore(l, @)]

Allowed(l, k, now) ==
    ~TableFull(l, k, now) /\ Counted(l, k, now).count <= Limit[l]

RetryAfter(l, k, now) ==
    IF TableFull(l, k, now)
    THEN RetryAfterSeconds(CleanupStamp(l, now) + Window[l], now)
    ELSE RetryAfterSeconds(Counted(l, k, now).window + Window[l], now)

HitAt(l, k, now) ==
    /\ entries' = [entries EXCEPT ![l] =
           IF TableFull(l, k, now) THEN Cleaned(l, now)
           ELSE [Cleaned(l, now) EXCEPT ![k] = Counted(l, k, now)]]
    /\ lastCleanup' = [lastCleanup EXCEPT ![l] = CleanupStamp(l, now)]

-----------------------------------------------------------------------------
(* allowOperationAt *)

Arrive(r, k) ==
    /\ req[r].pc = "idle"
    /\ req' = [req EXCEPT ![r] = [pc |-> "burst", key |-> k, now |-> clock,
                                  refused |-> {}, retry |-> 0]]
    /\ UNCHANGED <<clock, entries, lastCleanup, admitted>>

RefusedBy(l, k, now) == IF Allowed(l, k, now) THEN {} ELSE {l}
RetryOf(l, k, now) == IF Allowed(l, k, now) THEN 0 ELSE RetryAfter(l, k, now)

HitBurst(r) ==
    LET k == req[r].key
        now == req[r].now
    IN  /\ req[r].pc = "burst"
        /\ HitAt("burst", k, now)
        /\ req' = [req EXCEPT ![r].pc = "minute",
                              ![r].refused = RefusedBy("burst", k, now),
                              ![r].retry = RetryOf("burst", k, now)]
        /\ UNCHANGED <<clock, admitted>>

Larger(a, b) == IF a > b THEN a ELSE b

\* Mutant: only the burst window's remaining time is reported.
AnswerRetryBurstOnly(burstRetry, minuteRetry) ==
    IF burstRetry > 0 THEN burstRetry ELSE minuteRetry

\* The longer of the two remaining times.
AnswerRetry(burstRetry, minuteRetry) == Larger(Larger(burstRetry, minuteRetry), 1)

\* The minute limiter counts the operation even when the burst one refused it.
\* The answer keeps the advertised wait: 0 when the operation goes on.
HitMinute(r) ==
    LET k == req[r].key
        now == req[r].now
        refused == req[r].refused \cup RefusedBy("minute", k, now)
        pass == refused = {}
    IN  /\ req[r].pc = "minute"
        /\ HitAt("minute", k, now)
        /\ req' = [req EXCEPT
               ![r].pc = "idle",
               ![r].refused = refused,
               ![r].retry = IF pass THEN 0
                            ELSE AnswerRetry(req[r].retry, RetryOf("minute", k, now))]
        /\ admitted' = IF pass THEN [admitted EXCEPT ![k] = Append(@, now)] ELSE admitted
        /\ UNCHANGED clock

Tick ==
    /\ clock < MaxTime
    /\ \A r \in Reqs : req[r].pc # "idle" => clock < req[r].now + MaxLag
    /\ clock' = clock + 1
    /\ UNCHANGED <<entries, lastCleanup, req, admitted>>

Next ==
    \/ \E r \in Reqs, k \in Keys : Arrive(r, k)
    \/ \E r \in Reqs : HitBurst(r) \/ HitMinute(r)
    \/ Tick

Spec == Init /\ [][Next]_vars

-----------------------------------------------------------------------------
(* What the limits guarantee *)

\* Around the border of two fixed windows, and across a cleanup of the table, a
\* group gets at most twice the limit through in any window of the same length,
\* shortened by the delay between a stamp and its two hits.
AtMostTwiceTheLimit ==
    \A k \in Keys, l \in Limiters : \A i \in DOMAIN admitted[k] :
        LET last == admitted[k][i]
            length == Window[l] - 3 * MaxLag
        IN  Cardinality({j \in DOMAIN admitted[k] :
                admitted[k][j] > last - length /\ admitted[k][j] <= last}) <= 2 * Limit[l]

\* A group's hits stay counted until its own window is over: neither a cleanup that
\* another group's hit sets off, nor a full table, nor the group's own refused hits
\* end a running window early.
RunningWindowKept ==
    [][\A l \in Limiters, k \in Keys :
         /\ entries[l][k] # NoEntry
         /\ clock < entries[l][k].window + Window[l]
         => /\ entries'[l][k].window = entries[l][k].window
            /\ entries'[l][k].count >= entries[l][k].count]_vars

\* The advertised wait is enough and no retry is punished: once it is over, the
\* limits that refused the operation let the group through again, whatever other
\* refused hits came in between, unless another request of the group has opened a
\* new window meanwhile (its stamp may be MaxLag old) or the table is full.
RetryIsEnough ==
    \A r \in Reqs :
        LET k == req[r].key
            again == req[r].now + req[r].retry
        IN  req[r].pc = "idle" /\ again >= clock =>
              \A l \in req[r].refused :
                  \/ Allowed(l, k, again)
                  \/ TableFull(l, k, again)
                  \/ entries[l][k].window > req[r].now - MaxLag
=============================================================================
