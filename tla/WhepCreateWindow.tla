------------------------- MODULE WhepCreateWindow -------------------------
(* The rolling windows of reserveCreate (src/src/helper.go).  The guard    *)
(* keeps only the stamps it still needs; the history of all creates it     *)
(* granted is added here, so that the windows can be stated without it.    *)
EXTENDS WhepGateway

VARIABLE granted   \* per group, the stamps of every create granted so far

hvars == <<vars, granted>>

HInit == Init /\ granted = [k \in Keys |-> <<>>]

\* The creates that leave this step with a reservation.
Grants == {r \in Reqs : req[r].pc = "arrived" /\ req[r].kind = "create"
                          /\ req'[r].pc = "admitted"}

HNext ==
    /\ Next
    /\ granted' = [k \in Keys |->
                     IF \E r \in Grants : KeyOfReq(r) = k
                     THEN Append(granted[k], req[CHOOSE r \in Grants : TRUE].now)
                     ELSE granted[k]]

HSpec == HInit /\ [][HNext]_hvars

\* In every window that ends at a granted create, at most limit creates of the
\* group were granted.  A handler that is delayed between reading the clock and
\* calling the guard can see stamps already pruned by a later one, so the window
\* is shorter by that delay.
RollingLimit(window, limit) ==
    \A k \in Keys : \A i \in DOMAIN granted[k] :
        LET last == granted[k][i]
        IN  Cardinality({j \in DOMAIN granted[k] :
                granted[k][j] \in (last - (window - MaxLag)) .. last}) <= limit

\* Sessions of one group are created at most ShortLimit times in a short window and
\* MinuteLimit times in a minute window, whatever the sweeps, the refusals and the
\* evictions of idle groups from the table removed meanwhile.
RollingWindows ==
    RollingLimit(ShortWindow, ShortLimit) /\ RollingLimit(MinuteWindow, MinuteLimit)
=============================================================================
