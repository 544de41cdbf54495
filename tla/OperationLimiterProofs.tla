----------------------- MODULE OperationLimiterProofs -----------------------
(* Proofs about OperationLimiter, for every number of groups and handlers and *)
(* all limits, windows and delays: types with the bound on the tables, that a *)
(* running window is kept, that the advertised wait is enough, and that a     *)
(* group never gets more than twice the limit through in a window's time.     *)
EXTENDS OperationLimiter, FiniteSetTheorems, SequenceTheorems, TLAPS

\* The parts of TypeOK, and that a request under way names a group.
Entry == [window : Nat \cup {-1}, count : Nat]

Tables == entries \in [Limiters -> [Keys -> Entry]]

Handlers ==
    /\ \A r \in Reqs : /\ req[r].pc \in {"idle", "burst", "minute"}
                       /\ req[r].now <= clock /\ req[r].retry \in Nat
                       /\ req[r].refused \in SUBSET Limiters

Request ==
    [pc : {"idle", "burst", "minute"}, key : Keys \cup {"none"}, now : Nat,
     refused : SUBSET Limiters, retry : Nat]

Shape == req \in [Reqs -> Request]

Named == \A r \in Reqs : req[r].pc # "idle" => req[r].key \in Keys

Used(l) == {k \in Keys : entries[l][k] # NoEntry}

Bounded == \A l \in Limiters : Cardinality(Used(l)) <= MaxEntries

LimiterInv ==
    /\ clock \in Nat /\ lastCleanup \in [Limiters -> Nat]
    /\ Tables /\ Handlers /\ Shape /\ Named /\ Bounded

-----------------------------------------------------------------------------
(* A hit *)

LEMMA LimitTypes ==
    /\ Limit \in [Limiters -> Nat]
    /\ Window \in [Limiters -> Nat \ {0}]
    /\ MaxEntries \in Nat
    /\ NoEntry \in Entry
    /\ NoEntry.window = -1
  BY LimiterAssumption DEF Limit, Window, Limiters, NoEntry, Entry

\* A cleaned table is a table, and every entry in it was there before.
LEMMA CleanedTable ==
    ASSUME Tables, lastCleanup \in [Limiters -> Nat],
           NEW l \in Limiters, NEW now \in Nat
    PROVE  /\ Cleaned(l, now) \in [Keys -> Entry]
           /\ \A k \in Keys : Cleaned(l, now)[k] \in {entries[l][k], NoEntry}
<1> USE LimitTypes DEF Tables
<1>1. CASE now - lastCleanup[l] >= Window[l]
  BY <1>1 DEF Cleaned
<1>2. CASE ~(now - lastCleanup[l] >= Window[l])
  BY <1>2 DEF Cleaned
<1> QED BY <1>1, <1>2

\* An entry whose window runs survives the cleaning.
LEMMA CleanedKeepsRunning ==
    ASSUME Tables, lastCleanup \in [Limiters -> Nat],
           NEW l \in Limiters, NEW now \in Nat, NEW k \in Keys,
           now < entries[l][k].window + Window[l]
    PROVE  Cleaned(l, now)[k] = entries[l][k]
<1>1. entries[l][k].window \in Int /\ Window[l] \in Int
  BY LimitTypes DEF Tables, Entry
<1>2. ~Over(l, entries[l][k], now)
  BY <1>1 DEF Over
<1> QED BY <1>2 DEF Cleaned

\* What a hit counts is an entry.
LEMMA CountedType ==
    ASSUME Tables, lastCleanup \in [Limiters -> Nat],
           NEW l \in Limiters, NEW now \in Nat, NEW k \in Keys
    PROVE  Counted(l, k, now) \in Entry
<1> DEFINE entry == Cleaned(l, now)[k]
<1>1. entry \in Entry
  BY CleanedTable
<1>2. Limit[l] \in Nat /\ entry.count \in Nat
  BY <1>1, LimitTypes DEF Entry
<1>3. OneMore(l, entry.count) \in Nat
  BY <1>2 DEF OneMore
<1>4. [entry EXCEPT !.count = OneMore(l, entry.count)] \in Entry
  BY <1>1, <1>3 DEF Entry
<1>5. [window |-> now, count |-> 1] \in Entry
  BY DEF Entry
<1> QED BY <1>4, <1>5 DEF Counted

LEMMA CleanupStampType ==
    ASSUME lastCleanup \in [Limiters -> Nat], NEW l \in Limiters, NEW now \in Nat
    PROVE  CleanupStamp(l, now) \in Nat
  BY DEF CleanupStamp

\* The advertised wait is a number of seconds.
LEMMA RetryOfType ==
    ASSUME Tables, lastCleanup \in [Limiters -> Nat],
           NEW l \in Limiters, NEW now \in Nat, NEW k \in Keys
    PROVE  RetryOf(l, k, now) \in Nat /\ RefusedBy(l, k, now) \in SUBSET Limiters
<1>1. Window[l] \in Nat /\ CleanupStamp(l, now) \in Nat /\ Counted(l, k, now).window \in Int
  BY LimitTypes, CleanupStampType, CountedType DEF Entry
<1>2. \A d \in Int : RetryAfterSeconds(d, now) \in Nat
  BY DEF RetryAfterSeconds
<1>3. RetryAfter(l, k, now) \in Nat
  BY <1>1, <1>2 DEF RetryAfter
<1> QED BY <1>3 DEF RetryOf, RefusedBy

\* The tables after a hit.
LEMMA HitTables ==
    ASSUME LimiterInv, NEW l \in Limiters, NEW now \in Nat, NEW k \in Keys,
           HitAt(l, k, now)
    PROVE  Tables' /\ lastCleanup' \in [Limiters -> Nat]
<1>1. Cleaned(l, now) \in [Keys -> Entry]
  BY CleanedTable DEF LimiterInv
<1>2. Counted(l, k, now) \in Entry
  BY CountedType DEF LimiterInv
<1>3. [Cleaned(l, now) EXCEPT ![k] = Counted(l, k, now)] \in [Keys -> Entry]
  BY <1>1, <1>2
<1>4. Tables'
  BY <1>1, <1>3 DEF Tables, HitAt, LimiterInv
<1>5. CleanupStamp(l, now) \in Nat
  BY CleanupStampType DEF LimiterInv
<1> QED BY <1>4, <1>5 DEF HitAt, LimiterInv

\* A hit takes a place only where one is left.
LEMMA HitBounded ==
    ASSUME LimiterInv, NEW l \in Limiters, NEW now \in Nat, NEW k \in Keys,
           HitAt(l, k, now)
    PROVE  Bounded'
<1> DEFINE Kept == {j \in Keys : Cleaned(l, now)[j] # NoEntry}
           After(m) == {j \in Keys : entries'[m][j] # NoEntry}
<1>1. IsFiniteSet(Keys) /\ MaxEntries \in Nat
  BY LimiterAssumption
<1>2. /\ Cleaned(l, now) \in [Keys -> Entry]
      /\ \A j \in Keys : Cleaned(l, now)[j] \in {entries[l][j], NoEntry}
  BY CleanedTable DEF LimiterInv
<1>3. Kept \subseteq Used(l)
  BY <1>2 DEF Used
<1>4. IsFiniteSet(Used(l)) /\ IsFiniteSet(Kept)
  <2>1. Used(l) \subseteq Keys /\ Kept \subseteq Keys
    BY DEF Used
  <2> QED BY <2>1, <1>1, FS_Subset
<1>5. Cardinality(Kept) \in Nat /\ Cardinality(Used(l)) \in Nat
  BY <1>4, FS_CardinalityType
<1>6. Cardinality(Kept) <= Cardinality(Used(l))
  BY <1>3, <1>4, FS_Subset
<1>7. Cardinality(Kept) <= MaxEntries
  BY <1>1, <1>5, <1>6 DEF LimiterInv, Bounded
<1>8. Cardinality(After(l)) <= MaxEntries
  <2>1. CASE TableFull(l, k, now)
    <3>1. After(l) = Kept
      BY <2>1 DEF HitAt, LimiterInv, Tables
    <3> QED BY <3>1, <1>7
  <2>2. CASE ~TableFull(l, k, now)
    <3>1. After(l) \subseteq Kept \cup {k}
      BY <2>2, <1>2 DEF HitAt, LimiterInv, Tables
    <3>2. CASE k \in Kept
      <4>1. After(l) \subseteq Kept
        BY <3>1, <3>2
      <4>2. Cardinality(After(l)) <= Cardinality(Kept) /\ IsFiniteSet(After(l))
        BY <4>1, <1>4, FS_Subset
      <4>3. Cardinality(After(l)) \in Nat
        BY <4>2, FS_CardinalityType
      <4> QED BY <4>2, <4>3, <1>1, <1>5, <1>7
    <3>3. CASE k \notin Kept
      <4>1. ~(Cardinality(Kept) >= MaxEntries)
        BY <2>2, <3>3 DEF TableFull
      <4>2. IsFiniteSet(Kept \cup {k}) /\ Cardinality(Kept \cup {k}) = Cardinality(Kept) + 1
        BY <1>4, <3>3, FS_AddElement
      <4>3. Cardinality(After(l)) <= Cardinality(Kept \cup {k}) /\ IsFiniteSet(After(l))
        BY <3>1, <4>2, FS_Subset
      <4>4. Cardinality(After(l)) \in Nat
        BY <4>3, FS_CardinalityType
      <4> QED BY <4>1, <4>2, <4>3, <4>4, <1>1, <1>5
    <3> QED BY <3>2, <3>3
  <2> QED BY <2>1, <2>2
<1>9. \A m \in Limiters \ {l} : entries'[m] = entries[m]
  BY DEF HitAt, LimiterInv, Tables
<1>10. \A m \in Limiters \ {l} : Used(m)' = Used(m)
  BY <1>9 DEF Used
<1> QED BY <1>8, <1>10 DEF Bounded, Used, LimiterInv

-----------------------------------------------------------------------------
(* Types and the bound on the tables *)

LEMMA InitLimiter == Init => LimiterInv
<1> SUFFICES ASSUME Init PROVE LimiterInv
  OBVIOUS
<1>1. Tables
  BY LimitTypes DEF Init, Tables
<1>2. \A l \in Limiters : Used(l) = {}
  BY DEF Init, Used
<1>3. Bounded
  BY <1>2, FS_EmptySet, LimitTypes DEF Bounded
<1>4. Shape
  BY DEF Init, Shape, Request, Idle
<1>5. Handlers /\ Named
  BY DEF Init, Handlers, Named, Idle
<1> QED BY <1>1, <1>3, <1>4, <1>5 DEF Init, LimiterInv

LEMMA ArriveKeeps ==
    ASSUME LimiterInv, NEW r \in Reqs, NEW k \in Keys, Arrive(r, k)
    PROVE  LimiterInv'
<1> USE DEF LimiterInv
<1>1. Tables' /\ Bounded' /\ clock' \in Nat /\ lastCleanup' \in [Limiters -> Nat]
  BY DEF Arrive, Tables, Bounded, Used
<1>2. Shape'
  BY DEF Arrive, Shape, Request
<1>3. Named'
  BY DEF Arrive, Shape, Request, Named
<1>4. Handlers'
  BY DEF Arrive, Shape, Request, Handlers
<1> QED BY <1>1, <1>2, <1>3, <1>4

LEMMA HitBurstKeeps ==
    ASSUME LimiterInv, NEW r \in Reqs, HitBurst(r)
    PROVE  LimiterInv'
<1>1. "burst" \in Limiters /\ req[r].now \in Nat /\ req[r].key \in Keys
  BY DEF LimiterInv, Shape, Request, Named, HitBurst, Limiters
<1>2. HitAt("burst", req[r].key, req[r].now)
  BY DEF HitBurst
<1>3. Tables' /\ Bounded' /\ lastCleanup' \in [Limiters -> Nat]
  BY <1>1, <1>2, HitTables, HitBounded
<1>4. /\ RetryOf("burst", req[r].key, req[r].now) \in Nat
      /\ RefusedBy("burst", req[r].key, req[r].now) \in SUBSET Limiters
  BY <1>1, RetryOfType DEF LimiterInv
<1>5. req' = [req EXCEPT ![r].pc = "minute",
                         ![r].refused = RefusedBy("burst", req[r].key, req[r].now),
                         ![r].retry = RetryOf("burst", req[r].key, req[r].now)]
      /\ clock' = clock
  BY DEF HitBurst
<1>6. Shape' /\ Named' /\ Handlers'
  <2> DEFINE refused == RefusedBy("burst", req[r].key, req[r].now)
             retry == RetryOf("burst", req[r].key, req[r].now)
             after == [req[r] EXCEPT !.pc = "minute", !.refused = refused, !.retry = retry]
  <2>1. req' = [req EXCEPT ![r] = after]
    BY <1>5
  <2>2. req[r] \in Request /\ refused \in SUBSET Limiters /\ retry \in Nat
    BY <1>4 DEF LimiterInv, Shape
  <2> HIDE DEF refused, retry
  <2>3. /\ after \in Request /\ after.pc = "minute" /\ after.key = req[r].key
        /\ after.now = req[r].now /\ after.refused = refused /\ after.retry = retry
    BY <2>2 DEF Request
  <2> HIDE DEF after
  <2>4. Shape'
    BY <2>1, <2>3 DEF LimiterInv, Shape
  <2>5. Named'
    BY <1>1, <2>1, <2>3 DEF LimiterInv, Shape, Named
  <2>6. Handlers'
    BY <1>5, <2>1, <2>2, <2>3 DEF LimiterInv, Shape, Handlers
  <2> QED BY <2>4, <2>5, <2>6
<1> QED BY <1>3, <1>5, <1>6 DEF LimiterInv

LEMMA HitMinuteKeeps ==
    ASSUME LimiterInv, NEW r \in Reqs, HitMinute(r)
    PROVE  LimiterInv'
<1> DEFINE wait == RetryOf("minute", req[r].key, req[r].now)
           all == req[r].refused \cup RefusedBy("minute", req[r].key, req[r].now)
<1>1. "minute" \in Limiters /\ req[r].now \in Nat /\ req[r].key \in Keys
  BY DEF LimiterInv, Shape, Request, Named, HitMinute, Limiters
<1>2. HitAt("minute", req[r].key, req[r].now)
  BY DEF HitMinute
<1>3. Tables' /\ Bounded' /\ lastCleanup' \in [Limiters -> Nat]
  BY <1>1, <1>2, HitTables, HitBounded
<1>4. wait \in Nat /\ RefusedBy("minute", req[r].key, req[r].now) \in SUBSET Limiters
  BY <1>1, RetryOfType DEF LimiterInv
<1>5. AnswerRetry(req[r].retry, wait) \in Nat /\ all \in SUBSET Limiters
  BY <1>4 DEF AnswerRetry, Larger, LimiterInv, Shape, Request
<1>6. req' = [req EXCEPT ![r].pc = "idle", ![r].refused = all,
                         ![r].retry = IF all = {} THEN 0 ELSE AnswerRetry(req[r].retry, wait)]
  BY DEF HitMinute
<1>7. Shape' /\ Named' /\ Handlers' /\ clock' = clock
  <2>1. clock' = clock
    BY DEF HitMinute
  <2>2. Shape'
    <3> DEFINE answer == IF all = {} THEN 0 ELSE AnswerRetry(req[r].retry, wait)
               after == [req[r] EXCEPT !.pc = "idle", !.refused = all, !.retry = answer]
    <3>1. answer \in Nat
      BY <1>5
    <3>2. req' = [req EXCEPT ![r] = after]
      BY <1>6
    <3> HIDE DEF answer, all, wait
    <3>3. after \in Request
      BY <1>5, <3>1 DEF LimiterInv, Shape, Request
    <3> HIDE DEF after
    <3> QED BY <3>2, <3>3 DEF LimiterInv, Shape
  <2>3. Named'
    BY <1>1, <1>6 DEF LimiterInv, Shape, Request, Named
  <2>4. Handlers'
    BY <1>5, <1>6, <2>1 DEF LimiterInv, Shape, Request, Handlers
  <2> QED BY <2>1, <2>2, <2>3, <2>4
<1> QED BY <1>3, <1>7 DEF LimiterInv

LEMMA NextLimiter == LimiterInv /\ [Next]_vars => LimiterInv'
<1> SUFFICES ASSUME LimiterInv, [Next]_vars PROVE LimiterInv'
  OBVIOUS
<1>1. CASE UNCHANGED vars
  BY <1>1 DEF vars, LimiterInv, Tables, Handlers, Shape, Request, Named, Bounded, Used
<1>2. ASSUME NEW r \in Reqs, NEW k \in Keys, Arrive(r, k) PROVE LimiterInv'
  BY <1>2, ArriveKeeps
<1>3. ASSUME NEW r \in Reqs, HitBurst(r) PROVE LimiterInv'
  BY <1>3, HitBurstKeeps
<1>4. ASSUME NEW r \in Reqs, HitMinute(r) PROVE LimiterInv'
  BY <1>4, HitMinuteKeeps
<1>5. CASE Tick
  <2>1. clock' \in Nat /\ clock <= clock'
    BY <1>5 DEF Tick, LimiterInv
  <2>2. Handlers'
    BY <1>5, <2>1 DEF Tick, LimiterInv, Handlers, Shape, Request
  <2> QED BY <1>5, <2>1, <2>2 DEF Tick, LimiterInv, Tables, Shape, Request, Named, Bounded, Used
<1> QED BY <1>1, <1>2, <1>3, <1>4, <1>5 DEF Next

LEMMA LimiterInvariant == Spec => []LimiterInv
  BY InitLimiter, NextLimiter, PTL DEF Spec

\* The tables and the requests keep their types, and no table ever has more entries than
\* it may, whatever the order of hits and cleanups.
THEOREM LimiterTypes == Spec => []TypeOK
<1>1. LimiterInv => TypeOK
  BY DEF LimiterInv, TypeOK, Tables, Entry, Handlers, Bounded, Used
<1> QED BY <1>1, LimiterInvariant, PTL

-----------------------------------------------------------------------------
(* A running window *)

\* What RunningWindowKept says of a step.
WindowKept(l, k) ==
    entries[l][k] # NoEntry /\ clock < entries[l][k].window + Window[l]
    => /\ entries'[l][k].window = entries[l][k].window
       /\ entries'[l][k].count >= entries[l][k].count

\* A hit is never stamped ahead of the clock, so to it a running window is running, too.
LEMMA HitKeepsWindow ==
    ASSUME LimiterInv, NEW h \in Limiters, NEW j \in Keys, NEW now \in Nat, now <= clock,
           HitAt(h, j, now), NEW l \in Limiters, NEW k \in Keys
    PROVE  WindowKept(l, k)
<1> SUFFICES ASSUME entries[l][k] # NoEntry, clock < entries[l][k].window + Window[l]
             PROVE  /\ entries'[l][k].window = entries[l][k].window
                    /\ entries'[l][k].count >= entries[l][k].count
  BY DEF WindowKept
<1> DEFINE entry == entries[l][k]
<1>1. entry \in Entry /\ entry.count \in Nat /\ entry.window \in Int
  BY DEF LimiterInv, Tables, Entry
<1>2. Window[l] \in Nat /\ Limit[l] \in Nat /\ clock \in Nat
  BY LimitTypes DEF LimiterInv
<1>3. CASE h # l
  <2>1. entries'[l][k] = entry
    BY <1>3 DEF HitAt, LimiterInv, Tables
  <2> QED BY <2>1, <1>1
<1>4. CASE h = l
  <2>1. now < entry.window + Window[l]
    BY <1>1, <1>2
  <2>2. Cleaned(l, now)[k] = entry
    BY <2>1, CleanedKeepsRunning DEF LimiterInv
  <2>3. Cleaned(l, now) \in [Keys -> Entry]
    BY CleanedTable DEF LimiterInv
  <2>4. CASE TableFull(l, j, now) \/ j # k
    <3>1. entries'[l][k] = entry
      BY <1>4, <2>2, <2>3, <2>4 DEF HitAt, LimiterInv, Tables
    <3> QED BY <3>1, <1>1
  <2>5. CASE ~TableFull(l, j, now) /\ j = k
    <3>1. ~Over(l, entry, now)
      BY <2>1, <1>1, <1>2 DEF Over
    <3>2. Counted(l, k, now) = [entry EXCEPT !.count = OneMore(l, entry.count)]
      BY <2>2, <3>1 DEF Counted
    <3>3. entries'[l][k] = Counted(l, k, now)
      BY <1>4, <2>3, <2>5 DEF HitAt, LimiterInv, Tables
    <3>4. OneMore(l, entry.count) >= entry.count
      BY <1>1, <1>2 DEF OneMore
    <3> QED BY <1>1, <3>2, <3>3, <3>4 DEF Entry
  <2> QED BY <2>4, <2>5
<1> QED BY <1>3, <1>4

LEMMA NextKeepsWindow ==
    ASSUME LimiterInv, [Next]_vars, NEW l \in Limiters, NEW k \in Keys
    PROVE  WindowKept(l, k)
<1>1. entries[l][k].count \in Nat
  BY DEF LimiterInv, Tables, Entry
<1>2. CASE entries' = entries
  BY <1>1, <1>2 DEF WindowKept
<1>3. ASSUME NEW r \in Reqs, HitBurst(r) PROVE WindowKept(l, k)
  <2>1. req[r].now \in Nat /\ req[r].now <= clock /\ req[r].key \in Keys
    BY <1>3 DEF HitBurst, LimiterInv, Shape, Request, Handlers, Named
  <2>2. HitAt("burst", req[r].key, req[r].now) /\ "burst" \in Limiters
    BY <1>3 DEF HitBurst, Limiters
  <2> QED BY <2>1, <2>2, HitKeepsWindow
<1>4. ASSUME NEW r \in Reqs, HitMinute(r) PROVE WindowKept(l, k)
  <2>1. req[r].now \in Nat /\ req[r].now <= clock /\ req[r].key \in Keys
    BY <1>4 DEF HitMinute, LimiterInv, Shape, Request, Handlers, Named
  <2>2. HitAt("minute", req[r].key, req[r].now) /\ "minute" \in Limiters
    BY <1>4 DEF HitMinute, Limiters
  <2> QED BY <2>1, <2>2, HitKeepsWindow
<1> QED BY <1>2, <1>3, <1>4 DEF Next, Arrive, Tick, vars

\* A group's hits stay counted until its own window is over, whatever cleanups other
\* groups set off, with stamps of any age.
THEOREM WindowsKept == Spec => RunningWindowKept
<1>1. LimiterInv /\ [Next]_vars =>
        [\A l \in Limiters, k \in Keys :
           /\ entries[l][k] # NoEntry
           /\ clock < entries[l][k].window + Window[l]
           => /\ entries'[l][k].window = entries[l][k].window
              /\ entries'[l][k].count >= entries[l][k].count]_vars
  <2> SUFFICES ASSUME LimiterInv, [Next]_vars, NEW l \in Limiters, NEW k \in Keys
               PROVE  WindowKept(l, k)
    BY DEF WindowKept
  <2> QED BY NextKeepsWindow
<1> QED BY <1>1, LimiterInvariant, PTL DEF Spec, RunningWindowKept

-----------------------------------------------------------------------------
(* The advertised wait *)

\* Handlers are not older than the lag allows.
Prompt == \A r \in Reqs : req[r].pc # "idle" => clock <= req[r].now + MaxLag

\* The table admits no new group before its next cleanup, which is later than `now'.
Closed(l, now) ==
    Cardinality(Used(l)) >= MaxEntries /\ now < lastCleanup[l] + Window[l]

\* Why limiter l will not refuse group k by the same window once `until' has come, when
\* it did at `now': it keeps no window of k, or the one it refused by, which is over by
\* then, or one that was opened later.
Covered(l, k, now, until) ==
    \/ /\ entries[l][k] = NoEntry
       /\ clock > now \/ Closed(l, now)
    \/ /\ entries[l][k] # NoEntry
       /\ now < entries[l][k].window + Window[l] /\ entries[l][k].window + Window[l] <= until
    \/ /\ entries[l][k] # NoEntry
       /\ clock > now /\ entries[l][k].window > now - MaxLag

\* A request whose burst hit is still to come has not been refused.
Refusals ==
    \A r \in Reqs :
        /\ req[r].pc = "burst" => req[r].refused = {}
        /\ \A l \in req[r].refused :
             /\ req[r].key \in Keys
             /\ Covered(l, req[r].key, req[r].now, req[r].now + req[r].retry)

WaitInv == Prompt /\ Refusals

LEMMA LongerCovers ==
    ASSUME LimiterInv, NEW l \in Limiters, NEW k \in Keys,
           NEW now \in Nat, NEW until \in Nat, NEW later \in Nat, until <= later,
           Covered(l, k, now, until)
    PROVE  Covered(l, k, now, later)
<1>1. entries[l][k].window \in Int /\ Window[l] \in Nat
  BY LimitTypes DEF LimiterInv, Tables, Entry
<1> QED BY <1>1 DEF Covered

\* A hit that counts in another limiter, or no hit at all, as time goes on.
LEMMA OthersCover ==
    ASSUME LimiterInv, NEW l \in Limiters, NEW k \in Keys, NEW now \in Nat, NEW until \in Nat,
           entries'[l] = entries[l], lastCleanup'[l] = lastCleanup[l],
           clock' \in Nat, clock <= clock',
           Covered(l, k, now, until)
    PROVE  Covered(l, k, now, until)'
<1>1. Used(l)' = Used(l)
  BY DEF Used
<1>2. Closed(l, now) => Closed(l, now)'
  BY <1>1 DEF Closed
<1>3. clock > now => clock' > now
  BY DEF LimiterInv
<1> QED BY <1>2, <1>3 DEF Covered

\* A hit that counts leaves an entry.
LEMMA CountedUsed ==
    ASSUME LimiterInv, NEW l \in Limiters, NEW k \in Keys, NEW t \in Nat
    PROVE  Counted(l, k, t) # NoEntry
<1> DEFINE entry == Cleaned(l, t)[k]
<1>1. entry \in Entry /\ entry.count \in Nat /\ Limit[l] \in Nat
  BY CleanedTable, LimitTypes DEF LimiterInv, Entry
<1>2. OneMore(l, entry.count) # 0
  BY <1>1 DEF OneMore
<1>3. Counted(l, k, t).count # 0
  BY <1>1, <1>2 DEF Counted, Entry
<1> QED BY <1>3 DEF NoEntry

\* What a hit leaves of group k.
LEMMA HitLeaves ==
    ASSUME LimiterInv, NEW l \in Limiters, NEW j \in Keys, NEW t \in Nat, HitAt(l, j, t),
           NEW k \in Keys
    PROVE  \/ entries'[l][k] = entries[l][k]
           \/ /\ entries'[l][k] = NoEntry /\ entries[l][k] # NoEntry
              /\ t >= entries[l][k].window + Window[l]
           \/ /\ k = j /\ entries'[l][k] # NoEntry
              /\ entries'[l][k].window = entries[l][k].window
              /\ entries'[l][k].count >= entries[l][k].count
              /\ entries[l][k] # NoEntry
           \/ /\ k = j /\ ~TableFull(l, j, t) /\ entries'[l][k] = [window |-> t, count |-> 1]
              /\ entries[l][k] = NoEntry \/ t >= entries[l][k].window + Window[l]
<1> DEFINE clean == Cleaned(l, t)
           entry == entries[l][k]
<1>1. clean \in [Keys -> Entry] /\ clean[k] \in {entry, NoEntry}
  BY CleanedTable DEF LimiterInv
<1>2. /\ entry \in Entry /\ entry.window \in Int /\ entry.count \in Nat
      /\ Window[l] \in Nat /\ Limit[l] \in Nat /\ NoEntry.window = -1
  BY LimitTypes DEF LimiterInv, Tables, Entry
<1>3. clean[k] = entry \/ (entry # NoEntry /\ clean[k] = NoEntry /\ t >= entry.window + Window[l])
  BY <1>1, <1>2, CleanedKeepsRunning DEF LimiterInv
<1>4. entries'[l][k] = IF TableFull(l, j, t) \/ k # j THEN clean[k] ELSE Counted(l, k, t)
  BY <1>1 DEF HitAt, LimiterInv, Tables
<1>5. CASE TableFull(l, j, t) \/ k # j
  BY <1>3, <1>4, <1>5
<1>6. CASE ~TableFull(l, j, t) /\ k = j
  <2>1. entries'[l][k] = Counted(l, k, t)
    BY <1>4, <1>6
  <2>2. CASE clean[k] = NoEntry \/ Over(l, clean[k], t)
    <3>1. entries'[l][k] = [window |-> t, count |-> 1]
      BY <2>1, <2>2 DEF Counted
    <3>2. entry = NoEntry \/ t >= entry.window + Window[l]
      BY <1>2, <1>3, <2>2 DEF Over
    <3> QED BY <1>6, <3>1, <3>2
  <2>3. CASE ~(clean[k] = NoEntry \/ Over(l, clean[k], t))
    <3>1. clean[k] = entry /\ entry # NoEntry
      BY <1>3, <2>3
    <3>2. entries'[l][k] = [entry EXCEPT !.count = OneMore(l, entry.count)]
      BY <2>1, <2>3, <3>1 DEF Counted
    <3>3. ~(t - entry.window >= Window[l])
      BY <2>3, <3>1 DEF Over
    <3>4. OneMore(l, entry.count) \in Nat \ {0} /\ OneMore(l, entry.count) >= entry.count
      BY <1>2 DEF OneMore
    <3>5. /\ entries'[l][k].window = entry.window /\ entries'[l][k].count # 0
          /\ entries'[l][k].count >= entry.count
      BY <1>2, <3>2, <3>4 DEF Entry
    <3>6. entries'[l][k] # NoEntry
      BY <3>5 DEF NoEntry
    <3> QED BY <1>6, <3>1, <3>5, <3>6
  <2> QED BY <2>2, <2>3
<1> QED BY <1>5, <1>6

\* A hit before the next cleanup empties no place, and a closed table takes no new group.
LEMMA HitKeepsClosed ==
    ASSUME LimiterInv, NEW l \in Limiters, NEW j \in Keys, NEW t \in Nat, HitAt(l, j, t),
           NEW now \in Nat, t <= now, Closed(l, now),
           NEW k \in Keys, entries[l][k] = NoEntry
    PROVE  entries'[l][k] = NoEntry /\ Closed(l, now)'
<1>1. Window[l] \in Nat /\ lastCleanup[l] \in Nat /\ MaxEntries \in Nat
  BY LimitTypes DEF LimiterInv
<1>2. Cleaned(l, t) = entries[l] /\ CleanupStamp(l, t) = lastCleanup[l]
  BY <1>1 DEF Closed, Cleaned, CleanupStamp
<1>3. TableFull(l, j, t) <=> entries[l][j] = NoEntry
  BY <1>2 DEF TableFull, Closed, Used
<1>4. entries'[l] = IF entries[l][j] = NoEntry THEN entries[l]
                   ELSE [entries[l] EXCEPT ![j] = Counted(l, j, t)]
  BY <1>2, <1>3 DEF HitAt, LimiterInv, Tables
<1>5. lastCleanup'[l] = lastCleanup[l]
  BY <1>2 DEF HitAt, LimiterInv
<1>6. entries'[l][k] = NoEntry
  BY <1>4 DEF LimiterInv, Tables
<1>7. Used(l) \subseteq Used(l)'
  <2> SUFFICES ASSUME NEW i \in Keys, entries[l][i] # NoEntry PROVE entries'[l][i] # NoEntry
    BY DEF Used
  <2>1. i # j => entries'[l][i] = entries[l][i]
    BY <1>4 DEF LimiterInv, Tables
  <2>2. i = j => entries'[l][i] # NoEntry
    <3> SUFFICES ASSUME i = j PROVE Counted(l, j, t) # NoEntry
      BY <1>4 DEF LimiterInv, Tables
    <3> QED BY CountedUsed
  <2> QED BY <2>1, <2>2
<1>8. Cardinality(Used(l)') >= Cardinality(Used(l)) /\ Cardinality(Used(l)') \in Nat
      /\ Cardinality(Used(l)) \in Nat
  <2>1. Used(l)' \subseteq Keys
    BY DEF Used
  <2>2. IsFiniteSet(Used(l)')
    BY <2>1, LimiterAssumption, FS_Subset
  <2> QED BY <1>7, <2>2, FS_Subset, FS_CardinalityType
<1> QED BY <1>1, <1>5, <1>6, <1>8 DEF Closed

\* No hit of anybody voids the wait of a group that was refused before.
LEMMA HitCovers ==
    ASSUME LimiterInv, NEW l \in Limiters, NEW j \in Keys, NEW t \in Nat, HitAt(l, j, t),
           t <= clock, clock <= t + MaxLag, clock' = clock,
           NEW k \in Keys, NEW now \in Nat, NEW until \in Nat, now <= clock,
           Covered(l, k, now, until)
    PROVE  Covered(l, k, now, until)'
<1> DEFINE entry == entries[l][k]
<1>1. /\ entry.window \in Int /\ Window[l] \in Nat /\ NoEntry.window = -1
      /\ clock \in Nat /\ MaxLag \in Nat
  BY LimitTypes, LimiterAssumption DEF LimiterInv, Tables, Entry
<1>2. [window |-> t, count |-> 1] # NoEntry
  BY DEF NoEntry
<1>3. CASE entry = NoEntry
  <2>1. clock > now \/ Closed(l, now)
    BY <1>3 DEF Covered
  <2>2. CASE clock > now
    <3>1. entries'[l][k] = NoEntry \/ entries'[l][k] = [window |-> t, count |-> 1]
      BY <1>3, HitLeaves
    <3> QED BY <1>1, <1>2, <2>2, <3>1 DEF Covered
  <2>3. CASE ~(clock > now)
    <3>1. entries'[l][k] = NoEntry /\ Closed(l, now)'
      BY <1>1, <1>3, <2>1, <2>3, HitKeepsClosed
    <3> QED BY <3>1 DEF Covered
  <2> QED BY <2>2, <2>3
<1>4. CASE entry # NoEntry
  <2>1. CASE entries'[l][k] = entry \/ (entries'[l][k] # NoEntry /\ entries'[l][k].window = entry.window)
    BY <1>4, <2>1 DEF Covered
  <2>2. CASE t >= entry.window + Window[l] /\ entries'[l][k] = NoEntry
    <3>1. clock > now
      BY <1>1, <1>4, <2>2 DEF Covered
    <3> QED BY <2>2, <3>1 DEF Covered
  <2>3. CASE t >= entry.window + Window[l] /\ entries'[l][k] = [window |-> t, count |-> 1]
    <3>1. clock > now
      BY <1>1, <1>4, <2>3 DEF Covered
    <3> QED BY <1>1, <1>2, <2>3, <3>1 DEF Covered
  <2> QED BY <1>4, <2>1, <2>2, <2>3, HitLeaves
<1> QED BY <1>3, <1>4

\* A refusal advertises the wait until its own reason is over.
LEMMA RefusalCovers ==
    ASSUME LimiterInv, NEW l \in Limiters, NEW k \in Keys, NEW now \in Nat,
           HitAt(l, k, now), ~Allowed(l, k, now),
           NEW until \in Nat, until = now + RetryOf(l, k, now)
    PROVE  Covered(l, k, now, until)'
<1>1. until = now + RetryAfter(l, k, now)
  BY DEF RetryOf
<1>2. /\ Window[l] \in Nat \ {0} /\ Limit[l] \in Nat \ {0} /\ lastCleanup[l] \in Nat
      /\ MaxEntries \in Nat /\ NoEntry.window = -1
  BY LimitTypes, LimiterAssumption DEF LimiterInv, Limit, Limiters
<1>3. Cleaned(l, now) \in [Keys -> Entry]
  BY CleanedTable DEF LimiterInv
<1>4. CASE TableFull(l, k, now)
  <2>1. entries'[l] = Cleaned(l, now) /\ Cleaned(l, now)[k] = NoEntry
    BY <1>4 DEF HitAt, TableFull, LimiterInv, Tables
  <2>2. Used(l)' = {j \in Keys : Cleaned(l, now)[j] # NoEntry}
    BY <2>1 DEF Used
  <2>3. Cardinality(Used(l)') >= MaxEntries
    BY <1>4, <2>2 DEF TableFull
  <2>4. lastCleanup'[l] = CleanupStamp(l, now)
    BY DEF HitAt, LimiterInv
  <2>5. now < lastCleanup'[l] + Window[l]
    BY <1>2, <2>4 DEF CleanupStamp
  <2> QED BY <2>1, <2>3, <2>5 DEF Covered, Closed
<1>5. CASE ~TableFull(l, k, now)
  <2> DEFINE entry == Cleaned(l, now)[k]
             counted == Counted(l, k, now)
  <2>1. counted.count > Limit[l] \/ ~(counted.count <= Limit[l])
    BY <1>5 DEF Allowed
  <2>2. entry \in Entry /\ entry.window \in Int /\ entry.count \in Nat
    BY <1>3 DEF Entry
  <2>3. ~(entry = NoEntry \/ Over(l, entry, now))
    BY <1>2, <2>1 DEF Counted
  <2>4. counted = [entry EXCEPT !.count = OneMore(l, entry.count)]
    BY <2>3 DEF Counted
  <2>5. counted.window = entry.window
    BY <2>2, <2>4 DEF Entry
  <2>6. now < entry.window + Window[l]
    BY <1>2, <2>2, <2>3 DEF Over
  <2>7. entries'[l][k] = counted /\ counted # NoEntry
    BY <1>3, <1>5, CountedUsed DEF HitAt, LimiterInv, Tables
  <2>8. entry.window + Window[l] <= until
    <3>1. RetryAfter(l, k, now) = RetryAfterSeconds(entry.window + Window[l], now)
      BY <1>5, <2>5 DEF RetryAfter
    <3> QED BY <1>1, <1>2, <2>2, <3>1 DEF RetryAfterSeconds
  <2> HIDE DEF entry, counted
  <2>9. /\ entries'[l][k] # NoEntry
        /\ now < entries'[l][k].window + Window[l]
        /\ entries'[l][k].window + Window[l] <= until
    BY <2>5, <2>6, <2>7, <2>8
  <2> QED BY <2>9 DEF Covered
<1> QED BY <1>4, <1>5

\* What a step leaves alone stays covered: the answer of a handler that does not move.
LEMMA SameRefusals ==
    ASSUME LimiterInv, WaitInv, NEW q \in Reqs, req'[q] = req[q],
           NEW l \in req[q].refused,
           \A k \in Keys, now \in Nat, until \in Nat :
              now <= clock /\ Covered(l, k, now, until) => Covered(l, k, now, until)'
    PROVE  req'[q].key \in Keys
           /\ Covered(l, req[q].key, req[q].now, req[q].now + req[q].retry)'
<1>1. /\ req[q].key \in Keys
      /\ Covered(l, req[q].key, req[q].now, req[q].now + req[q].retry)
  BY DEF WaitInv, Refusals
<1>2. req[q].now \in Nat /\ req[q].retry \in Nat /\ req[q].now <= clock
  BY DEF LimiterInv, Shape, Request, Handlers
<1>3. PICK k \in Keys, now \in Nat, until \in Nat :
        k = req[q].key /\ now = req[q].now /\ until = req[q].now + req[q].retry
  BY <1>1, <1>2
<1>4. Covered(l, k, now, until)
  BY <1>1, <1>3
<1>5. Covered(l, k, now, until)'
  BY <1>2, <1>3, <1>4
<1>6. k = req'[q].key /\ now = req'[q].now /\ until = req'[q].now + req'[q].retry
  BY <1>3
<1> QED BY <1>1, <1>5, <1>6 DEF Covered, Closed

\* A hit keeps the wait of everybody who does not move.
LEMMA HitCoversAll ==
    ASSUME LimiterInv, WaitInv, NEW h \in Limiters, NEW r \in Reqs, req[r].pc # "idle",
           HitAt(h, req[r].key, req[r].now), clock' = clock,
           NEW l \in Limiters, NEW k \in Keys, NEW now \in Nat, NEW until \in Nat,
           now <= clock, Covered(l, k, now, until)
    PROVE  Covered(l, k, now, until)'
<1>1. /\ req[r].key \in Keys /\ req[r].now \in Nat /\ req[r].now <= clock
      /\ clock <= req[r].now + MaxLag /\ clock \in Nat
  BY DEF LimiterInv, Named, Shape, Request, Handlers, WaitInv, Prompt
<1>2. CASE h = l
  BY <1>1, <1>2, HitCovers
<1>3. CASE h # l
  <2>1. entries'[l] = entries[l] /\ lastCleanup'[l] = lastCleanup[l]
    BY <1>3 DEF HitAt, LimiterInv, Tables
  <2> QED BY <1>1, <2>1, OthersCover
<1> QED BY <1>2, <1>3

LEMMA BurstWaits ==
    ASSUME LimiterInv, WaitInv, NEW r \in Reqs, HitBurst(r)
    PROVE  WaitInv'
<1> DEFINE key == req[r].key  now == req[r].now  wait == RetryOf("burst", key, now)
<1>1. /\ "burst" \in Limiters /\ req[r].pc = "burst" /\ HitAt("burst", key, now)
      /\ clock' = clock
  BY DEF HitBurst, Limiters
<1>2. key \in Keys /\ now \in Nat /\ wait \in Nat
  BY <1>1, RetryOfType DEF LimiterInv, Named, Shape, Request
<1>3. /\ req'[r] = [req[r] EXCEPT !.pc = "minute", !.retry = wait,
                                  !.refused = RefusedBy("burst", key, now)]
      /\ \A q \in Reqs \ {r} : req'[q] = req[q]
  BY DEF HitBurst, LimiterInv, Shape
<1>4. /\ req'[r].pc = "minute" /\ req'[r].refused = RefusedBy("burst", key, now)
      /\ req'[r].retry = wait /\ req'[r].key = key /\ req'[r].now = now
  BY <1>3 DEF LimiterInv, Shape, Request
<1>5. Prompt'
  BY <1>1, <1>3, <1>4 DEF WaitInv, Prompt
<1>6. ASSUME NEW q \in Reqs, NEW l \in req'[q].refused
      PROVE  req'[q].key \in Keys
             /\ Covered(l, req[q].key, req[q].now, req[q].now + req[q].retry)'
  <2>1. CASE q # r
    <3>1. req'[q] = req[q] /\ l \in Limiters
      BY <1>3, <2>1, <1>6 DEF LimiterInv, Shape, Request
    <3> QED BY <1>1, <1>6, <3>1, HitCoversAll, SameRefusals
  <2>2. CASE q = r
    <3>1. l = "burst" /\ ~Allowed("burst", key, now)
      BY <1>4, <1>6, <2>2 DEF RefusedBy
    <3>2. PICK k \in Keys, at \in Nat, until \in Nat :
            k = key /\ at = now /\ until = now + wait
      BY <1>2
    <3>3. Covered("burst", k, at, until)'
      BY <1>1, <3>1, <3>2, RefusalCovers
    <3>4. k = req'[r].key /\ at = req'[r].now /\ until = req'[r].now + req'[r].retry
      BY <1>4, <3>2
    <3> QED BY <1>2, <1>4, <2>2, <3>1, <3>3, <3>4 DEF Covered, Closed
  <2> QED BY <2>1, <2>2
<1>7. \A q \in Reqs : req'[q].pc = "burst" => req'[q].refused = {}
  BY <1>3, <1>4 DEF WaitInv, Refusals
<1> QED BY <1>5, <1>6, <1>7 DEF WaitInv, Refusals

LEMMA MinuteWaits ==
    ASSUME LimiterInv, WaitInv, NEW r \in Reqs, HitMinute(r)
    PROVE  WaitInv'
<1> DEFINE key == req[r].key  now == req[r].now  wait == RetryOf("minute", key, now)
           all == req[r].refused \cup RefusedBy("minute", key, now)
           answer == IF all = {} THEN 0 ELSE AnswerRetry(req[r].retry, wait)
<1>1. /\ "minute" \in Limiters /\ req[r].pc = "minute" /\ HitAt("minute", key, now)
      /\ clock' = clock
  BY DEF HitMinute, Limiters
<1>2. key \in Keys /\ now \in Nat /\ wait \in Nat /\ req[r].retry \in Nat /\ now <= clock
  BY <1>1, RetryOfType DEF LimiterInv, Named, Shape, Request, Handlers
<1>3. /\ req'[r] = [req[r] EXCEPT !.pc = "idle", !.refused = all, !.retry = answer]
      /\ \A q \in Reqs \ {r} : req'[q] = req[q]
  BY DEF HitMinute, LimiterInv, Shape
<1>4. /\ req'[r].pc = "idle" /\ req'[r].refused = all
      /\ req'[r].retry = answer /\ req'[r].key = key /\ req'[r].now = now
  BY <1>3 DEF LimiterInv, Shape, Request
<1>5. Prompt'
  BY <1>1, <1>3, <1>4 DEF WaitInv, Prompt
<1>6. all # {} => answer \in Nat /\ answer >= req[r].retry /\ answer >= wait
  BY <1>2 DEF AnswerRetry, Larger
<1> HIDE DEF answer, wait
<1>7. ASSUME NEW q \in Reqs, NEW l \in req'[q].refused
      PROVE  req'[q].key \in Keys
             /\ Covered(l, req[q].key, req[q].now, req[q].now + req[q].retry)'
  <2>1. CASE q # r
    <3>1. req'[q] = req[q] /\ l \in Limiters
      BY <1>3, <2>1, <1>7 DEF LimiterInv, Shape, Request
    <3> QED BY <1>1, <1>7, <3>1, HitCoversAll, SameRefusals
  <2>2. CASE q = r
    <3>1. l \in all /\ l \in Limiters
      BY <1>4, <1>7, <2>2 DEF LimiterInv, Shape, Request, RefusedBy, Limiters
    <3>2. PICK k \in Keys, at \in Nat, until \in Nat, soon \in Nat, late \in Nat :
            /\ k = key /\ at = now /\ until = now + wait
            /\ soon = now + req[r].retry /\ late = now + answer
      BY <1>2, <1>6, <3>1
    <3>3. until <= late /\ soon <= late
      BY <1>2, <1>6, <3>1, <3>2
    <3>4. Covered(l, k, at, late)'
      <4>1. CASE l \in req[r].refused
        <5>1. Covered(l, k, at, soon)
          BY <3>2, <4>1 DEF WaitInv, Refusals
        <5>2. Covered(l, k, at, late)
          BY <3>1, <3>3, <5>1, LongerCovers
        <5> QED BY <1>1, <1>2, <3>1, <3>2, <5>2, HitCoversAll
      <4>2. CASE l \notin req[r].refused
        <5>1. l = "minute" /\ ~Allowed("minute", key, now)
          BY <3>1, <4>2 DEF RefusedBy
        <5>2. Covered("minute", k, at, until)'
          BY <1>1, <3>2, <5>1, RefusalCovers DEF wait
        <5>3. Tables'
          BY <1>1, <1>2, HitTables
        <5>4. entries'["minute"][k].window \in Int /\ Window["minute"] \in Nat
          BY <1>1, <5>3, LimitTypes DEF Tables, Entry
        <5> QED BY <3>3, <5>1, <5>2, <5>4 DEF Covered
      <4> QED BY <4>1, <4>2
    <3>5. k = req'[r].key /\ at = req'[r].now /\ late = req'[r].now + req'[r].retry
      BY <1>4, <3>2
    <3> QED BY <1>2, <1>4, <2>2, <3>4, <3>5 DEF Covered, Closed
  <2> QED BY <2>1, <2>2
<1>8. \A q \in Reqs : req'[q].pc = "burst" => req'[q].refused = {}
  BY <1>3, <1>4 DEF WaitInv, Refusals
<1> QED BY <1>5, <1>7, <1>8 DEF WaitInv, Refusals

LEMMA NextWaits == LimiterInv /\ WaitInv /\ [Next]_vars => WaitInv'
<1> SUFFICES ASSUME LimiterInv, WaitInv, [Next]_vars PROVE WaitInv'
  OBVIOUS
<1>1. CASE UNCHANGED vars
  BY <1>1 DEF vars, WaitInv, Prompt, Refusals, Covered, Closed, Used
<1>2. ASSUME NEW r \in Reqs, NEW k \in Keys, Arrive(r, k) PROVE WaitInv'
  <2>1. /\ req'[r] = [pc |-> "burst", key |-> k, now |-> clock, refused |-> {}, retry |-> 0]
        /\ \A q \in Reqs \ {r} : req'[q] = req[q]
        /\ UNCHANGED <<clock, entries, lastCleanup>>
    BY <1>2 DEF Arrive, LimiterInv, Shape
  <2>2. Prompt'
    BY <2>1, LimiterAssumption DEF WaitInv, Prompt, LimiterInv
  <2>3. Refusals'
    BY <2>1 DEF WaitInv, Refusals, Covered, Closed, Used
  <2> QED BY <2>2, <2>3 DEF WaitInv
<1>3. ASSUME NEW r \in Reqs, HitBurst(r) PROVE WaitInv'
  BY <1>3, BurstWaits
<1>4. ASSUME NEW r \in Reqs, HitMinute(r) PROVE WaitInv'
  BY <1>4, MinuteWaits
<1>5. CASE Tick
  <2>1. /\ clock' = clock + 1 /\ clock \in Nat /\ UNCHANGED <<entries, lastCleanup, req>>
        /\ MaxLag \in Nat /\ req \in [Reqs -> Request]
    BY <1>5, LimiterAssumption DEF Tick, LimiterInv, Shape
  <2>2. Prompt'
    <3> SUFFICES ASSUME NEW q \in Reqs, req[q].pc # "idle" PROVE clock + 1 <= req[q].now + MaxLag
      BY <2>1 DEF Prompt
    <3>1. clock < req[q].now + MaxLag /\ req[q].now \in Nat
      BY <1>5, <2>1 DEF Tick, Request
    <3> QED BY <2>1, <3>1
  <2>3. ASSUME NEW q \in Reqs, NEW l \in req'[q].refused
        PROVE  req'[q].key \in Keys
               /\ Covered(l, req[q].key, req[q].now, req[q].now + req[q].retry)'
    <3>1. req'[q] = req[q] /\ l \in Limiters
      BY <2>1, <2>3 DEF Request
    <3>2. clock' \in Nat /\ clock <= clock'
      BY <2>1
    <3> QED BY <2>1, <2>3, <3>1, <3>2, OthersCover, SameRefusals
  <2>4. \A q \in Reqs : req'[q].pc = "burst" => req'[q].refused = {}
    BY <2>1 DEF WaitInv, Refusals
  <2> QED BY <2>2, <2>3, <2>4 DEF WaitInv, Refusals
<1> QED BY <1>1, <1>2, <1>3, <1>4, <1>5 DEF Next

\* Covered means that the group gets through.
LEMMA CoveredLetsThrough ==
    ASSUME LimiterInv, NEW l \in Limiters, NEW k \in Keys, NEW now \in Nat,
           NEW again \in Nat, Covered(l, k, now, again)
    PROVE  \/ Allowed(l, k, again) \/ TableFull(l, k, again)
           \/ entries[l][k].window > now - MaxLag
<1> DEFINE clean == Cleaned(l, again)[k]
<1>1. clean \in {entries[l][k], NoEntry} /\ entries[l][k].window \in Int /\ Window[l] \in Nat
  BY CleanedTable, LimitTypes DEF LimiterInv, Tables, Entry
<1>2. Limit[l] \in Nat \ {0}
  BY LimiterAssumption DEF Limit, Limiters
<1>3. CASE entries[l][k] = NoEntry \/ entries[l][k].window + Window[l] <= again
  <2>1. clean = NoEntry \/ Over(l, clean, again)
    BY <1>1, <1>3 DEF Over
  <2>2. Counted(l, k, again) = [window |-> again, count |-> 1]
    BY <2>1 DEF Counted
  <2>3. Counted(l, k, again).count = 1
    BY <2>2
  <2> QED BY <1>2, <2>3 DEF Allowed
<1> QED BY <1>3 DEF Covered

\* Whoever waits as long as told is not refused again for the reason it was refused for,
\* for any limits and windows, however late hits and cleanups of others come.
THEOREM WaitsAreEnough == Spec => []RetryIsEnough
<1>1. Init => WaitInv
  BY LimiterAssumption DEF Init, WaitInv, Prompt, Refusals, Idle
<1>2. LimiterInv /\ WaitInv => RetryIsEnough
  <2> SUFFICES ASSUME LimiterInv, WaitInv, NEW r \in Reqs, NEW l \in req[r].refused
               PROVE  \/ Allowed(l, req[r].key, req[r].now + req[r].retry)
                      \/ TableFull(l, req[r].key, req[r].now + req[r].retry)
                      \/ entries[l][req[r].key].window > req[r].now - MaxLag
    BY DEF RetryIsEnough
  <2>1. /\ req[r].key \in Keys /\ l \in Limiters /\ req[r].now \in Nat
        /\ req[r].now + req[r].retry \in Nat
        /\ Covered(l, req[r].key, req[r].now, req[r].now + req[r].retry)
    BY DEF WaitInv, Refusals, LimiterInv, Shape, Request
  <2> QED BY <2>1, CoveredLetsThrough
<1> QED BY <1>1, <1>2, NextWaits, LimiterInvariant, PTL DEF Spec

-----------------------------------------------------------------------------
(* Twice the limit: what a limiter's window has let through *)

\* Operations O with the stamps st, seen from a window that starts at w: those counted
\* in it, those of the window before, and older ones.
Split(O, st, C, P, w, W, limit) ==
    /\ IsFiniteSet(C) /\ Cardinality(C) <= limit
    /\ IsFiniteSet(P) /\ Cardinality(P) <= limit
    /\ \A x \in C : st[x] < w + W
    /\ \A x \in P : st[x] < w + MaxLag
    /\ \A x \in O : x \in C \/ x \in P \/ st[x] < w - W + 2 * MaxLag

\* A window that counts C starts when the group's entry says; a dropped entry stands for
\* a window that is over.
Entered(entry, C, w, t, W) ==
    /\ entry # NoEntry => w = entry.window /\ Cardinality(C) <= entry.count
    /\ entry = NoEntry => w + W <= t

\* The limiter's entry of a group accounts for the operations O, at time t.
Booked(O, st, entry, t, W, limit) ==
    \E w \in (-W) .. t : \E C \in SUBSET O : \E P \in SUBSET O :
        Split(O, st, C, P, w, W, limit) /\ Entered(entry, C, w, t, W)

\* Of operations that are closer together than a window less the lags, there are at most
\* twice as many as the limit.
Thin(O, st, W, limit) ==
    \A S \in SUBSET O :
        IsFiniteSet(S) /\ (\A x, y \in S : st[x] - st[y] < W - 3 * MaxLag)
        => Cardinality(S) <= 2 * limit

\* An operation that both limiters let through, and one that is between them.
Through(i) == <<"through", i>>
Between(r) == <<"between", r>>

\* The operations behind the stamps a of a group, and of its requests R stamped `at'.
OpsOf(a, R) == {Through(i) : i \in DOMAIN a} \cup {Between(r) : r \in R}
StampsOf(a, R, at) == [x \in OpsOf(a, R) |-> IF x[1] = "through" THEN a[x[2]] ELSE at[x[2]]]

Ledger(a, R, at, entry, t, W, limit) ==
    /\ Booked(OpsOf(a, R), StampsOf(a, R, at), entry, t, W, limit)
    /\ Thin(OpsOf(a, R), StampsOf(a, R, at), W, limit)

\* A request that the burst limiter has let through and the minute limiter not seen.
Pending(l, k) ==
    {r \in Reqs : l = "burst" /\ req[r].pc = "minute" /\ req[r].refused = {}
                    /\ req[r].key = k}

Times == [r \in Reqs |-> req[r].now]

LedgerInv ==
    /\ admitted \in [Keys -> Seq(Nat)]
    /\ \A l \in Limiters, k \in Keys : 3 * MaxLag < Window[l] =>
         Ledger(admitted[k], Pending(l, k), Times, entries[l][k], clock, Window[l], Limit[l])

-----------------------------------------------------------------------------
(* The ledger of one group, whatever the operations are *)

\* Operations O2 are some of O, under names of their own.
Relabels(f, O2, st2, O, st) ==
    /\ f \in [O2 -> O]
    /\ \A x, y \in O2 : f[x] = f[y] => x = y
    /\ \A x \in O2 : st2[x] = st[f[x]]

NamedIn(f, O2, C) == {z \in O2 : f[z] \in C}

LEMMA NamedFewer ==
    ASSUME NEW O, NEW st, NEW O2, NEW st2, NEW f, Relabels(f, O2, st2, O, st),
           NEW C \in SUBSET O, IsFiniteSet(C)
    PROVE  /\ IsFiniteSet(NamedIn(f, O2, C)) /\ Cardinality(NamedIn(f, O2, C)) \in Nat
           /\ Cardinality(NamedIn(f, O2, C)) <= Cardinality(C)
<1> DEFINE D == NamedIn(f, O2, C)
           g == [z \in D |-> f[z]]
<1>1. g \in [D -> C] /\ \A x, y \in D : g[x] = g[y] => x = y
  BY DEF Relabels, NamedIn
<1> HIDE DEF g, D
<1>2. g \in Injection(D, C)
  BY <1>1 DEF Injection, IsInjective
<1>3. IsFiniteSet(D) /\ Cardinality(D) <= Cardinality(C)
  BY <1>2, FS_Injection
<1>4. Cardinality(D) \in Nat
  BY <1>3, FS_CardinalityType
<1> QED BY <1>3, <1>4 DEF D

\* Fewer operations, or the same under other names, are accounted for as well.
LEMMA RelabelSplit ==
    ASSUME NEW O, NEW st, NEW O2, NEW st2, NEW f, Relabels(f, O2, st2, O, st),
           NEW C \in SUBSET O, NEW P \in SUBSET O, NEW w \in Int, NEW W \in Nat,
           NEW limit \in Nat, Split(O, st, C, P, w, W, limit)
    PROVE  Split(O2, st2, NamedIn(f, O2, C), NamedIn(f, O2, P), w, W, limit)
<1> DEFINE C2 == NamedIn(f, O2, C)
           P2 == NamedIn(f, O2, P)
<1>1. /\ IsFiniteSet(C) /\ Cardinality(C) <= limit /\ IsFiniteSet(P) /\ Cardinality(P) <= limit
  BY DEF Split
<1>2. Cardinality(C) \in Nat /\ Cardinality(P) \in Nat
  BY <1>1, FS_CardinalityType
<1>3. IsFiniteSet(C2) /\ Cardinality(C2) \in Nat /\ Cardinality(C2) <= Cardinality(C)
  BY <1>1, NamedFewer
<1>4. IsFiniteSet(P2) /\ Cardinality(P2) \in Nat /\ Cardinality(P2) <= Cardinality(P)
  BY <1>1, NamedFewer
<1>5. Cardinality(C2) <= limit /\ Cardinality(P2) <= limit
  BY <1>1, <1>2, <1>3, <1>4
<1>6. /\ \A x \in C2 : st2[x] < w + W
      /\ \A x \in P2 : st2[x] < w + MaxLag
      /\ \A x \in O2 : x \in C2 \/ x \in P2 \/ st2[x] < w - W + 2 * MaxLag
  BY DEF Split, Relabels, NamedIn
<1> HIDE DEF C2, P2
<1>7. Split(O2, st2, C2, P2, w, W, limit)
  BY <1>3, <1>4, <1>5, <1>6 DEF Split
<1> QED BY <1>7 DEF C2, P2

LEMMA RelabelBooked ==
    ASSUME NEW O, NEW st, NEW O2, NEW st2, NEW f, Relabels(f, O2, st2, O, st),
           NEW entry \in Entry, NEW t \in Nat, NEW u \in Nat, t <= u,
           NEW W \in Nat, NEW limit \in Nat, Booked(O, st, entry, t, W, limit)
    PROVE  Booked(O2, st2, entry, u, W, limit)
<1>1. PICK w \in (-W) .. t, C \in SUBSET O, P \in SUBSET O :
        Split(O, st, C, P, w, W, limit) /\ Entered(entry, C, w, t, W)
  BY DEF Booked
<1> DEFINE C2 == NamedIn(f, O2, C)
           P2 == NamedIn(f, O2, P)
<1>2. w \in Int /\ w \in (-W) .. u
  OBVIOUS
<1>3. Split(O2, st2, C2, P2, w, W, limit)
  BY <1>1, <1>2, RelabelSplit
<1>4. C2 \in SUBSET O2 /\ P2 \in SUBSET O2
  BY DEF NamedIn
<1>5. Cardinality(C2) <= Cardinality(C) /\ Cardinality(C2) \in Nat
  BY <1>1, NamedFewer DEF Split
<1>6. Cardinality(C) \in Nat /\ entry.count \in Nat
  BY <1>1, FS_CardinalityType DEF Split, Entry
<1> HIDE DEF C2, P2
<1>7. Entered(entry, C2, w, u, W)
  BY <1>1, <1>5, <1>6 DEF Entered
<1> QED BY <1>2, <1>3, <1>4, <1>7 DEF Booked

LEMMA RelabelThin ==
    ASSUME NEW O, NEW st, NEW O2, NEW st2, NEW f, Relabels(f, O2, st2, O, st),
           NEW W \in Nat, NEW limit \in Nat, Thin(O, st, W, limit)
    PROVE  Thin(O2, st2, W, limit)
<1> SUFFICES ASSUME NEW S \in SUBSET O2, IsFiniteSet(S),
                    \A x, y \in S : st2[x] - st2[y] < W - 3 * MaxLag
             PROVE  Cardinality(S) <= 2 * limit
  BY DEF Thin
<1> DEFINE T == {f[x] : x \in S}
           g == [x \in S |-> f[x]]
<1>1. g \in [S -> T] /\ (\A x, y \in S : g[x] = g[y] => x = y)
      /\ (\A z \in T : \E x \in S : g[x] = z)
  BY DEF Relabels
<1>2. T \in SUBSET O /\ \A x, y \in T : st[x] - st[y] < W - 3 * MaxLag
  BY DEF Relabels
<1> HIDE DEF T, g
<1>3. g \in Injection(S, T) /\ g \in Surjection(S, T)
  BY <1>1 DEF Injection, IsInjective, Surjection
<1>4. IsFiniteSet(T) /\ Cardinality(T) = Cardinality(S)
  BY <1>3, FS_Surjection
<1>5. Cardinality(T) <= 2 * limit
  BY <1>2, <1>4 DEF Thin
<1> QED BY <1>4, <1>5

-----------------------------------------------------------------------------
(* The ledger when the entry changes *)

\* The window is over and its entry dropped.
LEMMA BookedDrop ==
    ASSUME NEW O, NEW st, NEW entry \in Entry, entry # NoEntry, NEW t \in Nat,
           NEW W \in Nat, NEW limit \in Nat, Booked(O, st, entry, t, W, limit),
           entry.window + W <= t
    PROVE  Booked(O, st, NoEntry, t, W, limit)
<1>1. PICK w \in (-W) .. t, C \in SUBSET O, P \in SUBSET O :
        Split(O, st, C, P, w, W, limit) /\ Entered(entry, C, w, t, W)
  BY DEF Booked
<1>2. Entered(NoEntry, C, w, t, W)
  BY <1>1 DEF Entered
<1> QED BY <1>1, <1>2 DEF Booked

\* A hit that is refused is counted, too, or the count stays where it is.
LEMMA BookedMore ==
    ASSUME NEW O, NEW st, NEW entry \in Entry, entry # NoEntry, NEW t \in Nat,
           NEW W \in Nat, NEW limit \in Nat, Booked(O, st, entry, t, W, limit),
           NEW more \in Entry, more # NoEntry, more.window = entry.window,
           more.count >= entry.count
    PROVE  Booked(O, st, more, t, W, limit)
<1>1. PICK w \in (-W) .. t, C \in SUBSET O, P \in SUBSET O :
        Split(O, st, C, P, w, W, limit) /\ Entered(entry, C, w, t, W)
  BY DEF Booked
<1>2. Cardinality(C) \in Nat /\ entry.count \in Nat /\ more.count \in Nat
  BY <1>1, FS_CardinalityType DEF Split, Entry
<1>3. Entered(more, C, w, t, W)
  BY <1>1, <1>2 DEF Entered
<1> QED BY <1>1, <1>3 DEF Booked

\* A hit opens a window: what the last one counted is now of the window before.
LEMMA BookedNew ==
    ASSUME NEW O, NEW st, \A x \in O : st[x] \in Nat,
           NEW entry \in Entry, NEW t \in Nat, NEW now \in Nat,
           NEW W \in Nat, NEW limit \in Nat, Booked(O, st, entry, t, W, limit),
           3 * MaxLag < W, now <= t, t <= now + MaxLag,
           entry = NoEntry \/ now >= entry.window + W
    PROVE  Booked(O, st, [window |-> now, count |-> 0], t, W, limit)
<1>1. PICK w \in (-W) .. t, C \in SUBSET O, P \in SUBSET O :
        Split(O, st, C, P, w, W, limit) /\ Entered(entry, C, w, t, W)
  BY DEF Booked
<1>2. MaxLag \in Nat /\ w \in Int
  BY LimiterAssumption
<1>3. w + W <= now + MaxLag
  <2>1. CASE entry = NoEntry
    <3>1. w + W <= t
      BY <1>1, <2>1 DEF Entered
    <3> QED BY <1>2, <3>1
  <2>2. CASE entry # NoEntry
    <3>1. w = entry.window
      BY <1>1, <2>2 DEF Entered
    <3> QED BY <1>2, <2>2, <3>1
  <2> QED BY <2>1, <2>2
<1>4. \A x \in C : st[x] < now + MaxLag
  <2> SUFFICES ASSUME NEW x \in C PROVE st[x] < now + MaxLag
    OBVIOUS
  <2>1. st[x] < w + W /\ st[x] \in Nat
    BY <1>1 DEF Split
  <2> QED BY <1>2, <1>3, <2>1
<1>5. ASSUME NEW x \in O, x \notin C PROVE st[x] < now - W + 2 * MaxLag
  <2>1. st[x] < w + MaxLag \/ st[x] < w - W + 2 * MaxLag
    BY <1>1, <1>5 DEF Split
  <2>2. st[x] \in Nat
    OBVIOUS
  <2> QED BY <1>2, <1>3, <2>1, <2>2
<1>6. IsFiniteSet({}) /\ Cardinality({}) = 0
  BY FS_EmptySet
<1>7. Split(O, st, {}, C, now, W, limit)
  BY <1>1, <1>4, <1>5, <1>6 DEF Split
<1>8. Entered([window |-> now, count |-> 0], {}, now, t, W)
  <2>1. [window |-> now, count |-> 0] # NoEntry
    BY DEF NoEntry
  <2> QED BY <1>6, <2>1 DEF Entered
<1>9. now \in (-W) .. t
  OBVIOUS
<1> QED BY <1>7, <1>8, <1>9 DEF Booked

\* O2 is O and one operation more, stamped `now'.
Joined(O2, st2, O, st, y, now) ==
    /\ O2 = O \cup {y} /\ y \notin O
    /\ \A x \in O : st2[x] = st[x]
    /\ st2[y] = now

\* An operation is let through in a running window.
LEMMA BookedHit ==
    ASSUME NEW O, NEW st, NEW O2, NEW st2, NEW y, NEW now \in Nat,
           Joined(O2, st2, O, st, y, now),
           \A x \in O : st[x] \in Nat,
           NEW entry \in Entry, NEW t \in Nat, NEW W \in Nat, NEW limit \in Nat,
           Booked(O, st, entry, t, W, limit), Thin(O, st, W, limit),
           3 * MaxLag < W, now <= t, t <= now + MaxLag,
           entry # NoEntry, now < entry.window + W,
           NEW more \in Entry, more # NoEntry, more.window = entry.window,
           more.count = entry.count + 1, more.count <= limit
    PROVE  Booked(O2, st2, more, t, W, limit) /\ Thin(O2, st2, W, limit)
<1>1. PICK w \in (-W) .. t, C \in SUBSET O, P \in SUBSET O :
        Split(O, st, C, P, w, W, limit) /\ Entered(entry, C, w, t, W)
  BY DEF Booked
<1>2. MaxLag \in Nat /\ w \in Int /\ w = entry.window /\ Cardinality(C) <= entry.count
      /\ entry.count \in Nat
  BY <1>1, LimiterAssumption DEF Entered, Entry
<1>3. O2 = O \cup {y} /\ y \notin O /\ (\A x \in O : st2[x] = st[x]) /\ st2[y] = now
  BY DEF Joined
<1> DEFINE C2 == C \cup {y}
<1>4. /\ IsFiniteSet(C) /\ IsFiniteSet(P) /\ Cardinality(P) <= limit
      /\ Cardinality(C) \in Nat /\ Cardinality(P) \in Nat
  BY <1>1, FS_CardinalityType DEF Split
<1>5. IsFiniteSet(C2) /\ Cardinality(C2) = Cardinality(C) + 1
  <2>1. y \notin C
    BY <1>3
  <2> QED BY <1>4, <2>1, FS_AddElement
<1>6. /\ \A x \in C : st2[x] < w + W
      /\ \A x \in P : st2[x] < w + MaxLag
      /\ \A x \in O : x \in C \/ x \in P \/ st2[x] < w - W + 2 * MaxLag
  BY <1>1, <1>3 DEF Split
<1>7. Cardinality(C2) <= limit /\ Cardinality(C2) <= more.count
  BY <1>2, <1>4, <1>5
<1>8. \A x \in C2 : st2[x] < w + W
  BY <1>2, <1>3, <1>6
<1>9. \A x \in O2 : x \in C2 \/ x \in P \/ st2[x] < w - W + 2 * MaxLag
  BY <1>3, <1>6
<1>10. C2 \in SUBSET O2 /\ P \in SUBSET O2 /\ y \in C2
  BY <1>3
<1> HIDE DEF C2
<1>11. Split(O2, st2, C2, P, w, W, limit)
  BY <1>4, <1>5, <1>6, <1>7, <1>8, <1>9 DEF Split
<1>12. Entered(more, C2, w, t, W)
  BY <1>2, <1>7 DEF Entered
<1>13. Booked(O2, st2, more, t, W, limit)
  BY <1>10, <1>11, <1>12 DEF Booked
<1>14. ASSUME NEW S \in SUBSET O2, IsFiniteSet(S),
              \A u, v \in S : st2[u] - st2[v] < W - 3 * MaxLag
       PROVE  Cardinality(S) <= 2 * limit
  <2>1. CASE y \notin S
    <3>1. S \in SUBSET O /\ \A u, v \in S : st[u] - st[v] < W - 3 * MaxLag
      BY <1>3, <1>14, <2>1
    <3> QED BY <1>14, <3>1 DEF Thin
  <2>2. CASE y \in S
    <3>1. ASSUME NEW x \in S PROVE x \in C2 \cup P
      <4>1. CASE x = y
        BY <1>10, <4>1
      <4>2. CASE x # y
        <5>1. x \in O /\ st2[x] = st[x] /\ st[x] \in Nat
          BY <1>3, <4>2
        <5>2. now - st[x] < W - 3 * MaxLag
          BY <1>3, <1>14, <2>2, <5>1
        <5>3. w <= now + MaxLag
          BY <1>2
        <5>4. ~(st[x] < w - W + 2 * MaxLag)
          BY <1>2, <5>1, <5>2, <5>3
        <5> QED BY <1>9, <1>3, <5>1, <5>4
      <4> QED BY <4>1, <4>2
    <3>2. IsFiniteSet(C2 \cup P) /\ Cardinality(C2 \cup P) <= 2 * limit
      <4>1. /\ IsFiniteSet(C2 \cup P)
            /\ Cardinality(C2 \cup P) = Cardinality(C2) + Cardinality(P)
                                          - Cardinality(C2 \cap P)
        BY <1>4, <1>5, FS_Union
      <4>2. C2 \cap P \in SUBSET P
        OBVIOUS
      <4>3. Cardinality(C2 \cap P) \in Nat /\ Cardinality(C2) \in Nat
        BY <1>4, <1>5, <4>2, FS_Subset, FS_CardinalityType
      <4> QED BY <1>4, <1>7, <4>1, <4>3
    <3>3. S \in SUBSET (C2 \cup P)
      BY <3>1
    <3>4. Cardinality(S) <= Cardinality(C2 \cup P) /\ Cardinality(S) \in Nat
          /\ Cardinality(C2 \cup P) \in Nat
      BY <1>14, <3>2, <3>3, FS_Subset, FS_CardinalityType
    <3> QED BY <3>2, <3>4
  <2> QED BY <2>1, <2>2
<1>15. Thin(O2, st2, W, limit)
  BY <1>14 DEF Thin
<1> QED BY <1>13, <1>15

-----------------------------------------------------------------------------
(* Operations and their stamps *)

LEMMA Tokens ==
    /\ \A i, j : Through(i) = Through(j) => i = j
    /\ \A i, j : Between(i) = Between(j) => i = j
    /\ \A i, j : Through(i) # Between(j)
    /\ \A i : Through(i)[1] = "through" /\ Through(i)[2] = i
    /\ \A i : Between(i)[1] = "between" /\ Between(i)[2] = i
  BY DEF Through, Between

\* O and st are the operations of a and R, and when they were stamped.
Recounts(O, st, a, R, at) ==
    /\ \A i \in DOMAIN a : Through(i) \in O /\ st[Through(i)] = a[i]
    /\ \A r \in R : Between(r) \in O /\ st[Between(r)] = at[r]
    /\ \A x \in O : (\E i \in DOMAIN a : x = Through(i)) \/ (\E r \in R : x = Between(r))

LEMMA StampsAre ==
    ASSUME NEW a \in Seq(Nat), NEW R, NEW at
    PROVE  Recounts(OpsOf(a, R), StampsOf(a, R, at), a, R, at)
<1>1. \A i \in DOMAIN a : Through(i) \in OpsOf(a, R)
  BY DEF OpsOf
<1>2. \A r \in R : Between(r) \in OpsOf(a, R)
  BY DEF OpsOf
<1>3. \A i \in DOMAIN a : StampsOf(a, R, at)[Through(i)] = a[i]
  BY <1>1, Tokens DEF StampsOf
<1>4. \A r \in R : StampsOf(a, R, at)[Between(r)] = at[r]
  BY <1>2, Tokens DEF StampsOf
<1>5. \A x \in OpsOf(a, R) : (\E i \in DOMAIN a : x = Through(i)) \/ (\E r \in R : x = Between(r))
  BY DEF OpsOf
<1> QED BY <1>1, <1>2, <1>3, <1>4, <1>5 DEF Recounts

LEMMA StampsNat ==
    ASSUME NEW a \in Seq(Nat), NEW R, NEW at, \A r \in R : at[r] \in Nat
    PROVE  \A x \in OpsOf(a, R) : StampsOf(a, R, at)[x] \in Nat
<1>1. \A i \in DOMAIN a : a[i] \in Nat
  OBVIOUS
<1>2. Recounts(OpsOf(a, R), StampsOf(a, R, at), a, R, at)
  BY StampsAre
<1> QED BY <1>1, <1>2 DEF Recounts

\* A request leaves the way between the limiters.
LEMMA FewerOps ==
    ASSUME NEW a \in Seq(Nat), NEW R, NEW at, NEW R2 \in SUBSET R, NEW at2,
           \A r \in R2 : at2[r] = at[r]
    PROVE  Relabels([x \in OpsOf(a, R2) |-> x], OpsOf(a, R2), StampsOf(a, R2, at2),
                    OpsOf(a, R), StampsOf(a, R, at))
<1>1. OpsOf(a, R2) \subseteq OpsOf(a, R)
  BY DEF OpsOf
<1>2. \A x \in OpsOf(a, R2) : StampsOf(a, R2, at2)[x] = StampsOf(a, R, at)[x]
  <2>1. /\ Recounts(OpsOf(a, R), StampsOf(a, R, at), a, R, at)
        /\ Recounts(OpsOf(a, R2), StampsOf(a, R2, at2), a, R2, at2)
    BY StampsAre
  <2> QED BY <2>1 DEF Recounts
<1> QED BY <1>1, <1>2 DEF Relabels

\* A request is let through by the second limiter and joins the history.
LEMMA MovedOps ==
    ASSUME NEW a \in Seq(Nat), NEW R, NEW at, NEW r \in R, at[r] \in Nat,
           NEW R2, R2 = R \ {r}, NEW at2, \A q \in R2 : at2[q] = at[q],
           NEW b, b = Append(a, at[r])
    PROVE  \E f : Relabels(f, OpsOf(b, R2), StampsOf(b, R2, at2),
                           OpsOf(a, R), StampsOf(a, R, at))
<1> DEFINE n == Len(a) + 1
           O == OpsOf(a, R)
           O2 == OpsOf(b, R2)
           st == StampsOf(a, R, at)
           st2 == StampsOf(b, R2, at2)
           f == [x \in O2 |-> IF x = Through(n) THEN Between(r) ELSE x]
<1>1. /\ b \in Seq(Nat) /\ n \in Nat /\ DOMAIN b = 1 .. n /\ DOMAIN a = 1 .. (n - 1) /\ b[n] = at[r]
      /\ \A i \in DOMAIN a : b[i] = a[i]
  <2>1. /\ b \in Seq(Nat) /\ Len(b) = n /\ b[n] = at[r] /\ Len(a) \in Nat
        /\ \A i \in 1 .. Len(a) : b[i] = a[i]
    BY AppendProperties
  <2> QED BY <2>1
<1>2. Recounts(O, st, a, R, at) /\ Recounts(O2, st2, b, R2, at2)
  BY <1>1, StampsAre
<1> HIDE DEF n, O, O2, st, st2
<1>3. ASSUME NEW x \in O2, x # Through(n)
      PROVE  x \in O /\ x # Between(r) /\ st2[x] = st[x]
  <2>1. CASE \E i \in DOMAIN b : x = Through(i)
    <3>1. PICK i \in DOMAIN b : x = Through(i)
      BY <2>1
    <3>2. i \in DOMAIN a /\ b[i] = a[i]
      BY <1>1, <1>3, <3>1
    <3> QED BY <1>2, <3>1, <3>2, Tokens DEF Recounts
  <2>2. CASE \E q \in R2 : x = Between(q)
    <3>1. PICK q \in R2 : x = Between(q)
      BY <2>2
    <3>2. q \in R /\ q # r
      OBVIOUS
    <3> QED BY <1>2, <3>1, <3>2, Tokens DEF Recounts
  <2> QED BY <1>2, <2>1, <2>2 DEF Recounts
<1>4. Between(r) \in O /\ st[Between(r)] = at[r] /\ st2[Through(n)] = at[r]
  BY <1>1, <1>2 DEF Recounts
<1>5. f \in [O2 -> O]
  BY <1>3, <1>4
<1>6. \A x, y \in O2 : f[x] = f[y] => x = y
  BY <1>3
<1>7. \A x \in O2 : st2[x] = st[f[x]]
  BY <1>3, <1>4
<1> HIDE DEF f
<1>8. Relabels(f, O2, st2, O, st)
  BY <1>5, <1>6, <1>7 DEF Relabels
<1> QED BY <1>8 DEF O, O2, st, st2

LEMMA AppendJoins ==
    ASSUME NEW a \in Seq(Nat), NEW R, NEW at, NEW at2, \A q \in R : at2[q] = at[q],
           NEW now \in Nat, NEW b, b = Append(a, now)
    PROVE  Joined(OpsOf(b, R), StampsOf(b, R, at2), OpsOf(a, R), StampsOf(a, R, at),
                  Through(Len(a) + 1), now)
<1> DEFINE n == Len(a) + 1
           O == OpsOf(a, R)
           O2 == OpsOf(b, R)
           st == StampsOf(a, R, at)
           st2 == StampsOf(b, R, at2)
<1>1. /\ b \in Seq(Nat) /\ n \in Nat /\ DOMAIN b = 1 .. n /\ DOMAIN a = 1 .. (n - 1) /\ b[n] = now
      /\ \A i \in DOMAIN a : b[i] = a[i]
  <2>1. /\ b \in Seq(Nat) /\ Len(b) = n /\ b[n] = now /\ Len(a) \in Nat
        /\ \A i \in 1 .. Len(a) : b[i] = a[i]
    BY AppendProperties
  <2> QED BY <2>1
<1>2. Recounts(O, st, a, R, at) /\ Recounts(O2, st2, b, R, at2)
  BY <1>1, StampsAre
<1> HIDE DEF n
<1>3. n \notin DOMAIN a /\ n \in DOMAIN b /\ DOMAIN b = DOMAIN a \cup {n}
  BY <1>1
<1>4. O2 = O \cup {Through(n)}
  BY <1>3 DEF OpsOf
<1> HIDE DEF O, O2, st, st2
<1>5. Through(n) \notin O
  BY <1>2, <1>3, Tokens DEF Recounts
<1>6. st2[Through(n)] = now
  BY <1>1, <1>2, <1>3 DEF Recounts
<1>7. \A x \in O : st2[x] = st[x]
  BY <1>1, <1>2, <1>3 DEF Recounts
<1>8. Joined(O2, st2, O, st, Through(n), now)
  BY <1>4, <1>5, <1>6, <1>7 DEF Joined
<1> QED BY <1>8 DEF n, O, O2, st, st2

LEMMA PendingJoins ==
    ASSUME NEW a \in Seq(Nat), NEW R, NEW at, NEW r, r \notin R, NEW R2, R2 = R \cup {r},
           NEW at2, \A q \in R : at2[q] = at[q], NEW now \in Nat, at2[r] = now
    PROVE  Joined(OpsOf(a, R2), StampsOf(a, R2, at2), OpsOf(a, R), StampsOf(a, R, at),
                  Between(r), now)
<1> DEFINE O == OpsOf(a, R)
           O2 == OpsOf(a, R2)
           st == StampsOf(a, R, at)
           st2 == StampsOf(a, R2, at2)
<1>1. O2 = O \cup {Between(r)}
  BY DEF OpsOf
<1>2. Recounts(O, st, a, R, at) /\ Recounts(O2, st2, a, R2, at2)
  BY StampsAre
<1> HIDE DEF O, O2, st, st2
<1>3. Between(r) \notin O
  BY <1>2, Tokens DEF Recounts
<1>4. st2[Between(r)] = now
  BY <1>2 DEF Recounts
<1>5. \A x \in O : st2[x] = st[x]
  BY <1>2 DEF Recounts
<1>6. Joined(O2, st2, O, st, Between(r), now)
  BY <1>1, <1>3, <1>4, <1>5 DEF Joined
<1> QED BY <1>6 DEF O, O2, st, st2

-----------------------------------------------------------------------------
(* The ledger and a hit *)

LEMMA SameLedger ==
    ASSUME NEW a \in Seq(Nat), NEW R, NEW at, NEW entry \in Entry, NEW t \in Nat,
           NEW W \in Nat, NEW limit \in Nat, Ledger(a, R, at, entry, t, W, limit),
           NEW R2 \in SUBSET R, NEW at2, \A r \in R2 : at2[r] = at[r],
           NEW u \in Nat, t <= u
    PROVE  Ledger(a, R2, at2, entry, u, W, limit)
<1> DEFINE f == [x \in OpsOf(a, R2) |-> x]
           O == OpsOf(a, R)
           O2 == OpsOf(a, R2)
           st == StampsOf(a, R, at)
           st2 == StampsOf(a, R2, at2)
<1>1. Relabels(f, O2, st2, O, st)
  BY FewerOps
<1>2. Booked(O, st, entry, t, W, limit) /\ Thin(O, st, W, limit)
  BY DEF Ledger
<1> HIDE DEF f, O, O2, st, st2
<1>3. Booked(O2, st2, entry, u, W, limit)
  BY <1>1, <1>2, RelabelBooked
<1>4. Thin(O2, st2, W, limit)
  BY <1>1, <1>2, RelabelThin
<1> QED BY <1>3, <1>4 DEF Ledger, O2, st2

LEMMA MovedLedger ==
    ASSUME NEW a \in Seq(Nat), NEW R, NEW at, NEW entry \in Entry, NEW t \in Nat,
           NEW W \in Nat, NEW limit \in Nat, Ledger(a, R, at, entry, t, W, limit),
           NEW r \in R, at[r] \in Nat,
           NEW R2, R2 = R \ {r}, NEW at2, \A q \in R2 : at2[q] = at[q],
           NEW b, b = Append(a, at[r])
    PROVE  Ledger(b, R2, at2, entry, t, W, limit)
<1> DEFINE O == OpsOf(a, R)
           O2 == OpsOf(b, R2)
           st == StampsOf(a, R, at)
           st2 == StampsOf(b, R2, at2)
<1>1. PICK f : Relabels(f, O2, st2, O, st)
  BY MovedOps
<1>2. Booked(O, st, entry, t, W, limit) /\ Thin(O, st, W, limit)
  BY DEF Ledger
<1> HIDE DEF O, O2, st, st2
<1>3. Booked(O2, st2, entry, t, W, limit)
  BY <1>1, <1>2, RelabelBooked
<1>4. Thin(O2, st2, W, limit)
  BY <1>1, <1>2, RelabelThin
<1> QED BY <1>3, <1>4 DEF Ledger, O2, st2

\* What a hit may do to the entry of a group whose operations stay the same.
EntryMoves(entry, entry2, now, W) ==
    \/ entry2 = entry
    \/ entry2 = NoEntry /\ entry # NoEntry /\ now >= entry.window + W
    \/ /\ entry2 # NoEntry /\ entry # NoEntry
       /\ entry2.window = entry.window /\ entry2.count >= entry.count
    \/ /\ entry2 = [window |-> now, count |-> 1]
       /\ entry = NoEntry \/ now >= entry.window + W

\* What it does when it lets an operation through.
EntryCounts(entry, entry2, now, W, limit) ==
    \/ /\ entry # NoEntry /\ now < entry.window + W /\ entry2 # NoEntry
       /\ entry2.window = entry.window /\ entry2.count = entry.count + 1
       /\ entry2.count <= limit
    \/ /\ entry2 = [window |-> now, count |-> 1]
       /\ entry = NoEntry \/ now >= entry.window + W

LEMMA EntryLedger ==
    ASSUME NEW a \in Seq(Nat), NEW R, NEW at, \A r \in R : at[r] \in Nat,
           NEW entry \in Entry, NEW t \in Nat,
           NEW W \in Nat, NEW limit \in Nat, Ledger(a, R, at, entry, t, W, limit),
           NEW entry2 \in Entry, NEW now \in Nat, EntryMoves(entry, entry2, now, W),
           3 * MaxLag < W, now <= t, t <= now + MaxLag
    PROVE  Ledger(a, R, at, entry2, t, W, limit)
<1> DEFINE O == OpsOf(a, R)
           st == StampsOf(a, R, at)
<1>1. Booked(O, st, entry, t, W, limit) /\ Thin(O, st, W, limit)
  BY DEF Ledger
<1>2. \A x \in O : st[x] \in Nat
  BY StampsNat
<1> HIDE DEF O, st
<1>3. entry.window \in Int /\ entry.count \in Nat /\ entry2.count \in Nat
  BY DEF Entry
<1>4. Booked(O, st, entry2, t, W, limit)
  <2>1. CASE entry2 = entry
    BY <1>1, <2>1
  <2>2. CASE entry2 = NoEntry /\ entry # NoEntry /\ now >= entry.window + W
    BY <1>1, <1>3, <2>2, BookedDrop
  <2>3. CASE /\ entry2 # NoEntry /\ entry # NoEntry
             /\ entry2.window = entry.window /\ entry2.count >= entry.count
    BY <1>1, <2>3, BookedMore
  <2>4. CASE /\ entry2 = [window |-> now, count |-> 1]
             /\ entry = NoEntry \/ now >= entry.window + W
    <3> DEFINE fresh == [window |-> now, count |-> 0]
    <3>1. /\ fresh \in Entry /\ fresh # NoEntry /\ entry2 # NoEntry
          /\ entry2.window = fresh.window /\ entry2.count >= fresh.count
      BY <2>4 DEF Entry, NoEntry
    <3>2. Booked(O, st, fresh, t, W, limit)
      BY <1>1, <1>2, <2>4, BookedNew
    <3> HIDE DEF fresh
    <3> QED BY <3>1, <3>2, BookedMore
  <2> QED BY <2>1, <2>2, <2>3, <2>4 DEF EntryMoves
<1> QED BY <1>1, <1>4 DEF Ledger, O, st

\* The hit of one more operation.
LEMMA HitLedger ==
    ASSUME NEW O, NEW st, \A x \in O : st[x] \in Nat,
           NEW O2, NEW st2, NEW y, NEW now \in Nat, Joined(O2, st2, O, st, y, now),
           NEW entry \in Entry, NEW t \in Nat, NEW W \in Nat, NEW limit \in Nat,
           Booked(O, st, entry, t, W, limit), Thin(O, st, W, limit),
           NEW entry2 \in Entry, EntryCounts(entry, entry2, now, W, limit), limit > 0,
           3 * MaxLag < W, now <= t, t <= now + MaxLag
    PROVE  Booked(O2, st2, entry2, t, W, limit) /\ Thin(O2, st2, W, limit)
<1>1. CASE /\ entry # NoEntry /\ now < entry.window + W /\ entry2 # NoEntry
           /\ entry2.window = entry.window /\ entry2.count = entry.count + 1
           /\ entry2.count <= limit
  BY <1>1, BookedHit
<1>2. CASE /\ entry2 = [window |-> now, count |-> 1]
           /\ entry = NoEntry \/ now >= entry.window + W
  <2> DEFINE fresh == [window |-> now, count |-> 0]
  <2>1. /\ fresh \in Entry /\ fresh # NoEntry /\ fresh.window = now
        /\ entry2 # NoEntry /\ entry2.window = fresh.window
        /\ entry2.count = fresh.count + 1 /\ entry2.count <= limit
    BY <1>2 DEF Entry, NoEntry
  <2>2. Booked(O, st, fresh, t, W, limit)
    BY <1>2, BookedNew
  <2> HIDE DEF fresh
  <2>3. now < fresh.window + W
    BY <2>1, LimiterAssumption
  <2> QED BY <2>1, <2>2, <2>3, BookedHit
<1> QED BY <1>1, <1>2 DEF EntryCounts

-----------------------------------------------------------------------------
(* The ledger of a step *)

Kept(l, k) ==
    Ledger(admitted[k], Pending(l, k), Times, entries[l][k], clock, Window[l], Limit[l])

\* What is known of the parts of a ledger.
LEMMA LedgerTypes ==
    ASSUME LimiterInv, LedgerInv, NEW l \in Limiters, NEW k \in Keys
    PROVE  /\ admitted[k] \in Seq(Nat) /\ Pending(l, k) \in SUBSET Reqs
           /\ \A r \in Reqs : Times[r] = req[r].now /\ Times[r] \in Nat
           /\ entries[l][k] \in Entry /\ clock \in Nat
           /\ Window[l] \in Nat /\ Limit[l] \in Nat /\ Limit[l] > 0
<1>1. Limit[l] > 0
  BY LimiterAssumption DEF Limit, Limiters
<1> QED BY <1>1, LimitTypes DEF LimiterInv, LedgerInv, Pending, Times, Tables, Shape, Request

\* The hit of a request under way, on the entry of any group.
LEMMA HitMoves ==
    ASSUME LimiterInv, NEW l \in Limiters, NEW j \in Keys, NEW t \in Nat, HitAt(l, j, t),
           NEW k \in Keys
    PROVE  EntryMoves(entries[l][k], entries'[l][k], t, Window[l])
  BY HitLeaves DEF EntryMoves

\* The hit that lets an operation through.
LEMMA AllowedCounts ==
    ASSUME LimiterInv, NEW l \in Limiters, NEW k \in Keys, NEW t \in Nat, HitAt(l, k, t),
           Allowed(l, k, t)
    PROVE  EntryCounts(entries[l][k], entries'[l][k], t, Window[l], Limit[l])
<1> DEFINE clean == Cleaned(l, t)
           entry == entries[l][k]
<1>1. clean \in [Keys -> Entry] /\ clean[k] \in {entry, NoEntry}
  BY CleanedTable DEF LimiterInv
<1>2. /\ entry \in Entry /\ entry.window \in Int /\ entry.count \in Nat
      /\ Window[l] \in Nat /\ Limit[l] \in Nat /\ NoEntry.window = -1
  BY LimitTypes DEF LimiterInv, Tables, Entry
<1>3. clean[k] = entry \/ (entry # NoEntry /\ clean[k] = NoEntry /\ t >= entry.window + Window[l])
  BY <1>1, <1>2, CleanedKeepsRunning DEF LimiterInv
<1>4. entries'[l][k] = Counted(l, k, t) /\ Counted(l, k, t).count <= Limit[l]
  BY <1>1 DEF HitAt, LimiterInv, Tables, Allowed
<1>5. Counted(l, k, t) # NoEntry
  BY CountedUsed
<1>6. CASE clean[k] = NoEntry \/ Over(l, clean[k], t)
  <2>1. entries'[l][k] = [window |-> t, count |-> 1]
    BY <1>4, <1>6 DEF Counted
  <2>2. entry = NoEntry \/ t >= entry.window + Window[l]
    BY <1>2, <1>3, <1>6 DEF Over
  <2> QED BY <2>1, <2>2 DEF EntryCounts
<1>7. CASE ~(clean[k] = NoEntry \/ Over(l, clean[k], t))
  <2>1. clean[k] = entry /\ entry # NoEntry /\ t < entry.window + Window[l]
    BY <1>2, <1>3, <1>7 DEF Over
  <2>2. Counted(l, k, t) = [entry EXCEPT !.count = OneMore(l, entry.count)]
    BY <1>7, <2>1 DEF Counted
  <2>3. OneMore(l, entry.count) \in Nat /\ Counted(l, k, t).window = entry.window
        /\ Counted(l, k, t).count = OneMore(l, entry.count)
    BY <1>2, <2>2 DEF OneMore, Entry
  <2>4. OneMore(l, entry.count) = entry.count + 1
    BY <1>2, <1>4, <2>3 DEF OneMore
  <2> QED BY <1>4, <1>5, <2>1, <2>3, <2>4 DEF EntryCounts
<1> QED BY <1>6, <1>7

\* No entry, no operation of the group's changes but by leaving, while time may pass.
LEMMA QuietLedger ==
    ASSUME LimiterInv, LedgerInv, NEW l \in Limiters, NEW k \in Keys, 3 * MaxLag < Window[l],
           admitted'[k] = admitted[k], entries'[l][k] = entries[l][k],
           Pending(l, k)' \subseteq Pending(l, k),
           \A r \in Pending(l, k)' : req'[r].now = req[r].now,
           clock' \in Nat, clock <= clock'
    PROVE  Kept(l, k)'
<1>1. Ledger(admitted[k], Pending(l, k), Times, entries[l][k], clock, Window[l], Limit[l])
  BY DEF LedgerInv
<1> DEFINE a == admitted[k]
           R == Pending(l, k)
           entry == entries[l][k]
<1>2. /\ a \in Seq(Nat) /\ R \in SUBSET Reqs /\ entry \in Entry /\ clock \in Nat
      /\ Window[l] \in Nat /\ Limit[l] \in Nat
  BY LedgerTypes
<1>3. \A r \in Pending(l, k)' : Times'[r] = Times[r]
  BY <1>2 DEF Times, Pending
<1>4. Ledger(a, R, Times, entry, clock, Window[l], Limit[l])
  BY <1>1
<1> HIDE DEF a, R, entry
<1>5. Pending(l, k)' \in SUBSET R
  BY DEF R
<1>6. Ledger(a, Pending(l, k)', Times', entry, clock', Window[l], Limit[l])
  BY <1>2, <1>3, <1>4, <1>5, SameLedger
<1> QED BY <1>6 DEF Kept, a, entry

\* Another group's hit, or one that does not let the operation through.
LEMMA OthersLedger ==
    ASSUME LimiterInv, LedgerInv, NEW l \in Limiters, NEW k \in Keys, 3 * MaxLag < Window[l],
           NEW j \in Keys, NEW now \in Nat, HitAt(l, j, now), now <= clock,
           clock <= now + MaxLag, clock' = clock, Tables',
           admitted'[k] = admitted[k],
           Pending(l, k)' \subseteq Pending(l, k),
           \A r \in Pending(l, k)' : req'[r].now = req[r].now
    PROVE  Kept(l, k)'
<1>1. Ledger(admitted[k], Pending(l, k), Times, entries[l][k], clock, Window[l], Limit[l])
  BY DEF LedgerInv
<1> DEFINE a == admitted[k]
           R == Pending(l, k)
           entry == entries[l][k]
           entry2 == entries'[l][k]
<1>2. /\ a \in Seq(Nat) /\ R \in SUBSET Reqs /\ entry \in Entry /\ clock \in Nat
      /\ Window[l] \in Nat /\ Limit[l] \in Nat /\ \A r \in R : Times[r] \in Nat
  BY LedgerTypes
<1>3. \A r \in Pending(l, k)' : Times'[r] = Times[r]
  BY <1>2 DEF Times, Pending
<1>4. EntryMoves(entry, entry2, now, Window[l]) /\ entry2 \in Entry
  BY HitMoves DEF Tables
<1>5. Ledger(a, R, Times, entry, clock, Window[l], Limit[l])
  BY <1>1
<1>6. Pending(l, k)' \in SUBSET R
  OBVIOUS
<1> HIDE DEF a, R, entry, entry2
<1>7. Ledger(a, R, Times, entry2, clock, Window[l], Limit[l])
  BY <1>2, <1>4, <1>5, EntryLedger
<1>8. Ledger(a, Pending(l, k)', Times', entry2, clock, Window[l], Limit[l])
  BY <1>2, <1>3, <1>4, <1>6, <1>7, SameLedger
<1> QED BY <1>8 DEF Kept, a, entry2

\* The limiter lets an operation through: it is pending, or has passed both.
LEMMA PassLedger ==
    ASSUME LimiterInv, LedgerInv, NEW l \in Limiters, NEW k \in Keys, 3 * MaxLag < Window[l],
           NEW now \in Nat, HitAt(l, k, now), Allowed(l, k, now), now <= clock,
           clock <= now + MaxLag, clock' = clock, Tables',
           NEW y, Joined(OpsOf(admitted'[k], Pending(l, k)'),
                         StampsOf(admitted'[k], Pending(l, k)', Times'),
                         OpsOf(admitted[k], Pending(l, k)),
                         StampsOf(admitted[k], Pending(l, k), Times), y, now)
    PROVE  Kept(l, k)'
<1> DEFINE a == admitted[k]
           R == Pending(l, k)
           entry == entries[l][k]
           entry2 == entries'[l][k]
           O == OpsOf(a, R)
           st == StampsOf(a, R, Times)
           O2 == OpsOf(admitted'[k], Pending(l, k)')
           st2 == StampsOf(admitted'[k], Pending(l, k)', Times')
<1>1. Booked(O, st, entry, clock, Window[l], Limit[l]) /\ Thin(O, st, Window[l], Limit[l])
  BY DEF LedgerInv, Ledger
<1>2. /\ a \in Seq(Nat) /\ R \in SUBSET Reqs /\ entry \in Entry /\ clock \in Nat
      /\ Window[l] \in Nat /\ Limit[l] \in Nat /\ Limit[l] > 0 /\ \A r \in R : Times[r] \in Nat
  BY LedgerTypes
<1>3. EntryCounts(entry, entry2, now, Window[l], Limit[l]) /\ entry2 \in Entry
  BY AllowedCounts DEF Tables
<1>4. \A x \in O : st[x] \in Nat
  BY <1>2, StampsNat
<1>5. Joined(O2, st2, O, st, y, now)
  OBVIOUS
<1> HIDE DEF a, R, entry, entry2, O, st, O2, st2
<1>6. Booked(O2, st2, entry2, clock, Window[l], Limit[l]) /\ Thin(O2, st2, Window[l], Limit[l])
  BY <1>1, <1>2, <1>3, <1>4, <1>5, HitLedger
<1> QED BY <1>6 DEF Kept, Ledger, entry2, O2, st2

\* A request under way.
LEMMA RequestFacts ==
    ASSUME LimiterInv, WaitInv, NEW r \in Reqs, req[r].pc # "idle"
    PROVE  /\ req[r].key \in Keys /\ req[r].now \in Nat /\ req[r].now <= clock
           /\ clock <= req[r].now + MaxLag /\ clock \in Nat
  BY DEF LimiterInv, Named, Shape, Request, Handlers, WaitInv, Prompt

LEMMA BurstLedger ==
    ASSUME LimiterInv, WaitInv, LedgerInv, NEW r \in Reqs, HitBurst(r), LimiterInv'
    PROVE  LedgerInv'
<1> DEFINE key == req[r].key  now == req[r].now
<1>1. /\ "burst" \in Limiters /\ req[r].pc = "burst" /\ HitAt("burst", key, now)
      /\ clock' = clock /\ admitted' = admitted /\ req[r].pc # "idle"
  BY DEF HitBurst, Limiters
<1>2. /\ key \in Keys /\ now \in Nat /\ now <= clock /\ clock <= now + MaxLag /\ clock \in Nat
      /\ Tables'
  BY <1>1, RequestFacts DEF LimiterInv
<1>3. /\ req'[r].pc = "minute" /\ req'[r].refused = RefusedBy("burst", key, now)
      /\ req'[r].key = key /\ req'[r].now = now
      /\ \A q \in Reqs \ {r} : req'[q] = req[q]
  BY DEF HitBurst, LimiterInv, Shape, Request
<1> SUFFICES ASSUME NEW l \in Limiters, NEW k \in Keys, 3 * MaxLag < Window[l]
             PROVE  Kept(l, k)'
  BY <1>1 DEF LedgerInv, Kept
<1>5. \A q \in Reqs : req'[q].now = req[q].now
  BY <1>3
<1>6. Pending(l, k)' \subseteq Pending(l, k) \cup {r} /\ r \notin Pending(l, k)
  BY <1>1, <1>3 DEF Pending
<1>7. CASE l # "burst"
  <2>1. Pending(l, k)' = {}
    BY <1>7 DEF Pending
  <2>2. entries'[l][k] = entries[l][k]
    BY <1>1, <1>7 DEF HitAt, LimiterInv, Tables
  <2> QED BY <1>1, <1>2, <2>1, <2>2, QuietLedger
<1>8. CASE l = "burst" /\ (k # key \/ ~Allowed("burst", key, now))
  <2>1. r \notin Pending(l, k)'
    BY <1>3, <1>8 DEF Pending, RefusedBy
  <2>2. Pending(l, k)' \subseteq Pending(l, k)
    BY <1>6, <2>1
  <2>3. \A q \in Pending(l, k)' : req'[q].now = req[q].now
    BY <1>5 DEF Pending
  <2> QED BY <1>1, <1>2, <1>8, <2>2, <2>3, OthersLedger
<1>9. CASE l = "burst" /\ k = key /\ Allowed("burst", key, now)
  <2>1. Pending(l, k)' = Pending(l, k) \cup {r}
    BY <1>1, <1>3, <1>9 DEF Pending, RefusedBy
  <2>2. admitted[k] \in Seq(Nat) /\ (\A q \in Pending(l, k) : Times'[q] = Times[q])
        /\ Times'[r] = now
    BY <1>3, <1>5, LedgerTypes DEF Times, Pending
  <2>3. Joined(OpsOf(admitted[k], Pending(l, k)'),
               StampsOf(admitted[k], Pending(l, k)', Times'),
               OpsOf(admitted[k], Pending(l, k)),
               StampsOf(admitted[k], Pending(l, k), Times), Between(r), now)
    BY <1>2, <1>6, <2>1, <2>2, PendingJoins
  <2> QED BY <1>1, <1>2, <1>9, <2>3, PassLedger
<1> QED BY <1>7, <1>8, <1>9

LEMMA MinuteLedger ==
    ASSUME LimiterInv, WaitInv, LedgerInv, NEW r \in Reqs, HitMinute(r), LimiterInv'
    PROVE  LedgerInv'
<1> DEFINE key == req[r].key  now == req[r].now
           all == req[r].refused \cup RefusedBy("minute", key, now)
<1>1. /\ "minute" \in Limiters /\ req[r].pc = "minute" /\ HitAt("minute", key, now)
      /\ clock' = clock /\ req[r].pc # "idle"
      /\ admitted' = IF all = {} THEN [admitted EXCEPT ![key] = Append(@, now)] ELSE admitted
  BY DEF HitMinute, Limiters
<1>2. /\ key \in Keys /\ now \in Nat /\ now <= clock /\ clock <= now + MaxLag /\ clock \in Nat
      /\ Tables'
  BY <1>1, RequestFacts DEF LimiterInv
<1>3. /\ req'[r].pc = "idle" /\ req'[r].now = now
      /\ \A q \in Reqs \ {r} : req'[q] = req[q]
  BY DEF HitMinute, LimiterInv, Shape, Request
<1>4. admitted \in [Keys -> Seq(Nat)]
  BY DEF LedgerInv
<1>5. admitted' \in [Keys -> Seq(Nat)]
  <2>1. Append(admitted[key], now) \in Seq(Nat)
    BY <1>2, <1>4
  <2> HIDE DEF key, now, all
  <2> QED BY <1>1, <1>2, <1>4, <2>1
<1> SUFFICES ASSUME NEW l \in Limiters, NEW k \in Keys, 3 * MaxLag < Window[l]
             PROVE  Kept(l, k)'
  BY <1>5 DEF LedgerInv, Kept
<1>7. \A q \in Reqs : req'[q].now = req[q].now
  BY <1>3
<1>8. Pending(l, k)' = Pending(l, k) \ {r}
  BY <1>1, <1>3 DEF Pending
<1>9. l = "burst" => entries'[l] = entries[l]
  BY <1>1 DEF HitAt, LimiterInv, Tables
<1>10. l # "burst" => l = "minute" /\ Pending(l, k) = {}
  BY DEF Pending, Limiters
<1>11. \A q \in Pending(l, k)' : req'[q].now = req[q].now
  BY <1>7 DEF Pending
<1>12. CASE all # {} \/ k # key
  <2>1. admitted'[k] = admitted[k]
    BY <1>1, <1>4, <1>12
  <2>2. Pending(l, k)' \subseteq Pending(l, k)
    BY <1>8
  <2>3. CASE l = "burst"
    BY <1>1, <1>2, <1>9, <1>11, <2>1, <2>2, <2>3, QuietLedger
  <2>4. CASE l # "burst"
    BY <1>1, <1>2, <1>10, <1>11, <2>1, <2>2, <2>4, OthersLedger
  <2> QED BY <2>3, <2>4
<1>13. CASE all = {} /\ k = key
  <2>1. /\ admitted'[k] = Append(admitted[k], now) /\ Allowed("minute", key, now)
        /\ req[r].refused = {}
    BY <1>1, <1>2, <1>4, <1>13 DEF RefusedBy
  <2>2. admitted[k] \in Seq(Nat) /\ (\A q \in Pending(l, k) : Times'[q] = Times[q])
        /\ Times[r] = now
    BY <1>7, LedgerTypes DEF Times, Pending
  <2>3. CASE l = "burst"
    <3>1. Ledger(admitted[k], Pending(l, k), Times, entries[l][k], clock, Window[l], Limit[l])
      BY DEF LedgerInv
    <3>2. r \in Pending(l, k)
      BY <1>1, <1>13, <2>1, <2>3 DEF Pending
    <3> DEFINE a == admitted[k]
               b == admitted'[k]
               R == Pending(l, k)
               R2 == Pending(l, k)'
               entry == entries[l][k]
    <3>3. /\ a \in Seq(Nat) /\ entry \in Entry /\ Window[l] \in Nat /\ Limit[l] \in Nat
          /\ b = Append(a, Times[r]) /\ Times[r] \in Nat /\ r \in R /\ R2 = R \ {r}
          /\ Ledger(a, R, Times, entry, clock, Window[l], Limit[l])
          /\ \A q \in R2 : Times'[q] = Times[q]
      BY <1>2, <1>8, <2>1, <2>2, <3>1, <3>2, LedgerTypes
    <3>4. entries'[l][k] = entry
      BY <1>9, <2>3
    <3> HIDE DEF a, b, R, R2, entry
    <3>5. Ledger(b, R2, Times', entry, clock, Window[l], Limit[l])
      BY <1>2, <3>3, MovedLedger
    <3> QED BY <1>1, <3>4, <3>5 DEF Kept, b, R2
  <2>4. CASE l # "burst"
    <3>1. Pending(l, k)' = Pending(l, k) /\ l = "minute"
      BY <1>8, <1>10, <2>4
    <3>2. Joined(OpsOf(admitted'[k], Pending(l, k)),
                 StampsOf(admitted'[k], Pending(l, k), Times'),
                 OpsOf(admitted[k], Pending(l, k)),
                 StampsOf(admitted[k], Pending(l, k), Times), Through(Len(admitted[k]) + 1), now)
      BY <1>2, <2>1, <2>2, AppendJoins
    <3> QED BY <1>1, <1>2, <1>13, <2>1, <3>1, <3>2, PassLedger
  <2> QED BY <2>3, <2>4
<1> QED BY <1>12, <1>13

LEMMA NextLedger ==
    LimiterInv /\ WaitInv /\ LedgerInv /\ [Next]_vars => LedgerInv'
<1> SUFFICES ASSUME LimiterInv, WaitInv, LedgerInv, [Next]_vars PROVE LedgerInv'
  OBVIOUS
<1>1. LimiterInv'
  BY NextLimiter
<1>2. ASSUME NEW r \in Reqs, HitBurst(r) PROVE LedgerInv'
  BY <1>1, <1>2, BurstLedger
<1>3. ASSUME NEW r \in Reqs, HitMinute(r) PROVE LedgerInv'
  BY <1>1, <1>3, MinuteLedger
<1>4. ASSUME UNCHANGED <<entries, admitted>>, clock <= clock',
             \A r \in Reqs : req'[r] = req[r] \/ req'[r].pc = "burst"
      PROVE  LedgerInv'
  <2>1. clock' \in Nat
    BY <1>1 DEF LimiterInv
  <2>2. ASSUME NEW l \in Limiters, NEW k \in Keys, 3 * MaxLag < Window[l] PROVE Kept(l, k)'
    <3>1. Pending(l, k)' \subseteq Pending(l, k)
      BY <1>4 DEF Pending
    <3>2. \A r \in Pending(l, k)' : req'[r].now = req[r].now
      BY <1>4 DEF Pending
    <3> QED BY <1>4, <2>1, <2>2, <3>1, <3>2, QuietLedger
  <2> QED BY <1>4, <2>2 DEF LedgerInv, Kept
<1>5. ASSUME NEW r \in Reqs, NEW k \in Keys, Arrive(r, k) PROVE LedgerInv'
  <2>1. clock <= clock' /\ UNCHANGED <<entries, admitted>>
    BY <1>5 DEF Arrive, LimiterInv
  <2>2. \A q \in Reqs : req'[q] = req[q] \/ req'[q].pc = "burst"
    BY <1>5 DEF Arrive, LimiterInv, Shape
  <2> QED BY <1>4, <2>1, <2>2
<1>6. CASE Tick
  BY <1>4, <1>6 DEF Tick, LimiterInv
<1>7. CASE UNCHANGED vars
  BY <1>4, <1>7 DEF vars, LimiterInv
<1> QED BY <1>2, <1>3, <1>5, <1>6, <1>7 DEF Next

LEMMA InitLedger == Init => LedgerInv
<1> SUFFICES ASSUME Init PROVE LedgerInv
  OBVIOUS
<1>1. admitted \in [Keys -> Seq(Nat)] /\ \A k \in Keys : DOMAIN admitted[k] = {}
  BY DEF Init
<1> SUFFICES ASSUME NEW l \in Limiters, NEW k \in Keys, 3 * MaxLag < Window[l]
             PROVE  Kept(l, k)
  BY <1>1 DEF LedgerInv, Kept
<1>2. Pending(l, k) = {}
  BY DEF Init, Pending, Idle
<1>3. OpsOf(admitted[k], Pending(l, k)) = {}
  BY <1>1, <1>2 DEF OpsOf
<1>4. /\ entries[l][k] = NoEntry /\ clock = 0 /\ Window[l] \in Nat /\ Limit[l] \in Nat
  BY LimitTypes DEF Init
<1> DEFINE O == OpsOf(admitted[k], Pending(l, k))
           st == StampsOf(admitted[k], Pending(l, k), Times)
           w == 0 - Window[l]
<1>5. IsFiniteSet({}) /\ Cardinality({}) = 0
  BY FS_EmptySet
<1>6. O = {}
  BY <1>3
<1>7. w \in (-Window[l]) .. clock /\ w + Window[l] <= clock
  BY <1>4
<1> HIDE DEF O, st, w
<1>8. Split(O, st, {}, {}, w, Window[l], Limit[l])
  BY <1>4, <1>5, <1>6 DEF Split
<1>9. Entered(entries[l][k], {}, w, clock, Window[l])
  BY <1>4, <1>7 DEF Entered
<1>10. Booked(O, st, entries[l][k], clock, Window[l], Limit[l])
  BY <1>6, <1>7, <1>8, <1>9 DEF Booked
<1>11. Thin(O, st, Window[l], Limit[l])
  <2>1. \A S \in SUBSET O : S = {}
    BY <1>6
  <2>2. Cardinality({}) <= 2 * Limit[l]
    BY <1>4, <1>5
  <2> QED BY <2>1, <2>2 DEF Thin
<1> QED BY <1>10, <1>11 DEF Kept, Ledger, O, st

\* The history of a window is a set of operations close together.
LEMMA ThinWindow ==
    ASSUME NEW a \in Seq(Nat), NEW R, NEW at, NEW W \in Nat, NEW limit \in Nat,
           Thin(OpsOf(a, R), StampsOf(a, R, at), W, limit), NEW i \in DOMAIN a
    PROVE  Cardinality({j \in DOMAIN a : a[j] > a[i] - (W - 3 * MaxLag) /\ a[j] <= a[i]})
             <= 2 * limit
<1> DEFINE J == {j \in DOMAIN a : a[j] > a[i] - (W - 3 * MaxLag) /\ a[j] <= a[i]}
           O == OpsOf(a, R)
           st == StampsOf(a, R, at)
           f == [j \in J |-> Through(j)]
           st2 == [j \in J |-> a[j]]
<1>1. Recounts(O, st, a, R, at) /\ Thin(O, st, W, limit)
  BY StampsAre
<1>2. MaxLag \in Nat /\ \A j \in DOMAIN a : a[j] \in Nat
  BY LimiterAssumption
<1>3. IsFiniteSet(J)
  <2>1. Len(a) \in Nat /\ DOMAIN a = 1 .. Len(a)
    OBVIOUS
  <2>2. IsFiniteSet(1 .. Len(a))
    BY <2>1, FS_Interval
  <2>3. J \in SUBSET (1 .. Len(a))
    BY <2>1
  <2> QED BY <2>2, <2>3, FS_Subset
<1>4. \A u, v \in J : st2[u] - st2[v] < W - 3 * MaxLag
  <2> SUFFICES ASSUME NEW u \in J, NEW v \in J PROVE a[u] - a[v] < W - 3 * MaxLag
    OBVIOUS
  <2>1. /\ a[u] \in Nat /\ a[v] \in Nat /\ a[i] \in Nat
        /\ a[u] <= a[i] /\ a[v] > a[i] - (W - 3 * MaxLag)
    BY <1>2
  <2> QED BY <1>2, <2>1
<1>5. /\ f \in [J -> O] /\ (\A x, y \in J : f[x] = f[y] => x = y)
      /\ \A x \in J : st2[x] = st[f[x]]
  <2> HIDE DEF O, st
  <2> QED BY <1>1, Tokens DEF Recounts
<1> HIDE DEF f, st2, O, st, J
<1>6. Thin(J, st2, W, limit)
  <2>1. Relabels(f, J, st2, O, st)
    BY <1>5 DEF Relabels
  <2> QED BY <1>1, <2>1, RelabelThin
<1>7. Cardinality(J) <= 2 * limit
  BY <1>3, <1>4, <1>6 DEF Thin
<1> QED BY <1>7 DEF J

LEMMA LedgerBounds == LimiterInv /\ LedgerInv => AtMostTwiceTheLimit
<1> SUFFICES ASSUME LimiterInv, LedgerInv, NEW k \in Keys, NEW l \in Limiters,
                    NEW i \in DOMAIN admitted[k]
             PROVE  Cardinality({j \in DOMAIN admitted[k] :
                        /\ admitted[k][j] > admitted[k][i] - (Window[l] - 3 * MaxLag)
                        /\ admitted[k][j] <= admitted[k][i]}) <= 2 * Limit[l]
  BY DEF AtMostTwiceTheLimit
<1>1. /\ admitted[k] \in Seq(Nat) /\ Window[l] \in Nat /\ Limit[l] \in Nat
      /\ MaxLag \in Nat
  BY LedgerTypes, LimiterAssumption
<1>2. CASE 3 * MaxLag < Window[l]
  <2>1. Thin(OpsOf(admitted[k], Pending(l, k)), StampsOf(admitted[k], Pending(l, k), Times),
             Window[l], Limit[l])
    BY <1>2 DEF LedgerInv, Ledger
  <2> QED BY <1>1, <2>1, ThinWindow
<1>3. CASE ~(3 * MaxLag < Window[l])
  <2> DEFINE J == {j \in DOMAIN admitted[k] :
                     /\ admitted[k][j] > admitted[k][i] - (Window[l] - 3 * MaxLag)
                     /\ admitted[k][j] <= admitted[k][i]}
  <2>1. admitted[k][i] \in Nat /\ \A j \in DOMAIN admitted[k] : admitted[k][j] \in Nat
    BY <1>1
  <2>2. J = {}
    BY <1>1, <1>3, <2>1
  <2> HIDE DEF J
  <2>3. Cardinality(J) <= 2 * Limit[l]
    BY <1>1, <2>2, FS_EmptySet
  <2> QED BY <2>3 DEF J
<1> QED BY <1>2, <1>3

\* However the windows of a group, the cleanups and the late hits of slow handlers fall,
\* a stretch of a window's length, less the lags, never sees more than twice the limit.
THEOREM TwiceTheLimitHolds == Spec => []AtMostTwiceTheLimit
<1>1. Init => WaitInv
  BY LimiterAssumption DEF Init, WaitInv, Prompt, Refusals, Idle
<1> QED BY <1>1, InitLedger, LimiterInvariant, NextWaits, NextLedger, LedgerBounds, PTL DEF Spec
=============================================================================
