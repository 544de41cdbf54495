------------------------- MODULE WhepGatewayProofs -------------------------
(* Proofs about WhepGateway, for every value of its constants that meets the *)
(* assumptions: type correctness, the accounting of the slots and the limit  *)
(* on them; what a sweep leaves behind, when a viewer may be refused for the *)
(* active limit, and who may change a lease; that the gateway implements the *)
(* pool of slots (WhepSlotRefinement); and that no window holds more creates *)
(* than its limit, over the whole history of grants (WhepCreateWindow).      *)
EXTENDS WhepSlotRefinement, WhepCreateWindow, FiniteSetTheorems, SequenceTheorems, TLAPS

-----------------------------------------------------------------------------
(* The operators of the guard table *)

\* Pruning returns a sequence of stamps again.
LEMMA PruneTimesType ==
    ASSUME NEW stamps \in Seq(Nat), NEW cutoff \in Int
    PROVE  PruneTimes(stamps, cutoff) \in Seq(Nat)
<1> DEFINE old == {i \in DOMAIN stamps : \A j \in 1 .. i : stamps[j] < cutoff}
<1>1. IsFiniteSet(DOMAIN stamps)
  <2>1. DOMAIN stamps = 1 .. Len(stamps) /\ Len(stamps) \in Nat
    OBVIOUS
  <2> QED BY <2>1, FS_Interval
<1>2. Cardinality(old) \in Nat
  BY <1>1, FS_Subset, FS_CardinalityType
<1>3. \A i \in (Cardinality(old) + 1) .. Len(stamps) : stamps[i] \in Nat
  BY <1>2
<1> HIDE DEF old
<1>4. SubSeq(stamps, Cardinality(old) + 1, Len(stamps)) \in Seq(Nat)
  BY <1>2, <1>3, SubSeqProperties
<1> QED BY <1>4 DEF PruneTimes, old

\* Nothing is left of no stamps.
LEMMA PruneTimesEmpty ==
    ASSUME NEW cutoff \in Int
    PROVE  PruneTimes(<<>>, cutoff) = <<>>
<1> DEFINE old == {i \in DOMAIN <<>> : \A j \in 1 .. i : <<>>[j] < cutoff}
<1>1. old = {}
  OBVIOUS
<1> HIDE DEF old
<1>2. Cardinality(old) + 1 = 1
  BY <1>1, FS_EmptySet
<1>3. SubSeq(<<>>, 1, 0) = <<>>
  BY SubSeqEmpty
<1> QED BY <1>2, <1>3 DEF PruneTimes, old

\* What the sweep leaves is a guard table.
LEMMA SweepType ==
    ASSUME TypeOK, NEW now \in Nat
    PROVE  /\ SweptSessions(now) \in [Paths -> Leases]
           /\ SweptActive(now) \in [Keys -> Nat]
           /\ SweptPosts(now) \in [Keys -> Seq(Nat)]
           /\ SweptClients(now) \in SUBSET Keys
           /\ SweptCleanup(now) \in Nat
<1>1. SweptSessions(now) \in [Paths -> Leases]
  BY DEF TypeOK, SweptSessions, Leases, NoLease
<1>2. ASSUME NEW k \in Keys PROVE Cardinality(ExpiredOf(k, now)) \in Nat
  BY TableAssumption, FS_Subset, FS_CardinalityType DEF ExpiredOf, Expired
<1>3. SweptActive(now) \in [Keys -> Nat]
  BY <1>2 DEF TypeOK, SweptActive, Monus
<1>4. SweptPosts(now) \in [Keys -> Seq(Nat)]
  BY LimitAssumption, PruneTimesType DEF TypeOK, SweptPosts
<1>5. SweptClients(now) \in SUBSET Keys
  BY DEF TypeOK, SweptClients
<1>6. SweptCleanup(now) \in Nat
  BY DEF TypeOK, SweptCleanup
<1> QED BY <1>1, <1>3, <1>4, <1>5, <1>6

-----------------------------------------------------------------------------
(* Type correctness *)

\* An arrived request names an address, and a path unless it is a create; a
\* keepalive is answered at once.
RequestShape ==
    \A r \in Reqs : req[r].pc # "idle" =>
        /\ req[r].kind \in Kinds /\ req[r].ip \in IPs
        /\ (req[r].kind = "create") <=> (req[r].path = NoPath)
        /\ req[r].pc # "arrived" => req[r].kind # "keepalive"

TypeInv == TypeOK /\ RequestShape

LEMMA FinishType ==
    ASSUME TypeInv, NEW r \in Reqs, Finish(r)
    PROVE  req' \in [Reqs -> Requests] /\ RequestShape'
BY DEF TypeInv, TypeOK, RequestShape, Requests, Finish, Idle

\* A request that moves on keeps what it asked for.
LEMMA AdvanceType ==
    ASSUME TypeInv, NEW r \in Reqs, NEW pc \in {"admitted", "forwarded"},
           req[r].pc # "idle", req[r].kind # "keepalive",
           Advance(r, pc)
    PROVE  req' \in [Reqs -> Requests] /\ RequestShape'
BY DEF TypeInv, TypeOK, RequestShape, Requests, Advance

LEMMA KeyType ==
    ASSUME TypeInv, NEW r \in Reqs, req[r].pc # "idle"
    PROVE  KeyOfReq(r) \in Keys /\ req[r].ip \in IPs /\ req[r].now \in Nat
BY TableAssumption DEF TypeInv, TypeOK, RequestShape, Requests, KeyOfReq

LEMMA CancelType ==
    ASSUME TypeInv, NEW r \in Reqs, req[r].pc # "idle", CancelReservation(r)
    PROVE  active' \in [Keys -> Nat]
BY KeyType DEF TypeInv, TypeOK, CancelReservation, Monus

LEMMA ReleaseType ==
    ASSUME TypeInv, NEW r \in Reqs, req[r].pc # "idle", ReleaseSession(r)
    PROVE  active' \in [Keys -> Nat] /\ sessions' \in [Paths -> Leases]
<1>1. KeyOfReq(r) \in Keys
  BY KeyType
<1>2. NoLease \in Leases
  BY DEF NoLease, Leases
<1>3. sessions' \in [Paths -> Leases]
  BY <1>2 DEF TypeInv, TypeOK, ReleaseSession
<1>4. active' \in [Keys -> Nat]
  BY <1>1 DEF TypeInv, TypeOK, ReleaseSession, Monus
<1> QED BY <1>3, <1>4

\* The stamps of a create's own group, as reserveCreate leaves them.
LEMMA RecentType ==
    ASSUME TypeInv, NEW r \in Reqs, req[r].pc # "idle"
    PROVE  RecentPosts(r) \in Seq(Nat)
<1>1. SweptPosts(req[r].now)[KeyOfReq(r)] \in Seq(Nat)
  BY SweepType, KeyType DEF TypeInv
<1>2. req[r].now - MinuteWindow \in Int
  BY KeyType, LimitAssumption
<1> QED BY <1>1, <1>2, PruneTimesType DEF RecentPosts

LEMMA ReserveType ==
    ASSUME TypeInv, NEW r \in Reqs,
           \/ ReserveTableFull(r) \/ ReserveActiveLimit(r)
           \/ ReserveRateLimit(r) \/ ReserveGranted(r)
    PROVE  TypeInv'
<1>1. /\ req[r].pc = "arrived" /\ req[r].kind = "create"
      /\ clock' = clock
  BY DEF ReserveTableFull, ReserveActiveLimit, ReserveRateLimit, ReserveGranted
<1>2. KeyOfReq(r) \in Keys /\ req[r].now \in Nat
  BY <1>1, KeyType
<1>3. RecentPosts(r) \in Seq(Nat) /\ Append(RecentPosts(r), req[r].now) \in Seq(Nat)
  BY <1>1, <1>2, RecentType
<1>4. /\ SweptSessions(req[r].now) \in [Paths -> Leases]
      /\ SweptActive(req[r].now) \in [Keys -> Nat]
      /\ SweptPosts(req[r].now) \in [Keys -> Seq(Nat)]
      /\ SweptClients(req[r].now) \in SUBSET Keys
      /\ SweptCleanup(req[r].now) \in Nat
  BY <1>2, SweepType DEF TypeInv
<1>5. req' \in [Reqs -> Requests] /\ RequestShape'
  BY <1>1, FinishType, AdvanceType
     DEF ReserveTableFull, ReserveActiveLimit, ReserveRateLimit, ReserveGranted
<1>6. /\ clients' \in SUBSET Keys /\ sessions' \in [Paths -> Leases]
      /\ lastCleanup' \in Nat
  BY <1>2, <1>4 DEF ReserveTableFull, ReserveActiveLimit, ReserveRateLimit,
                    ReserveGranted, EnterClient, SweepClients
<1>7. posts' \in [Keys -> Seq(Nat)]
  BY <1>2, <1>3, <1>4 DEF ReserveTableFull, ReserveActiveLimit, ReserveRateLimit,
                          ReserveGranted, SweepClients
<1>8. active' \in [Keys -> Nat]
  BY <1>2, <1>4 DEF ReserveTableFull, ReserveActiveLimit, ReserveRateLimit,
                    ReserveGranted, SweepClients
<1> QED BY <1>1, <1>5, <1>6, <1>7, <1>8 DEF TypeInv, TypeOK

LEMMA NextType == TypeInv /\ [Next]_vars => TypeInv'
<1> SUFFICES ASSUME TypeInv, [Next]_vars PROVE TypeInv'
  OBVIOUS
<1>1. ASSUME NEW r \in Reqs, NEW kind \in Kinds, NEW ip \in IPs,
             NEW path \in Paths \cup {NoPath}, Arrive(r, kind, ip, path)
      PROVE  TypeInv'
  BY <1>1 DEF TypeInv, TypeOK, RequestShape, Requests, Arrive, guardVars, Kinds
<1>2. ASSUME NEW r \in Reqs, Throttled(r) \/ PatchAnswered(r) PROVE TypeInv'
  BY <1>2, FinishType DEF TypeInv, TypeOK, Throttled, PatchAnswered, guardVars
<1>3. ASSUME NEW r \in Reqs, TouchSession(r) PROVE TypeInv'
  <2>1. req[r].now \in Nat
    BY <1>3, KeyType DEF TouchSession
  <2>2. sessions' \in [Paths -> Leases]
    <3>1. SweptSessions(req[r].now) \in [Paths -> Leases]
      BY <2>1, SweepType DEF TypeInv
    <3>2. [ip |-> req[r].ip, lastSeen |-> req[r].now] \in Leases
      BY <1>3, KeyType DEF TouchSession, Leases
    <3> QED BY <1>3, <3>1, <3>2 DEF TouchSession
  <2> QED BY <1>3, <2>1, <2>2, SweepType, FinishType
          DEF TypeInv, TypeOK, TouchSession, SweepClients
<1>4. ASSUME NEW r \in Reqs, OwnsSession(r) PROVE TypeInv'
  <2>1. req[r].now \in Nat
    BY <1>4, KeyType DEF OwnsSession
  <2>2. req' \in [Reqs -> Requests] /\ RequestShape'
    BY <1>4, FinishType, AdvanceType DEF OwnsSession
  <2> QED BY <1>4, <2>1, <2>2, SweepType DEF TypeInv, TypeOK, OwnsSession, SweepClients
<1>5. CASE Snapshots
  BY <1>5, SweepType DEF TypeInv, TypeOK, RequestShape, Snapshots, SweepClients
<1>6. ASSUME NEW r \in Reqs,
             BodyFails(r) \/ BackendFails(r) \/ CreateUnusable(r)
      PROVE  TypeInv'
  BY <1>6, FinishType, CancelType
     DEF TypeInv, TypeOK, BodyFails, BackendFails, CreateUnusable
<1>7. ASSUME NEW r \in Reqs, Forward(r) PROVE TypeInv'
  <2>1. req[r].kind # "keepalive"
    BY <1>7 DEF TypeInv, RequestShape, Forward
  <2> QED BY <1>7, <2>1, AdvanceType DEF TypeInv, TypeOK, Forward, guardVars
<1>8. ASSUME NEW r \in Reqs, BackendRejects(r) \/ DeleteAnswered(r) PROVE TypeInv'
  BY <1>8, FinishType, CancelType, ReleaseType
     DEF TypeInv, TypeOK, BackendRejects, DeleteAnswered
<1>9. ASSUME NEW r \in Reqs, NEW p \in Paths, CreateAnswered(r, p) PROVE TypeInv'
  <2>1. req[r].pc # "idle"
    BY <1>9 DEF CreateAnswered
  <2>2. [ip |-> req[r].ip, lastSeen |-> req[r].now] \in Leases
    BY <2>1, KeyType DEF Leases
  <2>3. active' \in [Keys -> Nat] /\ sessions' \in [Paths -> Leases]
    BY <1>9, <2>1, <2>2, CancelType DEF TypeInv, TypeOK, CreateAnswered
  <2> QED BY <1>9, <2>3, FinishType DEF TypeInv, TypeOK, CreateAnswered
<1>10. CASE Tick
  BY <1>10 DEF TypeInv, TypeOK, RequestShape, Tick, guardVars
<1>11. CASE UNCHANGED vars
  BY <1>11 DEF TypeInv, TypeOK, RequestShape, vars
<1> QED
  BY <1>1, <1>2, <1>3, <1>4, <1>5, <1>6, <1>7, <1>8, <1>9, <1>10, <1>11, ReserveType
     DEF Next, Handle

LEMMA InitType == Init => TypeInv
BY DEF Init, TypeInv, TypeOK, RequestShape, Requests, Leases, Idle, NoLease

\* The guard table and the handlers always hold values of their types.
THEOREM TypeCorrect == Spec => []TypeOK
<1>1. TypeInv => TypeOK
  BY DEF TypeInv
<1> QED BY <1>1, InitType, NextType, PTL DEF Spec

-----------------------------------------------------------------------------
(* The accounting of the slots *)

LEMMA SubsetsFinite ==
    ASSUME NEW S, S \in SUBSET Reqs \/ S \in SUBSET Paths
    PROVE  IsFiniteSet(S) /\ Cardinality(S) \in Nat
BY TableAssumption, FS_Subset, FS_CardinalityType

LEMMA HoldersFinite ==
    ASSUME NEW k
    PROVE  /\ IsFiniteSet(Reserving(k)) /\ Cardinality(Reserving(k)) \in Nat
           /\ IsFiniteSet(LeasesOf(k)) /\ Cardinality(LeasesOf(k)) \in Nat
<1>1. Reserving(k) \in SUBSET Reqs /\ LeasesOf(k) \in SUBSET Paths
  BY DEF Reserving, LeasesOf
<1> QED BY <1>1, SubsetsFinite

\* Which requests hold a reservation depends on the one that moved only.
LEMMA ReservingOfOthers ==
    ASSUME TypeInv, NEW r \in Reqs, NEW k \in Keys, Finish(r) \/ (\E pc \in STRING : Advance(r, pc))
    PROVE  Reserving(k)' \ {r} = Reserving(k) \ {r}
<1>1. \A q \in Reqs \ {r} : req'[q] = req[q]
  BY DEF TypeInv, TypeOK, Finish, Advance
<1> QED BY <1>1 DEF Reserving

\* The counter after the sweep counts what the sweep leaves.
LEMMA SweepCount ==
    ASSUME TypeInv, SlotAccounting, NEW now \in Nat, NEW k \in Keys
    PROVE  SweptActive(now)[k] =
               Cardinality(Reserving(k)) + Cardinality(LeasesOf(k) \ ExpiredOf(k, now))
<1>1. ExpiredOf(k, now) \subseteq LeasesOf(k)
  BY DEF ExpiredOf, Expired, LeasesOf
<1>2. LeasesOf(k) \cap ExpiredOf(k, now) = ExpiredOf(k, now)
  BY <1>1
<1>3. Cardinality(LeasesOf(k) \ ExpiredOf(k, now))
        = Cardinality(LeasesOf(k)) - Cardinality(ExpiredOf(k, now))
  BY <1>2, HoldersFinite, FS_Difference
<1>4. /\ Cardinality(ExpiredOf(k, now)) \in Nat
      /\ Cardinality(ExpiredOf(k, now)) <= Cardinality(LeasesOf(k))
  BY <1>1, HoldersFinite, FS_Subset, FS_CardinalityType
<1>5. active[k] = Cardinality(Reserving(k)) + Cardinality(LeasesOf(k))
  BY DEF SlotAccounting
<1> QED BY <1>3, <1>4, <1>5, HoldersFinite DEF SweptActive, Monus

\* A guard call that sweeps, and leaves the owners of the other leases alone.
LEMMA SweptLeases ==
    ASSUME TypeInv, NEW now \in Nat, NEW k \in Keys,
           \A p \in Paths : sessions'[p].ip = SweptSessions(now)[p].ip
    PROVE  LeasesOf(k)' = LeasesOf(k) \ ExpiredOf(k, now)
BY DEF LeasesOf, Leased, SweptSessions, ExpiredOf, Expired, NoLease

\* A guard call that only sweeps, for a request that holds no slot.
LEMMA SweepAccounts ==
    ASSUME TypeInv, SlotAccounting, NEW now \in Nat,
           \A p \in Paths : sessions'[p].ip = SweptSessions(now)[p].ip,
           active' = SweptActive(now),
           \A k \in Keys : Reserving(k)' = Reserving(k)
    PROVE  SlotAccounting'
BY SweepCount, SweptLeases DEF SlotAccounting

\* A step that holds no slot before or after, and keeps the table.
LEMMA IdleAccounts ==
    ASSUME SlotAccounting, UNCHANGED <<sessions, active>>,
           \A k \in Keys : Reserving(k)' = Reserving(k)
    PROVE  SlotAccounting'
BY DEF SlotAccounting, LeasesOf, Leased

\* A finishing request that held no reservation.
LEMMA FinishNothing ==
    ASSUME TypeInv, NEW r \in Reqs, NEW k \in Keys, Finish(r),
           req[r].kind # "create" \/ req[r].pc = "arrived"
    PROVE  Reserving(k)' = Reserving(k)
BY DEF TypeInv, TypeOK, Finish, Idle, Reserving

\* A finishing create gives its reservation up, in its own group.
LEMMA FinishCreate ==
    ASSUME TypeInv, NEW r \in Reqs, NEW k \in Keys, Finish(r),
           req[r].kind = "create", req[r].pc \in {"admitted", "forwarded"}
    PROVE  Cardinality(Reserving(k)') =
             IF k = KeyOfReq(r) THEN Cardinality(Reserving(k)) - 1
             ELSE Cardinality(Reserving(k))
<1>1. Reserving(k)' = Reserving(k) \ {r}
  BY DEF TypeInv, TypeOK, Finish, Idle, Reserving
<1>2. r \in Reserving(k) <=> k = KeyOfReq(r)
  BY DEF Reserving, KeyOfReq
<1> QED BY <1>1, <1>2, HoldersFinite, FS_RemoveElement

\* A create that fails before it is committed.
LEMMA CancelAccounts ==
    ASSUME TypeInv, SlotAccounting, NEW r \in Reqs, Finish(r),
           req[r].pc \in {"admitted", "forwarded"},
           CancelReservation(r), UNCHANGED sessions
    PROVE  SlotAccounting'
<1>1. CASE req[r].kind # "create"
  BY <1>1, FinishNothing, IdleAccounts DEF CancelReservation
<1>2. CASE req[r].kind = "create"
  <2> SUFFICES ASSUME NEW k \in Keys
               PROVE  active'[k] = Cardinality(Reserving(k)') + Cardinality(LeasesOf(k)')
    BY DEF SlotAccounting
  <2>1. LeasesOf(k)' = LeasesOf(k)
    BY DEF LeasesOf, Leased
  <2>2. active[k] = Cardinality(Reserving(k)) + Cardinality(LeasesOf(k))
    BY DEF SlotAccounting
  <2>3. k = KeyOfReq(r) => Cardinality(Reserving(k)) > 0
    <3>1. k = KeyOfReq(r) => r \in Reserving(k)
      BY <1>2 DEF Reserving, KeyOfReq
    <3> QED BY <3>1, HoldersFinite, FS_EmptySet
  <2>4. active'[k] = IF k = KeyOfReq(r) THEN Monus(active[k], 1) ELSE active[k]
    BY <1>2 DEF CancelReservation, TypeInv, TypeOK
  <2> QED BY <1>2, <2>1, <2>2, <2>3, <2>4, FinishCreate, HoldersFinite DEF Monus
<1> QED BY <1>1, <1>2

\* A delete that was answered.
LEMMA ReleaseAccounts ==
    ASSUME TypeInv, SlotAccounting, NEW r \in Reqs, Finish(r),
           req[r].pc = "forwarded", req[r].kind = "delete", ReleaseSession(r)
    PROVE  SlotAccounting'
<1> DEFINE p == req[r].path
<1>1. p \in Paths /\ req[r].ip \in IPs
  BY DEF TypeInv, TypeOK, RequestShape, Requests
<1>2. CASE sessions[p].ip # req[r].ip
  BY <1>2, FinishNothing, IdleAccounts DEF ReleaseSession
<1>3. CASE sessions[p].ip = req[r].ip
  <2> SUFFICES ASSUME NEW k \in Keys
               PROVE  active'[k] = Cardinality(Reserving(k)') + Cardinality(LeasesOf(k)')
    BY DEF SlotAccounting
  <2>1. LeasesOf(k)' = LeasesOf(k) \ {p}
    BY <1>1, <1>3 DEF ReleaseSession, LeasesOf, Leased, NoLease, TypeInv, TypeOK
  <2>2. p \in LeasesOf(k) <=> k = KeyOfReq(r)
    BY <1>1, <1>3, TableAssumption DEF LeasesOf, Leased, KeyOfReq
  <2>3. Cardinality(LeasesOf(k)') = IF k = KeyOfReq(r) THEN Cardinality(LeasesOf(k)) - 1
                                    ELSE Cardinality(LeasesOf(k))
    <3>1. Cardinality(LeasesOf(k) \ {p}) = IF p \in LeasesOf(k)
                                            THEN Cardinality(LeasesOf(k)) - 1
                                            ELSE Cardinality(LeasesOf(k))
      BY HoldersFinite, FS_RemoveElement
    <3> QED BY <2>1, <2>2, <3>1
  <2>4. k = KeyOfReq(r) => Cardinality(LeasesOf(k)) > 0
    BY <2>2, HoldersFinite, FS_EmptySet
  <2>5. active'[k] = IF k = KeyOfReq(r) THEN Monus(active[k], 1) ELSE active[k]
    BY <1>3 DEF ReleaseSession, TypeInv, TypeOK
  <2>6. active[k] = Cardinality(Reserving(k)) + Cardinality(LeasesOf(k))
    BY DEF SlotAccounting
  <2>7. Reserving(k)' = Reserving(k)
    BY FinishNothing
  <2> QED BY <2>3, <2>4, <2>5, <2>6, <2>7, HoldersFinite DEF Monus
<1> QED BY <1>2, <1>3

\* A create whose answer is committed: the slot passes to the lease.
LEMMA CommitAccounts ==
    ASSUME TypeInv, SlotAccounting, NEW r \in Reqs, NEW p \in Paths,
           CreateAnswered(r, p), ~Leased(p)
    PROVE  SlotAccounting'
<1> SUFFICES ASSUME NEW k \in Keys
             PROVE  active'[k] = Cardinality(Reserving(k)') + Cardinality(LeasesOf(k)')
  BY DEF SlotAccounting
<1>1. req[r].ip \in IPs
  BY KeyType DEF CreateAnswered
<1>2. LeasesOf(k)' = IF k = KeyOfReq(r) THEN LeasesOf(k) \cup {p} ELSE LeasesOf(k)
  BY <1>1, TableAssumption DEF CreateAnswered, LeasesOf, Leased, KeyOfReq, TypeInv, TypeOK
<1>3. p \notin LeasesOf(k)
  BY DEF LeasesOf
<1>4. Cardinality(LeasesOf(k)') = IF k = KeyOfReq(r) THEN Cardinality(LeasesOf(k)) + 1
                                  ELSE Cardinality(LeasesOf(k))
  BY <1>2, <1>3, HoldersFinite, FS_AddElement
<1>5. Cardinality(Reserving(k)') = IF k = KeyOfReq(r) THEN Cardinality(Reserving(k)) - 1
                                   ELSE Cardinality(Reserving(k))
  BY FinishCreate DEF CreateAnswered
<1>6. active'[k] = active[k] /\ active[k] = Cardinality(Reserving(k)) + Cardinality(LeasesOf(k))
  BY DEF CreateAnswered, SlotAccounting
<1> QED BY <1>4, <1>5, <1>6, HoldersFinite

\* The refusals of reserveCreate only sweep.
LEMMA RefusalAccounts ==
    ASSUME TypeInv, SlotAccounting, NEW r \in Reqs,
           ReserveTableFull(r) \/ ReserveActiveLimit(r) \/ ReserveRateLimit(r)
    PROVE  SlotAccounting'
<1>1. /\ req[r].pc = "arrived" /\ Finish(r)
      /\ sessions' = SweptSessions(req[r].now) /\ active' = SweptActive(req[r].now)
  BY DEF ReserveTableFull, ReserveActiveLimit, ReserveRateLimit, EnterClient, SweepClients
<1>2. req[r].now \in Nat
  BY <1>1, KeyType
<1> QED BY <1>1, <1>2, FinishNothing, SweepAccounts

\* A granted create adds itself to its group, after the sweep.
LEMMA GrantAccounts ==
    ASSUME TypeInv, SlotAccounting, NEW r \in Reqs, ReserveGranted(r)
    PROVE  SlotAccounting'
<1> SUFFICES ASSUME NEW k \in Keys
             PROVE  active'[k] = Cardinality(Reserving(k)') + Cardinality(LeasesOf(k)')
  BY DEF SlotAccounting
<1>1. /\ req[r].pc = "arrived" /\ req[r].kind = "create" /\ Advance(r, "admitted")
      /\ sessions' = SweptSessions(req[r].now)
      /\ active' = [SweptActive(req[r].now) EXCEPT ![KeyOfReq(r)] = @ + 1]
  BY DEF ReserveGranted, EnterClient
<1>2. req[r].now \in Nat /\ KeyOfReq(r) \in Keys
  BY <1>1, KeyType
<1>3. Cardinality(LeasesOf(k)') = Cardinality(LeasesOf(k) \ ExpiredOf(k, req[r].now))
  BY <1>1, <1>2, SweptLeases
<1>4. Reserving(k)' = IF k = KeyOfReq(r) THEN Reserving(k) \cup {r} ELSE Reserving(k)
  BY <1>1 DEF TypeInv, TypeOK, Advance, Reserving, KeyOfReq
<1>5. r \notin Reserving(k)
  BY <1>1 DEF Reserving
<1>6. Cardinality(Reserving(k)') = IF k = KeyOfReq(r) THEN Cardinality(Reserving(k)) + 1
                                   ELSE Cardinality(Reserving(k))
  BY <1>4, <1>5, HoldersFinite, FS_AddElement
<1>7. active'[k] = IF k = KeyOfReq(r) THEN SweptActive(req[r].now)[k] + 1
                   ELSE SweptActive(req[r].now)[k]
  BY <1>1, <1>2, SweepType DEF TypeInv
<1>8. Cardinality(LeasesOf(k) \ ExpiredOf(k, req[r].now)) \in Nat
  BY HoldersFinite, FS_Difference, FS_CardinalityType
<1> QED BY <1>2, <1>3, <1>6, <1>7, <1>8, SweepCount, HoldersFinite

LEMMA NextAccounts == TypeInv /\ SlotAccounting /\ [Next]_vars => SlotAccounting'
<1> SUFFICES ASSUME TypeInv, SlotAccounting, [Next]_vars PROVE SlotAccounting'
  OBVIOUS
<1>1. ASSUME NEW r \in Reqs, NEW kind \in Kinds, NEW ip \in IPs,
             NEW path \in Paths \cup {NoPath}, Arrive(r, kind, ip, path)
      PROVE  SlotAccounting'
  <2>1. \A k \in Keys : Reserving(k)' = Reserving(k)
    BY <1>1 DEF Arrive, Reserving, TypeInv, TypeOK
  <2> QED BY <1>1, <2>1, IdleAccounts DEF Arrive, guardVars
<1>2. ASSUME NEW r \in Reqs, Throttled(r) \/ PatchAnswered(r) PROVE SlotAccounting'
  BY <1>2, FinishNothing, IdleAccounts DEF Throttled, PatchAnswered, guardVars
<1>3. ASSUME NEW r \in Reqs, TouchSession(r) PROVE SlotAccounting'
  <2>1. req[r].now \in Nat /\ SweptSessions(req[r].now) \in [Paths -> Leases]
    BY <1>3, KeyType, SweepType DEF TouchSession, TypeInv
  <2>2. \A p \in Paths : sessions'[p].ip = SweptSessions(req[r].now)[p].ip
    BY <1>3, <2>1 DEF TouchSession
  <2>3. active' = SweptActive(req[r].now)
    BY <1>3 DEF TouchSession, SweepClients
  <2>4. \A k \in Keys : Reserving(k)' = Reserving(k)
    BY <1>3, FinishNothing DEF TouchSession
  <2> QED BY <2>1, <2>2, <2>3, <2>4, SweepAccounts
<1>4. ASSUME NEW r \in Reqs, OwnsSession(r) PROVE SlotAccounting'
  <2>1. req[r].now \in Nat
    BY <1>4, KeyType DEF OwnsSession
  <2>2. \A k \in Keys : Reserving(k)' = Reserving(k)
    <3>1. CASE Finish(r)
      BY <1>4, <3>1, FinishNothing DEF OwnsSession
    <3>2. CASE Advance(r, "admitted")
      BY <1>4, <3>2 DEF OwnsSession, Advance, Reserving, TypeInv, TypeOK
    <3> QED BY <1>4, <3>1, <3>2 DEF OwnsSession
  <2> QED BY <1>4, <2>1, <2>2, SweepAccounts DEF OwnsSession, SweepClients
<1>5. CASE Snapshots
  <2>1. clock \in Nat /\ \A k \in Keys : Reserving(k)' = Reserving(k)
    BY <1>5 DEF Snapshots, Reserving, TypeInv, TypeOK
  <2> QED BY <1>5, <2>1, SweepAccounts DEF Snapshots, SweepClients
<1>6. ASSUME NEW r \in Reqs,
             BodyFails(r) \/ BackendFails(r) \/ CreateUnusable(r)
      PROVE  SlotAccounting'
  BY <1>6, CancelAccounts DEF BodyFails, BackendFails, CreateUnusable
<1>7. ASSUME NEW r \in Reqs, Forward(r) PROVE SlotAccounting'
  <2>1. \A k \in Keys : Reserving(k)' = Reserving(k)
    BY <1>7 DEF Forward, Advance, Reserving, TypeInv, TypeOK
  <2> QED BY <1>7, <2>1, IdleAccounts DEF Forward, guardVars
<1>8. ASSUME NEW r \in Reqs, BackendRejects(r) \/ DeleteAnswered(r) PROVE SlotAccounting'
  BY <1>8, CancelAccounts, ReleaseAccounts DEF BackendRejects, DeleteAnswered
<1>9. ASSUME NEW r \in Reqs, NEW p \in Paths, CreateAnswered(r, p) PROVE SlotAccounting'
  <2>1. CASE Leased(p)
    BY <1>9, <2>1, CancelAccounts DEF CreateAnswered
  <2> QED BY <1>9, <2>1, CommitAccounts
<1>10. CASE Tick
  BY <1>10, IdleAccounts DEF Tick, guardVars, Reserving
<1>11. CASE UNCHANGED vars
  BY <1>11, IdleAccounts DEF vars, Reserving
<1> QED
  BY <1>1, <1>2, <1>3, <1>4, <1>5, <1>6, <1>7, <1>8, <1>9, <1>10, <1>11,
     RefusalAccounts, GrantAccounts DEF Next, Handle

LEMMA InitAccounts == Init => SlotAccounting
<1> SUFFICES ASSUME Init, NEW k \in Keys
             PROVE  active[k] = Cardinality(Reserving(k)) + Cardinality(LeasesOf(k))
  BY DEF SlotAccounting
<1>1. Reserving(k) = {} /\ LeasesOf(k) = {} /\ active[k] = 0
  BY DEF Init, Reserving, LeasesOf, Leased, Idle, NoLease
<1> QED BY <1>1, FS_EmptySet

\* No handler forgets a slot or gives one back twice: the counter of a group is
\* the number of its creates in flight and of its leases, for any number of
\* handlers, paths and groups and for any timing.
THEOREM SlotsAccounted == Spec => []SlotAccounting
<1>1. Init => TypeInv /\ SlotAccounting
  BY InitType, InitAccounts
<1>2. TypeInv /\ SlotAccounting /\ [Next]_vars => (TypeInv /\ SlotAccounting)'
  BY NextType, NextAccounts
<1> QED BY <1>1, <1>2, PTL DEF Spec

-----------------------------------------------------------------------------
(* The active limit *)

ActiveBounded == \A k \in Keys : active[k] <= MaxActive

LEMMA NextBounded == TypeInv /\ ActiveBounded /\ [Next]_vars => ActiveBounded'
<1> SUFFICES ASSUME TypeInv, ActiveBounded, [Next]_vars, NEW k \in Keys
             PROVE  active'[k] <= MaxActive
  BY DEF ActiveBounded
<1>0. active[k] \in Nat /\ active[k] <= MaxActive /\ MaxActive \in Nat
  BY LimitAssumption DEF TypeInv, TypeOK, ActiveBounded
<1>1. ASSUME NEW now \in Nat
      PROVE  SweptActive(now)[k] \in Nat /\ SweptActive(now)[k] <= active[k]
  <2>1. Cardinality(ExpiredOf(k, now)) \in Nat
    BY SubsetsFinite DEF ExpiredOf, Expired
  <2> QED BY <1>0, <2>1 DEF SweptActive, Monus
<1>2. ASSUME NEW r \in Reqs, CancelReservation(r) \/ ReleaseSession(r)
      PROVE  active'[k] <= MaxActive
  BY <1>0, <1>2 DEF CancelReservation, ReleaseSession, Monus, TypeInv, TypeOK
<1>3. ASSUME NEW r \in Reqs, ReserveGranted(r) PROVE active'[k] <= MaxActive
  <2>1. req[r].now \in Nat /\ SweptActive(req[r].now) \in [Keys -> Nat]
    BY <1>3, KeyType, SweepType DEF ReserveGranted, TypeInv
  <2>2. ~(SweptActive(req[r].now)[KeyOfReq(r)] >= MaxActive)
    BY <1>3 DEF ReserveGranted, SlotsTaken
  <2> QED BY <1>0, <1>1, <1>3, <2>1, <2>2 DEF ReserveGranted
<1>4. ASSUME NEW r \in Reqs, req[r].pc = "arrived", active' = SweptActive(req[r].now)
      PROVE  active'[k] <= MaxActive
  BY <1>0, <1>1, <1>4, KeyType
<1>5. CASE Snapshots
  BY <1>0, <1>1, <1>5 DEF Snapshots, SweepClients, TypeInv, TypeOK
<1>6. CASE UNCHANGED active
  BY <1>0, <1>6
<1> QED
  BY <1>2, <1>3, <1>4, <1>5, <1>6
     DEF Next, Handle, Arrive, Throttled, TouchSession, OwnsSession, ReserveTableFull,
         ReserveActiveLimit, ReserveRateLimit, BodyFails, Forward, BackendFails,
         BackendRejects, PatchAnswered, DeleteAnswered, CreateUnusable, CreateAnswered,
         Tick, SweepClients, guardVars, vars

\* However many creates of a group run at once, at most MaxActive of them hold a
\* slot together with its established sessions.
THEOREM ActiveLimitHolds == Spec => []WithinActiveLimit
<1>1. Init => ActiveBounded
  BY LimitAssumption DEF Init, ActiveBounded
<1>2. SlotAccounting /\ ActiveBounded => WithinActiveLimit
  BY DEF SlotAccounting, ActiveBounded, WithinActiveLimit
<1>3. Spec => []ActiveBounded
  BY <1>1, InitType, NextType, NextBounded, PTL DEF Spec
<1> QED BY <1>2, <1>3, SlotsAccounted, PTL

-----------------------------------------------------------------------------
(* The client table *)

\* What the sweep leaves of a group that has no entry after it.
LEMMA SweptForgotten ==
    ASSUME TypeInv, ForgottenGroupsHoldNothing, NEW now \in Nat,
           NEW k \in Keys, k \notin SweptClients(now)
    PROVE  SweptActive(now)[k] = 0 /\ SweptPosts(now)[k] = <<>>
<1>1. CASE k \in clients
  BY <1>1, SweepType DEF SweptClients, TypeInv
<1>2. CASE k \notin clients
  <2>1. active[k] = 0 /\ posts[k] = <<>>
    BY <1>2 DEF ForgottenGroupsHoldNothing
  <2>2. Cardinality(ExpiredOf(k, now)) \in Nat
    BY SubsetsFinite DEF ExpiredOf, Expired
  <2>3. SweptActive(now)[k] = 0
    BY <2>1, <2>2 DEF SweptActive, Monus
  <2>4. SweptPosts(now)[k] = <<>>
    BY <2>1, PruneTimesEmpty, LimitAssumption DEF SweptPosts
  <2> QED BY <2>3, <2>4
<1> QED BY <1>1, <1>2

\* A guard call that only sweeps.
LEMMA SweepForgets ==
    ASSUME TypeInv, ForgottenGroupsHoldNothing, NEW now \in Nat, SweepClients(now)
    PROVE  ForgottenGroupsHoldNothing'
BY SweptForgotten DEF SweepClients, ForgottenGroupsHoldNothing

\* A create that reaches the table enters its group; the others see the sweep.
LEMMA EnterForgets ==
    ASSUME TypeInv, ForgottenGroupsHoldNothing, NEW r \in Reqs, req[r].pc # "idle",
           EnterClient(r),
           \A k \in Keys \ {KeyOfReq(r)} : /\ active'[k] = SweptActive(req[r].now)[k]
                                          /\ posts'[k] = SweptPosts(req[r].now)[k]
    PROVE  ForgottenGroupsHoldNothing'
<1>1. req[r].now \in Nat
  BY KeyType
<1> SUFFICES ASSUME NEW k \in Keys, k \notin clients'
             PROVE  active'[k] = 0 /\ posts'[k] = <<>>
  BY DEF ForgottenGroupsHoldNothing
<1>2. k # KeyOfReq(r) /\ k \notin SweptClients(req[r].now)
  BY DEF EnterClient
<1> QED BY <1>1, <1>2, SweptForgotten

\* A slot that goes back empties no entry of the table and fills none.
LEMMA ReturnForgets ==
    ASSUME TypeInv, ForgottenGroupsHoldNothing, NEW r \in Reqs, UNCHANGED <<clients, posts>>,
           CancelReservation(r) \/ ReleaseSession(r) \/ UNCHANGED active
    PROVE  ForgottenGroupsHoldNothing'
<1> SUFFICES ASSUME NEW k \in Keys, active[k] = 0
             PROVE  active'[k] = 0
  BY DEF ForgottenGroupsHoldNothing
<1> QED BY DEF CancelReservation, ReleaseSession, Monus, TypeInv, TypeOK

LEMMA NextForgets ==
    TypeInv /\ ForgottenGroupsHoldNothing /\ [Next]_vars => ForgottenGroupsHoldNothing'
<1> SUFFICES ASSUME TypeInv, ForgottenGroupsHoldNothing, [Next]_vars
             PROVE  ForgottenGroupsHoldNothing'
  OBVIOUS
<1>1. ASSUME NEW r \in Reqs, TouchSession(r) \/ OwnsSession(r) \/ ReserveTableFull(r)
      PROVE  ForgottenGroupsHoldNothing'
  <2>1. SweepClients(req[r].now) /\ req[r].now \in Nat
    BY <1>1, KeyType DEF TouchSession, OwnsSession, ReserveTableFull
  <2> QED BY <2>1, SweepForgets
<1>2. ASSUME NEW r \in Reqs,
             ReserveActiveLimit(r) \/ ReserveRateLimit(r) \/ ReserveGranted(r)
      PROVE  ForgottenGroupsHoldNothing'
  <2>1. req[r].pc # "idle" /\ EnterClient(r)
    BY <1>2 DEF ReserveActiveLimit, ReserveRateLimit, ReserveGranted
  <2>2. /\ SweptActive(req[r].now) \in [Keys -> Nat]
        /\ SweptPosts(req[r].now) \in [Keys -> Seq(Nat)]
    BY <2>1, KeyType, SweepType DEF TypeInv
  <2>3. \A k \in Keys \ {KeyOfReq(r)} : active'[k] = SweptActive(req[r].now)[k]
    BY <1>2, <2>2 DEF ReserveActiveLimit, ReserveRateLimit, ReserveGranted
  <2>4. \A k \in Keys \ {KeyOfReq(r)} : posts'[k] = SweptPosts(req[r].now)[k]
    BY <1>2, <2>2 DEF ReserveActiveLimit, ReserveRateLimit, ReserveGranted
  <2> QED BY <2>1, <2>3, <2>4, EnterForgets
<1>3. CASE Snapshots
  BY <1>3, SweepForgets DEF Snapshots, TypeInv, TypeOK
<1>4. ASSUME NEW r \in Reqs, UNCHANGED <<clients, posts>>,
             CancelReservation(r) \/ ReleaseSession(r) \/ UNCHANGED active
      PROVE  ForgottenGroupsHoldNothing'
  BY <1>4, ReturnForgets
<1>5. CASE UNCHANGED guardVars
  BY <1>5 DEF guardVars, ForgottenGroupsHoldNothing
<1> QED
  BY <1>1, <1>2, <1>3, <1>4, <1>5
     DEF Next, Handle, Arrive, Throttled, BodyFails, Forward, BackendFails, BackendRejects,
         PatchAnswered, DeleteAnswered, CreateUnusable, CreateAnswered, Tick, guardVars, vars

\* However the table fills, is swept and is entered again, a group without an entry has
\* neither slots nor stamps: eviction resets nothing that counts.
THEOREM ForgottenHoldNothing == Spec => []ForgottenGroupsHoldNothing
<1>1. Init => ForgottenGroupsHoldNothing
  BY DEF Init, ForgottenGroupsHoldNothing
<1> QED BY <1>1, InitType, NextType, NextForgets, PTL DEF Spec

-----------------------------------------------------------------------------
(* Leases: what a sweep leaves behind, a justified refusal, who may change a lease *)

\* A handler's stamp is at most MaxHold old, and the last sweep is in the past.
TimeInv ==
    /\ lastCleanup <= clock
    /\ \A r \in Reqs : req[r].pc # "idle" =>
         req[r].now <= clock /\ clock <= req[r].now + MaxHold

LeaseInv == TypeInv /\ TimeInv /\ SweepComplete

-----------------------------------------------------------------------------
(* Stamps and the clock *)

\* A step of a handler that moves its own request only, at the same clock.
LEMMA StampsKept ==
    ASSUME TypeInv, TimeInv, clock' = clock, lastCleanup' <= clock,
           \A r \in Reqs : req'[r].pc # "idle" =>
               req[r].pc # "idle" /\ req'[r].now = req[r].now
    PROVE  TimeInv'
BY DEF TimeInv

LEMMA FinishKeepsStamps ==
    ASSUME TypeInv, NEW q \in Reqs, Finish(q)
    PROVE  \A r \in Reqs : req'[r].pc # "idle" =>
               req[r].pc # "idle" /\ req'[r].now = req[r].now
BY DEF TypeInv, TypeOK, Finish, Idle

LEMMA AdvanceKeepsStamps ==
    ASSUME TypeInv, NEW q \in Reqs, NEW pc, Advance(q, pc), req[q].pc # "idle"
    PROVE  \A r \in Reqs : req'[r].pc # "idle" =>
               req[r].pc # "idle" /\ req'[r].now = req[r].now
BY DEF TypeInv, TypeOK, Advance

LEMMA SweepInPast ==
    ASSUME TypeInv, TimeInv, NEW now \in Nat, now <= clock
    PROVE  SweptCleanup(now) <= clock
BY DEF SweptCleanup, TimeInv

LEMMA NextTime == TypeInv /\ TimeInv /\ [Next]_vars => TimeInv'
<1> SUFFICES ASSUME TypeInv, TimeInv, [Next]_vars PROVE TimeInv'
  OBVIOUS
<1>0. clock \in Nat /\ MaxHold \in Nat
  BY TimeAssumption DEF TypeInv, TypeOK
<1>1. ASSUME NEW r \in Reqs, NEW kind \in Kinds, NEW ip \in IPs,
             NEW path \in Paths \cup {NoPath}, Arrive(r, kind, ip, path)
      PROVE  TimeInv'
  BY <1>0, <1>1 DEF Arrive, guardVars, TimeInv, TypeInv, TypeOK
<1>2. ASSUME NEW r \in Reqs, Handle(r) PROVE TimeInv'
  <2>1. req[r].pc # "idle" /\ clock' = clock
    BY <1>2 DEF Handle, Throttled, TouchSession, OwnsSession, ReserveTableFull,
                ReserveActiveLimit, ReserveRateLimit, ReserveGranted, BodyFails, Forward,
                BackendFails, BackendRejects, PatchAnswered, DeleteAnswered,
                CreateUnusable, CreateAnswered
  <2>2. Finish(r) \/ Advance(r, "admitted") \/ Advance(r, "forwarded")
    BY <1>2 DEF Handle, Throttled, TouchSession, OwnsSession, ReserveTableFull,
                ReserveActiveLimit, ReserveRateLimit, ReserveGranted, BodyFails, Forward,
                BackendFails, BackendRejects, PatchAnswered, DeleteAnswered,
                CreateUnusable, CreateAnswered
  <2>3. lastCleanup' = lastCleanup \/ lastCleanup' = SweptCleanup(req[r].now)
    BY <1>2 DEF Handle, Throttled, TouchSession, OwnsSession, ReserveTableFull,
                ReserveActiveLimit, ReserveRateLimit, ReserveGranted, BodyFails, Forward,
                BackendFails, BackendRejects, PatchAnswered, DeleteAnswered,
                CreateUnusable, CreateAnswered, EnterClient, SweepClients, guardVars
  <2>4. lastCleanup' <= clock
    BY <2>1, <2>3, KeyType, SweepInPast DEF TimeInv
  <2> QED BY <2>1, <2>2, <2>4, StampsKept, FinishKeepsStamps, AdvanceKeepsStamps
<1>3. CASE Snapshots
  BY <1>0, <1>3, SweepInPast, StampsKept DEF Snapshots, SweepClients
<1>4. CASE Tick
  BY <1>0, <1>4 DEF Tick, guardVars, TimeInv, TypeInv, TypeOK, Requests
<1>5. CASE UNCHANGED vars
  BY <1>5 DEF vars, TimeInv
<1> QED BY <1>1, <1>2, <1>3, <1>4, <1>5 DEF Next

-----------------------------------------------------------------------------
(* The sweep *)

\* A guard call that sweeps and at most writes one lease with a recent stamp.
LEMMA SweepKeepsComplete ==
    ASSUME LeaseInv, NEW now \in Nat, now <= clock, clock <= now + MaxHold,
           lastCleanup' = SweptCleanup(now),
           \A p \in Paths : sessions'[p] = SweptSessions(now)[p] \/ sessions'[p].lastSeen = now
    PROVE  SweepComplete'
<1> SUFFICES ASSUME NEW p \in Paths, Leased(p)'
             PROVE  lastCleanup' - sessions'[p].lastSeen <= SessionTTL
  BY DEF SweepComplete
<1>0. /\ clock \in Nat /\ lastCleanup \in Nat /\ lastCleanup <= clock
      /\ MaxHold \in Nat /\ SessionTTL \in Nat /\ MaxHold <= SessionTTL
      /\ sessions[p].lastSeen \in Nat
  BY TimeAssumption, LimitAssumption DEF LeaseInv, TypeInv, TypeOK, TimeInv, Leases
<1>1. CASE sessions'[p].lastSeen = now
  BY <1>0, <1>1 DEF SweptCleanup
<1>2. CASE sessions'[p] = SweptSessions(now)[p]
  <2>1. p \notin Expired(now) /\ sessions'[p] = sessions[p] /\ Leased(p)
    BY <1>2 DEF SweptSessions, Leased, NoLease
  <2>2. lastCleanup - sessions[p].lastSeen <= SessionTTL
    BY <2>1 DEF LeaseInv, SweepComplete
  <2> QED BY <1>0, <2>1, <2>2 DEF SweptCleanup, Expired
<1> QED BY <1>1, <1>2

LEMMA NextComplete == LeaseInv /\ [Next]_vars => SweepComplete'
<1> SUFFICES ASSUME LeaseInv, [Next]_vars PROVE SweepComplete'
  OBVIOUS
<1>0. TypeInv /\ TimeInv /\ SweepComplete
  BY DEF LeaseInv
<1>1. ASSUME UNCHANGED <<lastCleanup, sessions>> PROVE SweepComplete'
  BY <1>0, <1>1 DEF SweepComplete, Leased
<1>2. ASSUME NEW r \in Reqs,
             \/ TouchSession(r) \/ OwnsSession(r) \/ ReserveTableFull(r)
             \/ ReserveActiveLimit(r) \/ ReserveRateLimit(r) \/ ReserveGranted(r)
      PROVE  SweepComplete'
  <2>1. req[r].pc = "arrived"
    BY <1>2 DEF TouchSession, OwnsSession, ReserveTableFull, ReserveActiveLimit,
                ReserveRateLimit, ReserveGranted
  <2>2. req[r].now \in Nat /\ req[r].now <= clock /\ clock <= req[r].now + MaxHold
    BY <1>0, <2>1, KeyType DEF TimeInv
  <2>3. lastCleanup' = SweptCleanup(req[r].now)
    BY <1>2 DEF TouchSession, OwnsSession, ReserveTableFull, ReserveActiveLimit,
                ReserveRateLimit, ReserveGranted, EnterClient, SweepClients
  <2>4. \A p \in Paths : \/ sessions'[p] = SweptSessions(req[r].now)[p]
                         \/ sessions'[p].lastSeen = req[r].now
    <3>1. SweptSessions(req[r].now) \in [Paths -> Leases]
      BY <1>0, <2>2, SweepType DEF TypeInv
    <3> QED BY <1>2, <3>1
            DEF TouchSession, OwnsSession, ReserveTableFull, ReserveActiveLimit,
                ReserveRateLimit, ReserveGranted, EnterClient
  <2> QED BY <2>2, <2>3, <2>4, SweepKeepsComplete
<1>3. CASE Snapshots
  <2>1. clock \in Nat /\ clock <= clock + MaxHold
    BY <1>0, TimeAssumption DEF TypeInv, TypeOK
  <2> QED BY <1>3, <2>1, SweepKeepsComplete DEF Snapshots, SweepClients
<1>4. ASSUME NEW r \in Reqs, BackendRejects(r) \/ DeleteAnswered(r) PROVE SweepComplete'
  <2>1. lastCleanup' = lastCleanup
    BY <1>4 DEF BackendRejects, DeleteAnswered
  <2>2. \A p \in Paths : Leased(p)' => Leased(p) /\ sessions'[p] = sessions[p]
    BY <1>0, <1>4 DEF BackendRejects, DeleteAnswered, ReleaseSession, Leased, NoLease,
                      TypeInv, TypeOK
  <2> QED BY <1>0, <2>1, <2>2 DEF SweepComplete
<1>5. ASSUME NEW r \in Reqs, NEW p \in Paths, CreateAnswered(r, p) PROVE SweepComplete'
  <2>1. CASE Leased(p)
    BY <1>1, <1>5, <2>1 DEF CreateAnswered
  <2>2. CASE ~Leased(p)
    <3>1. /\ lastCleanup' = lastCleanup
          /\ sessions' = [sessions EXCEPT ![p] = [ip |-> req[r].ip, lastSeen |-> req[r].now]]
      BY <1>5, <2>2 DEF CreateAnswered
    <3>2. /\ req[r].now \in Nat /\ clock <= req[r].now + MaxHold /\ lastCleanup <= clock
          /\ clock \in Nat /\ lastCleanup \in Nat
          /\ MaxHold \in Nat /\ SessionTTL \in Nat /\ MaxHold <= SessionTTL
      BY <1>0, <1>5, KeyType, TimeAssumption, LimitAssumption
         DEF TimeInv, CreateAnswered, TypeInv, TypeOK
    <3> QED BY <1>0, <3>1, <3>2 DEF SweepComplete, Leased, TypeInv, TypeOK
  <2> QED BY <2>1, <2>2
<1> QED
  BY <1>1, <1>2, <1>3, <1>4, <1>5
     DEF Next, Handle, Arrive, Throttled, BodyFails, Forward, BackendFails,
         PatchAnswered, CreateUnusable, Tick, guardVars, vars

LEMMA LeaseInvariant == Spec => []LeaseInv
<1>1. Init => LeaseInv
  <2> SUFFICES ASSUME Init PROVE LeaseInv
    OBVIOUS
  <2>1. TypeInv
    BY InitType
  <2>2. TimeInv /\ SweepComplete
    BY DEF Init, TimeInv, SweepComplete, Leased, NoLease, Idle
  <2> QED BY <2>1, <2>2 DEF LeaseInv
<1>2. LeaseInv /\ [Next]_vars => LeaseInv'
  BY NextType, NextTime, NextComplete DEF LeaseInv
<1> QED BY <1>1, <1>2, PTL DEF Spec

\* No lease survives a sweep that finds it expired, and neither an answer nor a
\* keepalive that was stamped before the sweep brings an expired one back.
THEOREM SweepsComplete == Spec => []SweepComplete
<1>1. LeaseInv => SweepComplete
  BY DEF LeaseInv
<1> QED BY <1>1, LeaseInvariant, PTL

-----------------------------------------------------------------------------
(* When a viewer is told that its slots are taken *)

\* The leases that count against a create are all recent.
LEMMA CountedLeasesFresh ==
    ASSUME LeaseInv, NEW r \in Reqs, req[r].pc # "idle", NEW k \in Keys
    PROVE  \A p \in LeasesOf(k) \ ExpiredOf(k, req[r].now) :
               req[r].now - sessions[p].lastSeen < SessionTTL + CleanupInterval
<1> SUFFICES ASSUME NEW p \in Paths, p \in LeasesOf(k), p \notin ExpiredOf(k, req[r].now)
             PROVE  req[r].now - sessions[p].lastSeen < SessionTTL + CleanupInterval
  BY DEF LeasesOf
<1>1. /\ req[r].now \in Nat /\ sessions[p].lastSeen \in Nat /\ lastCleanup \in Nat
      /\ SessionTTL \in Nat /\ CleanupInterval \in Nat /\ CleanupInterval > 0
  BY KeyType, LimitAssumption DEF LeaseInv, TypeInv, TypeOK, Leases
<1>2. Leased(p) /\ KeyOf[sessions[p].ip] = k
  BY DEF LeasesOf
<1>3. p \notin Expired(req[r].now)
  BY <1>2 DEF ExpiredOf
<1>4. lastCleanup - sessions[p].lastSeen <= SessionTTL
  BY <1>2 DEF LeaseInv, SweepComplete
<1>5. CASE SweepDue(req[r].now)
  BY <1>1, <1>2, <1>3, <1>5 DEF Expired
<1>6. CASE ~SweepDue(req[r].now)
  BY <1>1, <1>4, <1>6 DEF SweepDue
<1> QED BY <1>5, <1>6

LEMMA RefusalJustified ==
    ASSUME LeaseInv, SlotAccounting, NEW r \in Reqs, ReserveActiveLimit(r)
    PROVE  LET k == KeyOfReq(r)
               fresh == {p \in LeasesOf(k) :
                           req[r].now - sessions[p].lastSeen < SessionTTL + CleanupInterval}
           IN  Cardinality(Reserving(k)) + Cardinality(fresh) >= MaxActive
<1> DEFINE k == KeyOfReq(r)
           counted == LeasesOf(k) \ ExpiredOf(k, req[r].now)
           fresh == {p \in LeasesOf(k) :
                       req[r].now - sessions[p].lastSeen < SessionTTL + CleanupInterval}
<1>1. req[r].pc # "idle" /\ SweptActive(req[r].now)[k] >= MaxActive
  BY DEF ReserveActiveLimit, SlotsTaken
<1>2. k \in Keys /\ req[r].now \in Nat
  BY <1>1, KeyType DEF LeaseInv
<1>3. counted \subseteq fresh /\ fresh \subseteq LeasesOf(k)
  BY <1>1, <1>2, CountedLeasesFresh
<1>4. IsFiniteSet(fresh) /\ Cardinality(fresh) \in Nat
  BY <1>3, HoldersFinite, FS_Subset, FS_CardinalityType
<1>5. Cardinality(counted) <= Cardinality(fresh) /\ Cardinality(counted) \in Nat
  BY <1>3, <1>4, FS_Subset, FS_CardinalityType
<1>6. SweptActive(req[r].now)[k] = Cardinality(Reserving(k)) + Cardinality(counted)
  BY <1>2, SweepCount DEF LeaseInv
<1>7. Cardinality(Reserving(k)) \in Nat /\ MaxActive \in Nat
  BY HoldersFinite, LimitAssumption
<1> HIDE DEF counted, fresh, k
<1>8. Cardinality(Reserving(k)) + Cardinality(fresh) >= MaxActive
  BY <1>1, <1>4, <1>5, <1>6, <1>7
<1> QED BY <1>8 DEF fresh, k

\* A refusal for the active limit names slots in use: creates in flight, or leases
\* refreshed within the lifetime of a lease and one sweep interval.
THEOREM RefusalsJustified == Spec => ActiveLimitJustified
<1>1. LeaseInv /\ SlotAccounting /\ [Next]_vars =>
        [\A r \in Reqs : ReserveActiveLimit(r) =>
           LET k == KeyOfReq(r)
               fresh == {p \in LeasesOf(k) :
                           req[r].now - sessions[p].lastSeen < SessionTTL + CleanupInterval}
           IN  Cardinality(Reserving(k)) + Cardinality(fresh) >= MaxActive]_vars
  BY RefusalJustified
<1> QED BY <1>1, LeaseInvariant, SlotsAccounted, PTL DEF Spec, ActiveLimitJustified

-----------------------------------------------------------------------------
(* Who changes a lease *)

LeaseStep(p) ==
    Leased(p) /\ sessions'[p] # sessions[p] =>
        \/ /\ ~Leased(p)'
           /\ clock - sessions[p].lastSeen > SessionTTL
        \/ \E r \in Reqs : /\ req[r].path = p
                           /\ req[r].ip = sessions[p].ip
                           /\ req'[r].pc = "idle"

\* A sweep ends a lease only when it expired by the clock, too.
LEMMA SweepEndsExpired ==
    ASSUME LeaseInv, NEW p \in Paths, NEW now \in Nat, now <= clock,
           SweptSessions(now)[p] # sessions[p]
    PROVE  /\ SweptSessions(now)[p] = NoLease
           /\ clock - sessions[p].lastSeen > SessionTTL
<1>1. /\ sessions[p].lastSeen \in Nat /\ clock \in Nat /\ SessionTTL \in Nat
  BY LimitAssumption DEF LeaseInv, TypeInv, TypeOK, Leases
<1> QED BY <1>1 DEF SweptSessions, Expired

LEMMA NextLease ==
    ASSUME LeaseInv, [Next]_vars, NEW p \in Paths
    PROVE  LeaseStep(p)
<1>0. TypeInv /\ TimeInv
  BY DEF LeaseInv
<1>1. ASSUME UNCHANGED sessions PROVE LeaseStep(p)
  BY <1>1 DEF LeaseStep
<1>2. ASSUME NEW now \in Nat, now <= clock, sessions' = SweptSessions(now)
      PROVE  LeaseStep(p)
  BY <1>2, SweepEndsExpired DEF LeaseStep, Leased, NoLease
<1>3. ASSUME NEW r \in Reqs, TouchSession(r) PROVE LeaseStep(p)
  <2>1. /\ req[r].now \in Nat /\ req[r].now <= clock
        /\ SweptSessions(req[r].now) \in [Paths -> Leases]
    BY <1>0, <1>3, KeyType, SweepType DEF TouchSession, TimeInv, TypeInv
  <2>2. CASE SweptSessions(req[r].now)[req[r].path].ip # req[r].ip
    BY <1>2, <1>3, <2>1, <2>2 DEF TouchSession
  <2>3. CASE SweptSessions(req[r].now)[req[r].path].ip = req[r].ip /\ req[r].path = p
    <3>1. req'[r].pc = "idle"
      BY <1>0, <1>3 DEF TouchSession, Finish, Idle, TypeInv, TypeOK
    <3>2. req[r].ip # NoIP
      BY <1>0, <1>3, KeyType, TableAssumption DEF TouchSession
    <3>3. SweptSessions(req[r].now)[p] = sessions[p]
      BY <2>3, <3>2 DEF SweptSessions, NoLease
    <3> QED BY <2>3, <3>1, <3>3 DEF LeaseStep
  <2>4. CASE SweptSessions(req[r].now)[req[r].path].ip = req[r].ip /\ req[r].path # p
    <3>1. sessions'[p] = SweptSessions(req[r].now)[p]
      BY <1>3, <2>1, <2>4 DEF TouchSession
    <3> QED BY <2>1, <3>1, SweepEndsExpired DEF LeaseStep, Leased, NoLease
  <2> QED BY <2>2, <2>3, <2>4
<1>4. ASSUME NEW r \in Reqs,
             \/ OwnsSession(r) \/ ReserveTableFull(r) \/ ReserveActiveLimit(r)
             \/ ReserveRateLimit(r) \/ ReserveGranted(r)
      PROVE  LeaseStep(p)
  <2>1. req[r].pc = "arrived" /\ sessions' = SweptSessions(req[r].now)
    BY <1>4 DEF OwnsSession, ReserveTableFull, ReserveActiveLimit, ReserveRateLimit,
                ReserveGranted, EnterClient
  <2>2. req[r].now \in Nat /\ req[r].now <= clock
    BY <1>0, <2>1, KeyType DEF TimeInv
  <2> QED BY <1>2, <2>1, <2>2
<1>5. CASE Snapshots
  <2>1. clock \in Nat /\ clock <= clock
    BY <1>0 DEF TypeInv, TypeOK
  <2> QED BY <1>2, <1>5, <2>1 DEF Snapshots
<1>6. ASSUME NEW r \in Reqs, BackendRejects(r) \/ DeleteAnswered(r) PROVE LeaseStep(p)
  <2>1. req'[r].pc = "idle"
    BY <1>0, <1>6 DEF BackendRejects, DeleteAnswered, Finish, Idle, TypeInv, TypeOK
  <2>2. sessions'[p] # sessions[p] => p = req[r].path /\ sessions[p].ip = req[r].ip
    BY <1>0, <1>6 DEF BackendRejects, DeleteAnswered, ReleaseSession, TypeInv, TypeOK
  <2> QED BY <2>1, <2>2 DEF LeaseStep
<1>7. ASSUME NEW r \in Reqs, NEW q \in Paths, CreateAnswered(r, q) PROVE LeaseStep(p)
  BY <1>0, <1>7 DEF CreateAnswered, LeaseStep, TypeInv, TypeOK
<1> QED
  BY <1>1, <1>3, <1>4, <1>5, <1>6, <1>7
     DEF Next, Handle, Arrive, Throttled, BodyFails, Forward, BackendFails,
         PatchAnswered, CreateUnusable, Tick, guardVars, vars

\* Nobody but the viewer that created a session refreshes, ends or takes over its
\* lease before it has expired.
THEOREM LeasesOwned == Spec => LeaseChangedByOwnerOnly
<1>1. LeaseInv /\ [Next]_vars =>
        [\A p \in Paths : Leased(p) /\ sessions'[p] # sessions[p] =>
           \/ /\ ~Leased(p)'
              /\ clock - sessions[p].lastSeen > SessionTTL
           \/ \E r \in Reqs : /\ req[r].path = p
                              /\ req[r].ip = sessions[p].ip
                              /\ req'[r].pc = "idle"]_vars
  BY NextLease DEF LeaseStep
<1> QED BY <1>1, LeaseInvariant, PTL DEF Spec, LeaseChangedByOwnerOnly

-----------------------------------------------------------------------------
(* The slot pool: how the steps map *)

\* A step of the gateway as the pool sees it.
PoolStep == [Pool!Next]_(Pool!vars)

\* A step that moves no reservation and no owner of a lease is a stutter.
LEMMA Unseen ==
    ASSUME \A k \in Keys : Reserving(k)' = Reserving(k) /\ LeasesOf(k)' = LeasesOf(k)
    PROVE  PoolStep
<1>1. Creates' = Creates /\ Held' = Held
  BY DEF Creates, Held
<1> QED BY <1>1 DEF PoolStep, Pool!vars

\* What a sweep takes from a group, seen from all groups at once.
LEMMA SweepWithout ==
    ASSUME TypeInv, NEW now \in Nat,
           \A p \in Paths : sessions'[p].ip = SweptSessions(now)[p].ip
    PROVE  Held' = Pool!Without(Expired(now)) /\ Expired(now) \in SUBSET Paths
<1>1. ASSUME NEW k \in Keys PROVE LeasesOf(k)' = LeasesOf(k) \ Expired(now)
  <2>1. LeasesOf(k) \ ExpiredOf(k, now) = LeasesOf(k) \ Expired(now)
    BY DEF LeasesOf, ExpiredOf
  <2> QED BY <2>1, SweptLeases
<1>2. Held' = Pool!Without(Expired(now))
  BY <1>1 DEF Held, Pool!Without
<1>3. Expired(now) \in SUBSET Paths
  BY DEF Expired
<1> QED BY <1>2, <1>3

\* A guard call that sweeps and reserves nothing lets leases expire.
LEMMA SweepStep ==
    ASSUME TypeInv, NEW now \in Nat,
           \A p \in Paths : sessions'[p].ip = SweptSessions(now)[p].ip,
           \A k \in Keys : Reserving(k)' = Reserving(k)
    PROVE  PoolStep
<1>1. Creates' = Creates
  BY DEF Creates
<1>2. Pool!Expire(Expired(now)) /\ Expired(now) \in SUBSET Paths
  BY <1>1, SweepWithout DEF Pool!Expire
<1> QED BY <1>2 DEF PoolStep, Pool!Next

\* A finishing create leaves the reservations of its own group.
LEMMA FinishTickets ==
    ASSUME TypeInv, NEW r \in Reqs, Finish(r),
           req[r].kind = "create", req[r].pc \in {"admitted", "forwarded"}
    PROVE  /\ KeyOfReq(r) \in Keys /\ r \in Creates[KeyOfReq(r)]
           /\ Creates' = [Creates EXCEPT ![KeyOfReq(r)] = @ \ {r}]
<1>1. KeyOfReq(r) \in Keys
  BY KeyType
<1>2. r \in Reserving(KeyOfReq(r))
  BY DEF Reserving, KeyOfReq
<1>3. ASSUME NEW k \in Keys PROVE Reserving(k)' = Reserving(k) \ {r}
  BY DEF TypeInv, TypeOK, Finish, Idle, Reserving
<1>4. ASSUME NEW k \in Keys, k # KeyOfReq(r) PROVE r \notin Reserving(k)
  BY <1>4 DEF Reserving, KeyOfReq
<1>5. ASSUME NEW k \in Keys
      PROVE  Reserving(k)' = IF k = KeyOfReq(r) THEN Reserving(k) \ {r} ELSE Reserving(k)
  BY <1>3, <1>4
<1>6. Creates' = [Creates EXCEPT ![KeyOfReq(r)] = @ \ {r}]
  BY <1>1, <1>5 DEF Creates
<1> QED BY <1>1, <1>2, <1>6 DEF Creates

\* A create that fails gives its slot back.
LEMMA GiveBackStep ==
    ASSUME TypeInv, NEW r \in Reqs, Finish(r), UNCHANGED sessions,
           req[r].pc \in {"admitted", "forwarded"}
    PROVE  PoolStep
<1>1. Held' = Held
  BY DEF Held, LeasesOf, Leased
<1>2. CASE req[r].kind # "create"
  <2>1. \A k \in Keys : Reserving(k)' = Reserving(k)
    BY <1>2, FinishNothing
  <2>2. \A k \in Keys : LeasesOf(k)' = LeasesOf(k)
    BY DEF LeasesOf, Leased
  <2> QED BY <2>1, <2>2, Unseen
<1>3. CASE req[r].kind = "create"
  <2>1. KeyOfReq(r) \in Keys /\ Pool!GiveBack(KeyOfReq(r), r)
    BY <1>1, <1>3, FinishTickets DEF Pool!GiveBack
  <2> QED BY <2>1 DEF PoolStep, Pool!Next
<1> QED BY <1>2, <1>3

\* A delete ends the lease of its path, and no other, if it still owns it.
LEMMA ReleaseStep ==
    ASSUME TypeInv, NEW r \in Reqs, Finish(r),
           req[r].pc = "forwarded", req[r].kind = "delete", ReleaseSession(r)
    PROVE  PoolStep
<1> DEFINE p == req[r].path
<1>1. p \in Paths /\ req[r].ip \in IPs
  BY DEF TypeInv, TypeOK, RequestShape, Requests
<1>2. \A k \in Keys : Reserving(k)' = Reserving(k)
  BY FinishNothing
<1>3. CASE sessions[p].ip # req[r].ip
  <2>1. \A k \in Keys : LeasesOf(k)' = LeasesOf(k)
    BY <1>3 DEF ReleaseSession, LeasesOf, Leased
  <2> QED BY <1>2, <2>1, Unseen
<1>4. CASE sessions[p].ip = req[r].ip
  <2>1. ASSUME NEW k \in Keys PROVE LeasesOf(k)' = LeasesOf(k) \ {p}
    BY <1>1, <1>4 DEF ReleaseSession, LeasesOf, Leased, NoLease, TypeInv, TypeOK
  <2>2. Held' = Pool!Without({p})
    BY <2>1 DEF Held, Pool!Without
  <2>3. Creates' = Creates
    BY <1>2 DEF Creates
  <2>4. Pool!Expire({p}) /\ {p} \in SUBSET Paths
    BY <1>1, <2>2, <2>3 DEF Pool!Expire
  <2> QED BY <2>4 DEF PoolStep, Pool!Next
<1> QED BY <1>3, <1>4

\* A committed create hands its slot to a lease of a path nobody holds.
LEMMA EstablishStep ==
    ASSUME TypeInv, NEW r \in Reqs, NEW p \in Paths, CreateAnswered(r, p), ~Leased(p)
    PROVE  PoolStep
<1>1. /\ Finish(r) /\ req[r].pc = "forwarded" /\ req[r].kind = "create"
      /\ sessions' = [sessions EXCEPT ![p] = [ip |-> req[r].ip, lastSeen |-> req[r].now]]
  BY DEF CreateAnswered
<1>2. req[r].ip \in IPs /\ KeyOfReq(r) \in Keys
  BY <1>1, KeyType
<1>3. ASSUME NEW k \in Keys
      PROVE  LeasesOf(k)' = IF k = KeyOfReq(r) THEN LeasesOf(k) \cup {p} ELSE LeasesOf(k)
  BY <1>1, <1>2, TableAssumption DEF LeasesOf, Leased, KeyOfReq, TypeInv, TypeOK
<1>4. Held' = [Held EXCEPT ![KeyOfReq(r)] = @ \cup {p}]
  BY <1>2, <1>3 DEF Held
<1>5. \A k \in Keys : p \notin Held[k]
  BY DEF Held, LeasesOf
<1>6. Pool!Establish(KeyOfReq(r), r, p)
  BY <1>1, <1>4, <1>5, FinishTickets DEF Pool!Establish
<1> QED BY <1>2, <1>6 DEF PoolStep, Pool!Next

\* A granted create takes a slot below the limit, counted after the sweep.
LEMMA GrantStep ==
    ASSUME TypeInv, SlotAccounting, NEW r \in Reqs, ReserveGranted(r)
    PROVE  PoolStep
<1> DEFINE g == KeyOfReq(r)
           lost == Expired(req[r].now)
<1>1. /\ req[r].pc = "arrived" /\ req[r].kind = "create" /\ Advance(r, "admitted")
      /\ sessions' = SweptSessions(req[r].now)
      /\ ~(SweptActive(req[r].now)[g] >= MaxActive)
  BY DEF ReserveGranted, EnterClient, SlotsTaken
<1>2. req[r].now \in Nat /\ g \in Keys
  BY <1>1, KeyType
<1>3. Held' = Pool!Without(lost) /\ lost \in SUBSET Paths
  BY <1>1, <1>2, SweepWithout
<1>4. ASSUME NEW k \in Keys
      PROVE  Reserving(k)' = IF k = g THEN Reserving(k) \cup {r} ELSE Reserving(k)
  BY <1>1 DEF TypeInv, TypeOK, Advance, Reserving, KeyOfReq
<1>5. Creates' = [Creates EXCEPT ![g] = @ \cup {r}]
  BY <1>2, <1>4 DEF Creates
<1>6. \A k \in Keys : r \notin Creates[k]
  BY <1>1 DEF Creates, Reserving
<1>7. Cardinality(Creates[g]) + Cardinality(Pool!Without(lost)[g]) < MaxActive
  <2>1. LeasesOf(g) \ ExpiredOf(g, req[r].now) = LeasesOf(g) \ lost
    BY DEF LeasesOf, ExpiredOf
  <2>2. Creates[g] = Reserving(g) /\ Pool!Without(lost)[g] = LeasesOf(g) \ lost
    BY <1>2 DEF Creates, Held, Pool!Without
  <2>3. SweptActive(req[r].now)[g] = Cardinality(Reserving(g)) + Cardinality(LeasesOf(g) \ lost)
    BY <1>2, <2>1, SweepCount
  <2>4. SweptActive(req[r].now)[g] \in Nat
    BY <1>2, SweepType DEF TypeInv
  <2> QED BY <1>1, <2>2, <2>3, <2>4, LimitAssumption
<1>8. Pool!Grant(g, r, lost)
  BY <1>3, <1>5, <1>6, <1>7 DEF Pool!Grant, Pool!Cardinality, Cardinality
<1> QED BY <1>2, <1>3, <1>8 DEF PoolStep, Pool!Next

-----------------------------------------------------------------------------
(* Every step *)

LEMMA NextImplements == TypeInv /\ SlotAccounting /\ [Next]_vars => PoolStep
<1> SUFFICES ASSUME TypeInv, SlotAccounting, [Next]_vars PROVE PoolStep
  OBVIOUS
<1>1. ASSUME UNCHANGED sessions, \A k \in Keys : Reserving(k)' = Reserving(k)
      PROVE  PoolStep
  <2>1. \A k \in Keys : LeasesOf(k)' = LeasesOf(k)
    BY <1>1 DEF LeasesOf, Leased
  <2> QED BY <1>1, <2>1, Unseen
<1>2. ASSUME NEW r \in Reqs, NEW kind \in Kinds, NEW ip \in IPs,
             NEW path \in Paths \cup {NoPath}, Arrive(r, kind, ip, path)
      PROVE  PoolStep
  <2>1. \A k \in Keys : Reserving(k)' = Reserving(k)
    BY <1>2 DEF Arrive, Reserving, TypeInv, TypeOK
  <2> QED BY <1>1, <1>2, <2>1 DEF Arrive, guardVars
<1>3. ASSUME NEW r \in Reqs, Throttled(r) \/ PatchAnswered(r) PROVE PoolStep
  BY <1>1, <1>3, FinishNothing DEF Throttled, PatchAnswered, guardVars
<1>4. ASSUME NEW r \in Reqs, TouchSession(r) PROVE PoolStep
  <2>1. req[r].now \in Nat /\ SweptSessions(req[r].now) \in [Paths -> Leases]
    BY <1>4, KeyType, SweepType DEF TouchSession, TypeInv
  <2>2. \A p \in Paths : sessions'[p].ip = SweptSessions(req[r].now)[p].ip
    BY <1>4, <2>1 DEF TouchSession
  <2>3. \A k \in Keys : Reserving(k)' = Reserving(k)
    BY <1>4, FinishNothing DEF TouchSession
  <2> QED BY <2>1, <2>2, <2>3, SweepStep
<1>5. ASSUME NEW r \in Reqs, OwnsSession(r) PROVE PoolStep
  <2>1. req[r].now \in Nat /\ sessions' = SweptSessions(req[r].now)
    BY <1>5, KeyType DEF OwnsSession
  <2>2. \A k \in Keys : Reserving(k)' = Reserving(k)
    <3>1. CASE Finish(r)
      BY <1>5, <3>1, FinishNothing DEF OwnsSession
    <3>2. CASE Advance(r, "admitted")
      BY <1>5, <3>2 DEF OwnsSession, Advance, Reserving, TypeInv, TypeOK
    <3> QED BY <1>5, <3>1, <3>2 DEF OwnsSession
  <2> QED BY <2>1, <2>2, SweepStep
<1>6. CASE Snapshots
  <2>1. clock \in Nat /\ \A k \in Keys : Reserving(k)' = Reserving(k)
    BY <1>6 DEF Snapshots, Reserving, TypeInv, TypeOK
  <2> QED BY <1>6, <2>1, SweepStep DEF Snapshots
<1>7. ASSUME NEW r \in Reqs,
             ReserveTableFull(r) \/ ReserveActiveLimit(r) \/ ReserveRateLimit(r)
      PROVE  PoolStep
  <2>1. req[r].pc = "arrived" /\ Finish(r) /\ sessions' = SweptSessions(req[r].now)
    BY <1>7 DEF ReserveTableFull, ReserveActiveLimit, ReserveRateLimit, EnterClient
  <2>2. req[r].now \in Nat
    BY <2>1, KeyType
  <2> QED BY <2>1, <2>2, FinishNothing, SweepStep
<1>8. ASSUME NEW r \in Reqs, BodyFails(r) \/ BackendFails(r) \/ CreateUnusable(r)
      PROVE  PoolStep
  BY <1>8, GiveBackStep DEF BodyFails, BackendFails, CreateUnusable
<1>9. ASSUME NEW r \in Reqs, Forward(r) PROVE PoolStep
  <2>1. \A k \in Keys : Reserving(k)' = Reserving(k)
    BY <1>9 DEF Forward, Advance, Reserving, TypeInv, TypeOK
  <2> QED BY <1>1, <1>9, <2>1 DEF Forward, guardVars
<1>10. ASSUME NEW r \in Reqs, BackendRejects(r) \/ DeleteAnswered(r) PROVE PoolStep
  BY <1>10, GiveBackStep, ReleaseStep DEF BackendRejects, DeleteAnswered
<1>11. ASSUME NEW r \in Reqs, NEW p \in Paths, CreateAnswered(r, p) PROVE PoolStep
  <2>1. CASE Leased(p)
    BY <1>11, <2>1, GiveBackStep DEF CreateAnswered
  <2> QED BY <1>11, <2>1, EstablishStep
<1>12. CASE Tick
  BY <1>1, <1>12 DEF Tick, guardVars, Reserving
<1>13. CASE UNCHANGED vars
  BY <1>1, <1>13 DEF vars, Reserving
<1> QED
  BY <1>2, <1>3, <1>4, <1>5, <1>6, <1>7, <1>8, <1>9, <1>10, <1>11, <1>12, <1>13,
     GrantStep DEF Next, Handle

LEMMA InitImplements == Init => Pool!Init
<1> SUFFICES ASSUME Init, NEW k \in Keys PROVE Reserving(k) = {} /\ LeasesOf(k) = {}
  BY DEF Pool!Init, Creates, Held
<1> QED BY DEF Init, Reserving, LeasesOf, Leased, Idle, NoLease

\* The gateway is a pool of MaxActive slots per group: a slot is granted only
\* below the limit, a reservation ends in a lease of its own or is given back, and
\* no failure, late answer or repeated delete leaks a slot or frees one twice.
THEOREM GatewayIsAPool == Spec => PoolSpec
<1>1. Init => TypeInv /\ SlotAccounting
  BY InitType, InitAccounts
<1>2. TypeInv /\ SlotAccounting /\ [Next]_vars => (TypeInv /\ SlotAccounting)'
  BY NextType, NextAccounts
<1>3. TypeInv /\ SlotAccounting /\ [Next]_vars => [Pool!Next]_(Pool!vars)
  BY NextImplements DEF PoolStep
<1> QED BY <1>1, <1>2, <1>3, InitImplements, PTL DEF Spec, PoolSpec, Pool!Spec

-----------------------------------------------------------------------------
(* The rolling windows: what pruning leaves *)

\* t is what is left of s when stamps before the cutoff were dropped from its front.
Latest(t, s, cutoff) ==
    /\ Len(t) <= Len(s)
    /\ \A i \in 1 .. Len(t) : t[i] = s[Len(s) - Len(t) + i]
    /\ \A i \in 1 .. (Len(s) - Len(t)) : s[i] < cutoff

\* The scan drops an initial segment.
LEMMA PruneTimesLatest ==
    ASSUME NEW stamps \in Seq(Nat), NEW cutoff \in Int
    PROVE  Latest(PruneTimes(stamps, cutoff), stamps, cutoff)
<1> DEFINE old == {i \in DOMAIN stamps : \A j \in 1 .. i : stamps[j] < cutoff}
           n == Len(stamps)
           m == Cardinality(old)
<1>0. n \in Nat /\ DOMAIN stamps = 1 .. n
  OBVIOUS
<1>1. n \in Nat /\ DOMAIN stamps = 1 .. n /\ IsFiniteSet(1 .. n) /\ Cardinality(1 .. n) = n
  <2> HIDE DEF n
  <2> QED BY <1>0, FS_Interval
<1>2. IsFiniteSet(old) /\ m \in Nat /\ m <= n
  <2>1. old \subseteq 1 .. n
    BY <1>1
  <2> HIDE DEF old, n
  <2>2. IsFiniteSet(old) /\ Cardinality(old) <= Cardinality(1 .. n)
    BY <1>1, <2>1, FS_Subset
  <2>3. Cardinality(old) \in Nat
    BY <2>2, FS_CardinalityType
  <2> QED BY <1>1, <2>2, <2>3
<1>3. ASSUME NEW i \in old PROVE i \in 1 .. m
  <2>1. i \in Nat /\ 1 <= i /\ 1 .. i \subseteq old
    BY <1>1
  <2> HIDE DEF old
  <2>2. Cardinality(1 .. i) = i
    BY <2>1, FS_Interval
  <2>3. Cardinality(1 .. i) <= m
    BY <1>2, <2>1, FS_Subset
  <2> QED BY <1>2, <2>1, <2>2, <2>3
<1>4. old = 1 .. m
  <2>1. IsFiniteSet(1 .. m) /\ Cardinality(1 .. m) = m
    BY <1>2, FS_Interval
  <2>2. old \subseteq 1 .. m
    BY <1>3
  <2> HIDE DEF old
  <2> QED BY <1>2, <2>1, <2>2, FS_Subset
<1>5. \A i \in 1 .. m : stamps[i] < cutoff
  BY <1>4
<1>6. \A i \in (m + 1) .. n : stamps[i] \in Nat
  BY <1>1, <1>2
<1> HIDE DEF old
<1>7. PruneTimes(stamps, cutoff) = SubSeq(stamps, m + 1, n)
  BY DEF PruneTimes, old
<1>8. /\ Len(SubSeq(stamps, m + 1, n)) = n - m
      /\ \A i \in 1 .. (n - m) : SubSeq(stamps, m + 1, n)[i] = stamps[m + i]
  <2> HIDE DEF m, n
  <2>1. m + 1 \in Int /\ n \in Int
    BY <1>1, <1>2
  <2>2. /\ Len(SubSeq(stamps, m + 1, n)) = IF m + 1 <= n THEN n - (m + 1) + 1 ELSE 0
        /\ \A i \in 1 .. (n - (m + 1) + 1) : SubSeq(stamps, m + 1, n)[i] = stamps[m + 1 + i - 1]
    BY <1>6, <2>1, SubSeqProperties
  <2> QED BY <1>1, <1>2, <2>2
<1> HIDE DEF m
<1> DEFINE rest == PruneTimes(stamps, cutoff)
<1>9. /\ Len(rest) = n - m /\ Len(stamps) = n
      /\ \A i \in 1 .. (n - m) : rest[i] = stamps[m + i]
  BY <1>7, <1>8
<1> HIDE DEF rest, n
<1>10. Latest(rest, stamps, cutoff)
  <2>1. Len(stamps) - Len(rest) = m /\ Len(rest) <= Len(stamps)
    BY <1>1, <1>2, <1>9
  <2> QED BY <1>1, <1>2, <1>5, <1>9, <2>1 DEF Latest
<1> QED BY <1>10 DEF rest

LEMMA LatestLater ==
    ASSUME NEW t \in Seq(Nat), NEW s \in Seq(Nat), NEW c \in Int, NEW d \in Int, c <= d,
           Latest(t, s, c)
    PROVE  Latest(t, s, d)
  BY DEF Latest

\* What is left of what was left.
LEMMA LatestTwice ==
    ASSUME NEW t \in Seq(Nat), NEW s \in Seq(Nat), NEW u \in Seq(Nat), NEW c \in Int,
           Latest(t, s, c), Latest(u, t, c)
    PROVE  Latest(u, s, c)
<1>1. Len(u) \in Nat /\ Len(t) \in Nat /\ Len(s) \in Nat /\ Len(u) <= Len(t) /\ Len(t) <= Len(s)
  BY DEF Latest
<1>2. ASSUME NEW i \in 1 .. Len(u) PROVE u[i] = s[Len(s) - Len(u) + i]
  <2>1. u[i] = t[Len(t) - Len(u) + i]
    BY DEF Latest
  <2>2. Len(t) - Len(u) + i \in 1 .. Len(t)
    BY <1>1
  <2>3. t[Len(t) - Len(u) + i] = s[Len(s) - Len(t) + (Len(t) - Len(u) + i)]
    BY <2>2 DEF Latest
  <2>4. Len(s) - Len(t) + (Len(t) - Len(u) + i) = Len(s) - Len(u) + i
    BY <1>1
  <2> QED BY <2>1, <2>3, <2>4
<1>3. ASSUME NEW i \in 1 .. (Len(s) - Len(u)) PROVE s[i] < c
  <2>1. CASE i <= Len(s) - Len(t)
    BY <1>1, <2>1 DEF Latest
  <2>2. CASE ~(i <= Len(s) - Len(t))
    <3> DEFINE j == i - (Len(s) - Len(t))
    <3>1. j \in 1 .. (Len(t) - Len(u)) /\ j \in 1 .. Len(t)
      BY <1>1, <2>2
    <3>2. t[j] < c /\ t[j] = s[Len(s) - Len(t) + j]
      BY <3>1 DEF Latest
    <3>3. Len(s) - Len(t) + j = i
      BY <1>1
    <3> QED BY <3>2, <3>3
  <2> QED BY <2>1, <2>2
<1> QED BY <1>1, <1>2, <1>3 DEF Latest

LEMMA PruneKeepsLatest ==
    ASSUME NEW t \in Seq(Nat), NEW s \in Seq(Nat), NEW c \in Int, NEW d \in Int, d <= c,
           Latest(t, s, c)
    PROVE  PruneTimes(t, d) \in Seq(Nat) /\ Latest(PruneTimes(t, d), s, c)
<1>1. PruneTimes(t, d) \in Seq(Nat)
  BY PruneTimesType
<1>2. Latest(PruneTimes(t, d), t, c)
  BY <1>1, PruneTimesLatest, LatestLater
<1> QED BY <1>1, <1>2, LatestTwice

LEMMA AppendLatest ==
    ASSUME NEW t \in Seq(Nat), NEW s \in Seq(Nat), NEW c \in Int, NEW now \in Nat,
           Latest(t, s, c)
    PROVE  Latest(Append(t, now), Append(s, now), c)
<1>1. /\ Len(Append(t, now)) = Len(t) + 1 /\ Append(t, now)[Len(t) + 1] = now
      /\ \A i \in 1 .. Len(t) : Append(t, now)[i] = t[i]
      /\ Len(Append(s, now)) = Len(s) + 1 /\ Append(s, now)[Len(s) + 1] = now
      /\ \A i \in 1 .. Len(s) : Append(s, now)[i] = s[i]
  BY AppendProperties
<1>2. Len(t) \in Nat /\ Len(s) \in Nat /\ Len(t) <= Len(s)
  BY DEF Latest
<1>3. ASSUME NEW i \in 1 .. (Len(t) + 1)
      PROVE  Append(t, now)[i] = Append(s, now)[(Len(s) + 1) - (Len(t) + 1) + i]
  <2>1. CASE i = Len(t) + 1
    <3>1. (Len(s) + 1) - (Len(t) + 1) + i = Len(s) + 1
      BY <1>2, <2>1
    <3> QED BY <1>1, <2>1, <3>1
  <2>2. CASE i # Len(t) + 1
    <3>1. i \in 1 .. Len(t) /\ Len(s) - Len(t) + i \in 1 .. Len(s)
          /\ (Len(s) + 1) - (Len(t) + 1) + i = Len(s) - Len(t) + i
      BY <1>2, <2>2
    <3>2. t[i] = s[Len(s) - Len(t) + i]
      BY <3>1 DEF Latest
    <3> QED BY <1>1, <3>1, <3>2
  <2> QED BY <2>1, <2>2
<1>4. ASSUME NEW i \in 1 .. (Len(s) - Len(t)) PROVE Append(s, now)[i] < c
  BY <1>1, <1>2 DEF Latest
<1>5. (Len(s) + 1) - (Len(t) + 1) = Len(s) - Len(t)
  BY <1>2
<1> DEFINE tt == Append(t, now)
           ss == Append(s, now)
<1>6. /\ Len(tt) = Len(t) + 1 /\ Len(ss) = Len(s) + 1 /\ Len(ss) - Len(tt) = Len(s) - Len(t)
      /\ \A i \in 1 .. (Len(t) + 1) : tt[i] = ss[(Len(s) + 1) - (Len(t) + 1) + i]
      /\ \A i \in 1 .. (Len(s) - Len(t)) : ss[i] < c
  BY <1>1, <1>3, <1>4, <1>5
<1> HIDE DEF tt, ss
<1>7. Latest(tt, ss, c)
  BY <1>2, <1>6 DEF Latest
<1> QED BY <1>7 DEF tt, ss

\* Few enough stamps are left, and one is added: those that none of the cutoffs reached.
LEMMA CountLatest ==
    ASSUME NEW t \in Seq(Nat), NEW s \in Seq(Nat), NEW c \in Int, Latest(t, s, c),
           NEW limit \in Nat, Len(t) < limit,
           NEW J \in SUBSET (1 .. (Len(s) + 1)), \A j \in J : j <= Len(s) => s[j] >= c
    PROVE  Cardinality(J) <= limit
<1>1. Len(t) \in Nat /\ Len(s) \in Nat /\ Len(t) <= Len(s)
  BY DEF Latest
<1>2. \A i \in 1 .. (Len(s) - Len(t)) : s[i] < c
  BY DEF Latest
<1>3. \A i \in 1 .. Len(s) : s[i] \in Nat
  OBVIOUS
<1>4. J \subseteq (Len(s) - Len(t) + 1) .. (Len(s) + 1)
  <2> SUFFICES ASSUME NEW j \in J PROVE j \in (Len(s) - Len(t) + 1) .. (Len(s) + 1)
    OBVIOUS
  <2>1. j \in Nat /\ 1 <= j /\ j <= Len(s) + 1
    BY <1>1
  <2>2. CASE j = Len(s) + 1
    BY <1>1, <2>2
  <2>3. CASE j <= Len(s)
    <3>1. j \in 1 .. Len(s) /\ s[j] >= c
      BY <1>1, <2>1, <2>3
    <3>2. j \notin 1 .. (Len(s) - Len(t))
      BY <1>2, <1>3, <3>1
    <3> QED BY <1>1, <2>1, <3>2
  <2> QED BY <1>1, <2>1, <2>2, <2>3
<1> DEFINE a == Len(s) - Len(t) + 1
           b == Len(s) + 1
<1>5. a \in Int /\ b \in Int /\ a <= b /\ b - a + 1 = Len(t) + 1
  BY <1>1
<1>6. J \subseteq a .. b
  BY <1>4
<1> HIDE DEF a, b
<1>7. IsFiniteSet(a .. b) /\ Cardinality(a .. b) = Len(t) + 1
  <2>1. IsFiniteSet(a .. b) /\ Cardinality(a .. b) = IF a > b THEN 0 ELSE b - a + 1
    BY <1>5, FS_Interval
  <2>2. ~(a > b)
    BY <1>5
  <2> QED BY <1>5, <2>1, <2>2
<1>8. IsFiniteSet(J) /\ Cardinality(J) <= Len(t) + 1
  BY <1>6, <1>7, FS_Subset
<1>9. Cardinality(J) \in Nat
  BY <1>8, FS_CardinalityType
<1> QED BY <1>1, <1>8, <1>9

\* The stamps of a window of this length that ends with s[i].
InWindow(s, i, length) == {j \in DOMAIN s : s[j] \in (s[i] - length) .. s[i]}

\* A granted stamp adds to the windows that end no earlier only, and these hold nothing
\* that was dropped.
LEMMA AppendRolls ==
    ASSUME NEW t \in Seq(Nat), NEW s \in Seq(Nat), NEW now \in Nat, NEW until \in Nat,
           NEW window \in Nat, NEW limit \in Nat,
           until <= now + MaxLag, Latest(t, s, until - window), Len(t) < limit,
           \A i \in DOMAIN s : Cardinality(InWindow(s, i, window - MaxLag)) <= limit,
           NEW i \in DOMAIN Append(s, now)
    PROVE  Cardinality(InWindow(Append(s, now), i, window - MaxLag)) <= limit
<1> DEFINE ss == Append(s, now)
           n == Len(s)
           length == window - MaxLag
<1>1. /\ n \in Nat /\ DOMAIN s = 1 .. n /\ DOMAIN ss = 1 .. (n + 1) /\ ss \in Seq(Nat)
      /\ ss[n + 1] = now /\ \A j \in 1 .. n : ss[j] = s[j] /\ s[j] \in Nat
  <2>1. n \in Nat /\ DOMAIN s = 1 .. n /\ \A j \in 1 .. n : s[j] \in Nat
    OBVIOUS
  <2>2. /\ ss \in Seq(Nat) /\ Len(ss) = n + 1 /\ ss[n + 1] = now
        /\ \A j \in 1 .. n : ss[j] = s[j]
    BY AppendProperties
  <2> HIDE DEF ss
  <2>3. DOMAIN ss = 1 .. (n + 1)
    BY <2>2
  <2> QED BY <2>1, <2>2, <2>3
<1>2. length \in Int /\ MaxLag \in Nat
  BY TimeAssumption
<1>3. i \in 1 .. (n + 1) /\ ss[i] \in Nat
  BY <1>1
<1>4. CASE ss[i] < now
  <2>1. i # n + 1 /\ i \in 1 .. n
    BY <1>1, <1>3, <1>4
  <2>2. InWindow(ss, i, length) = InWindow(s, i, length)
    <3>1. ss[i] = s[i]
      BY <1>1, <2>1
    <3>2. \A j \in 1 .. (n + 1) : ss[j] \in (ss[i] - length) .. ss[i] => j \in 1 .. n
      BY <1>1, <1>2, <1>3, <1>4
    <3> HIDE DEF ss, n, length
    <3>3. InWindow(ss, i, length) \subseteq InWindow(s, i, length)
      BY <1>1, <3>1, <3>2 DEF InWindow
    <3>4. \A j \in 1 .. n : j \in 1 .. (n + 1)
      BY <1>1
    <3>5. InWindow(s, i, length) \subseteq InWindow(ss, i, length)
      BY <1>1, <3>1, <3>4 DEF InWindow
    <3> QED BY <3>3, <3>5
  <2>3. Cardinality(InWindow(s, i, length)) <= limit
    BY <1>1, <2>1
  <2> QED BY <2>2, <2>3
<1>5. CASE ~(ss[i] < now)
  <2> DEFINE J == InWindow(ss, i, length)
  <2>1. J \in SUBSET (1 .. (Len(s) + 1))
    BY <1>1 DEF InWindow
  <2>2. ASSUME NEW j \in J, j <= Len(s) PROVE s[j] >= until - window
    <3>1. j \in 1 .. n /\ ss[j] = s[j] /\ ss[j] \in (ss[i] - length) .. ss[i]
      BY <1>1, <2>2 DEF InWindow
    <3> DEFINE e == ss[i]
               x == s[j]
    <3> HIDE DEF ss, length, J
    <3>2. e \in Nat /\ x \in Nat /\ e >= now /\ x \in (e - length) .. e
      BY <1>1, <1>3, <1>5, <3>1
    <3> HIDE DEF e, x
    <3>3. e \in Nat /\ x \in Nat /\ e >= now /\ x >= e - (window - MaxLag)
      BY <1>2, <3>2 DEF length
    <3>4. x >= until - window
      BY <1>2, <3>3
    <3> QED BY <3>4 DEF x
  <2> HIDE DEF J
  <2>3. until - window \in Int
    OBVIOUS
  <2>4. Cardinality(J) <= limit
    BY <2>1, <2>2, <2>3, CountLatest
  <2> QED BY <2>4 DEF J
<1> QED BY <1>1, <1>3, <1>4, <1>5

-----------------------------------------------------------------------------
(* The rolling windows: the guard's stamps are the latest of all that were granted *)

HistoryInv ==
    /\ granted \in [Keys -> Seq(Nat)]
    /\ \A k \in Keys : Latest(posts[k], granted[k], clock - MinuteWindow)
    /\ \A r \in Reqs : req[r].pc = "arrived" => clock <= req[r].now + MaxLag
    /\ RollingWindows

\* A handler's stamp is not ahead of the clock, so what its cutoff drops is old.
LEMMA SweptLatest ==
    ASSUME TypeInv, HistoryInv, NEW now \in Nat, now <= clock, NEW k \in Keys
    PROVE  /\ SweptPosts(now)[k] \in Seq(Nat)
           /\ Latest(SweptPosts(now)[k], granted[k], clock - MinuteWindow)
<1>1. /\ clock \in Nat /\ MinuteWindow \in Nat /\ posts[k] \in Seq(Nat)
      /\ granted[k] \in Seq(Nat) /\ Latest(posts[k], granted[k], clock - MinuteWindow)
  BY LimitAssumption DEF TypeInv, TypeOK, HistoryInv
<1>2. CASE SweepDue(now)
  <2>1. SweptPosts(now)[k] = PruneTimes(posts[k], now - MinuteWindow)
    BY <1>2 DEF SweptPosts
  <2>2. /\ clock - MinuteWindow \in Int /\ now - MinuteWindow \in Int
        /\ now - MinuteWindow <= clock - MinuteWindow
    BY <1>1
  <2> QED BY <1>1, <2>1, <2>2, PruneKeepsLatest
<1>3. CASE ~SweepDue(now)
  BY <1>1, <1>3 DEF SweptPosts
<1> QED BY <1>2, <1>3

\* A request under way and its stamp.
LEMMA ReqFacts ==
    ASSUME TypeInv, TimeInv, NEW r \in Reqs, req[r].pc # "idle"
    PROVE  /\ KeyOfReq(r) \in Keys /\ req[r].now \in Nat /\ req[r].now <= clock
           /\ clock \in Nat
  BY KeyType DEF TimeInv, TypeInv, TypeOK

LEMMA RecentLatest ==
    ASSUME TypeInv, TimeInv, HistoryInv, NEW r \in Reqs, req[r].pc # "idle"
    PROVE  /\ RecentPosts(r) \in Seq(Nat)
           /\ Latest(RecentPosts(r), granted[KeyOfReq(r)], clock - MinuteWindow)
<1> DEFINE k == KeyOfReq(r)
           now == req[r].now
<1>1. k \in Keys /\ now \in Nat /\ now <= clock /\ clock \in Nat
  BY ReqFacts
<1> HIDE DEF k, now
<1>2. /\ SweptPosts(now)[k] \in Seq(Nat)
      /\ Latest(SweptPosts(now)[k], granted[k], clock - MinuteWindow)
  BY <1>1, SweptLatest
<1>3. /\ clock - MinuteWindow \in Int /\ now - MinuteWindow \in Int
      /\ now - MinuteWindow <= clock - MinuteWindow /\ granted[k] \in Seq(Nat)
  BY <1>1, LimitAssumption DEF HistoryInv
<1>4. /\ PruneTimes(SweptPosts(now)[k], now - MinuteWindow) \in Seq(Nat)
      /\ Latest(PruneTimes(SweptPosts(now)[k], now - MinuteWindow), granted[k],
                clock - MinuteWindow)
  BY <1>2, <1>3, PruneKeepsLatest
<1> QED BY <1>4 DEF RecentPosts, k, now

LEMMA BurstLatest ==
    ASSUME TypeInv, TimeInv, HistoryInv, NEW r \in Reqs, req[r].pc # "idle"
    PROVE  /\ BurstPosts(r) \in Seq(Nat)
           /\ Latest(BurstPosts(r), granted[KeyOfReq(r)], clock - ShortWindow)
<1> DEFINE k == KeyOfReq(r)
           now == req[r].now
           recent == RecentPosts(r)
<1>1. k \in Keys /\ now \in Nat /\ now <= clock /\ clock \in Nat
  BY ReqFacts
<1>2. recent \in Seq(Nat) /\ Latest(recent, granted[k], clock - MinuteWindow)
  BY RecentLatest
<1> HIDE DEF k, now, recent
<1>3. /\ clock - MinuteWindow \in Int /\ clock - ShortWindow \in Int
      /\ clock - MinuteWindow <= clock - ShortWindow
      /\ now - ShortWindow \in Int /\ now - ShortWindow <= clock - ShortWindow
      /\ granted[k] \in Seq(Nat)
  BY <1>1, LimitAssumption, TimeAssumption DEF HistoryInv
<1>4. Latest(recent, granted[k], clock - ShortWindow)
  BY <1>2, <1>3, LatestLater
<1>5. /\ PruneTimes(recent, now - ShortWindow) \in Seq(Nat)
      /\ Latest(PruneTimes(recent, now - ShortWindow), granted[k], clock - ShortWindow)
  BY <1>2, <1>3, <1>4, PruneKeepsLatest
<1> QED BY <1>5 DEF BurstPosts, k, now, recent

\* Without a new grant, the windows stay as they are.
LEMMA UngrantedHistory ==
    ASSUME HistoryInv, granted' = granted,
           \A k \in Keys : Latest(posts'[k], granted[k], clock' - MinuteWindow),
           \A r \in Reqs : req'[r].pc = "arrived" => clock' <= req'[r].now + MaxLag
    PROVE  HistoryInv'
  BY DEF HistoryInv, RollingWindows, RollingLimit

-----------------------------------------------------------------------------
(* Which steps grant *)

LEMMA NoGrants ==
    ASSUME HistoryInv, HNext, Grants = {}
    PROVE  granted' = granted
  BY DEF HistoryInv, HNext

LEMMA FinishGrantsNothing ==
    ASSUME TypeInv, NEW q \in Reqs, Finish(q)
    PROVE  Grants = {}
  BY DEF TypeInv, TypeOK, Finish, Idle, Grants

LEMMA AdvanceGrantsNothing ==
    ASSUME TypeInv, NEW q \in Reqs, NEW pc, Advance(q, pc),
           req[q].kind # "create" \/ req[q].pc # "arrived"
    PROVE  Grants = {}
  BY DEF TypeInv, TypeOK, Advance, Grants

LEMMA StillGrantsNothing ==
    ASSUME req' = req
    PROVE  Grants = {}
  BY DEF Grants

LEMMA ArriveGrantsNothing ==
    ASSUME TypeInv, NEW q \in Reqs, NEW kind \in Kinds, NEW ip \in IPs,
           NEW path \in Paths \cup {NoPath}, Arrive(q, kind, ip, path)
    PROVE  Grants = {}
  BY DEF TypeInv, TypeOK, Arrive, Grants

LEMMA CreateGrants ==
    ASSUME TypeInv, HistoryInv, NEW q \in Reqs, ReserveGranted(q), HNext
    PROVE  granted' = [granted EXCEPT ![KeyOfReq(q)] = Append(@, req[q].now)]
<1>1. Grants = {q}
  BY DEF TypeInv, TypeOK, ReserveGranted, Advance, Grants
<1>2. (CHOOSE r \in Grants : TRUE) = q
  BY <1>1
<1>3. granted' = [k \in Keys |-> IF KeyOfReq(q) = k THEN Append(granted[k], req[q].now)
                                                    ELSE granted[k]]
  <2>1. \A k \in Keys : (\E r \in Grants : KeyOfReq(r) = k) <=> (KeyOfReq(q) = k)
    BY <1>1
  <2>2. granted' = [k \in Keys |->
                     IF \E r \in Grants : KeyOfReq(r) = k
                     THEN Append(granted[k], req[CHOOSE r \in Grants : TRUE].now)
                     ELSE granted[k]]
    BY DEF HNext
  <2> QED BY <1>2, <2>1, <2>2
<1> QED BY <1>3 DEF HistoryInv

-----------------------------------------------------------------------------
(* A grant keeps the windows *)

\* A limit on windows, for one group.
GroupRolls(k, window, limit) ==
    \A i \in DOMAIN granted[k] :
        Cardinality(InWindow(granted[k], i, window - MaxLag)) <= limit

LEMMA RollsByGroup ==
    ASSUME NEW window, NEW limit
    PROVE  RollingLimit(window, limit) <=> \A k \in Keys : GroupRolls(k, window, limit)
  BY DEF RollingLimit, GroupRolls, InWindow

\* The guard's own stamps, still few enough, are all that the window could hold.
LEMMA GrantRollsOne ==
    ASSUME TypeInv, TimeInv, HistoryInv, NEW q \in Reqs, req[q].pc = "arrived",
           granted' = [granted EXCEPT ![KeyOfReq(q)] = Append(@, req[q].now)],
           NEW t \in Seq(Nat), NEW window \in Nat, NEW limit \in Nat,
           Latest(t, granted[KeyOfReq(q)], clock - window), Len(t) < limit,
           RollingLimit(window, limit)
    PROVE  RollingLimit(window, limit)'
<1> DEFINE g == KeyOfReq(q)
           now == req[q].now
<1>1. /\ g \in Keys /\ now \in Nat /\ clock \in Nat /\ clock <= now + MaxLag
      /\ granted[g] \in Seq(Nat)
  BY ReqFacts DEF HistoryInv
<1>2. granted' = [granted EXCEPT ![g] = Append(granted[g], now)]
      /\ granted \in [Keys -> Seq(Nat)]
  BY DEF HistoryInv
<1>3. Latest(t, granted[g], clock - window)
  OBVIOUS
<1> HIDE DEF g, now
<1>4. \A k \in Keys : GroupRolls(k, window, limit)
  BY RollsByGroup
<1>5. ASSUME NEW k \in Keys, k # g
      PROVE \A i \in DOMAIN granted'[k] :
                Cardinality(InWindow(granted'[k], i, window - MaxLag)) <= limit
  <2>1. granted'[k] = granted[k]
    BY <1>2, <1>5
  <2> QED BY <1>4, <2>1 DEF GroupRolls
<1>6. \A i \in DOMAIN granted'[g] :
          Cardinality(InWindow(granted'[g], i, window - MaxLag)) <= limit
  <2>1. granted'[g] = Append(granted[g], now)
    BY <1>1, <1>2
  <2>2. \A i \in DOMAIN granted[g] :
          Cardinality(InWindow(granted[g], i, window - MaxLag)) <= limit
    BY <1>1, <1>4 DEF GroupRolls
  <2>3. \A i \in DOMAIN Append(granted[g], now) :
          Cardinality(InWindow(Append(granted[g], now), i, window - MaxLag)) <= limit
    BY <1>1, <1>3, <2>2, AppendRolls
  <2> QED BY <2>1, <2>3
<1>7. \A k \in Keys : GroupRolls(k, window, limit)'
  BY <1>5, <1>6 DEF GroupRolls
<1> QED BY <1>7 DEF RollingLimit, GroupRolls, InWindow

LEMMA GrantHistory ==
    ASSUME TypeInv, TimeInv, HistoryInv, NEW q \in Reqs, ReserveGranted(q), HNext,
           \A r \in Reqs : req'[r].pc = "arrived" => clock' <= req'[r].now + MaxLag
    PROVE  HistoryInv'
<1> DEFINE g == KeyOfReq(q)
           now == req[q].now
<1>1. /\ req[q].pc = "arrived" /\ req[q].pc # "idle" /\ clock' = clock
      /\ ~WindowExceeded(q)
      /\ posts' = [SweptPosts(now) EXCEPT ![g] = Append(RecentPosts(q), now)]
  BY DEF ReserveGranted
<1>2. g \in Keys /\ now \in Nat /\ now <= clock /\ clock \in Nat
  BY <1>1, ReqFacts
<1>3. granted' = [granted EXCEPT ![g] = Append(@, now)] /\ granted \in [Keys -> Seq(Nat)]
  BY CreateGrants DEF HistoryInv
<1>4. /\ RecentPosts(q) \in Seq(Nat)
      /\ Latest(RecentPosts(q), granted[g], clock - MinuteWindow)
  BY <1>1, RecentLatest
<1>5. /\ BurstPosts(q) \in Seq(Nat)
      /\ Latest(BurstPosts(q), granted[g], clock - ShortWindow)
  BY <1>1, BurstLatest
<1>6. /\ ShortWindow \in Nat /\ ShortLimit \in Nat /\ MinuteWindow \in Nat
      /\ MinuteLimit \in Nat
  BY LimitAssumption
<1>7. Len(BurstPosts(q)) < ShortLimit /\ Len(RecentPosts(q)) < MinuteLimit
  BY <1>1, <1>4, <1>5, <1>6 DEF WindowExceeded
<1>8. RollingLimit(ShortWindow, ShortLimit)'
  BY <1>1, <1>3, <1>5, <1>6, <1>7, GrantRollsOne DEF HistoryInv, RollingWindows
<1>9. RollingLimit(MinuteWindow, MinuteLimit)'
  BY <1>1, <1>3, <1>4, <1>6, <1>7, GrantRollsOne DEF HistoryInv, RollingWindows
<1>10. granted' \in [Keys -> Seq(Nat)]
  <2>1. granted[g] \in Seq(Nat)
    BY <1>2, <1>3
  <2>2. Append(granted[g], now) \in Seq(Nat)
    BY <1>2, <2>1
  <2> HIDE DEF g, now
  <2> QED BY <1>2, <1>3, <2>2
<1>11. ASSUME NEW k \in Keys PROVE Latest(posts'[k], granted'[k], clock' - MinuteWindow)
  <2>1. SweptPosts(now) \in [Keys -> Seq(Nat)]
    BY <1>2, SweepType DEF TypeInv
  <2>2. CASE k = g
    <3>1. posts'[k] = Append(RecentPosts(q), now) /\ granted'[k] = Append(granted[g], now)
      BY <1>1, <1>2, <1>3, <2>1, <2>2
    <3>2. granted[g] \in Seq(Nat) /\ clock - MinuteWindow \in Int
      BY <1>2, <1>3, <1>6
    <3> HIDE DEF g, now
    <3>3. Latest(Append(RecentPosts(q), now), Append(granted[g], now), clock - MinuteWindow)
      BY <1>2, <1>4, <3>2, AppendLatest
    <3> QED BY <1>1, <3>1, <3>3
  <2>3. CASE k # g
    <3>1. posts'[k] = SweptPosts(now)[k] /\ granted'[k] = granted[k]
      BY <1>1, <1>3, <2>1, <2>3
    <3>2. Latest(SweptPosts(now)[k], granted[k], clock - MinuteWindow)
      BY <1>2, SweptLatest
    <3> QED BY <1>1, <3>1, <3>2
  <2> QED BY <2>2, <2>3
<1> QED BY <1>8, <1>9, <1>10, <1>11 DEF HistoryInv, RollingWindows

-----------------------------------------------------------------------------
(* Every step keeps the windows *)

\* A step of a handler at the same clock, after which no new request has arrived.
LEMMA PromptKept ==
    ASSUME TypeInv, HistoryInv, NEW q \in Reqs, clock' = clock,
           Finish(q) \/ Advance(q, "admitted") \/ Advance(q, "forwarded")
    PROVE  \A r \in Reqs : req'[r].pc = "arrived" => clock' <= req'[r].now + MaxLag
<1>1. ASSUME NEW r \in Reqs, req'[r].pc = "arrived" PROVE req'[r] = req[r]
  BY <1>1 DEF TypeInv, TypeOK, Finish, Idle, Advance
<1>2. \A r \in Reqs : req[r].pc = "arrived" => clock <= req[r].now + MaxLag
  BY DEF HistoryInv
<1> QED BY <1>1, <1>2

LEMMA HandleHistory ==
    ASSUME TypeInv, TimeInv, HistoryInv, NEW q \in Reqs, Handle(q), HNext
    PROVE  HistoryInv'
<1>1. req[q].pc # "idle" /\ clock' = clock
  BY DEF Handle, Throttled, TouchSession, OwnsSession, ReserveTableFull,
         ReserveActiveLimit, ReserveRateLimit, ReserveGranted, BodyFails, Forward,
         BackendFails, BackendRejects, PatchAnswered, DeleteAnswered,
         CreateUnusable, CreateAnswered
<1>2. \A r \in Reqs : req'[r].pc = "arrived" => clock' <= req'[r].now + MaxLag
  <2>1. Finish(q) \/ Advance(q, "admitted") \/ Advance(q, "forwarded")
    BY DEF Handle, Throttled, TouchSession, OwnsSession, ReserveTableFull,
           ReserveActiveLimit, ReserveRateLimit, ReserveGranted, BodyFails, Forward,
           BackendFails, BackendRejects, PatchAnswered, DeleteAnswered,
           CreateUnusable, CreateAnswered
  <2> QED BY <1>1, <2>1, PromptKept
<1> DEFINE g == KeyOfReq(q)
           now == req[q].now
<1>3. g \in Keys /\ now \in Nat /\ now <= clock /\ clock \in Nat
  BY <1>1, ReqFacts
<1>4. CASE ReserveGranted(q)
  BY <1>2, <1>4, GrantHistory
<1>5. CASE ~ReserveGranted(q)
  <2>1. granted' = granted
    <3>1. \/ Finish(q)
          \/ Advance(q, "forwarded") /\ req[q].pc = "admitted"
          \/ Advance(q, "admitted") /\ req[q].kind \in {"patch", "delete"}
      BY <1>5 DEF Handle, Throttled, TouchSession, OwnsSession, ReserveTableFull,
             ReserveActiveLimit, ReserveRateLimit, BodyFails, Forward,
             BackendFails, BackendRejects, PatchAnswered, DeleteAnswered,
             CreateUnusable, CreateAnswered
    <3>2. Grants = {}
      BY <3>1, FinishGrantsNothing, AdvanceGrantsNothing
    <3> QED BY <3>2, NoGrants
  <2>2. \A k \in Keys : Latest(posts'[k], granted[k], clock' - MinuteWindow)
    <3>1. CASE TouchSession(q) \/ OwnsSession(q) \/ ReserveTableFull(q)
      <4>1. posts' = SweptPosts(now)
        BY <3>1 DEF TouchSession, OwnsSession, ReserveTableFull, SweepClients
      <4> QED BY <1>1, <1>3, <4>1, SweptLatest
    <3>2. CASE ReserveActiveLimit(q) \/ ReserveRateLimit(q)
      <4>1. posts' = [SweptPosts(now) EXCEPT ![g] = RecentPosts(q)]
        BY <3>2 DEF ReserveActiveLimit, ReserveRateLimit
      <4>2. SweptPosts(now) \in [Keys -> Seq(Nat)]
        BY <1>3, SweepType DEF TypeInv
      <4>3. Latest(RecentPosts(q), granted[g], clock - MinuteWindow)
        BY <1>1, RecentLatest
      <4>4. \A k \in Keys : Latest(SweptPosts(now)[k], granted[k], clock - MinuteWindow)
        BY <1>3, SweptLatest
      <4>5. \A k \in Keys : posts'[k] = IF k = g THEN RecentPosts(q) ELSE SweptPosts(now)[k]
        BY <4>1, <4>2
      <4> HIDE DEF g, now
      <4> QED BY <1>1, <4>3, <4>4, <4>5
    <3>3. CASE posts' = posts
      BY <1>1, <3>3 DEF HistoryInv
    <3> QED
      BY <1>5, <3>1, <3>2, <3>3
         DEF Handle, Throttled, BodyFails, Forward, BackendFails, BackendRejects,
             PatchAnswered, DeleteAnswered, CreateUnusable, CreateAnswered, guardVars
  <2> QED BY <1>2, <2>1, <2>2, UngrantedHistory
<1> QED BY <1>4, <1>5

LEMMA NextHistory ==
    TypeInv /\ TimeInv /\ HistoryInv /\ [HNext]_hvars => HistoryInv'
<1> SUFFICES ASSUME TypeInv, TimeInv, HistoryInv, [HNext]_hvars PROVE HistoryInv'
  OBVIOUS
<1>0. clock \in Nat /\ MaxLag \in Nat /\ MinuteWindow \in Nat
  BY TimeAssumption, LimitAssumption DEF TypeInv, TypeOK
<1>1. ASSUME HNext, NEW r \in Reqs, NEW kind \in Kinds, NEW ip \in IPs,
             NEW path \in Paths \cup {NoPath}, Arrive(r, kind, ip, path)
      PROVE  HistoryInv'
  <2>1. granted' = granted
    BY <1>1, ArriveGrantsNothing, NoGrants
  <2>2. posts' = posts /\ clock' = clock
    BY <1>1 DEF Arrive, guardVars
  <2>3. \A s \in Reqs : req'[s].pc = "arrived" => clock <= req'[s].now + MaxLag
    BY <1>0, <1>1 DEF Arrive, TypeInv, TypeOK, HistoryInv
  <2> QED BY <2>1, <2>2, <2>3, UngrantedHistory DEF HistoryInv
<1>2. ASSUME HNext, NEW r \in Reqs, Handle(r) PROVE HistoryInv'
  BY <1>2, HandleHistory
<1>3. ASSUME HNext, Snapshots PROVE HistoryInv'
  <2>1. req' = req /\ clock' = clock /\ posts' = SweptPosts(clock)
    BY <1>3 DEF Snapshots, SweepClients
  <2>2. granted' = granted
    BY <1>3, <2>1, StillGrantsNothing, NoGrants
  <2>3. \A k \in Keys : Latest(posts'[k], granted[k], clock' - MinuteWindow)
    BY <1>0, <2>1, SweptLatest
  <2>4. \A r \in Reqs : req'[r].pc = "arrived" => clock' <= req'[r].now + MaxLag
    BY <2>1 DEF HistoryInv
  <2> QED BY <2>2, <2>3, <2>4, UngrantedHistory
<1>4. ASSUME HNext, Tick PROVE HistoryInv'
  <2>1. req' = req /\ clock' = clock + 1 /\ posts' = posts
    BY <1>4 DEF Tick, guardVars
  <2>2. granted' = granted
    BY <1>4, <2>1, StillGrantsNothing, NoGrants
  <2>3. ASSUME NEW k \in Keys PROVE Latest(posts'[k], granted[k], clock' - MinuteWindow)
    <3>1. /\ posts[k] \in Seq(Nat) /\ granted[k] \in Seq(Nat)
          /\ Latest(posts[k], granted[k], clock - MinuteWindow)
      BY DEF TypeInv, TypeOK, HistoryInv
    <3>2. /\ clock - MinuteWindow \in Int /\ clock + 1 - MinuteWindow \in Int
          /\ clock - MinuteWindow <= clock + 1 - MinuteWindow
      BY <1>0
    <3>3. Latest(posts[k], granted[k], clock + 1 - MinuteWindow)
      BY <3>1, <3>2, LatestLater
    <3>4. posts'[k] = posts[k] /\ clock' - MinuteWindow = clock + 1 - MinuteWindow
      BY <1>0, <2>1
    <3> QED BY <3>3, <3>4
  <2>4. \A r \in Reqs : req'[r].pc = "arrived" => clock' <= req'[r].now + MaxLag
    <3> SUFFICES ASSUME NEW r \in Reqs, req'[r].pc = "arrived"
                 PROVE  clock' <= req'[r].now + MaxLag
      OBVIOUS
    <3>1. req[r].pc = "arrived" /\ req'[r].now = req[r].now
      BY <2>1
    <3>2. clock < req[r].now + MaxLag
      BY <1>4, <3>1 DEF Tick
    <3>3. req[r].now \in Nat
      BY <3>1, KeyType
    <3> QED BY <1>0, <2>1, <3>1, <3>2, <3>3
  <2> QED BY <2>2, <2>3, <2>4, UngrantedHistory
<1>5. CASE UNCHANGED hvars
  BY <1>5, UngrantedHistory DEF hvars, vars, HistoryInv
<1> QED BY <1>1, <1>2, <1>3, <1>4, <1>5 DEF HNext, Next

LEMMA InitHistory == HInit => HistoryInv
<1> SUFFICES ASSUME HInit PROVE HistoryInv
  OBVIOUS
<1>1. granted = [k \in Keys |-> <<>>] /\ posts = [k \in Keys |-> <<>>]
  BY DEF HInit, Init
<1>2. granted \in [Keys -> Seq(Nat)]
  BY <1>1
<1>3. \A k \in Keys : Len(granted[k]) = 0 /\ Len(posts[k]) = 0 /\ DOMAIN granted[k] = {}
  BY <1>1
<1>4. \A k \in Keys : Latest(posts[k], granted[k], clock - MinuteWindow)
  <2> SUFFICES ASSUME NEW k \in Keys PROVE Latest(posts[k], granted[k], clock - MinuteWindow)
    OBVIOUS
  <2>1. Len(posts[k]) = 0 /\ Len(granted[k]) = 0 /\ 1 .. 0 = {} /\ 0 - 0 = 0
    BY <1>3
  <2> QED BY <2>1 DEF Latest
<1>5. \A r \in Reqs : req[r].pc # "arrived"
  BY DEF HInit, Init, Idle
<1>6. RollingWindows
  BY <1>3 DEF RollingWindows, RollingLimit
<1> QED BY <1>2, <1>4, <1>5, <1>6 DEF HistoryInv

\* Whatever the sweeps, the refusals and the evictions removed from a group's stamps,
\* no window ever holds more granted creates than its limit, short of the time a
\* handler may lose between reading the clock and calling the guard.
THEOREM WindowsRoll == HSpec => []RollingWindows
<1> DEFINE Inv == TypeInv /\ TimeInv /\ HistoryInv
<1>1. HInit => Inv
  <2> SUFFICES ASSUME HInit PROVE Inv
    OBVIOUS
  <2>1. TypeInv /\ HistoryInv
    BY InitType, InitHistory DEF HInit
  <2>2. TimeInv
    BY DEF HInit, Init, TimeInv, Idle
  <2> QED BY <2>1, <2>2
<1>2. Inv /\ [HNext]_hvars => Inv'
  <2> SUFFICES ASSUME Inv, [HNext]_hvars PROVE Inv'
    OBVIOUS
  <2>1. [Next]_vars
    BY DEF HNext, hvars
  <2> QED BY <2>1, NextType, NextTime, NextHistory
<1>3. Inv => RollingWindows
  BY DEF HistoryInv
<1> QED BY <1>1, <1>2, <1>3, PTL DEF HSpec
=============================================================================
