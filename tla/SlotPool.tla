------------------------------ MODULE SlotPool ------------------------------
(* What the WHEP guard promises to a group of viewers: a pool of MaxActive  *)
(* slots.  A ticket (a create being processed) takes a slot and ends by     *)
(* handing it to a lease (an established session) or by giving it back.     *)
(* Leases end at any time, several at once when they expire; tickets never  *)
(* end by expiry.                                                           *)
EXTENDS Naturals, FiniteSets

CONSTANTS Groups, Tickets, LeaseIds, MaxActive

VARIABLES tickets, leases   \* per group, who holds a slot

vars == <<tickets, leases>>

Taken(g) == Cardinality(tickets[g]) + Cardinality(leases[g])

Init ==
    /\ tickets = [g \in Groups |-> {}]
    /\ leases = [g \in Groups |-> {}]

\* Expiry: any set of leases ends, of all groups at once.
Without(lost) == [g \in Groups |-> leases[g] \ lost]

Expire(lost) ==
    /\ leases' = Without(lost)
    /\ UNCHANGED tickets

\* A slot is granted only below the limit; leases may expire in the same step.
Grant(g, t, lost) ==
    /\ \A h \in Groups : t \notin tickets[h]
    /\ Cardinality(tickets[g]) + Cardinality(Without(lost)[g]) < MaxActive
    /\ tickets' = [tickets EXCEPT ![g] = @ \cup {t}]
    /\ leases' = Without(lost)

GiveBack(g, t) ==
    /\ t \in tickets[g]
    /\ tickets' = [tickets EXCEPT ![g] = @ \ {t}]
    /\ UNCHANGED leases

\* The slot passes to a lease that no group holds yet.
Establish(g, t, id) ==
    /\ t \in tickets[g]
    /\ \A h \in Groups : id \notin leases[h]
    /\ tickets' = [tickets EXCEPT ![g] = @ \ {t}]
    /\ leases' = [leases EXCEPT ![g] = @ \cup {id}]

Next ==
    \/ \E lost \in SUBSET LeaseIds : Expire(lost)
    \/ \E g \in Groups, t \in Tickets :
         \/ \E lost \in SUBSET LeaseIds : Grant(g, t, lost)
         \/ GiveBack(g, t)
         \/ \E id \in LeaseIds : Establish(g, t, id)

Spec == Init /\ [][Next]_vars
=============================================================================
