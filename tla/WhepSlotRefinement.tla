------------------------ MODULE WhepSlotRefinement ------------------------
(* The gateway implements the slot pool: the tickets of a group are its     *)
(* creates between reservation and answer, its leases are the paths the     *)
(* guard's session table holds.  The counter `active`, the stamps and the   *)
(* client table are not part of the promise.                                *)
EXTENDS WhepGateway

Creates == [k \in Keys |-> Reserving(k)]
Held == [k \in Keys |-> LeasesOf(k)]

Pool == INSTANCE SlotPool WITH
            Groups <- Keys, Tickets <- Reqs, LeaseIds <- Paths,
            tickets <- Creates, leases <- Held

\* Every step of every handler is a step of the pool or leaves it alone: slots
\* are granted below the limit only, a reservation ends in a lease of its own or
\* is given back, and nothing but expiry and its owner ends a lease.
PoolSpec == Pool!Spec
=============================================================================
