---------------------------- MODULE LeaseLifecycle ----------------------------
(***************************************************************************)
(* What the controller promises the owner of an object, whatever queues,   *)
(* reconciles, failures and restarts it takes to keep the promise: it      *)
(* never changes the ttl, it starts a lease, ends one, and deletes the     *)
(* object, each only for a reason the object itself has given.             *)
(*                                                                         *)
(* The reason need not hold any more when the controller acts on it: the   *)
(* object was read a while ago. It must have held of this incarnation once,*)
(* and what its owner has written since then is not protected.             *)
(***************************************************************************)
EXTENDS LeaseObject

CONSTANTS
  Names,
  Instants

VARIABLES
  lease,    \* lease[n]: uid, ttl and lease-start of the object n, or Gone
  time,     \* the clock
  writes,   \* counts what users do
  said      \* the ttl and lease-start each incarnation has carried

lifecycleVars == <<lease, time, writes, said>>

Carried == { [name |-> n, uid |-> lease[n].uid, ttl |-> lease[n].ttl, start |-> lease[n].start]
               : n \in { m \in Names : lease[m] # Gone } }

\* The versions there have been of the object under n.
Versions(n) == { v \in said : v.name = n /\ v.uid = lease[n].uid }

\* lease-start is written for a lease that once had none, as some reading of the
\* clock up to now; a lease-start written meanwhile is lost.
Start(n) ==
  /\ lease[n] # Gone
  /\ \E v \in Versions(n) : ~noTTL(v) /\ ~HasLeaseStart(v)
  /\ \E r \in Instants : /\ r <= time
                         /\ lease' = [lease EXCEPT ![n].start = Format(r)]

\* lease-start is removed from an object that once had no ttl.
End(n) ==
  /\ lease[n] # Gone
  /\ \E v \in Versions(n) : noTTL(v)
  /\ lease' = [lease EXCEPT ![n].start = Absent]

\* An object whose lease is over is deleted.
Expire(n) ==
  /\ lease[n] # Gone
  /\ \E v \in Versions(n) : Overdue(v, time)
  /\ lease' = [lease EXCEPT ![n] = Gone]

Controller == /\ \E n \in Names : Start(n) \/ End(n) \/ Expire(n)
              /\ UNCHANGED <<time, writes>>

Time == /\ time' \in Instants
        /\ time' > time
        /\ UNCHANGED <<lease, writes>>

\* Users write ttl and lease-start as they like, and create objects anew.
Owner(n) ==
  /\ writes' = writes + 1
  /\ lease'[n] # Gone
  /\ IF lease[n] = Gone
     THEN \A v \in said : v.name = n => v.uid # lease'[n].uid
     ELSE lease'[n].uid = lease[n].uid
  /\ \A m \in Names \ {n} : lease'[m] = lease[m]
  /\ UNCHANGED time

Init == said = Carried

Next == /\ \/ Controller
           \/ Time
           \/ \E n \in Names : Owner(n)
        /\ said' = said \cup Carried'

Spec == Init /\ [][Next]_lifecycleVars
=============================================================================
