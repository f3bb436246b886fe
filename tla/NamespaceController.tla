-------------------------- MODULE NamespaceController --------------------------
(***************************************************************************)
(* Opt-in of namespaces: the NamespaceReconciler keeps the tracker in step *)
(* with the labels of the cluster's namespaces, and the lease watcher's    *)
(* event loop (handleNamespaceEvents) lists the objects of each namespace  *)
(* the tracker reports as added.                                           *)
(*                                                                         *)
(* The reconciler reads namespaces from the informer's store. A version of *)
(* a namespace takes three steps to reach the tracker: the watch puts it   *)
(* into the store, the informer notifies the controller's event handler,   *)
(* and the handler queues the name; the reconcile then reads whatever the  *)
(* store holds by then.                                                    *)
(***************************************************************************)
EXTENDS NamespaceTracker, Integers, FiniteSets

CONSTANTS
  Gone,         \* a namespace that does not exist
  None,         \* no namespace
  Watcher,      \* the lease watcher's channel
  MaxOps,       \* bound on the writes of users
  MaxFaults,    \* bound on the calls that fail
  MaxCrashes    \* bound on the crashes of the controller

\* What a namespace carries under the opt-in key: the opt-in value, another
\* value, or no such label.
Labels == {"match", "other", "none"}

ASSUME ListenerAssumption  == Listeners = {Watcher}
ASSUME NamespaceAssumption == None \notin Namespaces /\ Gone \notin Labels
ASSUME LimitAssumption     == {MaxOps, MaxFaults, MaxCrashes} \subseteq Nat

VARIABLES
  label,        \* label[n]: what the API server holds of n
  watch,        \* watch[n]: versions of n the watch has still to bring
  store,        \* store[n]: n in the informer's store
  notices,      \* notices[n]: changes <<old, new>> the handler has still to see
  queued,       \* the names in the work queue
  run,          \* the reconcile of the queue's only worker
  listing,      \* the namespace handleNamespaceEvents is listing, or None
  view,         \* history: namespaces tracked, going by the events received
  listed,       \* history: namespaces listed since they were last added
  unlisted,     \* history: namespaces whose list failed since they were last added
  ops, faults, crashes

clusterVars == <<label, ops>>
watchVars   == <<watch, store, notices>>
loopVars    == <<listing, view, listed, unlisted>>
vars == <<trackerVars, clusterVars, watchVars, queued, run, loopVars, faults, crashes>>

Versions == Labels \cup {Gone}
Idle     == [pc |-> "idle", ns |-> None, found |-> Gone]

Fault == /\ faults < MaxFaults
         /\ faults' = faults + 1

-----------------------------------------------------------------------------
(* The watch and the event handler.                                         *)

\* The watch brings the next version, or, after it broke and the informer
\* listed again, a later one.
Watch(n) ==
  /\ \E k \in 1 .. Len(watch[n]) :
       LET new == watch[n][k] IN
       /\ store' = [store EXCEPT ![n] = new]
       /\ watch' = [watch EXCEPT ![n] = SubSeq(@, k + 1, Len(@))]
       /\ notices' = IF store[n] = Gone /\ new = Gone THEN notices
                     ELSE [notices EXCEPT ![n] = Append(@, <<store[n], new>>)]
  /\ UNCHANGED <<trackerVars, clusterVars, queued, run, loopVars, faults, crashes>>

\* Mutant: the handler looks at creations and relabellings only.
RelabelFilter(old, new) == new # Gone /\ old # new

\* LabelChangedPredicate or GenerationChangedPredicate: creations and deletions
\* pass both, an update passes when the labels changed; the generation of a
\* namespace never does.
EventFilter(old, new) == \/ old = Gone
                         \/ new = Gone
                         \/ old # new

Handle(n) ==
  /\ notices[n] # <<>>
  /\ notices' = [notices EXCEPT ![n] = Tail(@)]
  /\ queued' = IF EventFilter(Head(notices[n])[1], Head(notices[n])[2])
               THEN queued \cup {n} ELSE queued
  /\ UNCHANGED <<trackerVars, clusterVars, watch, store, run, loopVars, faults, crashes>>

-----------------------------------------------------------------------------
(* The reconciler.                                                          *)

Dequeue(n) ==
  /\ run.pc = "idle"
  /\ n \in queued
  /\ queued' = queued \ {n}
  /\ run' = [Idle EXCEPT !.pc = "get", !.ns = n]
  /\ UNCHANGED <<trackerVars, clusterVars, watchVars, loopVars, faults, crashes>>

\* Mutant: an error of the read ends the matter.
GetOnce ==
  /\ run.pc = "get"
  /\ \/ /\ run' = [run EXCEPT !.pc = "track", !.found = store[run.ns]]
        /\ UNCHANGED faults
     \/ /\ Fault
        /\ run' = Idle
  /\ UNCHANGED <<trackerVars, clusterVars, watchVars, queued, loopVars, crashes>>

Get ==
  /\ run.pc = "get"
  /\ \/ /\ run' = [run EXCEPT !.pc = "track", !.found = store[run.ns]]
        /\ UNCHANGED <<queued, faults>>
     \/ /\ Fault                       \* an error queues the name again
        /\ run' = Idle
        /\ queued' = queued \cup {run.ns}
  /\ UNCHANGED <<trackerVars, clusterVars, watchVars, loopVars, crashes>>

\* A namespace that is being added has its objects to be listed again.
Track ==
  /\ run.pc = "track"
  /\ IF run.found = "match" THEN AddNamespace(run.ns) ELSE RemoveNamespace(run.ns)
  /\ listed' = listed \ (tracked' \ tracked)
  /\ unlisted' = unlisted \ (tracked' \ tracked)
  /\ run' = Idle
  /\ UNCHANGED <<clusterVars, watchVars, queued, listing, view, faults, crashes>>

-----------------------------------------------------------------------------
(* The event loop of the lease watcher.                                     *)

\* Mutant: the loop drains the channel and acts on the last event only.
ReceiveLast ==
  /\ listing = None
  /\ HasEvent(Watcher)
  /\ LET event == chan[Watcher][Len(chan[Watcher])] IN
     IF event.change = "added"
     THEN listing' = event.ns /\ view' = view \cup {event.ns}
     ELSE UNCHANGED listing   /\ view' = view \ {event.ns}
  /\ chan' = [chan EXCEPT ![Watcher] = <<>>]
  /\ UNCHANGED <<tracked, dropped>>
  /\ UNCHANGED <<clusterVars, watchVars, queued, run, listed, unlisted, faults, crashes>>

Receive ==
  /\ listing = None
  /\ HasEvent(Watcher)
  /\ LET event == NextEvent(Watcher) IN
     IF event.change = "added"
     THEN listing' = event.ns /\ view' = view \cup {event.ns}
     ELSE UNCHANGED listing   /\ view' = view \ {event.ns}
  /\ TakeEvent(Watcher)
  /\ UNCHANGED <<clusterVars, watchVars, queued, run, listed, unlisted, faults, crashes>>

\* Nothing tries again what could not be listed.
ListObjects ==
  /\ listing # None
  /\ listing' = None
  /\ \/ /\ listed' = listed \cup {listing}
        /\ UNCHANGED <<unlisted, faults>>
     \/ /\ Fault
        /\ unlisted' = unlisted \cup {listing}
        /\ UNCHANGED listed
  /\ UNCHANGED <<trackerVars, clusterVars, watchVars, queued, run, view, crashes>>

-----------------------------------------------------------------------------
(* Users and crashes.                                                       *)

\* A user creates, labels anew or deletes a namespace.
UserWrite(n) ==
  /\ ops < MaxOps
  /\ ops' = ops + 1
  /\ \E new \in Versions \ {label[n]} :
       /\ label' = [label EXCEPT ![n] = new]
       /\ watch' = [watch EXCEPT ![n] = Append(@, new)]
  /\ UNCHANGED <<trackerVars, store, notices, queued, run, loopVars, faults, crashes>>

\* A process that starts lists the namespaces and tracks none.
Listed(n) == IF label[n] = Gone THEN <<>> ELSE <<label[n]>>

Crash ==
  /\ crashes < MaxCrashes
  /\ crashes' = crashes + 1
  /\ tracked' = {}
  /\ chan' = [l \in Listeners |-> <<>>]
  /\ dropped' = {}
  /\ watch' = [n \in Namespaces |-> Listed(n)]
  /\ store' = [n \in Namespaces |-> Gone]
  /\ notices' = [n \in Namespaces |-> <<>>]
  /\ queued' = {}
  /\ run' = Idle
  /\ listing' = None
  /\ view' = {}
  /\ listed' = {}
  /\ unlisted' = {}
  /\ UNCHANGED <<clusterVars, faults>>

-----------------------------------------------------------------------------
Init ==
  /\ NewTracker
  /\ label \in [Namespaces -> Versions]
  /\ watch = [n \in Namespaces |-> Listed(n)]
  /\ store = [n \in Namespaces |-> Gone]
  /\ notices = [n \in Namespaces |-> <<>>]
  /\ queued = {}
  /\ run = Idle
  /\ listing = None
  /\ view = {}
  /\ listed = {}
  /\ unlisted = {}
  /\ ops = 0 /\ faults = 0 /\ crashes = 0

Reconcile == Get \/ Track
EventLoop == Receive \/ ListObjects

Next == \/ \E n \in Namespaces : Watch(n) \/ Handle(n) \/ Dequeue(n) \/ UserWrite(n)
        \/ Reconcile
        \/ EventLoop
        \/ Crash

Spec == Init /\ [][Next]_vars

\* The watch, the handler and the two loops go on, and the queue serves every
\* name. Users, faults and crashes owe nothing.
Fairness ==
  /\ \A n \in Namespaces : WF_vars(Watch(n)) /\ WF_vars(Handle(n)) /\ SF_vars(Dequeue(n))
  /\ WF_vars(Reconcile)
  /\ WF_vars(EventLoop)

FairSpec == Spec /\ Fairness

-----------------------------------------------------------------------------
(* Properties.                                                              *)

TypeOK ==
  /\ TrackerTypeOK
  /\ label \in [Namespaces -> Versions]
  /\ watch \in [Namespaces -> Seq(Versions)]
  /\ store \in [Namespaces -> Versions]
  /\ notices \in [Namespaces -> Seq(Versions \X Versions)]
  /\ queued \subseteq Namespaces
  /\ run \in [pc : {"idle", "get", "track"}, ns : Namespaces \cup {None}, found : Versions]
  /\ listing \in Namespaces \cup {None}
  /\ view \subseteq Namespaces
  /\ listed \subseteq Namespaces
  /\ unlisted \subseteq Namespaces
  /\ ops \in 0 .. MaxOps /\ faults \in 0 .. MaxFaults /\ crashes \in 0 .. MaxCrashes

\* Nothing about n is under way between the API server and the tracker.
Settled(n) ==
  /\ watch[n] = <<>>
  /\ notices[n] = <<>>
  /\ n \notin queued
  /\ run.ns # n

\* Whenever nothing about a namespace is under way, the tracker holds it if and
\* only if its label matches: no order of relabelling, deletion, creation,
\* broken watches, failed reads and restarts leaves the tracker behind, although
\* a reconcile acts on a read that may be stale by then.
SettledMatches ==
  \A n \in Namespaces : Settled(n) => (n \in tracked <=> label[n] = "match")

\* The same at the end of the events: the tracker converges to the labels.
TrackerConverges ==
  \A n \in Namespaces : <>[](n \in tracked <=> label[n] = "match")

\* What the watcher will believe once it has received what is in its channel:
\* the last event about n decides.
About(n) == { i \in 1 .. Len(chan[Watcher]) : chan[Watcher][i].ns = n }

Replayed(n) ==
  IF About(n) = {} THEN n \in view
  ELSE \E i \in About(n) : /\ \A j \in About(n) : j <= i
                           /\ chan[Watcher][i].change = "added"

\* A listener that missed no event learns exactly what is tracked.
ReplayIsTracked ==
  dropped = {} => \A n \in Namespaces : Replayed(n) <=> n \in tracked

\* The watcher has handled every event there is.
CaughtUp == chan[Watcher] = <<>> /\ listing = None

\* Once the watcher has caught up, it has tried to list the objects of every
\* tracked namespace since it was added last, and has listed them unless that
\* very list failed, if it missed no event: a removal and an addition that
\* overtake the loop, failed reads and restarts make no exception.
TrackedIsListed ==
  CaughtUp /\ dropped = {} => tracked \subseteq listed \cup unlisted

-----------------------------------------------------------------------------
(* What the comments say, and the code does not do.                         *)

\* handleNamespaceEvents "triggers reconciliation for new namespaces": once the
\* watcher has caught up, it has listed every tracked namespace.
NewNamespacesReconciled == CaughtUp => tracked \subseteq listed
=============================================================================
