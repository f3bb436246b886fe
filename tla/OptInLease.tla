------------------------------ MODULE OptInLease ------------------------------
(***************************************************************************)
(* The lease controller in opt-in mode: LeaseController, the tracker it    *)
(* asks before each reconcile, and the event loop (handleNamespaceEvents)  *)
(* that answers the opt-in of a namespace by listing its objects and       *)
(* reconciling each in a goroutine of its own, beside the worker.          *)
(*                                                                         *)
(* The NamespaceReconciler is here the one step it amounts to, the tracker *)
(* taking over what the label says: NamespaceController has the details.   *)
(***************************************************************************)
EXTENDS LeaseController, Functions

CONSTANTS
  Watcher,       \* the watcher's channel
  ChanCap,       \* its capacity
  Nowhere,       \* no namespace
  MaxRelabels,   \* bound on the changes of opt-in labels
  MaxEvents      \* bound on user writes, relabellings, faults and crashes together

Namespaces == { NamespaceOf[n] : n \in Names }

ASSUME NowhereAssumption == Nowhere \notin Namespaces
ASSUME ChannelAssumption == ChanCap \in Nat \ {0}
ASSUME OptInBoundAssumption == {MaxRelabels, MaxEvents} \subseteq Nat

VARIABLES
  chan,          \* the events in the watcher's channel
  dropped,       \* history: whether the watcher missed one
  optedIn,       \* namespaces whose label matches
  listing,       \* the namespace the loop is listing, or Nowhere
  relabels,      \* how much of MaxRelabels is used
  consented,     \* history: namespaces that have been opted in at some time
  lists          \* history: the lists that started a reconcile

Tracker == INSTANCE NamespaceTracker WITH Listeners <- {Watcher}

channelVars == <<chan, dropped>>
labelVars   == <<optedIn, relabels, consented>>
loopVars    == <<listing, lists>>
optInVars   == <<vars, channelVars, labelVars, loopVars>>

-----------------------------------------------------------------------------
\* A user labels a namespace, or takes the label away.
Relabel(ns) ==
  /\ relabels < MaxRelabels
  /\ relabels' = relabels + 1
  /\ optedIn' = IF ns \in optedIn THEN optedIn \ {ns} ELSE optedIn \cup {ns}
  /\ consented' = consented \cup optedIn'
  /\ UNCHANGED <<vars, channelVars, loopVars>>

\* The NamespaceReconciler brings the tracker up to date.
Track(ns) ==
  /\ (ns \in optedIn) # (ns \in tracked)
  /\ IF ns \in optedIn THEN Tracker!AddNamespace(ns) ELSE Tracker!RemoveNamespace(ns)
  /\ UNCHANGED <<api, nextUid, clock, pending, seen, due, run, jobs,
                 ops, faults, crashes, held, missed, labelVars, loopVars>>

-----------------------------------------------------------------------------
(* The event loop.                                                          *)

\* Mutant: the two kinds of events are mixed up.
ReceiveRemoved ==
  /\ listing = Nowhere
  /\ Tracker!HasEvent(Watcher)
  /\ Tracker!TakeEvent(Watcher)
  /\ listing' = IF Tracker!NextEvent(Watcher).change = "removed"
                THEN Tracker!NextEvent(Watcher).ns ELSE Nowhere
  /\ UNCHANGED <<api, nextUid, clock, pending, seen, due, run, jobs,
                 ops, faults, crashes, held, missed, labelVars, lists>>

\* The events of namespaces that left are read and ignored.
Receive ==
  /\ listing = Nowhere
  /\ Tracker!HasEvent(Watcher)
  /\ Tracker!TakeEvent(Watcher)
  /\ listing' = IF Tracker!NextEvent(Watcher).change = "added"
                THEN Tracker!NextEvent(Watcher).ns ELSE Nowhere
  /\ UNCHANGED <<api, nextUid, clock, pending, seen, due, run, jobs,
                 ops, faults, crashes, held, missed, labelVars, lists>>

\* The objects a list of ns starts a reconcile for; it reads the API server.
WithTTLKey(ns) == { n \in Names : /\ NamespaceOf[n] = ns
                                  /\ api[n] # Gone
                                  /\ api[n].ttl # Absent }

IdleGoroutines == { t \in Goroutines : run[t] = Idle }

\* Each object of a list gets a goroutine, at most the number there are in the
\* model. A list that fails is given up.
ListObjects ==
  /\ listing # Nowhere
  /\ listing' = Nowhere
  /\ \/ \E byGoroutine \in [WithTTLKey(listing) -> IdleGoroutines] :
          /\ IsInjective(byGoroutine)
          /\ run' = [t \in Threads |->
               IF t \in Range(byGoroutine)
               THEN Started(CHOOSE n \in WithTTLKey(listing) : byGoroutine[n] = t)
               ELSE run[t]]
          /\ lists' = IF WithTTLKey(listing) = {} THEN lists ELSE lists + 1
          /\ UNCHANGED faults
     \/ Fault /\ UNCHANGED <<run, lists>>
  /\ UNCHANGED <<api, nextUid, clock, pending, seen, due, jobs, tracked,
                 ops, crashes, held, missed, channelVars, labelVars>>

-----------------------------------------------------------------------------
\* What the lease controller and its surroundings do, the goroutines included.
LeaseStep ==
  /\ System \/ World \/ Users
  /\ held' = held \cup HeldNow'
  /\ UNCHANGED <<channelVars, labelVars, loopVars>>

\* A process that starts tracks no namespace until the NamespaceReconciler has
\* seen it. Goroutines die with the process.
RestartAll ==
  /\ Restart
  /\ tracked' = {}
  /\ chan' = [l \in {Watcher} |-> <<>>]
  /\ dropped' = {}
  /\ listing' = Nowhere
  /\ held' = held \cup HeldNow'
  /\ UNCHANGED <<labelVars, lists>>

OptInInit ==
  /\ LeaseInit
  /\ Tracker!NewTracker
  /\ optedIn \in SUBSET Namespaces
  /\ consented = optedIn
  /\ listing = Nowhere
  /\ relabels = 0
  /\ lists = 0

EventLoop == Receive \/ ListObjects

OptInNext == /\ \/ LeaseStep
                \/ \E ns \in Namespaces : Relabel(ns) \/ Track(ns)
                \/ EventLoop
                \/ RestartAll
             /\ ops' + relabels' + faults' + crashes' <= MaxEvents

OptInSpec == OptInInit /\ [][OptInNext]_optInVars

\* As in LeaseController; the reconciler and the event loop go on, too.
OptInFairness ==
  /\ \A t \in Threads : WF_optInVars(ReconcileStep(t) /\ LeaseStep)
  /\ \A n \in Names : /\ WF_optInVars(Deliver(n) /\ LeaseStep)
                      /\ SF_optInVars(Dequeue(n) /\ LeaseStep)
  /\ WF_optInVars(Tick /\ LeaseStep)
  /\ \A ns \in Namespaces : WF_optInVars(Track(ns))
  /\ WF_optInVars(EventLoop)

OptInFairSpec == OptInSpec /\ OptInFairness

-----------------------------------------------------------------------------
(* Properties.                                                              *)

OptInTypeOK ==
  /\ TypeOK
  /\ Tracker!TrackerTypeOK
  /\ optedIn \subseteq consented
  /\ consented \subseteq Namespaces
  /\ listing \in Namespaces \cup {Nowhere}
  /\ relabels \in 0 .. MaxRelabels
  /\ lists \in Nat

\* A step that changes what the API server holds under n, and is no user's.
ControllerWrites(n) == api'[n] # api[n] /\ ops' = ops

\* The controller leaves alone what never opted in: it writes to or deletes an
\* object only if the label of its namespace matched at some time, although it
\* never reads the label itself, and the tracker, the events and the goroutines
\* between the two lag behind.
OnlyConsentedTouched ==
  [][\A n \in Names : ControllerWrites(n) => NamespaceOf[n] \in consented]_optInVars

\* Goroutines that reconcile beside the worker repeat cleanup jobs, but no list
\* adds more than one to an incarnation.
JobsPerList ==
  \A j \in jobs :
    Cardinality({ k \in jobs : k.name = j.name /\ k.uid = j.uid })
      <= 1 + faults + crashes + lists

\* Neither the loop nor the controller has anything left to do about n, and the
\* tracker is up to date.
Quiet(n) ==
  /\ Settled(n)
  /\ tracked = optedIn
  /\ chan[Watcher] = <<>>
  /\ listing = Nowhere

\* An object that was skipped because its namespace was not tracked yet is not
\* forgotten: once everything has settled, an object with a ttl in a namespace
\* that opted in has a lease-start, whichever of the worker, the event loop, the
\* tracker and the users came first, restarts included. Holds if no call failed,
\* no event was dropped and no broken watch lost the name a wake-up.
SkippedIsFound ==
  \A n \in Names :
    Quiet(n) /\ api[n] # Gone /\ NamespaceOf[n] \in optedIn
             /\ n \notin missed /\ faults = 0 /\ dropped = {} =>
      (api[n].ttl \in Durations => HasLeaseStart(api[n]))

\* Nothing has come between the controller and the objects it manages since it
\* started, but one opt-in or opt-out.
Undisturbed == faults = 0 /\ crashes = 0 /\ relabels <= 1 /\ dropped = {}

\* The end of a lease the controller itself started is never forgotten, in a
\* namespace that opted in before or after the object was there: the goroutine
\* that may reconcile the object first drops the time to come back at, but the
\* lease-start it writes wakes the worker, which keeps that time. Holds if no
\* lease had started before, nothing else happened, and no broken watch lost the
\* name a wake-up.
ComesBack ==
  \A n \in Names :
    Quiet(n) /\ api[n] # Gone /\ NamespaceOf[n] \in optedIn /\ n \notin missed
             /\ Undisturbed =>
      (api[n].ttl \in Durations /\ HasLeaseStart(api[n])
         /\ api[n].start + api[n].ttl <= Horizon => due[n] # Never)

-----------------------------------------------------------------------------
(* What the documentation says, and the code does not do.                   *)

\* README, "lease-start": the controller requeues until expiry. In a namespace
\* that opted in, an object whose lease is over does not stay.
OptedInGoes ==
  \A n \in Names :
    api[n] # Gone /\ Overdue(api[n], clock) ~>
      api[n] = Gone \/ ~Overdue(api[n], clock) \/ NamespaceOf[n] \notin optedIn
=============================================================================
