--------------------------- MODULE OptInLeaseProofs ---------------------------
(***************************************************************************)
(* Proofs about OptInLease, for any number of goroutines beside the        *)
(* worker: a controller in opt-in mode leaves alone what never opted in    *)
(* (Consent), finds again what it skipped (SkipInv), creates at most one   *)
(* Job more for each list (ListInv), keeps what LeaseController promises   *)
(* of deletions (NamesJudged, CleanupInv), and comes back to the leases it *)
(* has started (BackInv).                                                  *)
(***************************************************************************)
EXTENDS OptInLease, LeaseAnnotationsProofs, LeaseCleanupProofs

OptInTypeInv == OptInTypeOK /\ InFlight

-----------------------------------------------------------------------------
(* Types.                                                                   *)

\* The one channel there is.
LEMMA NotifyTyped ==
  ASSUME Tracker!TrackerTypeOK, NEW e \in Tracker!Events, Tracker!notifyListeners(e)
  PROVE  /\ chan' \in [{Watcher} -> Seq(Tracker!Events)]
         /\ Len(chan'[Watcher]) <= ChanCap
         /\ dropped' \subseteq {Watcher}
<1> DEFINE buffer == chan[Watcher]
<1>1. buffer \in Seq(Tracker!Events) /\ Len(buffer) \in Nat /\ Len(buffer) <= ChanCap
  BY DEF Tracker!TrackerTypeOK
<1>2. chan' = [l \in {Watcher} |-> IF Tracker!Full(Watcher) THEN buffer ELSE Append(buffer, e)]
  BY DEF Tracker!notifyListeners
<1>3. ~Tracker!Full(Watcher) => Len(buffer) < ChanCap
  BY <1>1, ChannelAssumption DEF Tracker!Full
<1>4. Append(buffer, e) \in Seq(Tracker!Events) /\ Len(Append(buffer, e)) = Len(buffer) + 1
  BY <1>1
<1>5. chan'[Watcher] = IF Tracker!Full(Watcher) THEN buffer ELSE Append(buffer, e)
  BY <1>2
<1>6. Len(chan'[Watcher]) <= ChanCap
  BY <1>1, <1>3, <1>4, <1>5, ChannelAssumption
<1>7. dropped' \subseteq {Watcher}
  BY DEF Tracker!notifyListeners, Tracker!TrackerTypeOK
<1> QED
  BY <1>1, <1>2, <1>4, <1>6, <1>7

LEMMA RelabelTyped ==
  ASSUME OptInTypeInv, NEW ns \in Namespaces, Relabel(ns) PROVE OptInTypeInv'
<1>1. relabels' \in 0 .. MaxRelabels
  BY OptInBoundAssumption DEF Relabel, OptInTypeInv, OptInTypeOK
<1>2. optedIn' \subseteq consented' /\ consented' \subseteq Namespaces
  BY DEF Relabel, OptInTypeInv, OptInTypeOK
<1>3. TypeOK' /\ InFlight'
  BY DEF Relabel, vars, OptInTypeInv, OptInTypeOK, TypeOK, InFlight
<1>4. Tracker!TrackerTypeOK'
  BY DEF Relabel, vars, channelVars, OptInTypeInv, OptInTypeOK, Tracker!TrackerTypeOK
<1> QED
  BY <1>1, <1>2, <1>3, <1>4 DEF Relabel, loopVars, OptInTypeInv, OptInTypeOK

\* What the tracker tracks after it took over a label.
LEMMA TrackIs ==
  ASSUME OptInTypeInv, NEW ns \in Namespaces, Track(ns)
  PROVE  /\ tracked' \subseteq tracked \cup optedIn
         /\ \E e \in Tracker!Events : Tracker!notifyListeners(e)
<1>1. CASE ns \in optedIn
  <2>1. [ns |-> ns, change |-> "added"] \in Tracker!Events
    BY DEF Tracker!Events, Tracker!Changes
  <2> QED
    BY <1>1, <2>1 DEF Track, Tracker!AddNamespace
<1>2. CASE ns \notin optedIn
  <2>1. [ns |-> ns, change |-> "removed"] \in Tracker!Events
    BY DEF Tracker!Events, Tracker!Changes
  <2> QED
    BY <1>2, <2>1 DEF Track, Tracker!RemoveNamespace
<1> QED
  BY <1>1, <1>2

LEMMA TrackTyped ==
  ASSUME OptInTypeInv, NEW ns \in Namespaces, Track(ns) PROVE OptInTypeInv'
<1>1. tracked' \subseteq Namespaces
  BY TrackIs DEF OptInTypeInv, OptInTypeOK, TypeOK, Namespaces
<1>2. Tracker!TrackerTypeOK'
  BY <1>1, TrackIs, NotifyTyped DEF OptInTypeInv, OptInTypeOK, Tracker!TrackerTypeOK
<1>3. TypeOK' /\ InFlight'
  BY <1>1 DEF Track, OptInTypeInv, OptInTypeOK, TypeOK, InFlight, Namespaces
<1> QED
  BY <1>2, <1>3 DEF Track, labelVars, loopVars, OptInTypeInv, OptInTypeOK

LEMMA ReceiveTyped ==
  ASSUME OptInTypeInv, Receive PROVE OptInTypeInv'
<1> DEFINE buffer == chan[Watcher]
<1>1. /\ chan \in [{Watcher} -> Seq(Tracker!Events)]
      /\ buffer \in Seq(Tracker!Events) /\ buffer # <<>>
      /\ Len(buffer) \in Nat /\ Len(buffer) <= ChanCap
  BY DEF Receive, Tracker!HasEvent, OptInTypeInv, OptInTypeOK, Tracker!TrackerTypeOK
<1>2. /\ Head(buffer) \in Tracker!Events /\ Tail(buffer) \in Seq(Tracker!Events)
      /\ Len(Tail(buffer)) = Len(buffer) - 1
  BY <1>1
<1>3. chan' = [chan EXCEPT ![Watcher] = Tail(buffer)] /\ UNCHANGED <<tracked, dropped>>
  BY DEF Receive, Tracker!TakeEvent
<1>4. Tracker!TrackerTypeOK'
  BY <1>1, <1>2, <1>3, ChannelAssumption DEF OptInTypeInv, OptInTypeOK, Tracker!TrackerTypeOK
<1>5. listing' \in Namespaces \cup {Nowhere}
  BY <1>2 DEF Receive, Tracker!NextEvent, Tracker!Events
<1>6. TypeOK' /\ InFlight'
  BY <1>3 DEF Receive, OptInTypeInv, OptInTypeOK, TypeOK, InFlight
<1> QED
  BY <1>4, <1>5, <1>6 DEF Receive, labelVars, OptInTypeInv, OptInTypeOK

\* A list starts reconciles in goroutines that were idle, and changes no other.
LEMMA ListStarts ==
  ASSUME OptInTypeInv, ListObjects, NEW t \in Threads
  PROVE  \/ run'[t] = run[t]
         \/ \E n \in Names : run'[t] = Started(n)
<1>1. CASE run' = run
  BY <1>1
<1>2. ASSUME NEW f \in [WithTTLKey(listing) -> IdleGoroutines],
             run' = [s \in Threads |->
               IF s \in Range(f)
               THEN Started(CHOOSE n \in WithTTLKey(listing) : f[n] = s)
               ELSE run[s]]
      PROVE  \/ run'[t] = run[t]
             \/ \E n \in Names : run'[t] = Started(n)
  <2>1. CASE t \notin Range(f)
    BY <1>2, <2>1
  <2>2. CASE t \in Range(f)
    <3>1. PICK n \in WithTTLKey(listing) : f[n] = t
      BY <2>2 DEF Range
    <3> DEFINE m == CHOOSE k \in WithTTLKey(listing) : f[k] = t
    <3>2. m \in WithTTLKey(listing)
      BY <3>1
    <3>3. run'[t] = Started(m)
      BY <1>2, <2>2
    <3>4. m \in Names
      BY <3>2 DEF WithTTLKey
    <3> QED
      BY <3>3, <3>4
  <2> QED
    BY <2>1, <2>2
<1> QED
  BY <1>1, <1>2 DEF ListObjects

LEMMA StartedTyped == ASSUME NEW n \in Names PROVE Started(n) \in Reconcile /\ Started(n).name = n /\ Started(n).pc = "filter"
  BY IdleType DEF Started, Idle, Reconcile, Phases

LEMMA ListTyped ==
  ASSUME OptInTypeInv, ListObjects PROVE OptInTypeInv'
<1>1. \A t \in Threads : run'[t] \in Reconcile
  BY ListStarts, StartedTyped DEF OptInTypeInv, OptInTypeOK, TypeOK
<1>2. run' = [t \in Threads |-> run'[t]]
  BY DEF ListObjects, OptInTypeInv, OptInTypeOK, TypeOK
<1>3. run' \in [Threads -> Reconcile]
  BY <1>1, <1>2
<1>4. InFlight'
  BY ListStarts, StartedTyped DEF OptInTypeInv, InFlight
<1>5. faults' \in 0 .. MaxFaults /\ lists' \in Nat
  BY BoundAssumption DEF ListObjects, Fault, OptInTypeInv, OptInTypeOK, TypeOK
<1>6. TypeOK'
  BY <1>3, <1>5 DEF ListObjects, channelVars, OptInTypeInv, OptInTypeOK, TypeOK
<1>7. Tracker!TrackerTypeOK'
  BY DEF ListObjects, channelVars, OptInTypeInv, OptInTypeOK, Tracker!TrackerTypeOK
<1> QED
  BY <1>4, <1>5, <1>6, <1>7 DEF ListObjects, labelVars, OptInTypeInv, OptInTypeOK

\* The steps of LeaseController are typed as they are there.
LEMMA LeaseStepTyped ==
  ASSUME OptInTypeInv, LeaseStep PROVE OptInTypeInv'
<1>1. TypeInv /\ Next
  BY DEF OptInTypeInv, OptInTypeOK, TypeInv, LeaseStep, Next, Environment
<1>2. TypeInv' /\ tracked' = tracked
  BY <1>1, NextTyped DEF LeaseStep, System, World, Users, outerVars
<1>3. Tracker!TrackerTypeOK'
  BY <1>2 DEF LeaseStep, channelVars, OptInTypeInv, OptInTypeOK, Tracker!TrackerTypeOK
<1> QED
  BY <1>2, <1>3 DEF LeaseStep, labelVars, loopVars, OptInTypeInv, OptInTypeOK, TypeInv

LEMMA RestartAllTyped ==
  ASSUME OptInTypeInv, RestartAll PROVE OptInTypeInv'
<1>1. TypeInv
  BY DEF OptInTypeInv, OptInTypeOK, TypeInv
<1>2. StepTyped /\ crashes' \in 0 .. MaxCrashes
  BY <1>1, CrashTyped DEF RestartAll, Restart
<1>3. held' \subseteq [name : Names, uid : Nat, ttl : TTLValues, start : Stamps]
  <2>1. HeldNow' \subseteq [name : Names, uid : Nat, ttl : TTLValues, start : Stamps]
    BY <1>2 DEF StepTyped, HeldNow, Object
  <2> QED
    BY <1>1, <2>1 DEF RestartAll, TypeInv, TypeOK
<1>4. TypeOK' /\ InFlight'
  BY <1>1, <1>2, <1>3 DEF RestartAll, Restart, StepTyped, TypeInv, TypeOK
<1>5. Tracker!TrackerTypeOK'
  <2>1. Len(<<>>) = 0 /\ <<>> \in Seq(Tracker!Events)
    OBVIOUS
  <2> QED
    BY <2>1, ChannelAssumption DEF RestartAll, Tracker!TrackerTypeOK
<1> QED
  BY <1>4, <1>5 DEF RestartAll, labelVars, OptInTypeInv, OptInTypeOK

LEMMA OptInInitTyped == ASSUME OptInInit PROVE OptInTypeInv
<1>1. TypeInv
  BY LeaseInitTyped DEF OptInInit, Tracker!NewTracker
<1>2. Tracker!TrackerTypeOK
  <2>1. Len(<<>>) = 0 /\ <<>> \in Seq(Tracker!Events)
    OBVIOUS
  <2> QED
    BY <2>1, ChannelAssumption DEF OptInInit, Tracker!NewTracker, Tracker!TrackerTypeOK
<1> QED
  BY <1>1, <1>2, OptInBoundAssumption DEF OptInInit, TypeInv, OptInTypeInv, OptInTypeOK

LEMMA OptInNextTyped ==
  ASSUME OptInTypeInv, [OptInNext]_optInVars PROVE OptInTypeInv'
<1>1. CASE UNCHANGED optInVars
  BY <1>1 DEF optInVars, vars, channelVars, labelVars, loopVars, OptInTypeInv, OptInTypeOK,
     TypeOK, InFlight, Tracker!TrackerTypeOK
<1> QED
  BY <1>1, RelabelTyped, TrackTyped, ReceiveTyped, ListTyped, LeaseStepTyped, RestartAllTyped
  DEF OptInNext, EventLoop

\* Type correctness of the controller in opt-in mode, its tracker, channel and
\* event loop included: the channel never holds more than it has room for.
THEOREM OptInTypeCorrect == OptInSpec => []OptInTypeOK
<1>1. OptInInit => OptInTypeInv
  BY OptInInitTyped
<1>2. OptInTypeInv /\ [OptInNext]_optInVars => OptInTypeInv'
  BY OptInNextTyped
<1>3. OptInTypeInv => OptInTypeOK
  BY DEF OptInTypeInv
<1> QED
  BY <1>1, <1>2, <1>3, PTL DEF OptInSpec

-----------------------------------------------------------------------------
(* Consent. The label is read by the NamespaceReconciler alone; what the     *)
(* reconciles know of it is the tracker, at the time of their filter.        *)

Consent ==
  /\ tracked \subseteq consented
  /\ \A t \in Threads : run[t].pc \notin {"idle", "filter"} => NamespaceOf[run[t].name] \in consented

OptInInv == OptInTypeInv /\ Consent

\* A thread gets past its filter only in a namespace the tracker has, and keeps
\* the name it has until it is idle again.
LEMMA StepConsents ==
  ASSUME TypeInv, NEW t \in Threads, ReconcileStep(t),
         run'[t].pc # "idle"
  PROVE  /\ run'[t].name = run[t].name
         /\ run[t].pc = "filter" => NamespaceOf[run[t].name] \in tracked
         /\ run[t].pc # "idle"
<1>1. run \in [Threads -> Reconcile]
  BY DEF TypeInv, TypeOK
<1>2. ASSUME NEW when, Return(t, when) PROVE FALSE
  BY <1>1, <1>2 DEF Return, Idle
<1>3. ASSUME NEW o, NEW s, NEW reading, run' = [run EXCEPT ![t] = Decided(t, o, s, reading)]
      PROVE  run'[t].name = run[t].name
  BY <1>1, <1>3 DEF Decided, Reconcile
<1>4. run'[t].name = run[t].name
  <2>1. CASE Filter(t)
    BY <1>1, <1>2, <2>1 DEF Filter, Reconcile
  <2>2. CASE Get(t)
    BY <1>1, <1>2, <2>2 DEF Get, Reconcile
  <2>3. CASE Clean(t) \/ PatchInvalid(t) \/ PatchActive(t) \/ Delete(t)
    BY <1>2, <2>3 DEF Clean, PatchInvalid, PatchActive, Delete
  <2>4. CASE ReadClock(t)
    <3>1. CASE HasLeaseStart(run[t].obj)
      BY <1>3, <2>4, <3>1 DEF ReadClock
    <3>2. CASE ~HasLeaseStart(run[t].obj)
      BY <1>1, <2>4, <3>2 DEF ReadClock, Reconcile
    <3> QED
      BY <3>1, <3>2
  <2>5. CASE PatchStart(t)
    <3>1. PICK o : run' = [run EXCEPT ![t] = Decided(t, o, run[t].now, run[t].now)]
      BY <2>5 DEF PatchStart
    <3> QED
      BY <1>3, <3>1
  <2>6. CASE PatchExpired(t)
    <3>1. PICK after, pc : run' = [run EXCEPT ![t].obj = after, ![t].pc = pc]
      BY <2>6 DEF PatchExpired
    <3> QED
      BY <1>1, <3>1 DEF Reconcile
  <2>7. CASE CreateJob(t)
    <3>1. \/ \E pc, id : run' = [run EXCEPT ![t].pc = pc, ![t].job = id]
          \/ run' = [run EXCEPT ![t].pc = "delete"]
      BY <2>7 DEF CreateJob
    <3> QED
      BY <1>1, <3>1 DEF Reconcile
  <2>8. CASE WaitJob(t)
    BY <1>1, <2>8 DEF WaitJob, Reconcile
  <2> QED
    BY <2>1, <2>2, <2>3, <2>4, <2>5, <2>6, <2>7, <2>8 DEF ReconcileStep
<1>5. run[t].pc = "filter" => NamespaceOf[run[t].name] \in tracked
  <2> SUFFICES ASSUME run[t].pc = "filter" PROVE NamespaceOf[run[t].name] \in tracked
    OBVIOUS
  <2>1. Filter(t)
    BY DEF ReconcileStep, Get, Clean, ReadClock, PatchStart, PatchInvalid,
       PatchActive, PatchExpired, CreateJob, WaitJob, Delete
  <2> QED
    BY <1>2, <2>1 DEF Filter, isNamespaceTracked
<1>6. run[t].pc # "idle"
  BY DEF ReconcileStep, Filter, Get, Clean, ReadClock, PatchStart, PatchInvalid,
     PatchActive, PatchExpired, CreateJob, WaitJob, Delete
<1> QED
  BY <1>4, <1>5, <1>6

\* A reconcile writes under its name only, and nothing before it is past its filter.
LEMMA StepWrites ==
  ASSUME TypeInv, NEW t \in Threads, ReconcileStep(t), NEW n \in Names, api'[n] # api[n]
  PROVE  run[t].name = n /\ run[t].pc \notin {"idle", "filter"}
<1>1. api' # api
  OBVIOUS
<1>2. ASSUME NEW o, Write(run[t].name, o) PROVE run[t].name = n
  BY <1>2 DEF Write, TypeInv, TypeOK
<1>3. ASSUME NEW new, \E after \in PatchResults(t, new) : Patch(t, new, after)
      PROVE  run[t].name = n
  BY <1>1, <1>2, <1>3 DEF Patch
<1>4. CASE Filter(t) \/ Get(t) \/ ReadClock(t) \/ CreateJob(t) \/ WaitJob(t)
  BY <1>1, <1>4 DEF Filter, Get, ReadClock, CreateJob, WaitJob
<1>5. CASE Clean(t) \/ PatchInvalid(t)
  BY <1>3, <1>5 DEF Clean, PatchInvalid
<1>6. CASE PatchActive(t)
  BY <1>3, <1>6 DEF PatchActive
<1>7. CASE PatchStart(t)
  BY <1>3, <1>7 DEF PatchStart
<1>8. CASE PatchExpired(t)
  BY <1>3, <1>8 DEF PatchExpired
<1>9. CASE Delete(t)
  BY <1>1, <1>2, <1>9 DEF Delete
<1> QED
  BY <1>4, <1>5, <1>6, <1>7, <1>8, <1>9 DEF ReconcileStep

\* A step of a thread leaves the other threads alone.
LEMMA StepOfOne ==
  ASSUME NEW t \in Threads, ReconcileStep(t), NEW s \in Threads, s # t, run \in [Threads -> Reconcile]
  PROVE  run'[s] = run[s]
<1>1. \E r : run' = [run EXCEPT ![t] = r]
  BY DEF ReconcileStep, Filter, Get, Clean, ReadClock, PatchStart, PatchInvalid,
     PatchActive, PatchExpired, CreateJob, WaitJob, Delete, Return
<1> QED
  BY <1>1

LEMMA LeaseStepConsents ==
  ASSUME OptInInv, LeaseStep PROVE Consent'
<1>1. TypeInv /\ run \in [Threads -> Reconcile] /\ Consent
  BY DEF OptInInv, OptInTypeInv, OptInTypeOK, TypeInv, TypeOK
<1>2. tracked' = tracked /\ consented' = consented
  BY DEF LeaseStep, System, World, Users, outerVars, labelVars
<1>3. ASSUME NEW t \in Threads, run'[t].pc \notin {"idle", "filter"}
      PROVE  NamespaceOf[run'[t].name] \in consented
  <2>1. CASE run'[t] = run[t]
    BY <1>1, <1>3, <2>1 DEF Consent
  <2>2. CASE ReconcileStep(t)
    BY <1>1, <1>3, <2>2, StepConsents DEF Consent
  <2>3. ASSUME NEW s \in Threads, s # t, ReconcileStep(s) PROVE run'[t] = run[t]
    BY <1>1, <2>3, StepOfOne
  <2>4. ASSUME NEW n \in Names, Dequeue(n) PROVE run'[t] = run[t] \/ run'[t].pc = "filter"
    BY <1>1, <2>4 DEF Dequeue, Started, Idle
  <2>5. CASE run' = run
    BY <2>1, <2>5
  <2> QED
    BY <1>3, <2>1, <2>2, <2>3, <2>4, <2>5 DEF LeaseStep, System, World, Users, Deliver, Tick, FinishJob, Miss,
       UserCreate, UserSetTTL, UserSetStart, UserSetJob, UserDelete, UserWrite
<1> QED
  BY <1>1, <1>2, <1>3 DEF Consent

LEMMA NextConsents ==
  ASSUME OptInInv, [OptInNext]_optInVars PROVE Consent'
<1>1. OptInTypeInv /\ Consent
  BY DEF OptInInv
<1>2. ASSUME UNCHANGED <<run, tracked>>, consented \subseteq consented' PROVE Consent'
  BY <1>1, <1>2 DEF Consent
<1>3. CASE UNCHANGED optInVars
  BY <1>2, <1>3 DEF optInVars, vars, labelVars
<1>4. ASSUME NEW ns \in Namespaces, Relabel(ns) PROVE Consent'
  BY <1>2, <1>4 DEF Relabel, vars
<1>5. ASSUME NEW ns \in Namespaces, Track(ns) PROVE Consent'
  <2>1. tracked' \subseteq tracked \cup optedIn
    BY <1>1, <1>5, TrackIs
  <2> QED
    BY <1>1, <1>5, <2>1 DEF Track, labelVars, Consent, OptInTypeInv, OptInTypeOK
<1>6. CASE Receive
  BY <1>2, <1>6 DEF Receive, Tracker!TakeEvent, labelVars
<1>7. CASE ListObjects
  BY <1>1, <1>7, ListStarts, StartedTyped DEF ListObjects, labelVars, Consent
<1>8. CASE LeaseStep
  BY <1>8, LeaseStepConsents
<1>9. CASE RestartAll
  BY <1>9 DEF RestartAll, Restart, Crash, Idle, Consent
<1> QED
  BY <1>3, <1>4, <1>5, <1>6, <1>7, <1>8, <1>9 DEF OptInNext, EventLoop

\* Nothing without consent: the controller writes to or deletes an object only
\* if the label of its namespace matched at some time, for any number of
\* namespaces and of goroutines, whatever events are dropped or delayed, calls
\* fail and processes restart.
THEOREM NothingWithoutConsent == OptInSpec => OnlyConsentedTouched
<1> DEFINE Touched == \A n \in Names : ControllerWrites(n) => NamespaceOf[n] \in consented
<1>1. OptInInit => OptInInv
  BY OptInInitTyped DEF OptInInit, LeaseInit, Tracker!NewTracker, Idle, OptInInv, Consent
<1>2. OptInInv /\ [OptInNext]_optInVars => OptInInv'
  BY OptInNextTyped, NextConsents DEF OptInInv
<1>3. OptInInv /\ [OptInNext]_optInVars => [Touched]_optInVars
  <2> SUFFICES ASSUME OptInInv, OptInNext, NEW n \in Names, ControllerWrites(n)
               PROVE  NamespaceOf[n] \in consented
    OBVIOUS
  <2>1. TypeInv /\ ops \in Nat /\ Consent
    BY BoundAssumption DEF OptInInv, OptInTypeInv, OptInTypeOK, TypeInv, TypeOK
  <2>2. api' # api /\ ops' = ops
    BY DEF ControllerWrites
  <2>3. LeaseStep
    BY <2>2 DEF OptInNext, Relabel, Track, EventLoop, Receive, ListObjects, RestartAll, Restart, Crash, vars
  <2>4. ~Users
    <3>1. Users => ops' = ops + 1
      BY DEF Users, UserCreate, UserSetTTL, UserSetStart, UserSetJob, UserDelete, UserWrite
    <3> QED
      BY <2>1, <2>2, <3>1
  <2>5. PICK t \in Threads : ReconcileStep(t)
    BY <2>2, <2>3, <2>4 DEF LeaseStep, System, World, Dequeue, Deliver, Tick, FinishJob, Miss
  <2>6. run[t].name = n /\ run[t].pc \notin {"idle", "filter"}
    BY <2>1, <2>5, StepWrites DEF ControllerWrites
  <2> QED
    BY <2>1, <2>6 DEF Consent
<1> QED
  BY <1>1, <1>2, <1>3, PTL DEF OptInSpec, OnlyConsentedTouched

-----------------------------------------------------------------------------
(* Nobody is forgotten. An object that is skipped because its namespace is  *)
(* not tracked is found again through the event of the namespace, the list  *)
(* it starts and the goroutine for the object, or through a change of the   *)
(* object itself; between any two of these the duty is never lost.          *)

AddedEvent(ns) == [ns |-> ns, change |-> "added"]

\* The event loop will list ns, or is about to.
Announced(ns) ==
  \/ \E i \in 1 .. Len(chan[Watcher]) : chan[Watcher][i] = AddedEvent(ns)
  \/ listing = ns

\* Thread t is on its way to a lease-start for n.
Starting(t, n) ==
  /\ run[t].name = n
  /\ \/ run[t].pc \in {"filter", "get"}
     \/ run[t].pc \in {"time", "patchStart"} /\ ~HasLeaseStart(run[t].obj)

\* An object that should have a lease-start and has none.
Needy(n) == /\ NamespaceOf[n] \in tracked
            /\ api[n] # Gone
            /\ api[n].ttl \in Durations
            /\ ~HasLeaseStart(api[n])

Expected(n) == \/ Stirred(n)
               \/ Announced(NamespaceOf[n])
               \/ \E t \in Threads : Starting(t, n)

NoneSkipped == \A n \in Names : Needy(n) => Expected(n)

\* No call has failed, and the process there is now has missed no event.
Unfailing == faults = 0 /\ dropped = {}

SkipInv == OptInTypeInv /\ Linked /\ (Unfailing => NoneSkipped)

LEMMA LeaseStepIsNext == ASSUME LeaseStep PROVE Next
  BY DEF LeaseStep, Next, Environment

LEMMA SkipTypes ==
  ASSUME OptInTypeInv
  PROVE  /\ TypeInv
         /\ faults \in Nat
         /\ run \in [Threads -> Reconcile]
         /\ \A n \in Names : NamespaceOf[n] \in Namespaces
         /\ Tracker!TrackerTypeOK
  BY BoundAssumption DEF OptInTypeInv, OptInTypeOK, TypeInv, TypeOK, Namespaces

\* Expected in the next state.
LEMMA ExpectedThen ==
  ASSUME NEW n,
         \/ StirredNext(n)
         \/ Announced(NamespaceOf[n])'
         \/ \E t \in Threads : Starting(t, n)'
  PROVE  Expected(n)'
  BY StirredThen DEF Expected

LEMMA StartingStays ==
  ASSUME NEW t, NEW n, Starting(t, n), run'[t] = run[t] PROVE Starting(t, n)'
  BY DEF Starting, HasLeaseStart

\* A write of an object with a ttl wakes the controller unless its ttl and its
\* lease-start are those of the object that was there.
LEMMA ShownStirs ==
  ASSUME TypeInv, Linked, NEW n \in Names, NEW o \in Object, Write(n, o), seen' = seen,
         o.ttl # Absent,
         api[n] = Gone \/ api[n].ttl # o.ttl \/ api[n].start # o.start
  PROVE  StirredNext(n)
<1>1. CASE api[n] # Gone
  BY <1>1, ChangeStirs
<1>2. CASE api[n] = Gone
  <2>1. leaseRelevantAnns(api[n]) = Gone
    BY <1>2 DEF leaseRelevantAnns
  <2>2. o # Gone /\ <<o.ttl, o.start>> \in TTLValues \X Stamps
    BY InputAssumption DEF Object
  <2>3. leaseRelevantAnns(o) = <<o.ttl, o.start>> /\ leaseRelevantAnns(o) # Gone
    BY <2>2, InputAssumption DEF leaseRelevantAnns
  <2>4. onlyWithTTLAnnotation(leaseRelevantAnns(api[n]), leaseRelevantAnns(o))
    BY <2>1, <2>3 DEF onlyWithTTLAnnotation
  <2> QED
    BY <2>1, <2>3, <2>4, WriteShows DEF StirredNext
<1> QED
  BY <1>1, <1>2

\* A write that leaves an object in want of a lease-start where none was wanted
\* wakes the controller.
LEMMA WantStirs ==
  ASSUME TypeInv, Linked, NEW n \in Names, NEW o \in Object, Write(n, o), seen' = seen,
         o.ttl \in Durations, ~HasLeaseStart(o),
         ~(api[n] # Gone /\ api[n].ttl \in Durations /\ ~HasLeaseStart(api[n]))
  PROVE  StirredNext(n)
<1>1. api[n] = Gone \/ api[n].ttl # o.ttl \/ api[n].start # o.start
  BY DEF HasLeaseStart
<1> QED
  BY <1>1, MarkAssumption, ShownStirs DEF Durations

\* A thread on its way to a lease-start gets one step further, or is there.
LEMMA StartingGoesOn ==
  ASSUME TypeInv, NEW t \in Threads, ReconcileStep(t), ~Fault,
         NEW n \in Names, Needy(n), Starting(t, n)
  PROVE  Starting(t, n)' \/ HasLeaseStart(api'[n])
<1>1. run \in [Threads -> Reconcile] /\ run[t] \in Reconcile /\ run[t].name = n
  BY DEF Starting, TypeInv, TypeOK
<1>2. api[n] # Gone /\ api[n] \in Object /\ ~noTTL(api[n])
  BY MarkAssumption DEF Needy, TypeInv, TypeOK, noTTL, Durations
<1>3. CASE run[t].pc = "filter"
  <2>1. Filter(t) /\ isNamespaceTracked(n)
    BY <1>3 DEF ReconcileStep, Get, Clean, ReadClock, PatchStart, PatchInvalid,
       PatchActive, PatchExpired, CreateJob, WaitJob, Delete, Needy, isNamespaceTracked
  <2>2. run'[t].pc = "get" /\ run'[t].name = n
    BY <1>1, <2>1 DEF Filter, Reconcile
  <2> QED
    BY <2>2 DEF Starting
<1>4. CASE run[t].pc = "get"
  <2>1. Get(t)
    BY <1>4 DEF ReconcileStep, Filter, Clean, ReadClock, PatchStart, PatchInvalid,
       PatchActive, PatchExpired, CreateJob, WaitJob, Delete
  <2>2. run' = [run EXCEPT ![t].pc = "time", ![t].obj = api[n]]
    BY <1>1, <1>2, <2>1 DEF Get
  <2>3. run'[t].pc = "time" /\ run'[t].name = n /\ run'[t].obj = api[n]
    BY <1>1, <2>2 DEF Reconcile
  <2> QED
    BY <2>3 DEF Starting, Needy, HasLeaseStart
<1>5. CASE run[t].pc = "time"
  <2>1. ReadClock(t)
    BY <1>5 DEF ReconcileStep, Filter, Get, Clean, PatchStart, PatchInvalid,
       PatchActive, PatchExpired, CreateJob, WaitJob, Delete
  <2>2. ~HasLeaseStart(run[t].obj)
    BY <1>5 DEF Starting
  <2>3. run'[t] = [run[t] EXCEPT !.pc = "patchStart", !.now = clock]
    BY <1>1, <2>1, <2>2 DEF ReadClock
  <2>4. run'[t].pc = "patchStart" /\ run'[t].name = n /\ run'[t].obj = run[t].obj
    BY <1>1, <2>3 DEF Reconcile
  <2> QED
    BY <2>2, <2>4 DEF Starting, HasLeaseStart
<1>6. CASE run[t].pc = "patchStart"
  <2> DEFINE base == run[t].obj
             new  == [base EXCEPT !.start = Format(run[t].now)]
             merged == MergePatch(api[n], base, new)
  <2>1. PatchStart(t)
    BY <1>6 DEF ReconcileStep, Filter, Get, Clean, ReadClock, PatchInvalid,
       PatchActive, PatchExpired, CreateJob, WaitJob, Delete
  <2>2. base \in Object /\ ~HasLeaseStart(base) /\ Format(run[t].now) \in Int
    BY <1>1, <1>6, FormatType DEF Starting, TypeInv, InFlight, Reconcile
  <2>3. new.start \in Int /\ new.start # base.start
    BY <2>2 DEF Object, HasLeaseStart
  <2>4. merged.start = new.start
    BY <1>2, <2>3 DEF MergePatch, PatchValue, Object
  <2>5. Write(n, merged)
    BY <1>1, <1>2, <2>1 DEF PatchStart, Patch
  <2>6. api'[n] = merged
    BY <2>5 DEF Write, TypeInv, TypeOK
  <2> QED
    BY <2>3, <2>4, <2>6 DEF HasLeaseStart
<1> QED
  BY <1>3, <1>4, <1>5, <1>6 DEF Starting

-----------------------------------------------------------------------------
(* The steps.                                                               *)

\* A write under m, by whomever, that is not the last step of a thread on its
\* way to the lease-start.
LEMMA WriteExpects ==
  ASSUME TypeInv, TypeInv', Next, Linked, NoneSkipped,
         NEW m \in Names, NEW o \in Object \cup {Gone}, Write(m, o),
         seen' = seen, tracked' = tracked,
         NEW n \in Names, Needy(n)'
  PROVE  Needy(n) \/ StirredNext(n)
<1>1. api'[m] = o /\ \A k \in Names \ {m} : api'[k] = api[k]
  BY WriteShows
<1>2. CASE n # m
  BY <1>1, <1>2 DEF Needy, HasLeaseStart
<1>3. CASE n = m
  <2>1. o \in Object /\ o.ttl \in Durations /\ ~HasLeaseStart(o) /\ NamespaceOf[n] \in tracked
    BY <1>1, <1>3 DEF Needy, HasLeaseStart
  <2> QED
    BY <1>3, <2>1, WantStirs DEF Needy
<1> QED
  BY <1>2, <1>3

LEMMA StepExpects ==
  ASSUME TypeInv, TypeInv', Next, Linked, NoneSkipped, NEW t \in Threads, ReconcileStep(t),
         ~Fault, UNCHANGED <<tracked, chan, listing>>, NEW n \in Names, Needy(n)'
  PROVE  Expected(n)'
<1>1. seen' = seen /\ \A k \in Names : Stirred(k) => StirredNext(k)
  BY StepKeeps
<1>2. Needy(n) \/ StirredNext(n)
  <2>1. CASE api' = api
    BY <2>1 DEF Needy, HasLeaseStart
  <2>2. CASE \E o \in Object \cup {Gone} : Write(run[t].name, o)
    BY <1>1, <2>2, StepWritesUnder, WriteExpects
  <2> QED
    BY <2>1, <2>2, StepWritesUnder
<1>3. ASSUME Needy(n), NEW s \in Threads, Starting(s, n) PROVE Starting(s, n)'
  <2>1. CASE s = t
    BY <1>3, <2>1, StartingGoesOn DEF Needy, HasLeaseStart
  <2>2. CASE s # t
    <3>1. run'[s] = run[s]
      BY <2>2, StepOfOne DEF TypeInv, TypeOK
    <3> QED
      BY <1>3, <3>1, StartingStays
  <2> QED
    BY <2>1, <2>2
<1>4. Announced(NamespaceOf[n]) => Announced(NamespaceOf[n])'
  BY DEF Announced, AddedEvent
<1> QED
  BY <1>1, <1>2, <1>3, <1>4, ExpectedThen DEF NoneSkipped, Expected

LEMMA DequeueExpects ==
  ASSUME TypeInv, NoneSkipped, NEW m \in Names, Dequeue(m),
         UNCHANGED <<tracked, chan, listing>>, NEW n \in Names, Needy(n)'
  PROVE  Expected(n)'
<1>1. run \in [Threads -> Reconcile] /\ Worker \in Threads /\ due \in [Names -> 0 .. Never]
  BY DEF TypeInv, TypeOK, Threads
<1>2. CASE n = m
  <2>1. run'[Worker].pc = "filter" /\ run'[Worker].name = n
    BY <1>1, <1>2 DEF Dequeue, Started, Idle
  <2>2. Starting(Worker, n)'
    BY <2>1 DEF Starting
  <2> QED
    BY <1>1, <2>2, ExpectedThen
<1>3. CASE n # m
  <2>1. Needy(n)
    BY DEF Dequeue, Needy, HasLeaseStart
  <2>2. Stirred(n) => StirredNext(n)
    BY <1>1, <1>3 DEF Dequeue, Stirred, StirredNext
  <2>3. ASSUME NEW s \in Threads, Starting(s, n) PROVE Starting(s, n)'
    <3>1. s # Worker
      BY <2>3 DEF Dequeue, Starting
    <3>2. run'[s] = run[s]
      BY <1>1, <3>1 DEF Dequeue
    <3> QED
      BY <2>3, <3>2, StartingStays
  <2>4. Announced(NamespaceOf[n]) => Announced(NamespaceOf[n])'
    BY DEF Announced, AddedEvent
  <2> QED
    BY <2>1, <2>2, <2>3, <2>4, ExpectedThen DEF NoneSkipped, Expected
<1> QED
  BY <1>2, <1>3

\* A step that leaves the threads and the event loop alone and stirs what it
\* makes needy.
LEMMA ExpectedStays ==
  ASSUME NoneSkipped, UNCHANGED <<run, chan, listing>>,
         NEW n \in Names, Needy(n) \/ StirredNext(n), Stirred(n) => StirredNext(n)
  PROVE  Expected(n)'
<1>1. ASSUME NEW s \in Threads, Starting(s, n) PROVE Starting(s, n)'
  BY <1>1, StartingStays
<1>2. Announced(NamespaceOf[n]) => Announced(NamespaceOf[n])'
  BY DEF Announced, AddedEvent
<1> QED
  BY <1>1, <1>2, ExpectedThen DEF NoneSkipped, Expected

LEMMA LeaseStepExpects ==
  ASSUME OptInTypeInv, OptInTypeInv', Linked, LeaseStep, Unfailing => NoneSkipped
  PROVE  Linked' /\ (Unfailing' => NoneSkipped')
<1>1. TypeInv /\ TypeInv' /\ Next /\ faults \in Nat /\ clock <= clock'
  BY SkipTypes, LeaseStepIsNext, TimeGoesOn DEF OptInTypeInv, OptInTypeOK, TypeInv
<1>2. UNCHANGED <<tracked, chan, dropped, listing>>
  BY DEF LeaseStep, System, World, Users, outerVars, channelVars, loopVars
<1>3. Unfailing' => ~Fault /\ (Unfailing \/ faults # 0)
  BY <1>1, <1>2 DEF Unfailing, Fault
<1>4. ASSUME UNCHANGED <<api, run, seen, pending, missed, faults>>, due' = due
      PROVE  Linked' /\ (Unfailing' => NoneSkipped')
  <2>1. \A n \in Names : LatestView(seen'[n], pending'[n]) = leaseRelevantAnns(api'[n])
    BY <1>4 DEF Linked
  <2>2. ASSUME Unfailing', NEW n \in Names, Needy(n)' PROVE Expected(n)'
    <3>1. NoneSkipped
      BY <1>2, <1>4, <2>2 DEF Unfailing
    <3>2. Needy(n)
      BY <1>2, <1>4, <2>2 DEF Needy, HasLeaseStart
    <3>3. due'[n] <= due[n]
      BY <1>1, <1>4, TimeTypes DEF TypeInv, TypeOK
    <3>4. Stirred(n) => StirredNext(n)
      BY <1>1, <1>4, <3>3, StirredStays
    <3> QED
      BY <1>2, <1>4, <3>1, <3>2, <3>4, ExpectedStays
  <2> QED
    BY <2>1, <2>2, LinkedThen DEF NoneSkipped
<1>5. ASSUME NEW m \in Names, Dequeue(m) PROVE Linked' /\ (Unfailing' => NoneSkipped')
  <2>1. \A n \in Names : LatestView(seen'[n], pending'[n]) = leaseRelevantAnns(api'[n])
    BY <1>5 DEF Linked, Dequeue
  <2>2. Unfailing' => Unfailing
    BY <1>2, <1>5 DEF Unfailing, Dequeue
  <2>3. Unfailing' => NoneSkipped'
    BY <1>1, <1>2, <1>5, <2>2, DequeueExpects DEF NoneSkipped
  <2> QED
    BY <2>1, <2>3, LinkedThen
<1>6. ASSUME NEW m \in Names, Deliver(m) PROVE Linked' /\ (Unfailing' => NoneSkipped')
  <2>1. Linked' /\ \A n \in Names : Stirred(n) => StirredNext(n)
    BY <1>1, <1>6, DeliverAttends
  <2>2. Unfailing' => Unfailing
    BY <1>2, <1>6 DEF Unfailing, Deliver
  <2>3. ASSUME Unfailing', NEW n \in Names, Needy(n)' PROVE Expected(n)'
    <3>1. Needy(n) /\ UNCHANGED <<run, chan, listing>>
      BY <1>2, <1>6, <2>3 DEF Needy, HasLeaseStart, Deliver
    <3> QED
      BY <2>1, <2>2, <2>3, <3>1, ExpectedStays
  <2> QED
    BY <2>1, <2>3 DEF NoneSkipped
<1>7. ASSUME NEW t \in Threads, ReconcileStep(t) PROVE Linked' /\ (Unfailing' => NoneSkipped')
  <2>1. Linked'
    BY <1>1, <1>7, StepKeeps
  <2>2. faults' = faults \/ Fault
    BY <1>7, StepFaults
  <2>3. ASSUME Unfailing', NEW n \in Names, Needy(n)' PROVE Expected(n)'
    <3>1. ~Fault /\ NoneSkipped
      BY <1>2, <1>3, <2>2, <2>3 DEF Unfailing
    <3> QED
      BY <1>1, <1>2, <1>7, <2>3, <3>1, StepExpects
  <2> QED
    BY <2>1, <2>3 DEF NoneSkipped
<1>8. ASSUME NEW m \in Names,
             UserCreate(m) \/ UserSetTTL(m) \/ UserSetStart(m) \/ UserSetJob(m) \/ UserDelete(m)
      PROVE  Linked' /\ (Unfailing' => NoneSkipped')
  <2>1. PICK o \in Object \cup {Gone} : UserWrite(m, o)
    BY <1>1, <1>8, UserWritesWhat
  <2>2. Write(m, o) /\ UNCHANGED <<seen, due, run, faults, missed>>
    BY <2>1 DEF UserWrite
  <2>3. Linked'
    BY <1>1, <2>2, WriteLinks
  <2>4. ASSUME NEW n \in Names, Stirred(n) PROVE StirredNext(n)
    <3>1. \/ pending'[n] = pending[n]
          \/ \E v \in Views : pending'[n] = Append(pending[n], v)
      BY <1>1, <2>2, WriteShows
    <3>2. due'[n] <= due[n]
      BY <1>1, <2>2, TimeTypes DEF TypeInv, TypeOK
    <3> QED
      BY <1>1, <2>2, <2>4, <3>1, <3>2, StirredStays
  <2>5. ASSUME Unfailing', NEW n \in Names, Needy(n)' PROVE Expected(n)'
    <3>1. NoneSkipped
      BY <1>2, <2>2, <2>5 DEF Unfailing
    <3>2. Needy(n) \/ StirredNext(n)
      BY <1>1, <1>2, <2>2, <2>5, <3>1, WriteExpects
    <3> QED
      BY <1>2, <2>2, <2>4, <3>1, <3>2, ExpectedStays
  <2> QED
    BY <2>3, <2>5 DEF NoneSkipped
<1>9. CASE System
  BY <1>5, <1>6, <1>7, <1>9 DEF System
<1>10. ASSUME NEW m \in Names, Miss(m) PROVE Linked' /\ (Unfailing' => NoneSkipped')
  <2>1. Linked' /\ \A n \in Names : Stirred(n) => StirredNext(n)
    BY <1>1, <1>10, MissAttends
  <2>2. Unfailing' => Unfailing
    BY <1>2, <1>10 DEF Unfailing, Miss
  <2>3. ASSUME Unfailing', NEW n \in Names, Needy(n)' PROVE Expected(n)'
    <3>1. Needy(n) /\ UNCHANGED <<run, chan, listing>>
      BY <1>2, <1>10, <2>3 DEF Needy, HasLeaseStart, Miss
    <3> QED
      BY <2>1, <2>2, <2>3, <3>1, ExpectedStays
  <2> QED
    BY <2>1, <2>3 DEF NoneSkipped
<1>11. CASE World
  BY <1>4, <1>10, <1>11 DEF World, Tick, FinishJob
<1>12. CASE Users
  BY <1>8, <1>12 DEF Users
<1> QED
  BY <1>9, <1>11, <1>12 DEF LeaseStep

\* What does not touch the objects, the watch and the queue stirs nothing less.
LEMMA SameIsStirred ==
  ASSUME UNCHANGED <<api, clock, pending, seen, missed, due>>
  PROVE  /\ Linked => Linked'
         /\ \A n \in Names : Stirred(n) => StirredNext(n)
<1>1. \A n \in Names : Stirred(n) => StirredNext(n)
  BY DEF Stirred, StirredNext
<1>2. Linked => \A n \in Names : LatestView(seen'[n], pending'[n]) = leaseRelevantAnns(api'[n])
  BY DEF Linked
<1> QED
  BY <1>1, <1>2, LinkedThen

\* An event more comes last, one less is the one received.
LEMMA AppendEvent ==
  ASSUME NEW S, NEW q \in Seq(S), NEW e \in S
  PROVE  /\ Len(Append(q, e)) = Len(q) + 1 /\ Len(q) \in Nat
         /\ \A i \in 1 .. Len(q) : Append(q, e)[i] = q[i]
         /\ Append(q, e)[Len(q) + 1] = e
  OBVIOUS

LEMMA HeadEvent ==
  ASSUME NEW S, NEW q \in Seq(S), q # <<>>, NEW i \in 1 .. Len(q)
  PROVE  \/ Head(q) = q[i]
         \/ \E k \in 1 .. Len(Tail(q)) : Tail(q)[k] = q[i]
<1>1. CASE i = 1
  BY <1>1
<1>2. CASE i # 1
  <2>1. i - 1 \in 1 .. Len(Tail(q)) /\ Tail(q)[i - 1] = q[i]
    BY <1>2
  <2> QED
    BY <2>1
<1> QED
  BY <1>1, <1>2

\* The tracker takes over a label: an object of a namespace it starts to track
\* is announced, unless the watcher misses the event.
LEMMA TrackExpects ==
  ASSUME OptInTypeInv, Linked, NEW ns \in Namespaces, Track(ns), Unfailing => NoneSkipped
  PROVE  Linked' /\ (Unfailing' => NoneSkipped')
<1> DEFINE buffer == chan[Watcher]
<1>1. /\ tracked \subseteq Namespaces /\ faults' = faults
      /\ UNCHANGED <<api, clock, pending, seen, missed, due, run, listing>>
  BY SkipTypes DEF Track, loopVars, Tracker!TrackerTypeOK
<1>2. buffer \in Seq(Tracker!Events)
  BY SkipTypes DEF Tracker!TrackerTypeOK
<1>3. PICK e \in Tracker!Events :
        /\ Tracker!notifyListeners(e)
        /\ \/ e = AddedEvent(ns) /\ tracked' = tracked \cup {ns}
           \/ tracked' = tracked \ {ns}
  <2>1. ASSUME NEW c \in {"added", "removed"} PROVE [ns |-> ns, change |-> c] \in Tracker!Events
    BY <2>1 DEF Tracker!Events, Tracker!Changes
  <2>2. CASE ns \in optedIn
    <3>1. ns \notin tracked
      BY <2>2 DEF Track
    <3>2. Tracker!AddNamespace(ns)
      BY <2>2 DEF Track
    <3> QED
      BY <2>1, <3>1, <3>2 DEF Tracker!AddNamespace, AddedEvent
  <2>3. CASE ns \notin optedIn
    <3>1. ns \in tracked
      BY <2>3 DEF Track
    <3>2. Tracker!RemoveNamespace(ns)
      BY <2>3 DEF Track
    <3> QED
      BY <2>1, <3>1, <3>2 DEF Tracker!RemoveNamespace
  <2> QED
    BY <2>2, <2>3
<1>4. Unfailing' => Unfailing /\ chan'[Watcher] = Append(buffer, e)
  BY <1>1, <1>3 DEF Unfailing, Tracker!notifyListeners
<1>5. ASSUME Unfailing', NEW n \in Names, Needy(n)' PROVE Expected(n)'
  <2>1. /\ \A i \in 1 .. Len(buffer) : i \in 1 .. Len(chan'[Watcher]) /\ chan'[Watcher][i] = buffer[i]
        /\ \E i \in 1 .. Len(chan'[Watcher]) : chan'[Watcher][i] = e
    <3> DEFINE longer == Append(buffer, e)
    <3>1. /\ Len(longer) = Len(buffer) + 1 /\ Len(buffer) \in Nat
          /\ \A i \in 1 .. Len(buffer) : longer[i] = buffer[i]
          /\ longer[Len(buffer) + 1] = e
      BY <1>2, AppendEvent
    <3>2. chan'[Watcher] = longer
      BY <1>4, <1>5
    <3> HIDE DEF longer, buffer
    <3>3. Len(buffer) + 1 \in 1 .. Len(longer) /\ \A i \in 1 .. Len(buffer) : i \in 1 .. Len(longer)
      BY <3>1
    <3> QED
      BY <3>1, <3>2, <3>3
  <2>2. Announced(NamespaceOf[n]) => Announced(NamespaceOf[n])'
    BY <1>1, <2>1 DEF Announced, AddedEvent
  <2>3. CASE NamespaceOf[n] = ns /\ e = AddedEvent(ns)
    <3>1. Announced(NamespaceOf[n])'
      BY <2>1, <2>3 DEF Announced, AddedEvent
    <3> QED
      BY <3>1, ExpectedThen
  <2>4. CASE ~(NamespaceOf[n] = ns /\ e = AddedEvent(ns))
    <3>1. Needy(n)
      BY <1>1, <1>3, <1>5, <2>4 DEF Needy, HasLeaseStart
    <3>2. \A s \in Threads : Starting(s, n) => Starting(s, n)'
      BY <1>1, StartingStays
    <3>3. Stirred(n) => StirredNext(n)
      BY <1>1, SameIsStirred
    <3> QED
      BY <1>4, <1>5, <2>2, <3>1, <3>2, <3>3, ExpectedThen DEF NoneSkipped, Expected
  <2> QED
    BY <2>3, <2>4
<1> QED
  BY <1>1, <1>5, SameIsStirred DEF NoneSkipped

\* The loop takes an announcement out of the channel to act on it.
LEMMA ReceiveExpects ==
  ASSUME OptInTypeInv, Linked, Receive, Unfailing => NoneSkipped
  PROVE  Linked' /\ (Unfailing' => NoneSkipped')
<1> DEFINE buffer == chan[Watcher]
<1>1. /\ UNCHANGED <<api, clock, pending, seen, missed, due, run, faults, tracked, dropped>>
      /\ listing = Nowhere
  BY DEF Receive, Tracker!TakeEvent
<1>2. /\ buffer \in Seq(Tracker!Events) /\ buffer # <<>>
      /\ chan'[Watcher] = Tail(buffer)
  BY SkipTypes DEF Receive, Tracker!HasEvent, Tracker!TakeEvent, Tracker!TrackerTypeOK
<1>3. ASSUME NEW n \in Names, Announced(NamespaceOf[n]) PROVE Announced(NamespaceOf[n])'
  <2>1. NamespaceOf[n] # Nowhere
    BY NowhereAssumption DEF Namespaces
  <2>2. PICK i \in 1 .. Len(buffer) : buffer[i] = AddedEvent(NamespaceOf[n])
    BY <1>1, <1>3, <2>1 DEF Announced
  <2>3. \/ Head(buffer) = AddedEvent(NamespaceOf[n])
        \/ \E k \in 1 .. Len(Tail(buffer)) : Tail(buffer)[k] = AddedEvent(NamespaceOf[n])
    BY <1>2, <2>2, HeadEvent
  <2>4. CASE Head(buffer) = AddedEvent(NamespaceOf[n])
    <3>1. listing' = NamespaceOf[n]
      BY <2>4 DEF Receive, Tracker!NextEvent, AddedEvent
    <3> QED
      BY <3>1 DEF Announced
  <2>5. CASE \E k \in 1 .. Len(Tail(buffer)) : Tail(buffer)[k] = AddedEvent(NamespaceOf[n])
    BY <1>2, <2>5 DEF Announced, AddedEvent
  <2> QED
    BY <2>3, <2>4, <2>5
<1>4. ASSUME Unfailing', NEW n \in Names, Needy(n)' PROVE Expected(n)'
  <2>1. Needy(n) /\ NoneSkipped
    BY <1>1, <1>4 DEF Needy, HasLeaseStart, Unfailing
  <2>2. \A s \in Threads : Starting(s, n) => Starting(s, n)'
    BY <1>1, StartingStays
  <2>3. Stirred(n) => StirredNext(n)
    BY <1>1, SameIsStirred
  <2> QED
    BY <1>3, <2>1, <2>2, <2>3, ExpectedThen DEF NoneSkipped, Expected
<1> QED
  BY <1>1, <1>4, SameIsStirred DEF NoneSkipped

\* A list starts a goroutine for each object in want of a lease-start.
LEMMA ListExpects ==
  ASSUME OptInTypeInv, Linked, ListObjects, Unfailing => NoneSkipped
  PROVE  Linked' /\ (Unfailing' => NoneSkipped')
<1>1. /\ UNCHANGED <<api, clock, pending, seen, missed, due, chan, tracked, dropped>>
      /\ faults \in Nat /\ run \in [Threads -> Reconcile]
  BY SkipTypes DEF ListObjects, channelVars
<1>2. ASSUME Unfailing', NEW n \in Names, Needy(n)' PROVE Expected(n)'
  <2>1. PICK f \in [WithTTLKey(listing) -> IdleGoroutines] :
          /\ IsInjective(f)
          /\ run' = [t \in Threads |->
               IF t \in Range(f)
               THEN Started(CHOOSE k \in WithTTLKey(listing) : f[k] = t)
               ELSE run[t]]
          /\ faults' = faults
    BY <1>1, <1>2 DEF ListObjects, Fault, Unfailing
  <2>2. Needy(n) /\ NoneSkipped
    BY <1>1, <1>2, <2>1 DEF Needy, HasLeaseStart, Unfailing
  <2>3. CASE listing = NamespaceOf[n]
    <3>1. n \in WithTTLKey(listing)
      BY <2>2, <2>3, MarkAssumption DEF WithTTLKey, Needy, Durations
    <3>2. f[n] \in Range(f) /\ f[n] \in Threads
      BY <2>1, <3>1 DEF Range, IdleGoroutines, Threads
    <3> DEFINE m == CHOOSE k \in WithTTLKey(listing) : f[k] = f[n]
    <3>3. m \in WithTTLKey(listing) /\ f[m] = f[n]
      BY <3>1
    <3>4. m = n
      BY <2>1, <3>1, <3>3 DEF IsInjective
    <3>5. run'[f[n]] = Started(m)
      BY <2>1, <3>2
    <3>6. run'[f[n]].pc = "filter" /\ run'[f[n]].name = n
      BY <3>4, <3>5, StartedTyped
    <3>7. Starting(f[n], n)'
      <4> DEFINE t == f[n]
      <4>1. run'[t].pc = "filter" /\ run'[t].name = n
        BY <3>6
      <4> HIDE DEF t
      <4>2. Starting(t, n)'
        BY <4>1 DEF Starting
      <4> QED
        BY <4>2 DEF t
    <3> QED
      BY <3>2, <3>7, ExpectedThen
  <2>4. CASE listing # NamespaceOf[n]
    <3>1. ASSUME NEW s \in Threads, Starting(s, n) PROVE Starting(s, n)'
      <4>1. s \notin Range(f)
        BY <2>1, <3>1 DEF Range, IdleGoroutines, Starting, Idle
      <4>2. run'[s] = run[s]
        BY <2>1, <4>1
      <4> QED
        BY <3>1, <4>2, StartingStays
    <3>2. Announced(NamespaceOf[n]) => Announced(NamespaceOf[n])'
      BY <1>1, <2>4 DEF Announced, AddedEvent
    <3>3. Stirred(n) => StirredNext(n)
      BY <1>1, SameIsStirred
    <3> QED
      BY <2>2, <3>1, <3>2, <3>3, ExpectedThen DEF NoneSkipped, Expected
  <2> QED
    BY <2>3, <2>4
<1> QED
  BY <1>1, <1>2, SameIsStirred DEF NoneSkipped

\* A process that starts tracks nothing, and lists everything there is.
LEMMA RestartExpects ==
  ASSUME OptInTypeInv, RestartAll PROVE Linked' /\ NoneSkipped'
<1>1. ASSUME NEW n \in Names PROVE LatestView(seen'[n], pending'[n]) = leaseRelevantAnns(api'[n])
  <2>1. seen'[n] = Gone /\ pending'[n] = Listed(n) /\ api'[n] = api[n]
    BY DEF RestartAll, Restart, Crash
  <2> QED
    BY <2>1, ListedIsLatest
<1>2. NoneSkipped'
  BY DEF RestartAll, NoneSkipped, Needy
<1> QED
  BY <1>1, <1>2, LinkedThen

LEMMA RelabelExpects ==
  ASSUME Linked, NEW ns, Relabel(ns), Unfailing => NoneSkipped
  PROVE  Linked' /\ (Unfailing' => NoneSkipped')
<1>1. UNCHANGED <<api, clock, pending, seen, missed, due, run, faults, tracked, chan, dropped, listing>>
  BY DEF Relabel, vars, channelVars, loopVars
<1>2. ASSUME Unfailing', NEW n \in Names, Needy(n)' PROVE Expected(n)'
  <2>1. Needy(n) /\ NoneSkipped
    BY <1>1, <1>2 DEF Needy, HasLeaseStart, Unfailing
  <2> QED
    BY <1>1, <2>1, SameIsStirred, ExpectedStays
<1> QED
  BY <1>1, <1>2, SameIsStirred DEF NoneSkipped

LEMMA InitSkips == ASSUME OptInInit PROVE SkipInv
<1>1. Linked
  BY ListedIsLatest DEF OptInInit, LeaseInit, Linked
<1>2. NoneSkipped
  BY DEF OptInInit, Tracker!NewTracker, NoneSkipped, Needy
<1> QED
  BY <1>1, <1>2, OptInInitTyped DEF SkipInv

LEMMA NextSkips == ASSUME SkipInv, [OptInNext]_optInVars PROVE SkipInv'
<1>1. ASSUME SkipInv, OptInNext PROVE SkipInv'
  <2>1. OptInTypeInv /\ OptInTypeInv' /\ Linked /\ (Unfailing => NoneSkipped)
    BY <1>1, OptInNextTyped DEF SkipInv
  <2>2. Linked' /\ (Unfailing' => NoneSkipped')
    BY <1>1, <2>1, LeaseStepExpects, TrackExpects, ReceiveExpects, ListExpects,
       RestartExpects, RelabelExpects DEF OptInNext, EventLoop
  <2> QED
    BY <2>1, <2>2 DEF SkipInv
<1>2. ASSUME SkipInv, UNCHANGED optInVars PROVE SkipInv'
  <2>1. /\ OptInTypeInv /\ Linked /\ (Unfailing => NoneSkipped)
        /\ UNCHANGED <<api, clock, pending, seen, missed, due, run, faults, tracked, chan, dropped, listing>>
    BY <1>2 DEF SkipInv, optInVars, vars, channelVars, loopVars
  <2>2. OptInTypeInv'
    BY <1>2, <2>1, OptInNextTyped
  <2>3. ASSUME Unfailing', NEW n \in Names, Needy(n)' PROVE Expected(n)'
    <3>1. Needy(n) /\ NoneSkipped
      BY <2>1, <2>3 DEF Needy, HasLeaseStart, Unfailing
    <3> QED
      BY <2>1, <3>1, SameIsStirred, ExpectedStays
  <2> QED
    BY <2>1, <2>2, <2>3, SameIsStirred DEF SkipInv, NoneSkipped
<1> QED
  BY <1>1, <1>2

\* What was skipped is found: once neither the controller nor its event loop has
\* anything left to do about an object in a namespace that opted in, and the
\* tracker knows of the namespace, an object with a ttl has a lease-start, if no
\* call failed, the watcher missed no event and no break of the watch lost the
\* object a wake-up that nothing else has made up for; for any number of objects,
\* namespaces and goroutines, whatever users write, delete and relabel, whatever
\* versions a break of the watch skips, and however often the process restarts.
THEOREM NobodyIsForgotten == OptInSpec => []SkippedIsFound
<1>1. OptInInit => SkipInv
  BY InitSkips
<1>2. SkipInv /\ [OptInNext]_optInVars => SkipInv'
  BY NextSkips
<1>3. SkipInv => SkippedIsFound
  <2> SUFFICES ASSUME SkipInv, NEW n \in Names, Quiet(n), api[n] # Gone,
                      NamespaceOf[n] \in optedIn, n \notin missed, faults = 0, dropped = {},
                      api[n].ttl \in Durations, ~HasLeaseStart(api[n])
               PROVE  FALSE
    BY DEF SkippedIsFound
  <2>1. Settled(n) /\ Needy(n) /\ chan[Watcher] = <<>> /\ listing = Nowhere
    BY DEF Quiet, Needy
  <2>2. Expected(n)
    BY <2>1 DEF SkipInv, Unfailing, NoneSkipped
  <2>3. ~Stirred(n)
    <3>1. due[n] \in Int /\ clock \in Int
      BY SkipTypes, TimeTypes DEF SkipInv, OptInTypeInv, OptInTypeOK, TypeOK
    <3>2. ~Passing(seen[n], pending[n])
      BY <2>1 DEF Settled, Passing
    <3> QED
      BY <2>1, <3>1, <3>2 DEF Settled, Stirred
  <2>4. ~Announced(NamespaceOf[n])
    <3>1. NamespaceOf[n] # Nowhere
      BY NowhereAssumption DEF Namespaces
    <3>2. Len(chan[Watcher]) = 0
      BY <2>1
    <3> QED
      BY <2>1, <3>1, <3>2 DEF Announced
  <2>5. \A t \in Threads : ~Starting(t, n)
    BY <2>1 DEF Settled, Starting
  <2> QED
    BY <2>2, <2>3, <2>4, <2>5 DEF Expected
<1> QED
  BY <1>1, <1>2, <1>3, PTL DEF OptInSpec

-----------------------------------------------------------------------------
(* Jobs. Each of the goroutines beside the worker may create one Job, and a  *)
(* list starts one for an object; the worker creates a second one for an     *)
(* incarnation only after a failed call or a crash.                          *)

\* The goroutines that may still create a Job for the object under n.
OnTheirWay(n) ==
  { g \in Goroutines : run[g].name = n /\ run[g].pc \notin {"idle", "waitJob", "delete"} }

\* The worker may still create a Job for the incarnation, and may do so unharmed.
Credit(n, u) == (Alive(n, u) \/ BeforeJob(n, u)) /\ ~AfterJob(n, u)

Possible(n, u) == JobCount(n, u) + Cardinality(OnTheirWay(n))
Excuses        == faults + crashes + lists

FewOnTheirWay(n) ==
  /\ IsFiniteSet(OnTheirWay(n))
  /\ Cardinality(OnTheirWay(n)) <= lists

ListBounded(n, u) ==
  /\ Possible(n, u) <= 1 + Excuses
  /\ Credit(n, u) => Possible(n, u) <= Excuses

JobsListed == \A n \in Names : FewOnTheirWay(n) /\ \A u \in Nat : ListBounded(n, u)

ListInv == OptInTypeInv /\ UidsHandedOut /\ JobsListed

LEMMA ListTypes ==
  ASSUME OptInTypeInv, NEW n, FewOnTheirWay(n), NEW u
  PROVE  /\ JobCount(n, u) \in Nat /\ Cardinality(OnTheirWay(n)) \in Nat
         /\ faults \in Nat /\ crashes \in Nat /\ lists \in Nat
<1>1. JobCount(n, u) \in Nat
  BY SkipTypes, CountIs
<1>2. Cardinality(OnTheirWay(n)) \in Nat
  BY FS_CardinalityType DEF FewOnTheirWay
<1>3. faults \in Nat /\ crashes \in Nat /\ lists \in Nat
  BY BoundAssumption DEF OptInTypeInv, OptInTypeOK, TypeOK
<1> QED
  BY <1>1, <1>2, <1>3

\* How many goroutines are on their way, before and after a step.
LEMMA WayMoves ==
  ASSUME NEW n, IsFiniteSet(OnTheirWay(n))
  PROVE  /\ OnTheirWay(n)' \subseteq OnTheirWay(n) =>
              /\ IsFiniteSet(OnTheirWay(n)')
              /\ Cardinality(OnTheirWay(n)') \in Nat
              /\ Cardinality(OnTheirWay(n)') <= Cardinality(OnTheirWay(n))
         /\ \A g \in OnTheirWay(n) :
              OnTheirWay(n)' \subseteq OnTheirWay(n) \ {g} =>
                Cardinality(OnTheirWay(n)') + 1 <= Cardinality(OnTheirWay(n))
         /\ \A g :
              OnTheirWay(n)' \subseteq OnTheirWay(n) \cup {g} =>
                /\ IsFiniteSet(OnTheirWay(n)')
                /\ Cardinality(OnTheirWay(n)') \in Nat
                /\ Cardinality(OnTheirWay(n)') <= Cardinality(OnTheirWay(n)) + 1
<1> DEFINE S == OnTheirWay(n)
           T == OnTheirWay(n)'
<1>1. IsFiniteSet(S) /\ Cardinality(S) \in Nat
  BY FS_CardinalityType
<1> HIDE DEF S, T
<1>2. ASSUME T \subseteq S
      PROVE  IsFiniteSet(T) /\ Cardinality(T) \in Nat /\ Cardinality(T) <= Cardinality(S)
  BY <1>1, <1>2, FS_Subset, FS_CardinalityType
<1>3. ASSUME NEW g \in S, T \subseteq S \ {g} PROVE Cardinality(T) + 1 <= Cardinality(S)
  <2>1. IsFiniteSet(S \ {g}) /\ Cardinality(S \ {g}) = Cardinality(S) - 1
    BY <1>1, <1>3, FS_RemoveElement
  <2>2. IsFiniteSet(T) /\ Cardinality(T) <= Cardinality(S \ {g})
    BY <1>3, <2>1, FS_Subset
  <2>3. Cardinality(T) \in Nat
    BY <2>2, FS_CardinalityType
  <2> QED
    BY <1>1, <2>1, <2>2, <2>3
<1>4. ASSUME NEW g, T \subseteq S \cup {g}
      PROVE  IsFiniteSet(T) /\ Cardinality(T) \in Nat /\ Cardinality(T) <= Cardinality(S) + 1
  <2>1. IsFiniteSet(S \cup {g}) /\ Cardinality(S \cup {g}) <= Cardinality(S) + 1
    <3>1. /\ IsFiniteSet(S \cup {g})
          /\ Cardinality(S \cup {g}) = IF g \in S THEN Cardinality(S) ELSE Cardinality(S) + 1
      BY <1>1, FS_AddElement
    <3> QED
      BY <1>1, <3>1
  <2>2. IsFiniteSet(T) /\ Cardinality(T) <= Cardinality(S \cup {g})
    BY <1>4, <2>1, FS_Subset
  <2>3. Cardinality(T) \in Nat /\ Cardinality(S \cup {g}) \in Nat
    BY <2>1, <2>2, FS_CardinalityType
  <2> QED
    BY <1>1, <2>1, <2>2, <2>3
<1> QED
  BY <1>2, <1>3, <1>4 DEF S, T

-----------------------------------------------------------------------------
(* The steps of LeaseController.                                            *)

\* Neither the controller nor its surroundings send a goroutine on its way.
LEMMA NoneSentOff ==
  ASSUME OptInTypeInv, LeaseStep, NEW n \in Names
  PROVE  OnTheirWay(n)' \subseteq OnTheirWay(n)
<1>1. TypeInv /\ Next /\ run \in [Threads -> Reconcile]
  BY SkipTypes, LeaseStepIsNext
<1>2. ~Crash
  <2>1. crashes \in Nat /\ crashes' = crashes
    BY <1>1, BoundAssumption DEF TypeInv, TypeOK, LeaseStep, System, World, Users, outerVars
  <2> QED
    BY <2>1 DEF Crash
<1>3. ASSUME NEW g \in Goroutines, run'[g].name = n, run'[g].pc \notin {"idle", "waitJob", "delete"}
      PROVE  run[g].name = n /\ run[g].pc \notin {"idle", "waitJob", "delete"}
  <2>1. g \in Threads /\ g # Worker
    BY ThreadAssumption DEF Threads
  <2>2. CASE run'[g] = run[g]
    BY <1>3, <2>2
  <2>3. CASE ReconcileStep(g)
    <3>1. run'[g].name = run[g].name /\ run[g].pc # "idle"
      BY <1>1, <1>3, <2>1, <2>3, StepConsents
    <3>2. run[g].pc # "delete"
      <4> SUFFICES ASSUME Delete(g) PROVE FALSE
        BY <2>3 DEF ReconcileStep, Filter, Get, Clean, ReadClock, PatchStart, PatchInvalid,
           PatchActive, PatchExpired, CreateJob, WaitJob
      <4> QED
        BY <1>1, <1>3, <2>1 DEF Delete, Return, Idle
    <3>3. run[g].pc # "waitJob"
      <4> SUFFICES ASSUME WaitJob(g) PROVE FALSE
        BY <2>3 DEF ReconcileStep, Filter, Get, Clean, ReadClock, PatchStart, PatchInvalid,
           PatchActive, PatchExpired, CreateJob, Delete
      <4>1. run'[g] = [run[g] EXCEPT !.pc = "delete", !.job = 0] /\ run[g] \in Reconcile
        BY <1>1, <2>1 DEF WaitJob
      <4>2. run'[g].pc = "delete"
        BY <4>1 DEF Reconcile
      <4> QED
        BY <1>3, <4>2
    <3> QED
      BY <1>3, <3>1, <3>2, <3>3
  <2> QED
    BY <1>1, <1>2, <2>1, <2>2, <2>3, ThreadMoves
<1> QED
  BY <1>3 DEF OnTheirWay

\* A goroutine that creates its Job is not on its way any longer.
LEMMA JobTaken ==
  ASSUME OptInTypeInv, LeaseStep, NEW n \in Names,
         NEW g \in Goroutines, CreateJob(g), run[g].name = n
  PROVE  g \in OnTheirWay(n) /\ OnTheirWay(n)' \subseteq OnTheirWay(n) \ {g}
<1>1. run[g] \in Reconcile /\ run \in [Threads -> Reconcile] /\ g \in Threads
  BY SkipTypes DEF Threads
<1>2. \/ run'[g] = [run[g] EXCEPT !.pc = "delete"]
      \/ \E pc \in {"waitJob", "delete"} : \E id : run'[g] = [run[g] EXCEPT !.pc = pc, !.job = id]
  BY <1>1 DEF CreateJob
<1>3. run'[g].pc \in {"waitJob", "delete"}
  BY <1>1, <1>2 DEF Reconcile
<1> QED
  BY <1>3, NoneSentOff DEF CreateJob, OnTheirWay

\* The worker that creates its Job uses up its credit.
LEMMA CreditTaken ==
  ASSUME TypeInv, CreateJob(Worker), NEW n, NEW u, W.name = n, W.obj.uid = u
  PROVE  Credit(n, u) /\ ~Credit(n, u)'
<1>1. W \in Reconcile /\ run \in [Threads -> Reconcile] /\ Worker \in Threads
  BY DEF TypeInv, TypeOK, Threads, W
<1>2. \/ W' = [W EXCEPT !.pc = "delete"]
      \/ \E pc \in {"waitJob", "delete"} : \E id : W' = [W EXCEPT !.pc = pc, !.job = id]
  BY <1>1 DEF CreateJob, W
<1>3. W'.pc \in {"waitJob", "delete"} /\ W'.name = n /\ W'.obj.uid = u
  BY <1>1, <1>2 DEF Reconcile
<1>4. W.pc = "createJob" /\ W.pc \in Busy
  BY DEF CreateJob, W, Busy, Phases
<1> QED
  BY <1>3, <1>4 DEF Credit, BeforeJob, AfterJob

\* The worker gets a new credit only for a failed call, or for an incarnation
\* that is new.
LEMMA CreditMoves ==
  ASSUME TypeInv, UidsHandedOut, LeaseStep, NEW n \in Names, NEW u \in Nat, Credit(n, u)'
  PROVE  Credit(n, u) \/ faults' = faults + 1 \/ JobCount(n, u) = 0
<1>1. run \in [Threads -> Reconcile] /\ Worker \in Threads /\ Next
  BY LeaseStepIsNext DEF TypeInv, TypeOK, Threads
<1>2. (Alive(n, u)' \/ BeforeJob(n, u)') /\ ~AfterJob(n, u)'
  BY DEF Credit
<1>3. ASSUME NEW t \in Threads, ReconcileStep(t), Alive(n, u)' PROVE Alive(n, u)
  BY <1>3, ThreadMakesNone DEF Alive
<1>4. CASE ReconcileStep(Worker)
  <2>1. CASE AfterJob(n, u)
    <3>1. W'.pc \notin Busy
      <4> SUFFICES ASSUME W'.pc \in Busy PROVE FALSE
        OBVIOUS
      <4>1. W.pc \in {"waitJob", "delete"} /\ W.name = n /\ W.obj.uid = u
        BY <2>1 DEF AfterJob
      <4>2. WaitJob(Worker) /\ W'.pc = "delete" /\ W'.obj = W.obj /\ W'.name = n
        BY <1>4, <4>1, WorkerGoesOn DEF CreateJob, Deleting, W
      <4> QED
        BY <1>2, <4>1, <4>2 DEF AfterJob
    <3>2. Alive(n, u)'
      BY <1>2, <3>1 DEF BeforeJob
    <3>3. ~WaitJob(Worker)
      <4> SUFFICES ASSUME WaitJob(Worker) PROVE FALSE
        OBVIOUS
      <4>1. W \in Reconcile /\ W' = [W EXCEPT !.pc = "delete", !.job = 0]
        BY <1>1 DEF WaitJob, W
      <4> QED
        BY <3>1, <4>1 DEF Reconcile, Busy, Phases
    <3>4. Delete(Worker)
      BY <1>4, <2>1, <3>3 DEF AfterJob, ReconcileStep, Filter, Get, Clean, ReadClock, PatchStart,
         PatchInvalid, PatchActive, PatchExpired, CreateJob, W
    <3> QED
      BY <2>1, <3>2, <3>4, DeleteEnds DEF AfterJob, Alive
  <2>2. CASE ~AfterJob(n, u)
    <3>1. CASE Alive(n, u)'
      BY <1>1, <1>3, <1>4, <2>2, <3>1 DEF Credit
    <3>2. CASE BeforeJob(n, u)'
      <4>1. W'.pc \in Busy /\ W'.pc \notin {"waitJob", "delete"} /\ W'.name = n /\ W'.obj.uid = u
        BY <3>2 DEF BeforeJob
      <4>2. /\ W.name = n
            /\ \/ api[n] # Gone /\ W'.obj.uid = api[n].uid
               \/ W.pc \in Busy \ Deleting /\ W'.obj.uid = W.obj.uid
        BY <1>4, <4>1, WorkerGoesOn
      <4> QED
        BY <2>2, <4>1, <4>2 DEF Credit, Alive, BeforeJob, Deleting
    <3> QED
      BY <1>2, <3>1, <3>2
  <2> QED
    BY <2>1, <2>2
<1>5. ASSUME NEW t \in Threads, t # Worker, ReconcileStep(t) PROVE Credit(n, u)
  <2>1. W' = W
    BY <1>1, <1>5, StepOfOne DEF W
  <2> QED
    BY <1>2, <1>3, <1>5, <2>1 DEF Credit, BeforeJob, AfterJob
<1>6. ASSUME OtherStep PROVE Credit(n, u) \/ JobCount(n, u) = 0
  <2>1. ~Crash
    <3>1. crashes \in Nat /\ crashes' = crashes
      BY BoundAssumption DEF TypeInv, TypeOK, LeaseStep, System, World, Users, outerVars
    <3> QED
      BY <3>1 DEF Crash
  <2>2. W' = W \/ (W'.pc \notin Busy /\ W.pc = "idle")
    BY <1>6, <2>1, OthersLeave
  <2>3. ~AfterJob(n, u) /\ (BeforeJob(n, u)' => BeforeJob(n, u))
    BY <1>2, <2>2 DEF AfterJob, BeforeJob
  <2>4. Alive(n, u)' => Alive(n, u) \/ JobCount(n, u) = 0
    <3> SUFFICES ASSUME Alive(n, u)' PROVE Alive(n, u) \/ JobCount(n, u) = 0
      OBVIOUS
    <3>1. CASE Known(n)
      BY <3>1 DEF Known, Alive
    <3>2. CASE Fresh(n)
      <4>1. u = nextUid /\ nextUid \in Nat
        BY <3>2 DEF Fresh, Alive, TypeInv, TypeOK
      <4>2. \A j \in jobs : j.uid \in Nat /\ j.uid < nextUid
        BY DEF UidsHandedOut, TypeInv, TypeOK, JobRecord
      <4>3. JobsOf(n, u) = {}
        BY <4>1, <4>2 DEF JobsOf
      <4> QED
        BY <4>3, FS_EmptySet DEF JobCount
    <3> QED
      BY <1>6, <3>1, <3>2, OthersMake DEF Alive
  <2> QED
    BY <1>2, <2>3, <2>4 DEF Credit
<1> QED
  BY <1>1, <1>4, <1>5, <1>6, StepIs

\* A step that sends no goroutine off adds a Job only on the worker's credit.
LEMMA PossibleMoves ==
  ASSUME OptInTypeInv, LeaseStep, NEW n \in Names, FewOnTheirWay(n), NEW u \in Nat
  PROVE  /\ JobCount(n, u)' \in Nat /\ Cardinality(OnTheirWay(n))' \in Nat
         /\ FewOnTheirWay(n)'
         /\ \/ Possible(n, u)' <= Possible(n, u)
            \/ /\ Credit(n, u) /\ ~Credit(n, u)'
               /\ Possible(n, u)' <= Possible(n, u) + 1
<1> DEFINE c == JobCount(n, u)
           d == JobCount(n, u)'
           v == Cardinality(OnTheirWay(n))
           w == Cardinality(OnTheirWay(n))'
<1>1. TypeInv /\ Next /\ lists' = lists
  BY SkipTypes, LeaseStepIsNext DEF LeaseStep, loopVars
<1>2. c \in Nat /\ v \in Nat /\ lists \in Nat
  BY ListTypes
<1>3. w \in Nat /\ w <= v /\ IsFiniteSet(OnTheirWay(n))'
  BY NoneSentOff, WayMoves DEF FewOnTheirWay
<1>4. FewOnTheirWay(n)'
  <2>1. v <= lists
    BY DEF FewOnTheirWay
  <2>2. w <= lists'
    BY <1>1, <1>2, <1>3, <2>1
  <2> QED
    BY <1>3, <2>2 DEF FewOnTheirWay
<1>5. d \in Nat
  BY <1>1, CountMoves
<1>6. CASE d <= c
  <2>1. d + w <= c + v
    BY ONLY <1>2, <1>3, <1>5, <1>6
  <2> QED
    BY <1>3, <1>4, <1>5, <2>1 DEF Possible
<1>7. ASSUME NEW t \in Threads, CreateJob(t), run[t].name = n, run[t].obj.uid = u, d <= c + 1
      PROVE  \/ Possible(n, u)' <= Possible(n, u)
             \/ /\ Credit(n, u) /\ ~Credit(n, u)'
                /\ Possible(n, u)' <= Possible(n, u) + 1
  <2>1. CASE t = Worker
    <3>1. Credit(n, u) /\ ~Credit(n, u)'
      BY <1>1, <1>7, <2>1, CreditTaken DEF W
    <3>2. d + w <= (c + v) + 1
      BY ONLY <1>2, <1>3, <1>5, <1>7
    <3> QED
      BY <3>1, <3>2 DEF Possible
  <2>2. CASE t # Worker
    <3>1. t \in Goroutines
      BY <2>2 DEF Threads
    <3>2. t \in OnTheirWay(n) /\ OnTheirWay(n)' \subseteq OnTheirWay(n) \ {t}
      BY <1>7, <3>1, JobTaken
    <3>3. w + 1 <= v
      BY <3>2, WayMoves DEF FewOnTheirWay
    <3>4. d + w <= c + v
      BY ONLY <1>2, <1>3, <1>5, <1>7, <3>3
    <3> QED
      BY <3>4 DEF Possible
  <2> QED
    BY <2>1, <2>2
<1> QED
  BY <1>1, <1>3, <1>4, <1>5, <1>6, <1>7, CountMoves

LEMMA SumGrows ==
  ASSUME NEW a \in Nat, NEW b \in Nat, NEW c \in Nat, NEW d \in Nat, NEW e \in Nat,
         a <= d, b <= e
  PROVE  /\ a + b + c \in Nat /\ d + e + c \in Nat /\ a + b + c <= d + e + c
         /\ d = a + 1 => (a + b + c) + 1 <= d + e + c
  OBVIOUS

LEMMA LeaseStepLists ==
  ASSUME ListInv, LeaseStep, NEW n \in Names, NEW u \in Nat
  PROVE  FewOnTheirWay(n)' /\ ListBounded(n, u)'
<1> DEFINE p == Possible(n, u)
           q == Possible(n, u)'
           h == Excuses
           k == Excuses'
<1>1. OptInTypeInv /\ TypeInv /\ Next /\ UidsHandedOut /\ FewOnTheirWay(n) /\ ListBounded(n, u)
  BY LeaseStepIsNext, SkipTypes DEF ListInv, JobsListed
<1>2. /\ JobCount(n, u) \in Nat /\ Cardinality(OnTheirWay(n)) \in Nat
      /\ faults \in Nat /\ crashes \in Nat /\ lists \in Nat
      /\ Cardinality(OnTheirWay(n)) <= lists
  BY <1>1, ListTypes DEF FewOnTheirWay
<1>3. p \in Nat /\ h \in Nat /\ p = JobCount(n, u) + Cardinality(OnTheirWay(n))
  BY <1>2 DEF Possible, Excuses
<1>4. q \in Nat
  BY <1>1, PossibleMoves DEF Possible
<1>5. k \in Nat /\ h <= k /\ (faults' = faults + 1 => h + 1 <= k)
  <2>1. faults' \in Nat /\ faults <= faults' /\ crashes' \in Nat /\ crashes <= crashes' /\ lists' = lists
    BY <1>1, HarmGrows DEF LeaseStep, loopVars
  <2>2. h = faults + crashes + lists /\ k = faults' + crashes' + lists'
    BY DEF Excuses
  <2>3. /\ faults + crashes + lists \in Nat
        /\ faults' + crashes' + lists' \in Nat
        /\ faults + crashes + lists <= faults' + crashes' + lists'
        /\ faults' = faults + 1
             => (faults + crashes + lists) + 1 <= faults' + crashes' + lists'
    BY <1>2, <2>1, SumGrows
  <2> HIDE DEF h, k
  <2> QED
    BY <2>2, <2>3
<1>6. p <= 1 + h /\ (Credit(n, u) => p <= h)
  BY <1>1 DEF ListBounded
<1>7. JobCount(n, u) = 0 => p <= h
  BY <1>2 DEF Possible, Excuses
<1>8. q <= p \/ (Credit(n, u) /\ ~Credit(n, u)' /\ q <= p + 1)
  BY <1>1, PossibleMoves
<1>9. Credit(n, u)' => Credit(n, u) \/ faults' = faults + 1 \/ JobCount(n, u) = 0
  BY <1>1, CreditMoves
<1>10. q <= 1 + k
  <2> HIDE DEF p, q, h, k
  <2> QED
    BY <1>3, <1>4, <1>5, <1>6, <1>8
<1>11. Credit(n, u)' => q <= k
  <2> HIDE DEF p, q, h, k
  <2>1. ASSUME Credit(n, u)' PROVE q <= k
    <3>1. q <= p
      BY <1>8, <2>1
    <3>2. p <= h \/ (h + 1 <= k /\ p <= 1 + h)
      BY <1>5, <1>6, <1>7, <1>9, <2>1
    <3> QED
      BY ONLY <1>3, <1>4, <1>5, <3>1, <3>2
  <2> QED
    BY <2>1
<1> QED
  BY <1>1, <1>10, <1>11, PossibleMoves DEF ListBounded

-----------------------------------------------------------------------------
(* The other steps.                                                         *)

\* A step of the tracker or the loop that starts no goroutine.
LEMMA CountsStay ==
  ASSUME UNCHANGED <<api, run, jobs, faults, crashes, lists>>, NEW n
  PROVE  /\ FewOnTheirWay(n) => FewOnTheirWay(n)'
         /\ \A u \in Nat : ListBounded(n, u) => ListBounded(n, u)'
  BY DEF FewOnTheirWay, OnTheirWay, ListBounded, Possible, Excuses, Credit, Alive, BeforeJob,
     AfterJob, JobCount, JobsOf, W

\* A list sends one goroutine off for an object, and is one more excuse.
LEMMA ListCounts ==
  ASSUME ListInv, ListObjects, NEW n \in Names, NEW u \in Nat
  PROVE  FewOnTheirWay(n)' /\ ListBounded(n, u)'
<1> DEFINE c == JobCount(n, u)
           v == Cardinality(OnTheirWay(n))
           w == Cardinality(OnTheirWay(n))'
<1>1. /\ OptInTypeInv /\ FewOnTheirWay(n) /\ ListBounded(n, u)
      /\ UNCHANGED <<api, jobs, crashes>> /\ run \in [Threads -> Reconcile] /\ Worker \in Threads
  BY SkipTypes DEF ListInv, JobsListed, ListObjects, Threads
<1>2. /\ c \in Nat /\ v \in Nat /\ faults \in Nat /\ crashes \in Nat /\ lists \in Nat
      /\ v <= lists
  BY <1>1, ListTypes DEF FewOnTheirWay
<1>3. JobCount(n, u)' = c
  BY <1>1 DEF JobCount, JobsOf
<1>4. c + v <= 1 + (faults + crashes + lists) /\ (Credit(n, u) => c + v <= faults + crashes + lists)
  BY <1>1 DEF ListBounded, Possible, Excuses
<1>5. CASE Fault /\ UNCHANGED <<run, lists>>
  <2>1. W' = W /\ OnTheirWay(n)' = OnTheirWay(n)
    BY <1>5 DEF W, OnTheirWay
  <2>2. Credit(n, u)' = Credit(n, u)
    BY <1>1, <2>1 DEF Credit, Alive, BeforeJob, AfterJob
  <2>3. faults' = faults + 1 /\ crashes' = crashes /\ lists' = lists /\ w = v
    BY <1>1, <1>5, <2>1 DEF Fault
  <2>4. FewOnTheirWay(n)'
    BY <1>1, <2>1, <2>3 DEF FewOnTheirWay
  <2>5. c + w <= 1 + (faults' + crashes' + lists') /\ (Credit(n, u)' => c + w <= faults' + crashes' + lists')
    BY <1>2, <1>4, <2>2, <2>3
  <2> QED
    BY <1>3, <2>4, <2>5 DEF ListBounded, Possible, Excuses
<1>6. ASSUME NEW f \in [WithTTLKey(listing) -> IdleGoroutines], IsInjective(f),
             run' = [t \in Threads |->
               IF t \in Range(f)
               THEN Started(CHOOSE m \in WithTTLKey(listing) : f[m] = t)
               ELSE run[t]],
             lists' = IF WithTTLKey(listing) = {} THEN lists ELSE lists + 1,
             faults' = faults
      PROVE  FewOnTheirWay(n)' /\ ListBounded(n, u)'
  <2>1. W' = W
    <3>1. Worker \notin Range(f)
      BY ThreadAssumption DEF Range, IdleGoroutines
    <3> QED
      BY <1>1, <1>6, <3>1 DEF W
  <2>2. Credit(n, u)' = Credit(n, u)
    BY <1>1, <2>1 DEF Credit, Alive, BeforeJob, AfterJob
  <2>3. ASSUME NEW g \in OnTheirWay(n)', g \notin OnTheirWay(n)
        PROVE  n \in WithTTLKey(listing) /\ g = f[n]
    <3>1. g \in Goroutines /\ g \in Threads /\ run'[g].name = n /\ run'[g] # run[g]
      BY <2>3 DEF OnTheirWay, Threads
    <3>2. g \in Range(f)
      BY <1>6, <3>1
    <3>3. PICK k \in WithTTLKey(listing) : f[k] = g
      BY <3>2 DEF Range
    <3> DEFINE m == CHOOSE j \in WithTTLKey(listing) : f[j] = g
    <3>4. m \in WithTTLKey(listing) /\ f[m] = g
      BY <3>3
    <3>5. run'[g] = Started(m) /\ m \in Names
      BY <1>6, <3>1, <3>2, <3>4 DEF WithTTLKey
    <3>6. m = n
      BY <3>1, <3>5, StartedTyped
    <3> QED
      BY <3>4, <3>6
  <2>4. CASE n \in WithTTLKey(listing)
    <3>1. OnTheirWay(n)' \subseteq OnTheirWay(n) \cup {f[n]}
      BY <2>3
    <3>2. IsFiniteSet(OnTheirWay(n)') /\ w \in Nat /\ w <= v + 1
      BY <1>1, <3>1, WayMoves DEF FewOnTheirWay
    <3>3. lists' = lists + 1 /\ faults' = faults /\ crashes' = crashes
      BY <1>1, <1>6, <2>4
    <3>4. w <= lists'
      BY <1>2, <3>2, <3>3
    <3>5. c + w <= 1 + (faults' + crashes' + lists')
          /\ (Credit(n, u)' => c + w <= faults' + crashes' + lists')
      <4>1. c + w <= (c + v) + 1 /\ faults' + crashes' + lists' = (faults + crashes + lists) + 1
        BY ONLY <1>2, <3>2, <3>3
      <4> QED
        BY <1>2, <1>4, <2>2, <3>2, <4>1
    <3> QED
      BY <1>3, <3>2, <3>4, <3>5 DEF FewOnTheirWay, ListBounded, Possible, Excuses
  <2>5. CASE n \notin WithTTLKey(listing)
    <3>1. OnTheirWay(n)' \subseteq OnTheirWay(n)
      BY <2>3, <2>5
    <3>2. IsFiniteSet(OnTheirWay(n)') /\ w \in Nat /\ w <= v
      BY <1>1, <3>1, WayMoves DEF FewOnTheirWay
    <3>3. lists' \in Nat /\ lists <= lists' /\ faults' = faults /\ crashes' = crashes
      BY <1>1, <1>2, <1>6
    <3>4. w <= lists'
      BY <1>2, <3>2, <3>3
    <3>5. c + w <= 1 + (faults' + crashes' + lists')
          /\ (Credit(n, u)' => c + w <= faults' + crashes' + lists')
      BY <1>2, <1>4, <2>2, <3>2, <3>3
    <3> QED
      BY <1>3, <3>2, <3>4, <3>5 DEF FewOnTheirWay, ListBounded, Possible, Excuses
  <2> QED
    BY <2>4, <2>5
<1> QED
  BY <1>5, <1>6 DEF ListObjects

LEMMA RestartCounts ==
  ASSUME ListInv, RestartAll, NEW n \in Names, NEW u \in Nat
  PROVE  FewOnTheirWay(n)' /\ ListBounded(n, u)'
<1> DEFINE c == JobCount(n, u)
           v == Cardinality(OnTheirWay(n))
<1>1. OptInTypeInv /\ FewOnTheirWay(n) /\ ListBounded(n, u)
  BY DEF ListInv, JobsListed
<1>2. c \in Nat /\ v \in Nat /\ faults \in Nat /\ crashes \in Nat /\ lists \in Nat
  BY <1>1, ListTypes
<1>3. /\ jobs' = jobs /\ faults' = faults /\ crashes' = crashes + 1 /\ lists' = lists
      /\ run' = [t \in Threads |-> Idle]
  BY DEF RestartAll, Restart, Crash
<1>4. OnTheirWay(n)' = {}
  BY <1>3 DEF OnTheirWay, Idle, Threads
<1>5. IsFiniteSet(OnTheirWay(n)') /\ Cardinality(OnTheirWay(n))' = 0
  BY <1>4, FS_EmptySet
<1>6. JobCount(n, u)' = c
  BY <1>3 DEF JobCount, JobsOf
<1>7. c + v <= 1 + (faults + crashes + lists)
  BY <1>1 DEF ListBounded, Possible, Excuses
<1>8. c + 0 <= faults' + crashes' + lists' /\ c + 0 <= 1 + (faults' + crashes' + lists')
      /\ 0 <= lists'
  BY <1>2, <1>3, <1>7
<1> QED
  BY <1>5, <1>6, <1>8 DEF FewOnTheirWay, ListBounded, Possible, Excuses

LEMMA NextListed ==
  ASSUME ListInv, [OptInNext]_optInVars PROVE ListInv'
<1>1. OptInTypeInv /\ OptInTypeInv' /\ TypeInv /\ UidsHandedOut /\ JobsListed
  BY OptInNextTyped, SkipTypes DEF ListInv
<1>2. UidsHandedOut'
  <2>1. ASSUME UNCHANGED <<api, nextUid, jobs, run>> PROVE UidsHandedOut'
    BY <1>1, <2>1 DEF UidsHandedOut
  <2>2. CASE LeaseStep
    BY <1>1, <2>2, LeaseStepIsNext, NextHandsOut
  <2>3. CASE ListObjects
    <3>1. ASSUME NEW t \in Threads, run'[t].pc \in Busy PROVE run'[t] = run[t]
      BY <1>1, <2>3, <3>1, ListStarts, StartedTyped DEF Busy
    <3> QED
      BY <1>1, <2>3, <3>1 DEF UidsHandedOut, ListObjects
  <2>4. CASE RestartAll
    BY <1>1, <2>4 DEF UidsHandedOut, RestartAll, Restart, Crash, Idle, Busy
  <2> QED
    BY <2>1, <2>2, <2>3, <2>4 DEF OptInNext, EventLoop, Relabel, Track, Receive, optInVars, vars
<1>3. ASSUME NEW n \in Names, NEW u \in Nat PROVE FewOnTheirWay(n)' /\ ListBounded(n, u)'
  <2>1. ASSUME UNCHANGED <<api, run, jobs, faults, crashes, lists>>
        PROVE  FewOnTheirWay(n)' /\ ListBounded(n, u)'
    BY <1>1, <2>1, CountsStay DEF JobsListed
  <2> QED
    BY <2>1, LeaseStepLists, ListCounts, RestartCounts
    DEF OptInNext, EventLoop, Relabel, Track, Receive, optInVars, vars, loopVars
<1>4. \A n \in Names : FewOnTheirWay(n)'
  BY <1>3
<1> QED
  BY <1>1, <1>2, <1>3, <1>4 DEF ListInv, JobsListed

LEMMA InitListed == ASSUME OptInInit PROVE ListInv
<1>1. OptInTypeInv /\ jobs = {} /\ faults = 0 /\ crashes = 0 /\ lists = 0 /\ nextUid = 1
  BY OptInInitTyped DEF OptInInit, LeaseInit
<1>2. UidsHandedOut
  BY <1>1, InputAssumption DEF OptInInit, LeaseInit, UidsHandedOut, Idle, Busy
<1>3. ASSUME NEW n \in Names, NEW u \in Nat PROVE FewOnTheirWay(n) /\ ListBounded(n, u)
  <2>1. OnTheirWay(n) = {} /\ JobsOf(n, u) = {}
    BY <1>1 DEF OnTheirWay, JobsOf, OptInInit, LeaseInit, Idle, Threads
  <2>2. IsFiniteSet(OnTheirWay(n)) /\ Cardinality(OnTheirWay(n)) = 0 /\ JobCount(n, u) = 0
    BY <2>1, FS_EmptySet DEF JobCount
  <2> QED
    BY <1>1, <2>2 DEF FewOnTheirWay, ListBounded, Possible, Excuses
<1>4. \A n \in Names : FewOnTheirWay(n)
  BY <1>3
<1> QED
  BY <1>1, <1>2, <1>3, <1>4 DEF ListInv, JobsListed

\* However many goroutines reconcile beside the worker, an incarnation gets at
\* most one Job, and one more for each failed call, crash and list: no list
\* starts two goroutines for an object, and no goroutine creates two Jobs.
THEOREM OneJobMoreForAList == OptInSpec => []JobsPerList
<1>1. OptInInit => ListInv
  BY InitListed
<1>2. ListInv /\ [OptInNext]_optInVars => ListInv'
  BY NextListed
<1>3. ListInv => JobsPerList
  <2> SUFFICES ASSUME ListInv, NEW j \in jobs
               PROVE  Cardinality({ k \in jobs : k.name = j.name /\ k.uid = j.uid })
                        <= 1 + faults + crashes + lists
    BY DEF JobsPerList
  <2>1. j.name \in Names /\ j.uid \in Nat
    BY DEF ListInv, OptInTypeInv, OptInTypeOK, TypeOK, JobRecord
  <2>2. OptInTypeInv /\ FewOnTheirWay(j.name) /\ ListBounded(j.name, j.uid)
    BY <2>1 DEF ListInv, JobsListed
  <2>3. /\ JobCount(j.name, j.uid) \in Nat /\ Cardinality(OnTheirWay(j.name)) \in Nat
        /\ faults \in Nat /\ crashes \in Nat /\ lists \in Nat
    BY <2>2, ListTypes
  <2>4. JobCount(j.name, j.uid) + Cardinality(OnTheirWay(j.name)) <= 1 + (faults + crashes + lists)
    BY <2>2 DEF ListBounded, Possible, Excuses
  <2>5. JobCount(j.name, j.uid) <= 1 + faults + crashes + lists
    BY ONLY <2>3, <2>4
  <2> QED
    BY <2>5 DEF JobCount, JobsOf
<1> QED
  BY <1>1, <1>2, <1>3, PTL DEF OptInSpec

-----------------------------------------------------------------------------
(* Deletions. What LeaseController promises of them holds in opt-in mode,    *)
(* too: the event loop starts reconciles beside the worker, and they read    *)
(* the object and the clock for themselves.                                  *)

\* A step of the reconciler, of its tracker, of the event loop or of the process
\* as a whole changes no object, starts reconciles from their filter or ends
\* them, and makes no fault undone.
LEMMA AsideMoves ==
  ASSUME OptInTypeInv, [OptInNext]_optInVars, ~LeaseStep
  PROVE  /\ UNCHANGED <<api, clock, jobs>> /\ faults <= faults'
         /\ held' = held \/ held' = held \cup HeldNow'
         /\ \A t \in Threads : \/ run'[t] = run[t]
                               \/ run'[t] = Idle
                               \/ \E n \in Names : run'[t] = Started(n)
<1>1. faults \in Nat
  BY SkipTypes
<1>2. CASE UNCHANGED optInVars
  BY <1>1, <1>2 DEF optInVars, vars
<1>3. ASSUME NEW ns \in Namespaces, Relabel(ns) \/ Track(ns)
      PROVE  UNCHANGED <<api, clock, jobs, held, run, faults>>
  BY <1>3 DEF Relabel, Track, vars
<1>4. CASE Receive
  BY <1>1, <1>4 DEF Receive
<1>5. CASE ListObjects
  <2>1. UNCHANGED <<api, clock, jobs, held>> /\ (faults' = faults \/ faults' = faults + 1)
    BY <1>5 DEF ListObjects, Fault
  <2> QED
    BY <1>1, <1>5, <2>1, ListStarts
<1>6. CASE RestartAll
  BY <1>1, <1>6 DEF RestartAll, Restart, Crash
<1> QED
  BY <1>1, <1>2, <1>3, <1>4, <1>5, <1>6 DEF OptInNext, EventLoop

LEMMA AsideJudges ==
  ASSUME OptInTypeInv, NamesJudged, [OptInNext]_optInVars, ~LeaseStep
  PROVE  NamesJudged'
<1>1. /\ UNCHANGED <<api, clock>> /\ held \subseteq held' /\ clock \in Nat
      /\ held' = held \/ held' = held \cup HeldNow'
  BY AsideMoves, SkipTypes, ClockAssumption DEF TypeInv, TypeOK
<1>2. HeldNow' = HeldNow
  BY <1>1 DEF HeldNow
<1>3. ASSUME NEW t \in Threads PROVE JudgesName(t)'
  <2>1. CASE run'[t] = run[t]
    BY <1>1, <2>1 DEF NamesJudged, JudgesName, NameIsDoomed
  <2>2. ASSUME run'[t] = Idle \/ \E n \in Names : run'[t] = Started(n) PROVE JudgesName(t)'
    <3>1. run'[t].now = 0 /\ run'[t].pc \in {"idle", "filter"}
      BY <2>2, FreshReading
    <3> QED
      BY <1>1, <3>1 DEF JudgesName, Doomed
  <2> QED
    BY <2>1, <2>2, AsideMoves
<1> QED
  BY <1>1, <1>2, <1>3 DEF NamesJudged, Threads

LEMMA OptInJudges ==
  ASSUME OptInTypeInv, NamesJudged, [OptInNext]_optInVars PROVE NamesJudged'
<1>1. TypeInv /\ (LeaseStep => Next)
  BY SkipTypes, LeaseStepIsNext
<1> QED
  BY <1>1, NextJudgesNames, AsideJudges

\* In opt-in mode, too, the controller deletes only under names of which some
\* object was overdue by a ttl and lease-start it held; however the worker, the
\* goroutines of a list, users who delete and create, changes of labels, failed
\* calls and restarts come together.
THEOREM NoNameWithoutOverdueInOptIn == OptInSpec => OnlyOverdueNamesDeleted
<1> DEFINE Inv == OptInTypeInv /\ NamesJudged
           Due == \A n \in Names :
                    ControllerDeletes(n) => \E v \in held : v.name = n /\ Overdue(v, clock)
<1>1. OptInInit => Inv
  BY OptInInitTyped, InitJudgesNames DEF OptInInit
<1>2. Inv /\ [OptInNext]_optInVars => Inv'
  BY OptInNextTyped, OptInJudges
<1>3. Inv => [Due]_vars
  BY DoomedWhenDeleted
<1> QED
  BY <1>1, <1>2, <1>3, PTL DEF OptInSpec, OnlyOverdueNamesDeleted

LEMMA AsideHasJobs ==
  ASSUME OptInTypeInv, OptInTypeInv', CleanupInv, [OptInNext]_optInVars, ~LeaseStep
  PROVE  CleanupInv'
<1>1. /\ TypeInv' /\ UNCHANGED <<clock, jobs>>
      /\ faults \in Nat /\ faults' \in Nat /\ faults <= faults'
  <2>1. faults' \in Nat
    BY BoundAssumption DEF OptInTypeInv, OptInTypeOK, TypeOK
  <2>2. TypeInv'
    BY DEF OptInTypeInv, OptInTypeOK, TypeInv
  <2> QED
    BY <2>1, <2>2, AsideMoves, SkipTypes
<1>2. JobsNumbered'
  BY <1>1 DEF CleanupInv, JobsNumbered
<1>3. ASSUME NEW t \in Threads PROVE JobIsThere(t)'
  <2>1. CASE run'[t] = run[t]
    <3>1. faults' = 0 => faults = 0
      BY <1>1
    <3> QED
      BY <1>1, <2>1, <3>1 DEF CleanupInv, JobIsThere
  <2>2. ASSUME run'[t] = Idle \/ \E n \in Names : run'[t] = Started(n) PROVE JobIsThere(t)'
    <3>1. run'[t].pc \in {"idle", "filter"}
      BY <2>2, FreshReading
    <3> QED
      BY <3>1, JobNotNeeded
  <2> QED
    BY <2>1, <2>2, AsideMoves
<1> QED
  BY <1>1, <1>2, <1>3 DEF CleanupInv, Threads

\* The cleanup comes first in opt-in mode, too: however the worker and the
\* goroutines of a list overtake each other, an object is deleted only after a
\* Job was created for this very incarnation and, if it asked to wait, after that
\* Job ended or had its time; as long as no call fails.
THEOREM CleanupComesFirstInOptIn == OptInSpec => CleanupBeforeDelete
<1> DEFINE Inv == OptInTypeInv /\ CleanupInv
           Cleaned == \A n \in Names, t \in Threads :
              DeletedBy(t, n) /\ faults' = 0 /\ run[t].obj.job \in {"fire", "wait"} =>
                \E j \in jobs : /\ j.name = n
                                /\ j.uid = api[n].uid
                                /\ run[t].obj.job = "wait" =>
                                     j.state # "running" \/ clock >= j.deadline
<1>1. OptInInit => Inv
  BY OptInInitTyped, SkipTypes DEF OptInInit, LeaseInit, Idle, CleanupInv, JobsNumbered, JobIsThere
<1>2. Inv /\ [OptInNext]_optInVars => Inv'
  <2> SUFFICES ASSUME OptInTypeInv, CleanupInv, [OptInNext]_optInVars PROVE Inv'
    OBVIOUS
  <2>1. OptInTypeInv' /\ (LeaseStep => CleanupInv')
    BY OptInNextTyped, LeaseStepIsNext, NextHasJobs
  <2> QED
    BY <2>1, AsideHasJobs
<1>3. Inv /\ [OptInNext]_optInVars => [Cleaned]_vars
  <2> SUFFICES ASSUME Inv, [OptInNext]_optInVars, NEW n \in Names, NEW t \in Threads,
                      DeletedBy(t, n), faults' = 0, run[t].obj.job \in {"fire", "wait"}
               PROVE  \E j \in jobs : /\ j.name = n
                                      /\ j.uid = api[n].uid
                                      /\ run[t].obj.job = "wait" =>
                                           j.state # "running" \/ clock >= j.deadline
    OBVIOUS
  <2>1. TypeInv /\ JobIsThere(t)
    BY DEF CleanupInv
  <2>2. Next
    <3>1. api' # api
      BY DEF DeletedBy
    <3> QED
      BY <3>1, AsideMoves, LeaseStepIsNext
  <2>3. UIDPrecondition(api[n], run[t].obj) /\ faults = 0
    BY <2>1, <2>2, DeletionIsDelete, HarmGrows
  <2>4. run[t].pc = "delete" /\ run[t].name = n
    BY DEF DeletedBy
  <2> QED
    BY <2>1, <2>3, <2>4 DEF JobIsThere, UIDPrecondition
<1> QED
  BY <1>1, <1>2, <1>3, PTL DEF OptInSpec, CleanupBeforeDelete

-----------------------------------------------------------------------------
(* Coming back. The goroutine that writes a lease-start drops the time to    *)
(* come back at; its write wakes the worker, which keeps that time. As long  *)
(* as a lease runs, a change of it is on its way to the worker, its name is  *)
(* in the queue, or the worker is on it with a copy that is up to date.      *)

LeaseTTLs == UserTTLs \cup { o.ttl : o \in InitialObjects }
Stamped   == { Format(t) : t \in Instants }

\* No lease has started before the controller, and users start none.
FreshLeases == /\ \A o \in InitialObjects : ~HasLeaseStart(o)
               /\ UserStarts \cap Int = {}

\* No reading of the clock falls on the end of a lease that was written.
NoReadingOnTheEnd == \A s \in Stamped : \A d \in LeaseTTLs \cap Int : s + d \notin Instants

\* What is written in objects comes from readings and users.
Clocked ==
  /\ \A t \in Threads : run[t].pc = "patchStart" => run[t].now \in Instants
  /\ \A n \in Names : api[n] # Gone =>
       /\ api[n].ttl \in LeaseTTLs
       /\ HasLeaseStart(api[n]) => api[n].start \in Stamped

\* Undisturbed, dropped events aside.
Calm == faults = 0 /\ crashes = 0 /\ relabels <= 1

\* A reconcile has got past its filter with n, now or before.
Begun(n) == \/ api[n] # Gone /\ HasLeaseStart(api[n])
            \/ \E t \in Threads : run[t].name = n /\ run[t].pc \notin {"idle", "filter"}

\* Then its namespace is tracked, unless it has left since.
BegunIsTracked ==
  /\ relabels = 0 => tracked \subseteq optedIn
  /\ \A n \in Names :
       Begun(n) /\ (relabels = 0 \/ NamespaceOf[n] \in optedIn) => NamespaceOf[n] \in tracked

Running(n) == /\ api[n] # Gone
              /\ api[n].ttl \in Durations
              /\ HasLeaseStart(api[n])
              /\ api[n].start + api[n].ttl <= Horizon

\* The worker will take n up again, or should have been woken to.
Awaited(n) == due[n] # Never \/ Passing(seen[n], pending[n]) \/ n \in missed

\* It is dealing with n, and with what the object says now.
WorkerOn(n) ==
  /\ W.name = n
  /\ \/ W.pc \in {"filter", "get"} \cup Doomed
     \/ W.pc = "time" /\ W.obj.ttl = api[n].ttl /\ W.obj.start = api[n].start
     \/ W.pc = "patchActive" /\ W.expireAt = api[n].start + api[n].ttl /\ W.now < W.expireAt

ComingBack ==
  \A n \in Names : NamespaceOf[n] \in optedIn /\ Running(n) => Awaited(n) \/ WorkerOn(n)

BackInv == SkipInv /\ Clocked /\ (Calm => BegunIsTracked /\ ComingBack)

\* A step after which the lease of n is the one it was.
SameLease(n) == /\ api'[n] = Gone <=> api[n] = Gone
                /\ api[n] # Gone => api'[n].ttl = api[n].ttl /\ api'[n].start = api[n].start

AwaitedNext(n) == due'[n] # Never \/ Passing(seen'[n], pending'[n]) \/ n \in missed'

LEMMA AwaitedThen == ASSUME NEW n PROVE AwaitedNext(n) <=> Awaited(n)'
  BY DEF AwaitedNext, Awaited, Passing, ViewAt, onlyWithTTLAnnotation

\* Every clock reading comes before Never.
LEMMA StirredAwaits ==
  ASSUME TypeInv', NEW n \in Names, StirredNext(n) PROVE AwaitedNext(n)
<1>1. clock' \in Int /\ clock' <= Horizon /\ Never = Horizon + 1 /\ Horizon \in Int
  BY TimeTypes, ClockAssumption DEF TypeInv, TypeOK, Never
<1> QED
  BY <1>1 DEF StirredNext, AwaitedNext

LEMMA AwaitedStays ==
  ASSUME TypeInv, TypeInv', NEW n \in Names, Awaited(n), Stirred(n) => StirredNext(n),
         due'[n] <= due[n]
  PROVE  AwaitedNext(n)
<1>1. due[n] \in 0 .. Never /\ due'[n] \in 0 .. Never /\ Never \in Int
  BY TimeTypes DEF TypeInv, TypeOK
<1>2. CASE due[n] # Never
  BY <1>1, <1>2 DEF AwaitedNext
<1>3. CASE Passing(seen[n], pending[n]) \/ n \in missed
  BY <1>3, StirredAwaits DEF Stirred
<1> QED
  BY <1>2, <1>3 DEF Awaited

-----------------------------------------------------------------------------
(* What steps make of leases.                                               *)

\* A write that makes another lease of n, and one that runs, stirs n.
LEMMA OtherLeaseStirs ==
  ASSUME TypeInv, Linked, NEW n \in Names, NEW m \in Names, NEW o \in Object \cup {Gone},
         Write(m, o), seen' = seen, Running(n)', ~SameLease(n)
  PROVE  StirredNext(n)
<1>1. api'[m] = o /\ \A k \in Names \ {m} : api'[k] = api[k]
  BY WriteShows
<1>2. n = m
  BY <1>1 DEF SameLease
<1>3. o \in Object /\ o.ttl \in Durations
  BY <1>1, <1>2 DEF Running
<1>4. api[n] = Gone \/ api[n].ttl # o.ttl \/ api[n].start # o.start
  BY <1>1, <1>2, <1>3 DEF SameLease, Running
<1>5. Write(n, o) /\ o.ttl # Absent
  BY <1>2, <1>3, MarkAssumption DEF Durations
<1> QED
  BY <1>3, <1>4, <1>5, ShownStirs

\* What a patch makes of the object under the name of a thread.
LEMMA PatchMakes ==
  ASSUME TypeInv, NEW t \in Threads, run[t].pc \in Busy, NEW new \in Object,
         \E after \in PatchResults(t, new) : Patch(t, new, after)
  PROVE  LET n == run[t].name IN
         \/ api' = api
         \/ /\ api[n] \in Object /\ api'[n] \in Object
            /\ api'[n].ttl = api[n].ttl
            /\ api'[n].start = PatchValue(run[t].obj.start, new.start, api[n].start)
            /\ \A m \in Names \ {n} : api'[m] = api[m]
<1> DEFINE n == run[t].name
           merged == MergePatch(api[n], run[t].obj, new)
<1>1. n \in Names /\ run[t].obj \in Object /\ (api[n] # Gone => api[n] \in Object)
  BY DEF TypeInv, TypeOK, InFlight, Busy
<1>2. api' = api \/ (api[n] # Gone /\ Write(n, merged))
  BY DEF Patch
<1>3. ASSUME api[n] # Gone
      PROVE  /\ merged \in Object /\ merged.ttl = api[n].ttl
             /\ merged.start = PatchValue(run[t].obj.start, new.start, api[n].start)
  <2>1. merged \in Object
    BY <1>1, <1>3, MergeType
  <2> QED
    BY <1>1, <1>3, <2>1 DEF MergePatch, Object
<1>4. Write(n, merged) => api'[n] = merged /\ \A m \in Names \ {n} : api'[m] = api[m]
  BY <1>1 DEF Write, TypeInv, TypeOK
<1> QED
  BY <1>1, <1>2, <1>3, <1>4

\* A step of a thread leaves the ttl alone, and the only lease-start it may write
\* is the reading it took.
LEMMA StepStamps ==
  ASSUME TypeInv, NEW t \in Threads, ReconcileStep(t), NEW n \in Names, api'[n] # Gone
  PROVE  /\ api[n] # Gone
         /\ api'[n].ttl = api[n].ttl
         /\ \/ api'[n].start = api[n].start
            \/ api'[n].start = Absent
            \/ /\ run[t].pc = "patchStart" /\ run[t].name = n
               /\ api'[n].start = Format(run[t].now)
<1>1. run[t] \in Reconcile /\ (run[t].pc \in Busy => run[t].obj \in Object)
  BY DEF TypeInv, TypeOK, InFlight, Busy
<1>2. CASE api' = api
  BY <1>2
<1>3. ASSUME run[t].pc \in Busy, NEW new \in Object, new.start = run[t].obj.start,
             \E after \in PatchResults(t, new) : Patch(t, new, after)
      PROVE  api[n] # Gone /\ api'[n].ttl = api[n].ttl /\ api'[n].start = api[n].start
  <2>1. \/ api' = api
        \/ /\ api[run[t].name] \in Object
           /\ api'[run[t].name].ttl = api[run[t].name].ttl
           /\ api'[run[t].name].start = api[run[t].name].start
           /\ \A m \in Names \ {run[t].name} : api'[m] = api[m]
    BY <1>3, PatchMakes DEF PatchValue
  <2> QED
    BY <2>1, InputAssumption
<1>4. CASE Clean(t)
  <2> DEFINE new == WithoutLeaseAnns(run[t].obj)
  <2>1. run[t].pc \in Busy
    BY <1>4 DEF Clean, Busy, Phases
  <2>2. new \in Object /\ new.start = Absent
    BY <1>1, <2>1, ClearedTypes DEF WithoutLeaseAnns, Object
  <2>3. \/ api' = api
        \/ /\ api[run[t].name] \in Object
           /\ api'[run[t].name].ttl = api[run[t].name].ttl
           /\ api'[run[t].name].start \in {Absent, api[run[t].name].start}
           /\ \A m \in Names \ {run[t].name} : api'[m] = api[m]
    BY <1>4, <2>1, <2>2, PatchMakes DEF Clean, PatchValue
  <2> QED
    BY <2>3, InputAssumption
<1>5. CASE PatchStart(t)
  <2> DEFINE new == [run[t].obj EXCEPT !.start = Format(run[t].now)]
  <2>1. run[t].pc = "patchStart" /\ run[t].pc \in Busy /\ run[t].now \in Int
    BY <1>1, <1>5 DEF PatchStart, Busy, Phases, Reconcile
  <2>2. new \in Object /\ new.start = Format(run[t].now)
    BY <1>1, <2>1, StampedTypes DEF Object
  <2>3. \/ api' = api
        \/ /\ api[run[t].name] \in Object
           /\ api'[run[t].name].ttl = api[run[t].name].ttl
           /\ api'[run[t].name].start \in {new.start, api[run[t].name].start}
           /\ \A m \in Names \ {run[t].name} : api'[m] = api[m]
    BY <1>5, <2>1, <2>2, PatchMakes DEF PatchStart, PatchValue
  <2> QED
    BY <2>1, <2>2, <2>3, InputAssumption
<1>6. CASE PatchInvalid(t)
  <2> DEFINE new == [run[t].obj EXCEPT !.status = BadTTL]
  <2>1. run[t].pc \in Busy
    BY <1>6 DEF PatchInvalid, Busy, Phases
  <2>2. new \in Object /\ new.start = run[t].obj.start
    BY <1>1, <2>1, ClearedTypes DEF Object
  <2> QED
    BY <1>3, <1>6, <2>1, <2>2 DEF PatchInvalid
<1>7. CASE PatchActive(t)
  <2> DEFINE new == [run[t].obj EXCEPT !.expireAt = Format(run[t].expireAt), !.status = Active(run[t].expireAt)]
  <2>1. run[t].pc \in Busy /\ run[t].expireAt \in Int
    BY <1>1, <1>7 DEF PatchActive, Busy, Phases, Reconcile
  <2>2. new \in Object /\ new.start = run[t].obj.start
    BY <1>1, <2>1, StampedTypes DEF Object
  <2> QED
    BY <1>3, <1>7, <2>1, <2>2 DEF PatchActive
<1>8. CASE PatchExpired(t)
  <2> DEFINE new == [run[t].obj EXCEPT !.expireAt = Format(run[t].expireAt), !.status = ExpiredStatus]
  <2>1. run[t].pc \in Busy /\ run[t].expireAt \in Int
    BY <1>1, <1>8 DEF PatchExpired, Busy, Phases, Reconcile
  <2>2. new \in Object /\ new.start = run[t].obj.start
    BY <1>1, <2>1, StampedTypes DEF Object
  <2> QED
    BY <1>3, <1>8, <2>1, <2>2 DEF PatchExpired
<1>9. CASE Delete(t)
  <2>1. api' = api \/ Write(run[t].name, Gone)
    BY <1>9 DEF Delete
  <2>2. Write(run[t].name, Gone) => api'[n] = Gone \/ api'[n] = api[n]
    BY DEF Write, TypeInv, TypeOK
  <2> QED
    BY <2>1, <2>2
<1> QED
  BY <1>2, <1>4, <1>5, <1>6, <1>7, <1>8, <1>9
  DEF ReconcileStep, Filter, Get, ReadClock, CreateJob, WaitJob

\* The reading a lease-start will be written from is one of the clock.
LEMMA StepReads ==
  ASSUME TypeInv, NEW t \in Threads, ReconcileStep(t), run'[t].pc = "patchStart"
  PROVE  run'[t].now = clock
<1>1. run \in [Threads -> Reconcile] /\ run[t] \in Reconcile
  BY DEF TypeInv, TypeOK
<1>2. ASSUME NEW when, Return(t, when) PROVE FALSE
  BY <1>1, <1>2 DEF Return, Idle
<1>3. ASSUME NEW o, NEW s, NEW reading, run' = [run EXCEPT ![t] = Decided(t, o, s, reading)]
      PROVE  FALSE
  <2>1. Verdict(o.ttl, s, reading) \in {"markInvalid", "expire", "activate"}
    BY DEF Verdict
  <2>2. run'[t].pc \in {"patchInvalid", "patchExpired", "patchActive"}
    BY <1>1, <1>3, <2>1 DEF Decided, Reconcile
  <2> QED
    BY <2>2
<1>4. CASE Filter(t)
  BY <1>1, <1>2, <1>4 DEF Filter, Reconcile
<1>5. CASE Get(t)
  BY <1>1, <1>2, <1>5 DEF Get, Reconcile
<1>6. CASE Clean(t) \/ PatchInvalid(t) \/ PatchActive(t) \/ Delete(t)
  BY <1>2, <1>6 DEF Clean, PatchInvalid, PatchActive, Delete
<1>7. CASE ReadClock(t)
  <2>1. CASE HasLeaseStart(run[t].obj)
    BY <1>3, <1>7, <2>1 DEF ReadClock
  <2>2. CASE ~HasLeaseStart(run[t].obj)
    BY <1>1, <1>7, <2>2 DEF ReadClock, Reconcile
  <2> QED
    BY <2>1, <2>2
<1>8. CASE PatchStart(t)
  BY <1>3, <1>8 DEF PatchStart
<1>9. CASE PatchExpired(t)
  <2>1. PICK after : run' = [run EXCEPT ![t].obj = after,
                               ![t].pc = IF after.job \in {"fire", "wait"} THEN "createJob" ELSE "delete"]
    BY <1>9 DEF PatchExpired
  <2> QED
    BY <1>1, <2>1 DEF Reconcile
<1>10. CASE CreateJob(t)
  <2>1. \/ \E pc \in {"waitJob", "delete"} :
             \E id : run' = [run EXCEPT ![t].pc = pc, ![t].job = id]
        \/ run' = [run EXCEPT ![t].pc = "delete"]
    BY <1>10 DEF CreateJob
  <2> QED
    BY <1>1, <2>1 DEF Reconcile
<1>11. CASE WaitJob(t)
  BY <1>1, <1>11 DEF WaitJob, Reconcile
<1> QED
  BY <1>4, <1>5, <1>6, <1>7, <1>8, <1>9, <1>10, <1>11 DEF ReconcileStep

\* What users write comes from their sets, or was there.
LEMMA UserStamps ==
  ASSUME TypeInv, NEW m \in Names,
         UserCreate(m) \/ UserSetTTL(m) \/ UserSetStart(m) \/ UserSetJob(m) \/ UserDelete(m),
         NEW n \in Names, api'[n] # Gone
  PROVE  \/ api[n] # Gone /\ api'[n].ttl = api[n].ttl /\ api'[n].start = api[n].start
         \/ /\ api'[n].ttl \in UserTTLs \/ (api[n] # Gone /\ api'[n].ttl = api[n].ttl)
            /\ api'[n].start \in UserStarts \/ (api[n] # Gone /\ api'[n].start = api[n].start)
<1>1. api \in [Names -> Object \cup {Gone}]
  BY DEF TypeInv, TypeOK
<1>2. ASSUME NEW o, UserWrite(m, o) PROVE api'[m] = o /\ (n # m => api'[n] = api[n])
  BY <1>1, <1>2 DEF UserWrite, Write
<1>3. CASE n # m
  BY <1>2, <1>3 DEF UserCreate, UserSetTTL, UserSetStart, UserSetJob, UserDelete
<1>4. CASE n = m
  <2>1. CASE UserCreate(m)
    <3>1. PICK ttl \in UserTTLs, start \in UserStarts, job \in UserJobs :
            UserWrite(m, [uid |-> nextUid, ttl |-> ttl, start |-> start,
                          expireAt |-> Absent, status |-> Absent, job |-> job])
      BY <2>1 DEF UserCreate
    <3>2. api'[m] = [uid |-> nextUid, ttl |-> ttl, start |-> start,
                     expireAt |-> Absent, status |-> Absent, job |-> job]
      BY <1>2, <3>1
    <3>3. api'[m].ttl = ttl /\ api'[m].start = start
      BY <3>2
    <3> QED
      BY <1>4, <3>3
  <2>2. CASE UserSetTTL(m)
    <3>1. PICK ttl \in UserTTLs : UserWrite(m, [api[m] EXCEPT !.ttl = ttl])
      BY <2>2 DEF UserSetTTL
    <3>2. api'[m] = [api[m] EXCEPT !.ttl = ttl] /\ api[m] # Gone /\ api[m] \in Object
      BY <1>1, <1>2, <2>2, <3>1 DEF UserSetTTL
    <3> QED
      BY <1>4, <3>2 DEF Object
  <2>3. CASE UserSetStart(m)
    <3>1. PICK start \in UserStarts : UserWrite(m, [api[m] EXCEPT !.start = start])
      BY <2>3 DEF UserSetStart
    <3>2. api'[m] = [api[m] EXCEPT !.start = start] /\ api[m] # Gone /\ api[m] \in Object
      BY <1>1, <1>2, <2>3, <3>1 DEF UserSetStart
    <3> QED
      BY <1>4, <3>2 DEF Object
  <2>4. CASE UserSetJob(m)
    <3>1. PICK job \in UserJobs : UserWrite(m, [api[m] EXCEPT !.job = job])
      BY <2>4 DEF UserSetJob
    <3>2. api'[m] = [api[m] EXCEPT !.job = job] /\ api[m] # Gone /\ api[m] \in Object
      BY <1>1, <1>2, <2>4, <3>1 DEF UserSetJob
    <3> QED
      BY <1>4, <3>2 DEF Object
  <2>5. CASE UserDelete(m)
    BY <1>2, <1>4, <2>5 DEF UserDelete
  <2> QED
    BY <2>1, <2>2, <2>3, <2>4, <2>5
<1> QED
  BY <1>3, <1>4

-----------------------------------------------------------------------------
(* The steps.                                                               *)

\* A thread past its filter has just passed it, or was there before.
LEMMA PastFilter ==
  ASSUME TypeInv, Next, NEW t \in Threads, run'[t].pc \notin {"idle", "filter"}
  PROVE  /\ run'[t].name = run[t].name
         /\ \/ run[t].pc \notin {"idle", "filter"}
            \/ run[t].pc = "filter" /\ NamespaceOf[run[t].name] \in tracked
<1>1. run \in [Threads -> Reconcile]
  BY DEF TypeInv, TypeOK
<1>2. ASSUME NEW n \in Names, Dequeue(n), t = Worker PROVE run'[t].pc = "filter"
  BY <1>1, <1>2 DEF Dequeue, Started, Idle
<1>3. Crash => run'[t].pc = "idle"
  BY DEF Crash, Idle
<1>4. CASE run'[t] = run[t]
  BY <1>4
<1>5. CASE ReconcileStep(t)
  BY <1>5, StepConsents
<1> QED
  BY <1>2, <1>3, <1>4, <1>5, ThreadMoves

LEMMA LeaseStepClocked ==
  ASSUME TypeInv, LeaseStep, FreshLeases, Clocked PROVE Clocked'
<1>1. Next /\ run \in [Threads -> Reconcile] /\ clock \in Instants /\ Instants \subseteq Int
  BY LeaseStepIsNext, TimeTypes DEF TypeInv, TypeOK
<1>2. ASSUME NEW t \in Threads, run'[t].pc = "patchStart" PROVE run'[t].now \in Instants
  <2>1. CASE run'[t] = run[t]
    BY <1>2, <2>1 DEF Clocked
  <2>2. CASE ReconcileStep(t)
    BY <1>1, <1>2, <2>2, StepReads
  <2>3. ASSUME NEW n \in Names, Dequeue(n), t = Worker PROVE FALSE
    BY <1>1, <1>2, <2>3 DEF Dequeue, Started, Idle
  <2>4. ~Crash
    BY <1>2 DEF Crash, Idle
  <2> QED
    BY <1>1, <2>1, <2>2, <2>3, <2>4, ThreadMoves
<1>3. ASSUME NEW n \in Names, api'[n] # Gone
      PROVE  api'[n].ttl \in LeaseTTLs /\ (api'[n].start \in Int => api'[n].start \in Stamped)
  <2>1. CASE api'[n] = api[n]
    BY <1>3, <2>1 DEF Clocked, HasLeaseStart
  <2>2. ASSUME NEW t \in Threads, ReconcileStep(t)
        PROVE  api'[n].ttl \in LeaseTTLs /\ (api'[n].start \in Int => api'[n].start \in Stamped)
    <3>1. api[n] # Gone /\ api'[n].ttl = api[n].ttl
      BY <1>1, <1>3, <2>2, StepStamps
    <3>2. CASE api'[n].start = api[n].start
      BY <3>1, <3>2 DEF Clocked, HasLeaseStart
    <3>3. CASE api'[n].start = Absent
      BY <3>1, <3>3, MarkAssumption DEF Clocked
    <3>4. CASE run[t].pc = "patchStart" /\ api'[n].start = Format(run[t].now)
      BY <3>1, <3>4 DEF Clocked, Stamped
    <3> QED
      BY <1>1, <1>3, <2>2, <3>2, <3>3, <3>4, StepStamps
  <2>3. ASSUME NEW m \in Names,
               UserCreate(m) \/ UserSetTTL(m) \/ UserSetStart(m) \/ UserSetJob(m) \/ UserDelete(m)
        PROVE  api'[n].ttl \in LeaseTTLs /\ (api'[n].start \in Int => api'[n].start \in Stamped)
    BY <1>3, <2>3, UserStamps DEF Clocked, HasLeaseStart, FreshLeases, LeaseTTLs
  <2> QED
    BY <2>1, <2>2, <2>3 DEF LeaseStep, System, World, Users, Dequeue, Deliver, Tick,
       FinishJob, Miss
<1> QED
  BY <1>2, <1>3 DEF Clocked, HasLeaseStart

LEMMA NextClocked ==
  ASSUME OptInTypeInv, [OptInNext]_optInVars, FreshLeases, Clocked PROVE Clocked'
<1>1. TypeInv
  BY SkipTypes
<1>2. ASSUME UNCHANGED <<api, run>> PROVE Clocked'
  BY <1>2 DEF Clocked, HasLeaseStart
<1>3. CASE LeaseStep
  BY <1>1, <1>3, LeaseStepClocked
<1>4. CASE ListObjects
  <2>1. ASSUME NEW t \in Threads, run'[t].pc = "patchStart" PROVE run'[t] = run[t]
    BY <1>4, <2>1, ListStarts, StartedTyped
  <2> QED
    BY <1>4, <2>1 DEF Clocked, HasLeaseStart, ListObjects
<1>5. CASE RestartAll
  BY <1>5 DEF RestartAll, Restart, Crash, Idle, Clocked, HasLeaseStart
<1> QED
  BY <1>2, <1>3, <1>4, <1>5 DEF OptInNext, EventLoop, Relabel, Track, Receive, optInVars, vars

LEMMA LeaseStepBegun ==
  ASSUME TypeInv, LeaseStep, FreshLeases, NEW n \in Names, Begun(n)'
  PROVE  Begun(n) \/ NamespaceOf[n] \in tracked
<1>1. Next
  BY LeaseStepIsNext
<1>2. ASSUME NEW t \in Threads, run'[t].name = n, run'[t].pc \notin {"idle", "filter"}
      PROVE  Begun(n) \/ NamespaceOf[n] \in tracked
  BY <1>1, <1>2, PastFilter DEF Begun
<1>3. ASSUME api'[n] # Gone, api'[n].start \in Int PROVE Begun(n)
  <2>1. CASE api'[n] = api[n]
    BY <1>3, <2>1 DEF Begun, HasLeaseStart
  <2>2. ASSUME NEW t \in Threads, ReconcileStep(t) PROVE Begun(n)
    BY <1>3, <2>2, StepStamps, MarkAssumption DEF Begun, HasLeaseStart
  <2>3. ASSUME NEW m \in Names,
               UserCreate(m) \/ UserSetTTL(m) \/ UserSetStart(m) \/ UserSetJob(m) \/ UserDelete(m)
        PROVE  Begun(n)
    BY <1>3, <2>3, UserStamps DEF Begun, HasLeaseStart, FreshLeases
  <2> QED
    BY <2>1, <2>2, <2>3 DEF LeaseStep, System, World, Users, Dequeue, Deliver, Tick,
       FinishJob, Miss
<1> QED
  BY <1>2, <1>3 DEF Begun, HasLeaseStart

\* What the tracker does about one namespace leaves the others alone.
LEMMA TrackOne ==
  ASSUME NEW ns \in Namespaces, Track(ns)
  PROVE  \/ ns \in optedIn /\ tracked' = tracked \cup {ns}
         \/ ns \notin optedIn /\ ns \in tracked /\ tracked' = tracked \ {ns}
  BY DEF Track, Tracker!AddNamespace, Tracker!RemoveNamespace

\* The label of a namespace changes once at most, so one that is in has not left.
LEMMA NextBegun ==
  ASSUME OptInTypeInv, [OptInNext]_optInVars, FreshLeases, Calm', BegunIsTracked
  PROVE  BegunIsTracked'
<1>1. /\ TypeInv /\ crashes \in Nat /\ relabels \in Nat
      /\ \A n \in Names : NamespaceOf[n] \in Namespaces
  BY SkipTypes, BoundAssumption, OptInBoundAssumption DEF OptInTypeInv, OptInTypeOK, TypeOK
<1>2. ASSUME UNCHANGED <<tracked, optedIn, relabels>>,
             \A n \in Names : Begun(n)' => Begun(n) \/ NamespaceOf[n] \in tracked
      PROVE  BegunIsTracked'
  BY <1>2 DEF BegunIsTracked
<1>3. ASSUME UNCHANGED <<api, run>>, NEW n \in Names, Begun(n)' PROVE Begun(n)
  BY <1>3 DEF Begun, HasLeaseStart
<1>4. CASE UNCHANGED optInVars
  BY <1>2, <1>3, <1>4 DEF optInVars, vars, labelVars
<1>5. CASE LeaseStep
  <2>1. UNCHANGED <<tracked, optedIn, relabels>>
    BY <1>5 DEF LeaseStep, System, World, Users, outerVars, labelVars
  <2> QED
    BY <1>1, <1>2, <1>5, <2>1, LeaseStepBegun
<1>6. ASSUME NEW ns \in Namespaces, Relabel(ns) PROVE BegunIsTracked'
  <2>1. relabels = 0 /\ relabels' # 0 /\ UNCHANGED <<api, run, tracked>>
    BY <1>1, <1>6 DEF Relabel, vars, Calm
  <2> QED
    BY <1>3, <2>1 DEF BegunIsTracked
<1>7. ASSUME NEW ns \in Namespaces, Track(ns) PROVE BegunIsTracked'
  <2>1. UNCHANGED <<api, run, optedIn, relabels>>
    BY <1>7 DEF Track, labelVars
  <2>2. CASE ns \in optedIn
    <3>1. tracked' = tracked \cup {ns}
      BY <1>7, <2>2, TrackOne
    <3> QED
      BY <1>3, <2>1, <2>2, <3>1 DEF BegunIsTracked
  <2>3. CASE ns \notin optedIn
    <3>1. ns \in tracked /\ tracked' = tracked \ {ns}
      BY <1>7, <2>3, TrackOne
    <3>2. relabels # 0
      BY <2>3, <3>1 DEF BegunIsTracked
    <3> QED
      BY <1>3, <2>1, <2>3, <3>1, <3>2 DEF BegunIsTracked
  <2> QED
    BY <2>2, <2>3
<1>8. CASE Receive
  BY <1>2, <1>3, <1>8 DEF Receive, Tracker!TakeEvent, labelVars
<1>9. CASE ListObjects
  <2>1. ASSUME NEW t \in Threads, run'[t].pc \notin {"idle", "filter"} PROVE run'[t] = run[t]
    BY <1>9, <2>1, ListStarts, StartedTyped
  <2>2. UNCHANGED <<api, tracked, optedIn, relabels>>
    BY <1>9 DEF ListObjects, labelVars
  <2>3. ASSUME NEW n \in Names, Begun(n)' PROVE Begun(n)
    BY <2>1, <2>2, <2>3 DEF Begun, HasLeaseStart
  <2> QED
    BY <1>2, <2>2, <2>3
<1>10. ~RestartAll
  BY <1>1 DEF RestartAll, Restart, Crash, Calm
<1> QED
  BY <1>4, <1>5, <1>6, <1>7, <1>8, <1>9, <1>10 DEF OptInNext, EventLoop

-----------------------------------------------------------------------------
(* The worker.                                                              *)

LEMMA OnItStays ==
  ASSUME NEW n, WorkerOn(n), W' = W, api[n] # Gone, SameLease(n) PROVE WorkerOn(n)'
  BY DEF WorkerOn, SameLease

\* Steps of the others: what makes a lease run makes sure of the worker, too.
LEMMA BackStays ==
  ASSUME TypeInv, TypeInv', ComingBack, W' = W, optedIn' = optedIn,
         \A n \in Names : /\ Stirred(n) => StirredNext(n)
                          /\ due'[n] <= due[n]
                          /\ Running(n)' => SameLease(n) \/ StirredNext(n)
  PROVE  ComingBack'
<1>1. ASSUME NEW n \in Names, NamespaceOf[n] \in optedIn, Running(n)'
      PROVE  Awaited(n)' \/ WorkerOn(n)'
  <2>1. CASE StirredNext(n)
    BY <2>1, StirredAwaits, AwaitedThen
  <2>2. CASE SameLease(n)
    <3>1. Running(n)
      BY <1>1, <2>2 DEF Running, SameLease, HasLeaseStart
    <3>2. CASE Awaited(n)
      BY <3>2, AwaitedStays, AwaitedThen
    <3>3. CASE WorkerOn(n)
      BY <2>2, <3>1, <3>3, OnItStays DEF Running
    <3> QED
      BY <1>1, <3>1, <3>2, <3>3 DEF ComingBack
  <2> QED
    BY <1>1, <2>1, <2>2
<1> QED
  BY <1>1 DEF ComingBack

\* One step of the worker with an object whose lease runs.
LEMMA WorkerStaysOn ==
  ASSUME TypeInv, TypeInv', ReconcileStep(Worker), ~Fault, Clocked, NoReadingOnTheEnd,
         NEW n \in Names, NamespaceOf[n] \in tracked, Running(n), Running(n)', SameLease(n),
         WorkerOn(n)
  PROVE  due'[n] # Never \/ WorkerOn(n)'
<1>1. /\ run \in [Threads -> Reconcile] /\ Worker \in Threads /\ W \in Reconcile /\ W.name = n
      /\ due \in [Names -> 0 .. Never] /\ Never \in Nat /\ Ready = 0 /\ Never = Horizon + 1
      /\ clock \in Int /\ Horizon \in Nat
  BY TimeTypes DEF TypeInv, TypeOK, Threads, W, WorkerOn, Ready, Never
<1>2. api[n] # Gone /\ ~noTTL(api[n]) /\ api[n].start \in Int /\ api[n].ttl \in Int
  BY MarkAssumption DEF Running, Durations, HasLeaseStart, noTTL
<1>3. CASE W.pc = "filter"
  <2>1. Filter(Worker)
    BY <1>3 DEF ReconcileStep, Get, Clean, ReadClock, PatchStart, PatchInvalid,
       PatchActive, PatchExpired, CreateJob, WaitJob, Delete, W
  <2>2. W'.pc = "get" /\ W'.name = n
    BY <1>1, <2>1 DEF Filter, isNamespaceTracked, Reconcile, W
  <2> QED
    BY <2>2 DEF WorkerOn
<1>4. CASE W.pc = "get"
  <2>1. Get(Worker) /\ api' = api
    BY <1>4 DEF ReconcileStep, Filter, Get, Clean, ReadClock, PatchStart, PatchInvalid,
       PatchActive, PatchExpired, CreateJob, WaitJob, Delete, W
  <2>2. run' = [run EXCEPT ![Worker].pc = "time", ![Worker].obj = api[n]]
    BY <1>1, <1>2, <2>1 DEF Get, W
  <2>3. W'.pc = "time" /\ W'.name = n /\ W'.obj = api[n]
    BY <1>1, <2>2 DEF Reconcile, W
  <2> QED
    BY <2>1, <2>3 DEF WorkerOn
<1>5. CASE W.pc = "time"
  <2> DEFINE o == W.obj
             end == o.start + o.ttl
             verdict == Verdict(o.ttl, o.start, clock)
  <2>1. ReadClock(Worker) /\ api' = api
    BY <1>5 DEF ReconcileStep, Filter, Get, Clean, ReadClock, PatchStart, PatchInvalid,
       PatchActive, PatchExpired, CreateJob, WaitJob, Delete, W
  <2>2. o.ttl = api[n].ttl /\ o.start = api[n].start /\ o.ttl \in Int /\ o.start \in Int
    BY <1>2, <1>5 DEF WorkerOn, Doomed
  <2>3. W' = Decided(Worker, o, o.start, clock)
    BY <1>1, <2>1, <2>2 DEF ReadClock, HasLeaseStart, W
  <2>4. W'.name = n /\ W'.expireAt = end /\ W'.now = clock
    BY <1>1, <2>2, <2>3 DEF Decided, ExpiryOf, Durations, Reconcile, W
  <2>5. verdict = IF clock > end THEN "expire" ELSE "activate"
    BY <2>2 DEF Verdict, Durations
  <2>6. W'.pc = IF verdict = "expire" THEN "patchExpired" ELSE "patchActive"
    BY <1>1, <2>3, <2>5 DEF Decided, Reconcile, W
  <2>7. end \notin Instants /\ clock \in Instants
    <3>1. api[n].start \in Stamped /\ api[n].ttl \in LeaseTTLs \cap Int
      BY <1>2 DEF Clocked, HasLeaseStart
    <3> QED
      BY <2>2, <3>1 DEF NoReadingOnTheEnd, TypeInv, TypeOK
  <2>8. clock > end \/ clock < end
    BY <1>1, <2>2, <2>7
  <2>9. CASE clock > end
    BY <2>4, <2>5, <2>6, <2>9 DEF WorkerOn, Doomed
  <2>10. CASE ~(clock > end)
    <3>1. W'.pc = "patchActive" /\ W'.now < W'.expireAt
      BY <2>4, <2>5, <2>6, <2>8, <2>10
    <3>2. W'.expireAt = api'[n].start + api'[n].ttl
      BY <2>1, <2>2, <2>4
    <3> QED
      BY <2>4, <3>1, <3>2 DEF WorkerOn
  <2> QED
    BY <2>9, <2>10
<1>6. CASE W.pc = "patchActive"
  <2> DEFINE end == W.expireAt
             delay == end - W.now
  <2>1. PatchActive(Worker)
    BY <1>6 DEF ReconcileStep, Filter, Get, Clean, ReadClock, PatchStart, PatchInvalid,
       PatchExpired, CreateJob, WaitJob, Delete, W
  <2>2. end = api[n].start + api[n].ttl /\ W.now < end /\ end <= Horizon
    BY <1>6 DEF WorkerOn, Running, Doomed
  <2>3. end \in Int /\ W.now \in Int /\ delay > 0
    BY <1>1, <2>2 DEF Reconcile
  <2>4. Return(Worker, WakeUp(delay, end))
    BY <2>1, <2>3 DEF PatchActive, W
  <2>5. WakeUp(delay, end) \in Int /\ WakeUp(delay, end) <= Horizon
    BY <1>1, <2>2, <2>3 DEF WakeUp, Earlier
  <2>6. due'[n] = Earlier(due[n], WakeUp(delay, end))
    BY <1>1, <2>4 DEF Return, W
  <2>7. due[n] \in Int
    BY <1>1
  <2> QED
    BY <1>1, <2>5, <2>6, <2>7 DEF Earlier
<1>7. CASE W.pc = "patchExpired"
  <2>1. PatchExpired(Worker)
    BY <1>7 DEF ReconcileStep, Filter, Get, Clean, ReadClock, PatchStart, PatchInvalid,
       PatchActive, CreateJob, WaitJob, Delete, W
  <2>2. PICK after : run' = [run EXCEPT ![Worker].obj = after,
               ![Worker].pc = IF after.job \in {"fire", "wait"} THEN "createJob" ELSE "delete"]
    BY <2>1 DEF PatchExpired
  <2>3. W'.name = n /\ W'.pc \in {"createJob", "delete"}
    BY <1>1, <2>2 DEF Reconcile, W
  <2> QED
    BY <2>3 DEF WorkerOn, Doomed
<1>8. CASE W.pc \in {"createJob", "waitJob"}
  <2>1. CreateJob(Worker) \/ WaitJob(Worker)
    BY <1>8 DEF ReconcileStep, Filter, Get, Clean, ReadClock, PatchStart, PatchInvalid,
       PatchActive, PatchExpired, Delete, W
  <2>2. \E pc \in {"waitJob", "delete"} :
          \E id : run' = [run EXCEPT ![Worker].pc = pc, ![Worker].job = id]
    BY <2>1 DEF CreateJob, WaitJob, Fault
  <2>3. W'.name = n /\ W'.pc \in {"waitJob", "delete"}
    BY <1>1, <2>2 DEF Reconcile, W
  <2> QED
    BY <2>3 DEF WorkerOn, Doomed
<1>9. CASE W.pc = "delete"
  <2>1. Delete(Worker)
    BY <1>9 DEF ReconcileStep, Filter, Get, Clean, ReadClock, PatchStart, PatchInvalid,
       PatchActive, PatchExpired, CreateJob, WaitJob, W
  <2>2. ~Write(n, Gone)
    BY <1>1 DEF Write, Running, TypeInv, TypeOK
  <2>3. Return(Worker, Ready)
    BY <1>1, <1>2, <2>1, <2>2 DEF Delete, W
  <2>4. due'[n] = Earlier(due[n], Ready)
    BY <1>1, <2>3 DEF Return, W
  <2> QED
    BY <1>1, <2>4 DEF Earlier
<1>10. W.pc \in {"filter", "get", "time", "patchActive"} \cup Doomed
  BY DEF WorkerOn
<1> QED
  BY <1>3, <1>4, <1>5, <1>6, <1>7, <1>8, <1>9, <1>10 DEF Doomed

LEMMA WorkerComesBack ==
  ASSUME TypeInv, TypeInv', Linked, Next, ReconcileStep(Worker), ~Fault, Clocked,
         NoReadingOnTheEnd, BegunIsTracked, ComingBack, optedIn' = optedIn
  PROVE  ComingBack'
<1>1. Worker \in Threads /\ W.name \in Names /\ seen' = seen
  BY StepKeeps, StepWritesUnder DEF Threads, W
<1>2. ASSUME NEW n \in Names, NamespaceOf[n] \in optedIn, Running(n)', ~AwaitedNext(n)
      PROVE  WorkerOn(n)'
  <2>1. ~StirredNext(n)
    BY <1>2, StirredAwaits
  <2>2. SameLease(n)
    <3>1. CASE api' = api
      BY <3>1 DEF SameLease
    <3>2. CASE \E o \in Object \cup {Gone} : Write(W.name, o)
      BY <1>1, <1>2, <2>1, <3>2, OtherLeaseStirs
    <3> QED
      BY <1>1, <3>1, <3>2, StepWritesUnder DEF W
  <2>3. Running(n)
    BY <1>2, <2>2 DEF Running, SameLease, HasLeaseStart
  <2>4. ~Awaited(n)
    BY <1>1, <1>2, AwaitedStays, StepKeeps, StepHastens
  <2>5. WorkerOn(n)
    BY <1>2, <2>3, <2>4 DEF ComingBack
  <2>6. NamespaceOf[n] \in tracked
    BY <1>2, <2>3 DEF BegunIsTracked, Begun, Running
  <2>7. due'[n] # Never \/ WorkerOn(n)'
    BY <1>2, <2>2, <2>3, <2>5, <2>6, WorkerStaysOn
  <2> QED
    BY <1>2, <2>7 DEF AwaitedNext
<1> QED
  BY <1>2, AwaitedThen DEF ComingBack

\* The worker takes m off the queue.
LEMMA DequeueComesBack ==
  ASSUME TypeInv, NEW m \in Names, Dequeue(m), ComingBack, optedIn' = optedIn
  PROVE  ComingBack'
<1>1. /\ run \in [Threads -> Reconcile] /\ Worker \in Threads /\ due \in [Names -> 0 .. Never]
      /\ UNCHANGED <<api, seen, pending>> /\ missed' = missed \ {m} /\ W.pc = "idle"
  BY DEF Dequeue, TypeInv, TypeOK, Threads, W
<1>2. ASSUME NEW n \in Names, NamespaceOf[n] \in optedIn, Running(n)'
      PROVE  Awaited(n)' \/ WorkerOn(n)'
  <2>1. CASE n = m
    <3>1. W'.pc = "filter" /\ W'.name = n
      BY <1>1, <2>1 DEF Dequeue, Started, Idle, W
    <3> QED
      BY <3>1 DEF WorkerOn
  <2>2. CASE n # m
    <3>1. Running(n) /\ due'[n] = due[n]
      BY <1>1, <1>2, <2>2 DEF Running, HasLeaseStart, Dequeue
    <3>2. Awaited(n)
      BY <1>1, <1>2, <3>1 DEF ComingBack, WorkerOn, Doomed
    <3>3. AwaitedNext(n)
      BY <1>1, <2>2, <3>1, <3>2 DEF Awaited, AwaitedNext
    <3> QED
      BY <3>3, AwaitedThen
  <2> QED
    BY <2>1, <2>2
<1> QED
  BY <1>1, <1>2 DEF ComingBack

\* What leaves the objects, the watch, the queue and the worker alone.
LEMMA SameComesBack ==
  ASSUME UNCHANGED <<api, seen, pending, missed, due>>, W' = W, ComingBack,
         \A n \in Names : NamespaceOf[n] \in optedIn' /\ Running(n) => NamespaceOf[n] \in optedIn
  PROVE  ComingBack'
<1>1. ASSUME NEW n \in Names, NamespaceOf[n] \in optedIn', Running(n)'
      PROVE  Awaited(n)' \/ WorkerOn(n)'
  <2>1. Running(n) /\ SameLease(n)
    BY <1>1 DEF Running, HasLeaseStart, SameLease
  <2>2. Awaited(n) => AwaitedNext(n)
    BY DEF Awaited, AwaitedNext
  <2>3. WorkerOn(n) => WorkerOn(n)'
    BY <2>1, OnItStays DEF Running
  <2> QED
    BY <1>1, <2>1, <2>2, <2>3, AwaitedThen DEF ComingBack
<1> QED
  BY <1>1 DEF ComingBack

\* Nothing undoes what has happened.
LEMMA CalmBefore ==
  ASSUME OptInTypeInv, OptInTypeInv', [OptInNext]_optInVars, Calm' PROVE Calm /\ ~Fault /\ ~RestartAll
<1>1. faults' = 0 /\ crashes' = 0 /\ relabels' <= 1
  BY DEF Calm
<1>2. TypeInv /\ faults \in Nat
  BY SkipTypes
<1>3. crashes \in Nat
  BY ONLY <1>2, BoundAssumption DEF TypeInv, TypeOK
<1>4. relabels \in Nat /\ relabels' \in Nat
  BY OptInBoundAssumption DEF OptInTypeInv, OptInTypeOK
<1>5. /\ TypeInv /\ faults \in Nat /\ crashes \in Nat /\ relabels \in Nat /\ relabels' \in Nat
      /\ faults' = 0 /\ crashes' = 0 /\ relabels' <= 1
  BY <1>1, <1>2, <1>4, <1>3
<1>6. ~Fault
  BY <1>5 DEF Fault
<1>7. ~RestartAll
  BY <1>5 DEF RestartAll, Restart, Crash
<1>8. ASSUME UNCHANGED <<crashes, relabels>>, faults' = faults \/ Fault PROVE Calm
  BY <1>5, <1>6, <1>8 DEF Calm
<1>9. ASSUME UNCHANGED optInVars PROVE Calm
  BY <1>8, <1>9 DEF optInVars, vars, labelVars
<1>10. ASSUME LeaseStep PROVE Calm
  <2>1. UNCHANGED <<crashes, relabels>>
    BY <1>10 DEF LeaseStep, System, World, Users, outerVars, labelVars
  <2>2. Next
    BY <1>10, LeaseStepIsNext
  <2>3. faults = 0
    BY <1>5, <2>2, HarmGrows
  <2> QED
    BY <1>5, <2>1, <2>3 DEF Calm
<1>11. ASSUME NEW ns \in Namespaces, Relabel(ns) PROVE Calm
  BY <1>5, <1>11 DEF Relabel, vars, Calm
<1>12. ASSUME NEW ns \in Namespaces, Track(ns) PROVE Calm
  BY <1>8, <1>12 DEF Track, labelVars
<1>13. ASSUME EventLoop PROVE Calm
  BY <1>8, <1>13 DEF EventLoop, Receive, ListObjects, labelVars
<1> QED
  BY <1>6, <1>7, <1>9, <1>10, <1>11, <1>12, <1>13 DEF OptInNext

LEMMA LeaseStepComesBack ==
  ASSUME OptInTypeInv, OptInTypeInv', Linked, LeaseStep, ~Fault, Clocked, NoReadingOnTheEnd,
         BegunIsTracked, ComingBack
  PROVE  ComingBack'
<1>1. /\ TypeInv /\ TypeInv' /\ Next /\ clock <= clock'
      /\ run \in [Threads -> Reconcile] /\ Worker \in Threads
  BY SkipTypes, LeaseStepIsNext, TimeGoesOn DEF OptInTypeInv, OptInTypeOK, TypeInv, Threads
<1>2. optedIn' = optedIn
  BY DEF LeaseStep, labelVars
<1>3. ASSUME NEW m \in Names, Dequeue(m) PROVE ComingBack'
  BY <1>1, <1>2, <1>3, DequeueComesBack
<1>4. ASSUME NEW m \in Names, Deliver(m) PROVE ComingBack'
  <2>1. /\ W' = W
        /\ \A n \in Names : /\ due'[n] <= due[n]
                            /\ SameLease(n)
    <3>1. api' = api /\ run' = run /\ (due' = due \/ due' = Enqueued(m))
      BY <1>4 DEF Deliver
    <3>2. ASSUME NEW n \in Names PROVE due'[n] <= due[n]
      <4>1. due'[n] = due[n] \/ due'[n] = 0
        BY <1>1, <3>1 DEF Enqueued, Ready, TypeInv, TypeOK
      <4>2. due[n] \in 0 .. Never /\ Never \in Nat
        BY <1>1, TimeTypes DEF TypeInv, TypeOK
      <4> QED
        BY <4>1, <4>2
    <3> QED
      BY <3>1, <3>2 DEF W, SameLease
  <2> QED
    BY <1>1, <1>2, <1>4, <2>1, DeliverAttends, BackStays
<1>5. ASSUME NEW t \in Threads, ReconcileStep(t) PROVE ComingBack'
  <2>1. CASE t = Worker
    BY <1>1, <1>2, <1>5, <2>1, WorkerComesBack
  <2>2. CASE t # Worker
    <3>1. W' = W /\ seen' = seen
      BY <1>1, <1>5, <2>2, StepOfOne, StepKeeps DEF W
    <3>2. ASSUME NEW n \in Names, Running(n)' PROVE SameLease(n) \/ StirredNext(n)
      <4>1. CASE api' = api
        BY <4>1 DEF SameLease
      <4>2. CASE \E o \in Object \cup {Gone} : Write(run[t].name, o)
        BY <1>1, <1>5, <3>1, <3>2, <4>2, StepWritesUnder, OtherLeaseStirs
      <4> QED
        BY <1>1, <1>5, <4>1, <4>2, StepWritesUnder
    <3> QED
      BY <1>1, <1>2, <1>5, <3>1, <3>2, StepKeeps, StepHastens, BackStays
  <2> QED
    BY <2>1, <2>2
<1>6. CASE World
  <2>1. ASSUME UNCHANGED <<api, seen, pending, missed, due, run>> PROVE ComingBack'
    BY <1>2, <2>1, SameComesBack DEF W
  <2>2. ASSUME NEW m \in Names, Miss(m) PROVE ComingBack'
    <3>1. UNCHANGED <<api, run, due>> /\ \A n \in Names : SameLease(n)
      BY <2>2 DEF Miss, SameLease
    <3>2. \A n \in Names : due'[n] <= due[n]
      BY <1>1, <3>1, TimeTypes DEF TypeInv, TypeOK
    <3> QED
      BY <1>1, <1>2, <2>2, <3>1, <3>2, MissAttends, BackStays DEF W
  <2> QED
    BY <1>6, <2>1, <2>2 DEF World, Tick, FinishJob
<1>7. ASSUME NEW m \in Names,
             UserCreate(m) \/ UserSetTTL(m) \/ UserSetStart(m) \/ UserSetJob(m) \/ UserDelete(m)
      PROVE  ComingBack'
  <2>1. PICK o \in Object \cup {Gone} : UserWrite(m, o)
    BY <1>1, <1>7, UserWritesWhat
  <2>2. Write(m, o) /\ UNCHANGED <<seen, due, run, missed>>
    BY <2>1 DEF UserWrite
  <2>3. ASSUME NEW n \in Names PROVE due'[n] <= due[n] /\ (Stirred(n) => StirredNext(n))
    <3>1. \/ pending'[n] = pending[n]
          \/ \E v \in Views : pending'[n] = Append(pending[n], v)
      BY <1>1, <2>2, WriteShows
    <3>2. due'[n] <= due[n]
      BY <1>1, <2>2, TimeTypes DEF TypeInv, TypeOK
    <3> QED
      BY <1>1, <2>2, <3>1, <3>2, StirredStays
  <2>4. ASSUME NEW n \in Names, Running(n)' PROVE SameLease(n) \/ StirredNext(n)
    BY <1>1, <2>2, <2>4, OtherLeaseStirs
  <2> QED
    BY <1>1, <1>2, <2>2, <2>3, <2>4, BackStays DEF W
<1>8. CASE System
  BY <1>3, <1>4, <1>5, <1>8 DEF System
<1>9. CASE Users
  BY <1>7, <1>9 DEF Users
<1> QED
  BY <1>6, <1>8, <1>9 DEF LeaseStep

\* No goroutine of a list is the worker.
LEMMA ListSparesWorker == ASSUME OptInTypeInv, ListObjects PROVE W' = W
<1>1. run \in [Threads -> Reconcile] /\ Worker \in Threads
  BY SkipTypes DEF Threads
<1>2. CASE run' = run
  BY <1>2 DEF W
<1>3. ASSUME NEW f \in [WithTTLKey(listing) -> IdleGoroutines],
             run' = [t \in Threads |->
               IF t \in Range(f)
               THEN Started(CHOOSE k \in WithTTLKey(listing) : f[k] = t)
               ELSE run[t]]
      PROVE  W' = W
  <2>1. Worker \notin Range(f)
    BY ThreadAssumption DEF Range, IdleGoroutines
  <2> QED
    BY <1>1, <1>3, <2>1 DEF W
<1> QED
  BY <1>2, <1>3 DEF ListObjects

LEMMA NextComesBack ==
  ASSUME SkipInv, OptInTypeInv', [OptInNext]_optInVars, Calm', Clocked, NoReadingOnTheEnd,
         BegunIsTracked, ComingBack
  PROVE  ComingBack'
<1>1. OptInTypeInv /\ Linked /\ Calm /\ ~Fault /\ ~RestartAll /\ relabels \in Nat
  BY CalmBefore, OptInBoundAssumption DEF SkipInv, OptInTypeInv, OptInTypeOK
<1>2. CASE LeaseStep
  BY <1>1, <1>2, LeaseStepComesBack
<1>3. ASSUME UNCHANGED <<api, seen, pending, missed, due, optedIn>>, W' = W PROVE ComingBack'
  BY <1>3, SameComesBack
<1>4. ASSUME NEW ns \in Namespaces, Relabel(ns) PROVE ComingBack'
  <2>1. relabels = 0 /\ UNCHANGED <<api, seen, pending, missed, due, run>>
    BY <1>1, <1>4 DEF Relabel, vars, Calm
  <2>2. ASSUME NEW n \in Names, NamespaceOf[n] \in optedIn', Running(n)
        PROVE  NamespaceOf[n] \in optedIn
    BY <2>1, <2>2 DEF BegunIsTracked, Begun, Running
  <2> QED
    BY <2>1, <2>2, SameComesBack DEF W
<1>5. ASSUME NEW ns \in Namespaces, Track(ns) PROVE ComingBack'
  BY <1>3, <1>5 DEF Track, labelVars, W
<1>6. CASE Receive
  BY <1>3, <1>6 DEF Receive, labelVars, W
<1>7. CASE ListObjects
  <2>1. UNCHANGED <<api, seen, pending, missed, due, optedIn>>
    BY <1>7 DEF ListObjects, labelVars
  <2>2. W' = W
    BY <1>1, <1>7, ListSparesWorker
  <2> QED
    BY <1>3, <2>1, <2>2
<1>8. CASE UNCHANGED optInVars
  BY <1>3, <1>8 DEF optInVars, vars, labelVars, W
<1> QED
  BY <1>1, <1>2, <1>4, <1>5, <1>6, <1>7, <1>8 DEF OptInNext, EventLoop

LEMMA InitBack == ASSUME OptInInit, FreshLeases PROVE BackInv
<1>1. \A n \in Names : api[n] # Gone => api[n] \in InitialObjects
  BY DEF OptInInit, LeaseInit
<1>2. \A t \in Threads : run[t].pc = "idle"
  BY DEF OptInInit, LeaseInit, Idle
<1>3. Clocked
  BY <1>1, <1>2 DEF Clocked, FreshLeases, LeaseTTLs
<1>4. BegunIsTracked
  BY <1>1, <1>2 DEF OptInInit, Tracker!NewTracker, BegunIsTracked, Begun, FreshLeases
<1>5. ComingBack
  BY <1>1 DEF ComingBack, Running, FreshLeases
<1> QED
  BY <1>3, <1>4, <1>5, InitSkips DEF BackInv

\* The end of a lease the controller started is never forgotten: once neither
\* the controller nor its event loop has anything left to do about an object in
\* a namespace that opted in, a lease that runs has a time to come back at, even
\* if a goroutine beside the worker has dropped one; for any number of objects,
\* namespaces and goroutines, whatever users write and delete and whatever
\* versions a break of the watch skips, as long as no call fails, the process
\* does not restart and one namespace at most changes its label. Left out is an
\* object whose last wake-up was lost in a break of the watch. No lease may have
\* started before the controller, and the clock must never be read exactly at
\* the end of a lease: a delay of zero is none.
THEOREM LeasesComeBack ==
  ASSUME FreshLeases, NoReadingOnTheEnd PROVE OptInSpec => []ComesBack
<1>1. OptInInit => BackInv
  BY InitBack
<1>2. BackInv /\ [OptInNext]_optInVars => BackInv'
  <2> SUFFICES ASSUME BackInv, [OptInNext]_optInVars PROVE BackInv'
    OBVIOUS
  <2>1. SkipInv' /\ OptInTypeInv /\ OptInTypeInv'
    BY NextSkips DEF BackInv, SkipInv
  <2>2. Clocked'
    BY <2>1, NextClocked DEF BackInv
  <2>3. ASSUME Calm' PROVE BegunIsTracked' /\ ComingBack'
    <3>1. BegunIsTracked /\ ComingBack
      BY <2>1, <2>3, CalmBefore DEF BackInv
    <3> QED
      BY <2>1, <2>3, <3>1, NextBegun, NextComesBack DEF BackInv
  <2> QED
    BY <2>1, <2>2, <2>3 DEF BackInv
<1>3. BackInv => ComesBack
  <2> SUFFICES ASSUME BackInv, NEW n \in Names, Quiet(n), api[n] # Gone,
                      NamespaceOf[n] \in optedIn, n \notin missed, Undisturbed, api[n].ttl \in Durations,
                      HasLeaseStart(api[n]), api[n].start + api[n].ttl <= Horizon,
                      due[n] = Never
               PROVE  FALSE
    BY DEF ComesBack
  <2>1. Awaited(n) \/ WorkerOn(n)
    BY DEF BackInv, Calm, Undisturbed, ComingBack, Running
  <2>2. ~Awaited(n)
    BY DEF Awaited, Passing, Quiet, Settled
  <2>3. ~WorkerOn(n)
    BY DEF WorkerOn, W, Quiet, Settled, Threads
  <2> QED
    BY <2>1, <2>2, <2>3
<1> QED
  BY <1>1, <1>2, <1>3, PTL DEF OptInSpec
=============================================================================
