------------------------ MODULE LeaseControllerProofs ------------------------
(***************************************************************************)
(* Proofs about LeaseController, for every set of names, of goroutines, of *)
(* clock readings and of user inputs, and every bound.                     *)
(***************************************************************************)
EXTENDS LeaseController, FiniteSetTheorems, TLAPS

-----------------------------------------------------------------------------
(* What the operators on objects return.                                    *)

\* A formatted stamp is a number of ticks.
LEMMA FormatType == ASSUME NEW t \in Int PROVE Format(t) \in Int
  BY SecAssumption DEF Format

\* The server merges a patch of an object into an object.
LEMMA MergeType ==
  ASSUME NEW server \in Object, NEW base \in Object, NEW new \in Object
  PROVE  MergePatch(server, base, new) \in Object
  BY DEF MergePatch, PatchValue, Object

\* The view the filters have of an object is one of Views.
LEMMA ViewType ==
  ASSUME NEW o \in Object \cup {Gone}
  PROVE  leaseRelevantAnns(o) \in Views
  BY DEF leaseRelevantAnns, Views, Object

\* The ways Reconcile asks an object to be changed.
LEMMA ClearedTypes ==
  ASSUME NEW o \in Object
  PROVE  /\ WithoutLeaseAnns(o) \in Object
         /\ [o EXCEPT !.status = BadTTL] \in Object
<1>1. BadTTL \in StatusTexts
  BY DEF BadTTL, StatusTexts
<1> QED
  BY <1>1 DEF Object, WithoutLeaseAnns, Stamps

LEMMA StampedTypes ==
  ASSUME NEW o \in Object, NEW i \in Int
  PROVE  /\ [o EXCEPT !.start = Format(i)] \in Object
         /\ [o EXCEPT !.expireAt = Format(i), !.status = Active(i)] \in Object
         /\ [o EXCEPT !.expireAt = Format(i), !.status = ExpiredStatus] \in Object
<1>1. Format(i) \in Int
  BY FormatType
<1>2. Active(i) \in StatusTexts /\ ExpiredStatus \in StatusTexts
  BY <1>1 DEF Active, ExpiredStatus, StatusTexts
<1> QED
  BY <1>1, <1>2 DEF Object, Stamps

\* The end of a lease is a number of ticks, whether or not its ttl parses.
LEMMA ExpiryType ==
  ASSUME NEW o \in Object, NEW s \in Int PROVE ExpiryOf(o.ttl, s) \in Int
  BY DEF ExpiryOf, Durations

LEMMA IdleType == Idle \in Reconcile
  BY DEF Idle, Reconcile, Phases

-----------------------------------------------------------------------------
(* Type correctness. TypeOK is not inductive by itself: a step writes the     *)
(* object under run[t].name, so a reconcile under way has to have a name, and *)
(* past its Get an object.                                                   *)

InFlight ==
  \A t \in Threads :
    /\ run[t].pc # "idle" => run[t].name \in Names
    /\ run[t].pc \notin {"idle", "filter", "get"} => run[t].obj \in Object

TypeInv == TypeOK /\ InFlight

LEMMA TimeTypes ==
  /\ Instants \subseteq Int /\ Horizon \in Nat
  /\ Never \in Nat /\ Ready \in 0 .. Never /\ Never \in 0 .. Never
  /\ \A c \in Instants : c \in 0 .. Horizon
  BY ClockAssumption DEF Never, Ready

\* A write leaves the API server and the watch typed.
LEMMA WriteTyped ==
  ASSUME TypeOK, NEW n \in Names, NEW o \in Object \cup {Gone}, Write(n, o)
  PROVE  /\ api' \in [Names -> Object \cup {Gone}]
         /\ pending' \in [Names -> Seq(Views)]
<1>1. leaseRelevantAnns(o) \in Views
  BY ViewType
<1> QED
  BY <1>1 DEF TypeOK, Write

\* The end of a reconcile leaves the threads and the queue typed.
LEMMA ReturnTyped ==
  ASSUME TypeInv, NEW t \in Threads, NEW when \in 0 .. Never, Return(t, when)
  PROVE  /\ run' \in [Threads -> Reconcile]
         /\ InFlight'
         /\ due' \in [Names -> 0 .. Never]
<1>1. run' \in [Threads -> Reconcile]
  BY IdleType DEF Return, TypeInv, TypeOK
<1>2. InFlight'
  BY DEF Return, TypeInv, TypeOK, InFlight, Idle
<1>3. due' \in [Names -> 0 .. Never]
  BY DEF Return, TypeInv, TypeOK, Earlier
<1> QED
  BY <1>1, <1>2, <1>3

\* A step of thread t to the reconcile r leaves the threads typed.
LEMMA RunTyped ==
  ASSUME TypeInv, NEW t \in Threads, NEW r \in Reconcile,
         run' = [run EXCEPT ![t] = r],
         r.pc # "idle" => r.name \in Names,
         r.pc \notin {"idle", "filter", "get"} => r.obj \in Object
  PROVE  run' \in [Threads -> Reconcile] /\ InFlight'
  BY DEF TypeInv, TypeOK, InFlight

\* A patch leaves everything typed, and what the caller goes on with is an
\* object.
LEMMA PatchTyped ==
  ASSUME TypeInv, NEW t \in Threads, run[t].name \in Names,
         run[t].obj \in Object, NEW new \in Object,
         NEW after \in PatchResults(t, new), Patch(t, new, after)
  PROVE  /\ after \in Object
         /\ api' \in [Names -> Object \cup {Gone}]
         /\ pending' \in [Names -> Seq(Views)]
         /\ faults' \in 0 .. MaxFaults
<1> DEFINE n == run[t].name
           merged == MergePatch(api[n], run[t].obj, new)
<1>1. api[n] # Gone => merged \in Object
  BY MergeType DEF TypeInv, TypeOK
<1>2. after \in Object
  BY <1>1 DEF PatchResults
<1>3. faults' \in 0 .. MaxFaults
  BY BoundAssumption DEF Patch, Fault, TypeInv, TypeOK
<1>4. \/ api' = api /\ pending' = pending
      \/ api[n] # Gone /\ Write(n, merged)
  BY DEF Patch
<1>5. CASE api' = api /\ pending' = pending
  BY <1>2, <1>3, <1>5 DEF TypeInv, TypeOK
<1>6. CASE api[n] # Gone /\ Write(n, merged)
  BY <1>1, <1>2, <1>3, <1>6, WriteTyped DEF TypeInv
<1> QED
  BY <1>4, <1>5, <1>6

\* Whatever Reconcile decides, the thread stays typed and goes on to a patch.
LEMMA DecidedType ==
  ASSUME TypeInv, NEW t \in Threads, run[t].name \in Names,
         NEW o \in Object, NEW s \in Int, NEW reading \in Nat
  PROVE  /\ Decided(t, o, s, reading) \in Reconcile
         /\ Decided(t, o, s, reading).obj \in Object
         /\ Decided(t, o, s, reading).name = run[t].name
         /\ Decided(t, o, s, reading).pc \in {"patchInvalid", "patchExpired", "patchActive"}
<1> DEFINE d == Decided(t, o, s, reading)
<1>1. run[t] \in Reconcile
  BY DEF TypeInv, TypeOK
<1>2. ExpiryOf(o.ttl, s) \in Int
  BY ExpiryType
<1>3. Verdict(o.ttl, s, reading) \in {"markInvalid", "expire", "activate"}
  BY DEF Verdict
<1>4. d.pc \in {"patchInvalid", "patchExpired", "patchActive"}
  BY <1>1, <1>3 DEF Decided, Reconcile
<1>5. d.obj = o /\ d.name = run[t].name
  BY <1>1 DEF Decided, Reconcile
<1>6. d \in Reconcile
  BY <1>1, <1>2, <1>3 DEF Decided, Reconcile, Phases
<1> QED
  BY <1>4, <1>5, <1>6

LEMMA DecidedInFlight ==
  ASSUME TypeInv, NEW t \in Threads, run[t].name \in Names,
         NEW o \in Object, NEW s \in Int, NEW reading \in Nat,
         run' = [run EXCEPT ![t] = Decided(t, o, s, reading)]
  PROVE  run' \in [Threads -> Reconcile] /\ InFlight'
<1> DEFINE d == Decided(t, o, s, reading)
<1>1. d \in Reconcile /\ d.obj \in Object /\ d.name \in Names
  BY DecidedType
<1>2. run \in [Threads -> Reconcile] /\ run' = [run EXCEPT ![t] = d]
  BY DEF TypeInv, TypeOK
<1> HIDE DEF d
<1>3. run'[t] = d /\ \A u \in Threads \ {t} : run'[u] = run[u]
  BY <1>2
<1>4. run' \in [Threads -> Reconcile]
  BY <1>1, <1>2
<1>5. InFlight'
  BY <1>1, <1>3 DEF TypeInv, InFlight
<1> QED
  BY <1>4, <1>5

\* What a step of the system has to keep of TypeInv: everything but the
\* variables only the environment changes, and the history.
StepTyped ==
  /\ api' \in [Names -> Object \cup {Gone}]
  /\ pending' \in [Names -> Seq(Views)]
  /\ seen' \in [Names -> Views]
  /\ due' \in [Names -> 0 .. Never]
  /\ run' \in [Threads -> Reconcile]
  /\ InFlight'
  /\ jobs' \subseteq JobRecord
  /\ IsFiniteSet(jobs')
  /\ faults' \in 0 .. MaxFaults
  /\ clock' \in Instants
  /\ missed' \subseteq Names

LEMMA DequeueTyped ==
  ASSUME TypeInv, NEW n \in Names, Dequeue(n) PROVE StepTyped
<1>1. Started(n) \in Reconcile
  BY IdleType DEF Started, Reconcile, Phases
<1>2. run' \in [Threads -> Reconcile]
  BY <1>1 DEF Dequeue, TypeInv, TypeOK
<1>3. InFlight'
  BY DEF Dequeue, TypeInv, TypeOK, InFlight, Started, Idle
<1> QED
  BY <1>2, <1>3, TimeTypes DEF Dequeue, TypeInv, TypeOK, StepTyped

LEMMA DeliverTyped ==
  ASSUME TypeInv, NEW n \in Names, Deliver(n) PROVE StepTyped
<1>1. /\ Head(pending[n]) \in Views
      /\ Tail(pending[n]) \in Seq(Views)
  BY DEF Deliver, TypeInv, TypeOK
<1>2. due' \in [Names -> 0 .. Never]
  BY TimeTypes DEF Deliver, Enqueued, TypeInv, TypeOK
<1>3. InFlight'
  BY DEF Deliver, TypeInv, InFlight
<1> QED
  BY <1>1, <1>2, <1>3 DEF Deliver, TypeInv, TypeOK, StepTyped

LEMMA MissTyped ==
  ASSUME TypeInv, NEW n \in Names, Miss(n) PROVE StepTyped
<1>1. Tail(pending[n]) \in Seq(Views)
  BY DEF Miss, TypeInv, TypeOK
<1>2. InFlight'
  BY DEF Miss, TypeInv, InFlight
<1>3. missed' \subseteq Names
  BY DEF Miss, TypeInv, TypeOK
<1> QED
  BY <1>1, <1>2, <1>3 DEF Miss, TypeInv, TypeOK, StepTyped

LEMMA FilterTyped ==
  ASSUME TypeInv, NEW t \in Threads, Filter(t), UNCHANGED <<clock, seen, missed>>
  PROVE  StepTyped
<1>1. CASE isNamespaceTracked(run[t].name)
  <2> DEFINE r == [run[t] EXCEPT !.pc = "get"]
  <2>1. run[t] \in Reconcile /\ run[t].name \in Names
    BY DEF Filter, TypeInv, TypeOK, InFlight
  <2>2. r \in Reconcile /\ r.pc = "get" /\ r.name \in Names
    BY <2>1 DEF Reconcile, Phases
  <2>3. run' = [run EXCEPT ![t] = r]
    BY <1>1 DEF Filter
  <2>4. run' \in [Threads -> Reconcile] /\ InFlight'
    BY <2>2, <2>3, RunTyped
  <2> QED
    BY <1>1, <2>4 DEF Filter, TypeInv, TypeOK, StepTyped
<1>2. CASE Return(t, Never)
  BY <1>2, ReturnTyped, TimeTypes DEF Filter, TypeInv, TypeOK, StepTyped
<1> QED
  BY <1>1, <1>2 DEF Filter

LEMMA GetTyped ==
  ASSUME TypeInv, NEW t \in Threads, Get(t), UNCHANGED <<clock, seen, missed>>
  PROVE  StepTyped
<1> DEFINE o == api[run[t].name]
<1>1. run[t].name \in Names
  BY DEF Get, TypeInv, InFlight
<1>2. faults' \in 0 .. MaxFaults
  BY BoundAssumption DEF Get, Fault, TypeInv, TypeOK
<1>3. ASSUME NEW p \in {"time", "clean"}, o # Gone,
             run' = [run EXCEPT ![t].pc = p, ![t].obj = o],
             UNCHANGED <<due, faults>>
      PROVE  StepTyped
  <2> DEFINE r == [run[t] EXCEPT !.pc = p, !.obj = o]
  <2>1. o \in Object /\ run[t] \in Reconcile
    BY <1>1, <1>3 DEF TypeInv, TypeOK
  <2>2. r \in Reconcile /\ r.name \in Names /\ r.obj \in Object
    BY <1>1, <2>1 DEF Reconcile, Phases
  <2>3. run' = [run EXCEPT ![t] = r]
    BY <1>3
  <2>4. run' \in [Threads -> Reconcile] /\ InFlight'
    BY <2>2, <2>3, RunTyped
  <2> QED
    BY <1>2, <1>3, <2>4 DEF Get, TypeInv, TypeOK, StepTyped
<1>4. CASE Return(t, Never) \/ Return(t, Ready)
  BY <1>2, <1>4, ReturnTyped, TimeTypes DEF Get, TypeInv, TypeOK, StepTyped
<1> QED
  BY <1>3, <1>4 DEF Get

LEMMA CleanTyped ==
  ASSUME TypeInv, NEW t \in Threads, Clean(t), UNCHANGED <<clock, seen, missed>>
  PROVE  StepTyped
<1> DEFINE new == WithoutLeaseAnns(run[t].obj)
<1>1. run[t].name \in Names /\ run[t].obj \in Object
  BY DEF Clean, TypeInv, InFlight
<1>2. new \in Object
  BY <1>1, ClearedTypes
<1>3. PICK after \in PatchResults(t, new) : Patch(t, new, after)
  BY DEF Clean
<1>4. Return(t, Never) /\ UNCHANGED jobs
  BY DEF Clean
<1> QED
  BY <1>1, <1>2, <1>3, <1>4, PatchTyped, ReturnTyped, TimeTypes
  DEF TypeInv, TypeOK, StepTyped

LEMMA ReadClockTyped ==
  ASSUME TypeInv, NEW t \in Threads, ReadClock(t), UNCHANGED <<clock, seen, missed>>
  PROVE  StepTyped
<1> DEFINE o == run[t].obj
<1>1. run[t].name \in Names /\ o \in Object /\ clock \in Nat
  BY ClockAssumption DEF ReadClock, TypeInv, TypeOK, InFlight
<1>2. CASE HasLeaseStart(o)
  <2>1. o.start \in Int
    BY <1>2 DEF HasLeaseStart
  <2>2. run' = [run EXCEPT ![t] = Decided(t, o, o.start, clock)]
    BY <1>2 DEF ReadClock
  <2>3. run' \in [Threads -> Reconcile] /\ InFlight'
    BY <1>1, <2>1, <2>2, DecidedInFlight
  <2> QED
    BY <2>3 DEF ReadClock, TypeInv, TypeOK, StepTyped
<1>3. CASE ~HasLeaseStart(o)
  <2> DEFINE r == [run[t] EXCEPT !.pc = "patchStart", !.now = clock]
  <2>1. run' = [run EXCEPT ![t] = r]
    BY <1>3 DEF ReadClock
  <2>2. run[t] \in Reconcile
    BY DEF TypeInv, TypeOK
  <2>3. r \in Reconcile /\ r.name = run[t].name /\ r.obj = o /\ r.pc = "patchStart"
    BY <1>1, <2>2 DEF Reconcile, Phases
  <2>4. run' \in [Threads -> Reconcile]
    BY <2>1, <2>3 DEF TypeInv, TypeOK
  <2>5. InFlight'
    BY <1>1, <2>1, <2>3 DEF TypeInv, TypeOK, InFlight
  <2> QED
    BY <2>4, <2>5 DEF ReadClock, TypeInv, TypeOK, StepTyped
<1> QED
  BY <1>2, <1>3

LEMMA PatchStartTyped ==
  ASSUME TypeInv, NEW t \in Threads, PatchStart(t), UNCHANGED <<clock, seen, missed>>
  PROVE  StepTyped
<1> DEFINE new == [run[t].obj EXCEPT !.start = Format(run[t].now)]
<1>0. run[t] \in Reconcile
  BY DEF TypeInv, TypeOK
<1>1. /\ run[t].name \in Names /\ run[t].obj \in Object
      /\ run[t].now \in Nat /\ run[t].now \in Int
  BY <1>0 DEF PatchStart, TypeInv, InFlight, Reconcile
<1>2. new \in Object
  BY <1>1, StampedTypes
<1>3. PICK after \in PatchResults(t, new) :
        /\ Patch(t, new, after)
        /\ run' = [run EXCEPT ![t] = Decided(t, after, run[t].now, run[t].now)]
  BY DEF PatchStart
<1>4. after \in Object
  BY <1>1, <1>2, <1>3, PatchTyped
<1>5. run' \in [Threads -> Reconcile] /\ InFlight'
  BY <1>1, <1>3, <1>4, DecidedInFlight
<1> QED
  BY <1>1, <1>2, <1>3, <1>5, PatchTyped DEF PatchStart, TypeInv, TypeOK, StepTyped

LEMMA PatchInvalidTyped ==
  ASSUME TypeInv, NEW t \in Threads, PatchInvalid(t), UNCHANGED <<clock, seen, missed>>
  PROVE  StepTyped
<1> DEFINE new == [run[t].obj EXCEPT !.status = BadTTL]
<1>1. run[t].name \in Names /\ run[t].obj \in Object
  BY DEF PatchInvalid, TypeInv, InFlight
<1>2. new \in Object
  BY <1>1, ClearedTypes
<1>3. PICK after \in PatchResults(t, new) : Patch(t, new, after)
  BY DEF PatchInvalid
<1>4. Return(t, Never) /\ UNCHANGED jobs
  BY DEF PatchInvalid
<1> QED
  BY <1>1, <1>2, <1>3, <1>4, PatchTyped, ReturnTyped, TimeTypes
  DEF TypeInv, TypeOK, StepTyped

LEMMA PatchActiveTyped ==
  ASSUME TypeInv, NEW t \in Threads, PatchActive(t), UNCHANGED <<clock, seen, missed>>
  PROVE  StepTyped
<1> DEFINE end   == run[t].expireAt
           delay == end - run[t].now
           new   == [run[t].obj EXCEPT !.expireAt = Format(end), !.status = Active(end)]
           when  == IF delay > 0 THEN WakeUp(delay, end) ELSE Never
<1>0. run[t] \in Reconcile
  BY DEF TypeInv, TypeOK
<1>1. /\ run[t].name \in Names /\ run[t].obj \in Object
      /\ end \in Int /\ delay \in Int
  BY <1>0 DEF PatchActive, TypeInv, InFlight, Reconcile
<1>2. new \in Object
  BY <1>1, StampedTypes
<1>3. when \in 0 .. Never
  BY <1>1, TimeTypes DEF WakeUp, Earlier, Never, TypeInv, TypeOK
<1>4. PICK after \in PatchResults(t, new) : Patch(t, new, after)
  BY DEF PatchActive
<1>5. Return(t, when) /\ UNCHANGED jobs
  BY DEF PatchActive
<1> QED
  BY <1>1, <1>2, <1>3, <1>4, <1>5, PatchTyped, ReturnTyped
  DEF TypeInv, TypeOK, StepTyped

LEMMA PatchExpiredTyped ==
  ASSUME TypeInv, NEW t \in Threads, PatchExpired(t), UNCHANGED <<clock, seen, missed>>
  PROVE  StepTyped
<1> DEFINE new == [run[t].obj EXCEPT !.expireAt = Format(run[t].expireAt),
                                     !.status   = ExpiredStatus]
<1>1. /\ run[t].name \in Names /\ run[t].obj \in Object
      /\ run[t].expireAt \in Int
  BY DEF PatchExpired, TypeInv, TypeOK, InFlight, Reconcile
<1>2. new \in Object
  BY <1>1, StampedTypes
<1>3. PICK after \in PatchResults(t, new) :
        /\ Patch(t, new, after)
        /\ run' = [run EXCEPT
             ![t].obj = after,
             ![t].pc  = IF after.job \in {"fire", "wait"} THEN "createJob" ELSE "delete"]
  BY DEF PatchExpired
<1>4. after \in Object
  BY <1>1, <1>2, <1>3, PatchTyped
<1>5. run' \in [Threads -> Reconcile] /\ InFlight'
  <2> DEFINE r == [run[t] EXCEPT
                    !.obj = after,
                    !.pc  = IF after.job \in {"fire", "wait"} THEN "createJob" ELSE "delete"]
  <2>1. run[t] \in Reconcile
    BY DEF TypeInv, TypeOK
  <2>2. r \in Reconcile /\ r.name \in Names /\ r.obj \in Object
    BY <1>1, <1>4, <2>1 DEF Reconcile, Phases
  <2>3. run' = [run EXCEPT ![t] = r]
    BY <1>3
  <2> QED
    BY <2>2, <2>3, RunTyped
<1> QED
  BY <1>1, <1>2, <1>3, <1>5, PatchTyped DEF PatchExpired, TypeInv, TypeOK, StepTyped

LEMMA CreateJobTyped ==
  ASSUME TypeInv, NEW t \in Threads, CreateJob(t), UNCHANGED <<clock, seen, missed>>
  PROVE  StepTyped
<1> DEFINE id == Cardinality(jobs) + 1
           wait == run[t].obj.job = "wait"
<1>1. /\ run[t] \in Reconcile
      /\ run[t].name \in Names /\ run[t].obj \in Object
  BY DEF CreateJob, TypeInv, TypeOK, InFlight
<1>2. id \in Nat
  BY FS_CardinalityType DEF TypeInv, TypeOK
<1>3. Earlier(clock + JobTimeout, Horizon) \in Nat
  BY ClockAssumption DEF Earlier, TypeInv, TypeOK
<1>4. NewJob(t) \in JobRecord /\ NewJob(t).id = id
  BY <1>1, <1>2, <1>3 DEF NewJob, JobRecord, Object
<1>5. jobs' \subseteq JobRecord /\ IsFiniteSet(jobs')
  <2>1. jobs' = jobs \/ jobs' = jobs \cup {NewJob(t)}
    BY DEF CreateJob
  <2>2. jobs \subseteq JobRecord /\ IsFiniteSet(jobs)
    BY DEF TypeInv, TypeOK
  <2>3. IsFiniteSet(jobs \cup {NewJob(t)})
    BY <2>2, FS_AddElement
  <2> QED
    BY <1>4, <2>1, <2>2, <2>3
<1>6. faults' \in 0 .. MaxFaults
  BY BoundAssumption DEF CreateJob, Fault, TypeInv, TypeOK
<1>7. run' \in [Threads -> Reconcile] /\ InFlight'
  <2>1. CASE run' = [run EXCEPT ![t].pc  = IF wait THEN "waitJob" ELSE "delete",
                                ![t].job = IF wait THEN NewJob(t).id ELSE 0]
    <3> DEFINE r == [run[t] EXCEPT !.pc  = IF wait THEN "waitJob" ELSE "delete",
                                   !.job = IF wait THEN NewJob(t).id ELSE 0]
    <3>1. r \in Reconcile /\ r.name \in Names /\ r.obj \in Object
      BY <1>1, <1>2, <1>4 DEF Reconcile, Phases
    <3>2. run' = [run EXCEPT ![t] = r]
      BY <2>1
    <3> QED
      BY <3>1, <3>2, RunTyped
  <2>2. CASE run' = [run EXCEPT ![t].pc = "delete"]
    <3> DEFINE r == [run[t] EXCEPT !.pc = "delete"]
    <3>1. r \in Reconcile /\ r.name \in Names /\ r.obj \in Object
      BY <1>1 DEF Reconcile, Phases
    <3>2. run' = [run EXCEPT ![t] = r]
      BY <2>2
    <3> QED
      BY <3>1, <3>2, RunTyped
  <2> QED
    BY <2>1, <2>2 DEF CreateJob
<1> QED
  BY <1>5, <1>6, <1>7 DEF CreateJob, TypeInv, TypeOK, StepTyped

LEMMA WaitJobTyped ==
  ASSUME TypeInv, NEW t \in Threads, WaitJob(t), UNCHANGED <<clock, seen, missed>>
  PROVE  StepTyped
<1> DEFINE r == [run[t] EXCEPT !.pc = "delete", !.job = 0]
<1>1. /\ run[t] \in Reconcile
      /\ run[t].name \in Names /\ run[t].obj \in Object
  BY DEF WaitJob, TypeInv, TypeOK, InFlight
<1>2. r \in Reconcile /\ r.name \in Names /\ r.obj \in Object
  BY <1>1 DEF Reconcile, Phases
<1>3. run' = [run EXCEPT ![t] = r]
  BY DEF WaitJob
<1>4. run' \in [Threads -> Reconcile] /\ InFlight'
  BY <1>2, <1>3, RunTyped
<1>5. faults' \in 0 .. MaxFaults
  BY BoundAssumption DEF WaitJob, Fault, TypeInv, TypeOK
<1> QED
  BY <1>4, <1>5 DEF WaitJob, TypeInv, TypeOK, StepTyped

LEMMA DeleteTyped ==
  ASSUME TypeInv, NEW t \in Threads, Delete(t), UNCHANGED <<clock, seen, missed>>
  PROVE  StepTyped
<1> DEFINE n == run[t].name
<1>1. n \in Names
  BY DEF Delete, TypeInv, InFlight
<1>2. faults' \in 0 .. MaxFaults
  BY BoundAssumption DEF Delete, Fault, TypeInv, TypeOK
<1>3. \/ UNCHANGED <<api, pending>>
      \/ Write(n, Gone)
  BY DEF Delete
<1>4. /\ api' \in [Names -> Object \cup {Gone}]
      /\ pending' \in [Names -> Seq(Views)]
  BY <1>1, <1>3, WriteTyped DEF TypeInv, TypeOK
<1>5. Return(t, Never) \/ Return(t, Ready)
  BY DEF Delete
<1>6. /\ run' \in [Threads -> Reconcile] /\ InFlight'
      /\ due' \in [Names -> 0 .. Never]
  BY <1>5, ReturnTyped, TimeTypes
<1> QED
  BY <1>2, <1>4, <1>6 DEF Delete, TypeInv, TypeOK, StepTyped

LEMMA FinishJobTyped ==
  ASSUME TypeInv, NEW j \in jobs, FinishJob(j)
  PROVE  StepTyped
<1>1. PICK s \in {"complete", "failed"} :
        jobs' = (jobs \ {j}) \cup {[j EXCEPT !.state = s]}
  BY DEF FinishJob
<1>2. [j EXCEPT !.state = s] \in JobRecord
  BY DEF TypeInv, TypeOK, JobRecord
<1>3. jobs' \subseteq JobRecord
  BY <1>1, <1>2 DEF TypeInv, TypeOK
<1>4. IsFiniteSet(jobs')
  <2>1. IsFiniteSet(jobs \ {j})
    BY FS_RemoveElement DEF TypeInv, TypeOK
  <2> QED
    BY <1>1, <2>1, FS_AddElement
<1>5. InFlight'
  BY DEF FinishJob, TypeInv, InFlight
<1> QED
  BY <1>3, <1>4, <1>5 DEF FinishJob, TypeInv, TypeOK, StepTyped

\* A user writes an object of the types users write, and spends an operation.
LEMMA UserWriteTyped ==
  ASSUME TypeInv, NEW n \in Names, NEW o \in Object \cup {Gone}, UserWrite(n, o)
  PROVE  StepTyped /\ ops' \in 0 .. MaxOps
<1>1. /\ api' \in [Names -> Object \cup {Gone}]
      /\ pending' \in [Names -> Seq(Views)]
  BY WriteTyped DEF UserWrite, TypeInv
<1>2. InFlight'
  BY DEF UserWrite, TypeInv, InFlight
<1>3. ops' \in 0 .. MaxOps
  BY BoundAssumption DEF UserWrite, TypeInv, TypeOK
<1> QED
  BY <1>1, <1>2, <1>3 DEF UserWrite, TypeInv, TypeOK, StepTyped

LEMMA UserTyped ==
  ASSUME TypeInv, NEW n \in Names,
         UserCreate(n) \/ UserSetTTL(n) \/ UserSetStart(n) \/ UserSetJob(n) \/ UserDelete(n)
  PROVE  StepTyped /\ ops' \in 0 .. MaxOps /\ nextUid' \in Nat
<1>1. CASE UserCreate(n)
  <2>1. PICK ttl \in UserTTLs, start \in UserStarts, job \in UserJobs :
          UserWrite(n, [uid |-> nextUid, ttl |-> ttl, start |-> start,
                        expireAt |-> Absent, status |-> Absent, job |-> job])
    BY <1>1 DEF UserCreate
  <2>2. [uid |-> nextUid, ttl |-> ttl, start |-> start, expireAt |-> Absent,
         status |-> Absent, job |-> job] \in Object
    BY InputAssumption DEF TypeInv, TypeOK, Object
  <2> QED
    BY <1>1, <2>1, <2>2, UserWriteTyped DEF UserCreate, TypeInv, TypeOK
<1>2. CASE UserSetTTL(n)
  <2>1. PICK ttl \in UserTTLs : UserWrite(n, [api[n] EXCEPT !.ttl = ttl])
    BY <1>2 DEF UserSetTTL
  <2>2. api[n] \in Object
    BY <1>2 DEF UserSetTTL, TypeInv, TypeOK
  <2>3. [api[n] EXCEPT !.ttl = ttl] \in Object
    BY <2>2, InputAssumption DEF Object
  <2> QED
    BY <1>2, <2>1, <2>3, UserWriteTyped DEF UserSetTTL, TypeInv, TypeOK
<1>3. CASE UserSetStart(n)
  <2>1. PICK start \in UserStarts : UserWrite(n, [api[n] EXCEPT !.start = start])
    BY <1>3 DEF UserSetStart
  <2>2. api[n] \in Object
    BY <1>3 DEF UserSetStart, TypeInv, TypeOK
  <2>3. [api[n] EXCEPT !.start = start] \in Object
    BY <2>2, InputAssumption DEF Object
  <2> QED
    BY <1>3, <2>1, <2>3, UserWriteTyped DEF UserSetStart, TypeInv, TypeOK
<1>4. CASE UserDelete(n)
  BY <1>4, UserWriteTyped DEF UserDelete, TypeInv, TypeOK
<1>5. CASE UserSetJob(n)
  <2>1. PICK job \in UserJobs : UserWrite(n, [api[n] EXCEPT !.job = job])
    BY <1>5 DEF UserSetJob
  <2>2. api[n] \in Object
    BY <1>5 DEF UserSetJob, TypeInv, TypeOK
  <2>3. [api[n] EXCEPT !.job = job] \in Object
    BY <2>2, InputAssumption DEF Object
  <2> QED
    BY <1>5, <2>1, <2>3, UserWriteTyped DEF UserSetJob, TypeInv, TypeOK
<1> QED
  BY <1>1, <1>2, <1>3, <1>4, <1>5

\* What the watch lists of an object is a sequence of views.
LEMMA ListedType ==
  ASSUME api \in [Names -> Object \cup {Gone}], NEW n \in Names
  PROVE  Listed(n) \in Seq(Views)
<1>1. leaseRelevantAnns(api[n]) \in Views
  BY ViewType
<1> QED
  BY <1>1 DEF Listed

\* A process that starts has nothing but the list.
LEMMA RestartTypes ==
  /\ [t \in Threads |-> Idle] \in [Threads -> Reconcile]
  /\ [n \in Names |-> Never] \in [Names -> 0 .. Never]
  /\ [n \in Names |-> Gone] \in [Names -> Views]
  BY IdleType, TimeTypes DEF Views

LEMMA CrashTyped ==
  ASSUME TypeInv, Crash
  PROVE  StepTyped /\ crashes' \in 0 .. MaxCrashes
<1>1. pending' \in [Names -> Seq(Views)]
  BY ListedType DEF Crash, TypeInv, TypeOK
<1>2. InFlight'
  BY DEF Crash, InFlight, Idle
<1>3. crashes' \in 0 .. MaxCrashes
  BY BoundAssumption DEF Crash, TypeInv, TypeOK
<1> QED
  BY <1>1, <1>2, <1>3, RestartTypes DEF Crash, TypeInv, TypeOK, StepTyped

\* The history records typed annotations.
LEMMA HeldType ==
  ASSUME api \in [Names -> Object \cup {Gone}]
  PROVE  HeldNow \subseteq [name : Names, uid : Nat, ttl : TTLValues, start : Stamps]
  BY DEF HeldNow, Object

LEMMA HeldStaysTyped ==
  ASSUME TypeInv, StepTyped, Next
  PROVE  held' \subseteq [name : Names, uid : Nat, ttl : TTLValues, start : Stamps]
<1>1. HeldNow' \subseteq [name : Names, uid : Nat, ttl : TTLValues, start : Stamps]
  BY DEF StepTyped, HeldNow, Object
<1> QED
  BY <1>1 DEF Next, TypeInv, TypeOK

\* A process starts typed, whatever namespaces it tracks.
LEMMA LeaseInitTyped ==
  ASSUME LeaseInit, tracked \subseteq { NamespaceOf[n] : n \in Names } PROVE TypeInv
<1>1. api \in [Names -> Object \cup {Gone}]
  BY InputAssumption DEF LeaseInit
<1>2. pending \in [Names -> Seq(Views)]
  BY <1>1, ListedType DEF LeaseInit
<1>3. IsFiniteSet(jobs)
  BY FS_EmptySet DEF LeaseInit
<1>4. InFlight
  BY DEF LeaseInit, InFlight, Idle
<1>5. held \subseteq [name : Names, uid : Nat, ttl : TTLValues, start : Stamps]
  BY <1>1, HeldType DEF LeaseInit
<1>6. ops \in 0 .. MaxOps /\ faults \in 0 .. MaxFaults /\ crashes \in 0 .. MaxCrashes
  BY BoundAssumption DEF LeaseInit
<1> QED
  BY <1>1, <1>2, <1>3, <1>4, <1>5, <1>6, RestartTypes DEF LeaseInit, TypeInv, TypeOK

LEMMA InitTyped == ASSUME Init PROVE TypeInv
  BY LeaseInitTyped DEF Init

LEMMA ReconcileStepTyped ==
  ASSUME TypeInv, NEW t \in Threads, ReconcileStep(t) PROVE StepTyped
  BY FilterTyped, GetTyped, CleanTyped, ReadClockTyped, PatchStartTyped,
     PatchInvalidTyped, PatchActiveTyped, PatchExpiredTyped, CreateJobTyped,
     WaitJobTyped, DeleteTyped DEF ReconcileStep

LEMMA NextTyped == ASSUME TypeInv, Next PROVE TypeInv'
<1> DEFINE Outer == /\ nextUid' \in Nat
                    /\ tracked' = tracked
                    /\ ops' \in 0 .. MaxOps
                    /\ crashes' \in 0 .. MaxCrashes
<1>1. CASE System
  <2>1. StepTyped
    BY <1>1, DequeueTyped, DeliverTyped, ReconcileStepTyped DEF System
  <2>2. Outer
    BY <1>1 DEF System, outerVars, TypeInv, TypeOK
  <2> QED
    BY <2>1, <2>2, HeldStaysTyped DEF StepTyped, TypeInv, TypeOK
<1>2. CASE Environment
  <2>1. ASSUME Tick, UNCHANGED outerVars PROVE StepTyped /\ Outer
    <3>1. InFlight'
      BY <2>1 DEF Tick, TypeInv, InFlight
    <3> QED
      BY <2>1, <3>1 DEF Tick, outerVars, TypeInv, TypeOK, StepTyped
  <2>2. ASSUME NEW j \in jobs, FinishJob(j), UNCHANGED outerVars
        PROVE  StepTyped /\ Outer
    BY <2>2, FinishJobTyped DEF outerVars, TypeInv, TypeOK
  <2>3. ASSUME NEW n \in Names, Miss(n), UNCHANGED outerVars
        PROVE  StepTyped /\ Outer
    BY <2>3, MissTyped DEF outerVars, TypeInv, TypeOK
  <2>4. ASSUME NEW n \in Names, UNCHANGED <<crashes, tracked>>,
               UserCreate(n) \/ UserSetTTL(n) \/ UserSetStart(n) \/ UserSetJob(n) \/ UserDelete(n)
        PROVE  StepTyped /\ Outer
    BY <2>4, UserTyped DEF TypeInv, TypeOK
  <2>5. ASSUME Crash, UNCHANGED <<ops, nextUid, tracked>>
        PROVE  StepTyped /\ Outer
    BY <2>5, CrashTyped DEF TypeInv, TypeOK
  <2>6. StepTyped /\ Outer
    BY <1>2, <2>1, <2>2, <2>3, <2>4, <2>5 DEF Environment, World, Users, Restart
  <2> QED
    BY <2>6, HeldStaysTyped DEF StepTyped, TypeInv, TypeOK
<1> QED
  BY <1>1, <1>2 DEF Next

\* Type correctness: no sequence of events, calls, failures, crashes and user
\* writes brings the controller, its queue or the objects out of their types.
THEOREM TypeCorrect == Spec => []TypeOK
<1>1. Init => TypeInv
  BY InitTyped
<1>2. TypeInv /\ [Next]_vars => TypeInv'
  <2> SUFFICES ASSUME TypeInv, [Next]_vars PROVE TypeInv'
    OBVIOUS
  <2>1. CASE Next
    BY <2>1, NextTyped
  <2>2. CASE UNCHANGED vars
    BY <2>2 DEF vars, TypeInv, TypeOK, InFlight
  <2> QED
    BY <2>1, <2>2
<1>3. TypeInv => TypeOK
  BY DEF TypeInv
<1> QED
  BY <1>1, <1>2, <1>3, PTL DEF Spec

-----------------------------------------------------------------------------
(* No deletion before its time. With one worker, and nobody else deleting,    *)
(* the object a reconcile read stays the incarnation under its name; what the *)
(* reconcile judges by is then a ttl and a lease-start this incarnation held. *)

Version(n, o) == [name |-> n, uid |-> o.uid, ttl |-> o.ttl, start |-> o.start]

\* Incarnation uid of n held a ttl and lease-start by which it is overdue.
WasPromised(n, uid) ==
  \E v \in held : v.name = n /\ v.uid = uid /\ Overdue(v, clock)

Busy   == Phases \ {"idle", "filter", "get"}
Doomed == {"patchExpired", "createJob", "waitJob", "delete"}
W      == run[Worker]

SameIncarnation == W.pc \in Busy => api[W.name] # Gone /\ api[W.name].uid = W.obj.uid
ReadingIsPast   == W.now <= clock
VersionIsHeld   == W.pc \in {"time", "patchStart"} => Version(W.name, W.obj) \in held
StartIsMissing  == W.pc = "patchStart" => ~HasLeaseStart(W.obj)
DoomIsPromised  == W.pc \in Doomed => WasPromised(W.name, W.obj.uid)

Judged == /\ SameIncarnation
          /\ ReadingIsPast
          /\ VersionIsHeld
          /\ StartIsMissing
          /\ DoomIsPromised
          /\ HeldNow \subseteq held

\* Formatting a stamp moves it back, if at all.
LEMMA FormatBelow == ASSUME NEW t \in Int PROVE Format(t) \in Int /\ Format(t) <= t
  BY SecAssumption DEF Format

\* A lease that is over stays over while its ttl and lease-start stay.
LEMMA OverdueGrows ==
  ASSUME NEW v, NEW c \in Int, NEW d \in Int, c <= d, Overdue(v, c)
  PROVE  Overdue(v, d)
  BY DEF Overdue, HasLeaseStart, Durations

\* The clock and the history only grow.
LEMMA TimeGoesOn ==
  ASSUME TypeInv, Next
  PROVE  /\ clock \in Int /\ clock' \in Int /\ clock <= clock'
         /\ held \subseteq held' /\ HeldNow' \subseteq held'
<1>1. clock \in Int
  BY TimeTypes DEF TypeInv, TypeOK
<1>2. clock' = clock \/ Tick
  BY DEF Next, System, Environment, World, Users, Restart, Dequeue, Deliver, ReconcileStep, FinishJob, Miss,
         UserCreate, UserSetTTL, UserSetStart, UserSetJob, UserDelete, UserWrite, Crash
<1>3. CASE clock' = clock
  BY <1>1, <1>3 DEF Next
<1>4. CASE Tick
  <2>1. clock' \in Instants /\ clock' > clock
    BY <1>4 DEF Tick
  <2>2. clock' \in Int
    BY <2>1, TimeTypes
  <2> QED
    BY <1>1, <2>1, <2>2 DEF Next
<1> QED
  BY <1>2, <1>3, <1>4

\* WasPromised in the next state, of an n and a uid of this one.
PromisedNext(n, uid) ==
  \E v \in held' : v.name = n /\ v.uid = uid /\ Overdue(v, clock')

LEMMA PromiseStays ==
  ASSUME TypeInv, Next, NEW n, NEW uid, WasPromised(n, uid)
  PROVE  PromisedNext(n, uid)
<1>1. PICK v \in held : v.name = n /\ v.uid = uid /\ Overdue(v, clock)
  BY DEF WasPromised
<1>2. Overdue(v, clock')
  BY <1>1, TimeGoesOn, OverdueGrows
<1>3. v \in held'
  BY <1>1, TimeGoesOn
<1> QED
  BY <1>1, <1>2, <1>3 DEF PromisedNext

\* A step that leaves the worker alone leaves what it judged true, if it also
\* leaves the incarnation the worker deals with.
LEMMA JudgedStays ==
  ASSUME TypeInv, Judged, Next, W' = W,
         W.pc \in Busy => /\ api'[W.name] # Gone
                          /\ api'[W.name].uid = W.obj.uid
  PROVE  Judged'
<1>0. W \in Reconcile
  BY DEF TypeInv, TypeOK, Threads, W
<1>1. SameIncarnation'
  BY DEF SameIncarnation
<1>2. ReadingIsPast'
  BY <1>0, TimeGoesOn DEF Judged, ReadingIsPast, Reconcile
<1>3. VersionIsHeld' /\ StartIsMissing'
  BY TimeGoesOn DEF Judged, VersionIsHeld, StartIsMissing
<1>4. DoomIsPromised'
  <2>1. CASE W.pc \in Doomed
    <3>1. WasPromised(W.name, W.obj.uid)
      BY <2>1 DEF Judged, DoomIsPromised
    <3>2. PromisedNext(W.name, W.obj.uid)
      BY <3>1, PromiseStays
    <3> QED
      BY <3>2 DEF DoomIsPromised, WasPromised, PromisedNext
  <2>2. CASE W.pc \notin Doomed
    BY <2>2 DEF DoomIsPromised
  <2> QED
    BY <2>1, <2>2
<1> QED
  BY <1>1, <1>2, <1>3, <1>4, TimeGoesOn DEF Judged

\* A worker that has read no object yet has judged nothing.
LEMMA JudgedNothing ==
  ASSUME TypeInv, Next, W'.pc \notin Busy, W'.pc \in Phases, W'.now <= clock'
  PROVE  Judged'
  BY TimeGoesOn DEF Judged, SameIncarnation, ReadingIsPast, VersionIsHeld,
     StartIsMissing, DoomIsPromised, Busy, Doomed, Phases

LEMMA JudgedAtReturn ==
  ASSUME TypeInv, Next, NEW when, Return(Worker, when) PROVE Judged'
<1>1. W' = Idle
  BY DEF Return, TypeInv, TypeOK, Threads, W
<1>2. clock' \in Nat
  BY NextTyped, ClockAssumption DEF TypeInv, TypeOK
<1> QED
  BY <1>1, <1>2, JudgedNothing DEF Idle, Busy, Phases

\* A patch leaves the incarnation under the name what it was.
LEMMA PatchKeeps ==
  ASSUME TypeInv, SameIncarnation, W.pc \in Busy,
         NEW new \in Object, new.uid = W.obj.uid,
         NEW after \in PatchResults(Worker, new), Patch(Worker, new, after)
  PROVE  /\ api'[W.name] # Gone
         /\ api'[W.name].uid = W.obj.uid
         /\ after.uid = W.obj.uid
         /\ \/ after = new
            \/ /\ after = MergePatch(api[W.name], W.obj, new)
               /\ api'[W.name] = after
<1> DEFINE n == W.name
           merged == MergePatch(api[n], W.obj, new)
<1>1. /\ n \in Names /\ W.obj \in Object
      /\ api[n] \in Object /\ api[n].uid = W.obj.uid
  BY DEF TypeInv, TypeOK, InFlight, SameIncarnation, Busy, Threads, W
<1>2. merged \in Object /\ merged.uid = W.obj.uid /\ merged # Gone
  <2>1. merged \in Object
    BY <1>1, MergeType
  <2>2. merged.uid = api[n].uid
    BY <1>1 DEF MergePatch, Object
  <2> QED
    BY <1>1, <2>1, <2>2, InputAssumption
<1>3. Write(n, merged) => api'[n] = merged
  BY <1>1 DEF Write, TypeInv, TypeOK
<1>4. \/ api' = api /\ after = new
      \/ Write(n, merged) /\ after \in {new, merged}
  BY <1>1, <1>2, InputAssumption DEF Patch, W
<1> QED
  BY <1>1, <1>2, <1>3, <1>4, InputAssumption

LEMMA GetJudges ==
  ASSUME TypeInv, Judged, Next, Get(Worker) PROVE Judged'
<1> DEFINE n == W.name
           o == api[n]
<1>1. n \in Names
  BY DEF Get, TypeInv, InFlight, Threads, W
<1>2. ASSUME NEW p \in {"time", "clean"}, o # Gone,
             run' = [run EXCEPT ![Worker].pc = p, ![Worker].obj = o]
      PROVE  Judged'
  <2>1. W \in Reconcile /\ Worker \in Threads
    BY DEF TypeInv, TypeOK, Threads, W
  <2>2. W'.pc = p /\ W'.obj = o /\ W'.name = n /\ W'.now = W.now
    BY <1>2, <2>1 DEF TypeInv, TypeOK, W, Reconcile
  <2>3. api' = api
    BY DEF Get
  <2>4. Version(n, o) \in HeldNow
    BY <1>1, <1>2 DEF Version, HeldNow
  <2>5. Version(n, o) \in held'
    BY <2>4, TimeGoesOn DEF Judged
  <2>6. W.now \in Int /\ W.now <= clock
    BY <2>1 DEF Judged, ReadingIsPast, Reconcile
  <2>7. SameIncarnation' /\ ReadingIsPast' /\ VersionIsHeld'
    BY <1>2, <2>2, <2>3, <2>5, <2>6, TimeGoesOn
    DEF SameIncarnation, ReadingIsPast, VersionIsHeld
  <2>8. StartIsMissing' /\ DoomIsPromised'
    BY <2>2 DEF StartIsMissing, DoomIsPromised, Doomed
  <2> QED
    BY <2>7, <2>8, TimeGoesOn DEF Judged
<1>3. ASSUME NEW when, Return(Worker, when) PROVE Judged'
  BY <1>3, JudgedAtReturn
<1> QED
  BY <1>2, <1>3 DEF Get, W

\* What the worker goes on with when it knows the start s of the lease: it
\* condemns o only with a promise to point to.
LEMMA DecisionJudges ==
  ASSUME TypeInv, Judged, Next,
         NEW o \in Object, NEW s \in Int, NEW reading \in Nat, reading <= clock,
         run' = [run EXCEPT ![Worker] = Decided(Worker, o, s, reading)],
         W.pc \in Busy, o.uid = W.obj.uid,
         api'[W.name] # Gone, api'[W.name].uid = o.uid,
         Verdict(o.ttl, s, reading) = "expire" => PromisedNext(W.name, o.uid)
  PROVE  Judged'
<1> DEFINE d == Decided(Worker, o, s, reading)
<1>1. W \in Reconcile /\ Worker \in Threads /\ W.name \in Names
  BY DEF TypeInv, TypeOK, InFlight, Busy, Threads, W
<1>2. W' = d
  BY <1>1 DEF TypeInv, TypeOK, W
<1>3. d.name = W.name /\ d.obj = o /\ d.now = reading
  BY <1>1 DEF Decided, Reconcile, W
<1>4. /\ d.pc \in {"patchInvalid", "patchExpired", "patchActive"}
      /\ d.pc = "patchExpired" => Verdict(o.ttl, s, reading) = "expire"
  <2>1. Verdict(o.ttl, s, reading) \in {"markInvalid", "expire", "activate"}
    BY DEF Verdict
  <2> QED
    BY <1>1, <2>1 DEF Decided, Reconcile, W
<1>5. SameIncarnation' /\ ReadingIsPast' /\ VersionIsHeld' /\ StartIsMissing'
  BY <1>2, <1>3, <1>4, TimeGoesOn
  DEF SameIncarnation, ReadingIsPast, VersionIsHeld, StartIsMissing
<1>6. DoomIsPromised'
  <2>1. CASE d.pc = "patchExpired"
    <3>1. PromisedNext(W.name, o.uid)
      BY <1>4, <2>1
    <3>2. W'.name = W.name /\ W'.obj.uid = o.uid
      BY <1>2, <1>3
    <3> QED
      BY <3>1, <3>2 DEF DoomIsPromised, WasPromised, PromisedNext
  <2>2. CASE d.pc # "patchExpired"
    BY <1>2, <1>4, <2>2 DEF DoomIsPromised, Doomed
  <2> QED
    BY <2>1, <2>2
<1> QED
  BY <1>5, <1>6, TimeGoesOn DEF Judged

LEMMA ReadClockJudges ==
  ASSUME TypeInv, Judged, Next, ReadClock(Worker) PROVE Judged'
<1> DEFINE o == W.obj
           v == Version(W.name, o)
<1>1. /\ W \in Reconcile /\ Worker \in Threads /\ W.pc = "time"
      /\ W.name \in Names /\ o \in Object
  BY DEF ReadClock, TypeInv, TypeOK, InFlight, Threads, W
<1>2. clock \in Nat /\ clock \in Int
  BY ClockAssumption DEF TypeInv, TypeOK
<1>3. api' = api
  BY DEF ReadClock
<1>4. api[W.name] # Gone /\ api[W.name].uid = o.uid
  BY <1>1 DEF Judged, SameIncarnation, Busy, Phases
<1>5. v \in held
  BY <1>1 DEF Judged, VersionIsHeld
<1>6. CASE HasLeaseStart(o)
  <2>1. o.start \in Int
    BY <1>6 DEF HasLeaseStart
  <2>2. run' = [run EXCEPT ![Worker] = Decided(Worker, o, o.start, clock)]
    BY <1>6 DEF ReadClock, W
  <2>3. Verdict(o.ttl, o.start, clock) = "expire" => WasPromised(W.name, o.uid)
    <3>1. SUFFICES ASSUME Verdict(o.ttl, o.start, clock) = "expire"
                   PROVE  WasPromised(W.name, o.uid)
      OBVIOUS
    <3>2. Overdue(v, clock)
      BY <2>1, <3>1 DEF Verdict, Overdue, HasLeaseStart, Version
    <3> QED
      BY <1>5, <3>2 DEF WasPromised, Version
  <2>4. Verdict(o.ttl, o.start, clock) = "expire" => PromisedNext(W.name, o.uid)
    BY <2>3, PromiseStays
  <2> QED
    <3>1. W.pc \in Busy /\ clock <= clock
      BY <1>1, <1>2 DEF Busy, Phases
    <3>2. api'[W.name] # Gone /\ api'[W.name].uid = o.uid
      BY <1>3, <1>4
    <3> QED
      BY <1>1, <1>2, <2>1, <2>2, <2>4, <3>1, <3>2, DecisionJudges
<1>7. CASE ~HasLeaseStart(o)
  <2>1. W' = [W EXCEPT !.pc = "patchStart", !.now = clock]
    BY <1>1, <1>7 DEF ReadClock, TypeInv, TypeOK, W
  <2>2. /\ W'.pc = "patchStart" /\ W'.now = clock
        /\ W'.name = W.name /\ W'.obj = o
    BY <1>1, <2>1 DEF Reconcile
  <2>3. SameIncarnation' /\ ReadingIsPast' /\ VersionIsHeld'
    BY <1>3, <1>4, <1>5, <2>2, TimeGoesOn
    DEF SameIncarnation, ReadingIsPast, VersionIsHeld
  <2>4. StartIsMissing' /\ DoomIsPromised'
    BY <1>7, <2>2 DEF StartIsMissing, DoomIsPromised, Doomed
  <2> QED
    BY <2>3, <2>4, TimeGoesOn DEF Judged
<1> QED
  BY <1>6, <1>7

LEMMA PatchStartJudges ==
  ASSUME TypeInv, Judged, Next, PatchStart(Worker) PROVE Judged'
<1> DEFINE start == Format(W.now)
           new   == [W.obj EXCEPT !.start = start]
<1>1. /\ W \in Reconcile /\ Worker \in Threads /\ W.pc = "patchStart"
      /\ W.name \in Names /\ W.obj \in Object
  BY DEF PatchStart, TypeInv, TypeOK, InFlight, Threads, W
<1>2. /\ W.now \in Nat /\ W.now \in Int /\ W.now <= clock
      /\ start \in Int /\ start <= W.now
  BY <1>1, FormatBelow DEF Reconcile, Judged, ReadingIsPast
<1>3. new \in Object /\ new.uid = W.obj.uid /\ new.ttl = W.obj.ttl
  BY <1>1, <1>2, StampedTypes DEF Object
<1>4. PICK after \in PatchResults(Worker, new) :
        /\ Patch(Worker, new, after)
        /\ run' = [run EXCEPT ![Worker] = Decided(Worker, after, W.now, W.now)]
  BY DEF PatchStart, W
<1>5. SameIncarnation /\ W.pc \in Busy
  BY <1>1 DEF Judged, Busy, Phases
<1>6. /\ api'[W.name] # Gone /\ api'[W.name].uid = W.obj.uid
      /\ after.uid = W.obj.uid
      /\ \/ after = new
         \/ /\ after = MergePatch(api[W.name], W.obj, new)
            /\ api'[W.name] = after
  BY <1>3, <1>4, <1>5, PatchKeeps
<1>7. after \in Object
  BY <1>1, <1>3, <1>4, PatchTyped DEF W
<1>8. Verdict(after.ttl, W.now, W.now) = "expire" => PromisedNext(W.name, after.uid)
  <2>1. SUFFICES ASSUME Verdict(after.ttl, W.now, W.now) = "expire"
                 PROVE  PromisedNext(W.name, after.uid)
    OBVIOUS
  <2>2. after.ttl \in Int /\ after.ttl < 0
    BY <1>2, <2>1 DEF Verdict, Durations
  <2>3. CASE after = new
    <3> DEFINE v == Version(W.name, W.obj)
    <3>1. v \in held /\ ~HasLeaseStart(W.obj)
      BY <1>1 DEF Judged, VersionIsHeld, StartIsMissing
    <3>2. Overdue(v, clock)
      BY <1>3, <2>2, <2>3, <3>1 DEF Overdue, HasLeaseStart, Durations, Version
    <3>3. WasPromised(W.name, W.obj.uid)
      BY <3>1, <3>2 DEF WasPromised, Version
    <3> QED
      BY <1>6, <3>3, PromiseStays
  <2>4. CASE after = MergePatch(api[W.name], W.obj, new) /\ api'[W.name] = after
    <3> DEFINE v == Version(W.name, after)
    <3>1. v \in held'
      <4>1. v \in HeldNow'
        BY <1>1, <1>6, <2>4 DEF Version, HeldNow
      <4> QED
        BY <4>1, TimeGoesOn
    <3>2. after.start = start
      <4>1. api[W.name] \in Object
        BY <1>1, <1>5 DEF SameIncarnation, TypeInv, TypeOK
      <4>2. ~HasLeaseStart(W.obj)
        BY <1>1 DEF Judged, StartIsMissing
      <4>3. W.obj.start # start /\ new.start = start
        BY <1>1, <1>2, <4>2 DEF HasLeaseStart, Object
      <4> QED
        BY <2>4, <4>1, <4>3 DEF MergePatch, PatchValue, Object
    <3>3. clock' \in Int /\ clock' > start + after.ttl
      BY <1>2, <2>2, TimeGoesOn
    <3>4. Overdue(v, clock')
      BY <1>2, <2>2, <3>2, <3>3 DEF Overdue, HasLeaseStart, Durations, Version
    <3> QED
      BY <3>1, <3>4 DEF PromisedNext, Version
  <2> QED
    BY <1>6, <2>3, <2>4
<1> QED
  BY <1>2, <1>4, <1>5, <1>6, <1>7, <1>8, DecisionJudges

\* Steps of the worker past its verdict keep the incarnation condemned.
LEMMA DoomedJudges ==
  ASSUME TypeInv, Judged, Next, W.pc \in Doomed, W'.pc \in Doomed,
         W'.name = W.name, W'.obj.uid = W.obj.uid, W'.now = W.now,
         api'[W.name] # Gone, api'[W.name].uid = W.obj.uid
  PROVE  Judged'
<1>1. PromisedNext(W.name, W.obj.uid)
  BY PromiseStays DEF Judged, DoomIsPromised
<1>2. DoomIsPromised'
  BY <1>1 DEF DoomIsPromised, WasPromised, PromisedNext
<1>3. W \in Reconcile
  BY DEF TypeInv, TypeOK, Threads, W
<1>4. ReadingIsPast'
  BY <1>3, TimeGoesOn DEF Judged, ReadingIsPast, Reconcile
<1>5. SameIncarnation' /\ VersionIsHeld' /\ StartIsMissing'
  BY DEF SameIncarnation, VersionIsHeld, StartIsMissing, Doomed
<1> QED
  BY <1>2, <1>4, <1>5, TimeGoesOn DEF Judged

LEMMA PatchExpiredJudges ==
  ASSUME TypeInv, Judged, Next, PatchExpired(Worker) PROVE Judged'
<1> DEFINE new == [W.obj EXCEPT !.expireAt = Format(W.expireAt),
                                !.status   = ExpiredStatus]
<1>1. /\ W \in Reconcile /\ Worker \in Threads /\ W.pc = "patchExpired"
      /\ W.obj \in Object
  BY DEF PatchExpired, TypeInv, TypeOK, InFlight, Threads, W
<1>2. new \in Object /\ new.uid = W.obj.uid
  <2>1. W.expireAt \in Int
    BY <1>1 DEF Reconcile
  <2> QED
    BY <1>1, <2>1, StampedTypes DEF Object
<1>3. PICK after \in PatchResults(Worker, new) :
        /\ Patch(Worker, new, after)
        /\ run' = [run EXCEPT
             ![Worker].obj = after,
             ![Worker].pc  = IF after.job \in {"fire", "wait"} THEN "createJob" ELSE "delete"]
  BY DEF PatchExpired, W
<1>4. SameIncarnation /\ W.pc \in Busy /\ W.pc \in Doomed
  BY <1>1 DEF Judged, Busy, Doomed, Phases
<1>5. /\ api'[W.name] # Gone /\ api'[W.name].uid = W.obj.uid
      /\ after.uid = W.obj.uid
  BY <1>2, <1>3, <1>4, PatchKeeps
<1>6. /\ W'.pc \in Doomed /\ W'.obj = after
      /\ W'.name = W.name /\ W'.now = W.now
  BY <1>1, <1>3 DEF TypeInv, TypeOK, Doomed, W, Reconcile
<1> QED
  BY <1>4, <1>5, <1>6, DoomedJudges

LEMMA JobStepJudges ==
  ASSUME TypeInv, Judged, Next, CreateJob(Worker) \/ WaitJob(Worker)
  PROVE  Judged'
<1>1. W \in Reconcile /\ Worker \in Threads /\ api' = api
  BY DEF TypeInv, TypeOK, Threads, W, CreateJob, WaitJob
<1>2. W.pc \in Doomed /\ W.pc \in Busy
  BY DEF CreateJob, WaitJob, Doomed, Busy, Phases, W
<1>3. /\ W'.pc \in Doomed /\ W'.obj = W.obj
      /\ W'.name = W.name /\ W'.now = W.now
  BY <1>1 DEF CreateJob, WaitJob, TypeInv, TypeOK, Doomed, W, Reconcile
<1>4. api[W.name] # Gone /\ api[W.name].uid = W.obj.uid
  BY <1>2 DEF Judged, SameIncarnation
<1> QED
  BY <1>1, <1>2, <1>3, <1>4, DoomedJudges

LEMMA WorkerJudges ==
  ASSUME TypeInv, Judged, Next, ReconcileStep(Worker) PROVE Judged'
<1>1. CASE Filter(Worker)
  <2>1. CASE isNamespaceTracked(W.name)
    <3>1. W \in Reconcile /\ Worker \in Threads
      BY DEF TypeInv, TypeOK, Threads, W
    <3>2. W'.pc = "get" /\ W'.now = W.now
      BY <1>1, <2>1, <3>1 DEF Filter, TypeInv, TypeOK, W, Reconcile
    <3>3. W.now \in Int /\ W.now <= clock
      BY <3>1 DEF Judged, ReadingIsPast, Reconcile
    <3> QED
      BY <3>2, <3>3, TimeGoesOn, JudgedNothing DEF Busy, Phases
  <2>2. CASE Return(Worker, Never)
    BY <2>2, JudgedAtReturn
  <2> QED
    BY <1>1, <2>1, <2>2 DEF Filter, W
<1>2. CASE Clean(Worker) \/ PatchInvalid(Worker) \/ PatchActive(Worker) \/ Delete(Worker)
  <2>1. \E when : Return(Worker, when)
    BY <1>2 DEF Clean, PatchInvalid, PatchActive, Delete
  <2> QED
    BY <2>1, JudgedAtReturn
<1> QED
  BY <1>1, <1>2, GetJudges, ReadClockJudges, PatchStartJudges,
     PatchExpiredJudges, JobStepJudges DEF ReconcileStep

\* Users change the annotations of an incarnation, never the incarnation.
\* What a user's write puts under a name: nothing, a new incarnation without an
\* annotation the controller writes, or the one there is with expire-at and
\* lease-status as they were.
LEMMA UserWritesWhat ==
  ASSUME TypeInv, NEW n \in Names,
         UserCreate(n) \/ UserSetTTL(n) \/ UserSetStart(n) \/ UserSetJob(n) \/ UserDelete(n)
  PROVE  \E o \in Object \cup {Gone} :
           /\ UserWrite(n, o)
           /\ \/ UserDeletes /\ o = Gone /\ api[n] # Gone /\ nextUid' = nextUid
              \/ /\ api[n] = Gone /\ o \in Object
                 /\ o.uid = nextUid /\ nextUid' = nextUid + 1
                 /\ o.expireAt = Absent /\ o.status = Absent
                 /\ o.ttl = Absent => o.start = Absent
              \/ /\ api[n] # Gone /\ o \in Object
                 /\ o.uid = api[n].uid /\ nextUid' = nextUid
                 /\ o.expireAt = api[n].expireAt /\ o.status = api[n].status
<1>1. CASE UserCreate(n)
  <2>1. PICK ttl \in UserTTLs, start \in UserStarts, job \in UserJobs :
          /\ ttl = Absent => start = Absent
          /\ UserWrite(n, [uid |-> nextUid, ttl |-> ttl, start |-> start,
                           expireAt |-> Absent, status |-> Absent, job |-> job])
    BY <1>1 DEF UserCreate
  <2>2. [uid |-> nextUid, ttl |-> ttl, start |-> start, expireAt |-> Absent,
         status |-> Absent, job |-> job] \in Object
    BY InputAssumption DEF TypeInv, TypeOK, Object
  <2> QED
    BY <1>1, <2>1, <2>2 DEF UserCreate
<1>2. ASSUME api[n] # Gone, nextUid' = nextUid, NEW o \in Object,
             o.uid = api[n].uid, o.expireAt = api[n].expireAt, o.status = api[n].status,
             UserWrite(n, o)
      PROVE  \E p \in Object :
               /\ UserWrite(n, p) /\ api[n] # Gone
               /\ p.uid = api[n].uid /\ nextUid' = nextUid
               /\ p.expireAt = api[n].expireAt /\ p.status = api[n].status
  BY <1>2
<1>3. api[n] # Gone => api[n] \in Object
  BY DEF TypeInv, TypeOK
<1>4. ASSUME api[n] # Gone, NEW ttl \in UserTTLs
      PROVE  LET o == [api[n] EXCEPT !.ttl = ttl]
             IN  /\ o \in Object /\ o.uid = api[n].uid
                 /\ o.expireAt = api[n].expireAt /\ o.status = api[n].status
  BY <1>3, <1>4, InputAssumption DEF Object
<1>5. ASSUME api[n] # Gone, NEW start \in UserStarts
      PROVE  LET o == [api[n] EXCEPT !.start = start]
             IN  /\ o \in Object /\ o.uid = api[n].uid
                 /\ o.expireAt = api[n].expireAt /\ o.status = api[n].status
  BY <1>3, <1>5, InputAssumption DEF Object
<1>6. ASSUME api[n] # Gone, NEW job \in UserJobs
      PROVE  LET o == [api[n] EXCEPT !.job = job]
             IN  /\ o \in Object /\ o.uid = api[n].uid
                 /\ o.expireAt = api[n].expireAt /\ o.status = api[n].status
  BY <1>3, <1>6, InputAssumption DEF Object
<1>7. CASE UserSetTTL(n)
  BY <1>2, <1>4, <1>7 DEF UserSetTTL
<1>8. CASE UserSetStart(n)
  BY <1>2, <1>5, <1>8 DEF UserSetStart
<1>9. CASE UserSetJob(n)
  BY <1>2, <1>6, <1>9 DEF UserSetJob
<1>10. CASE UserDelete(n)
  BY <1>10 DEF UserDelete
<1> QED
  BY <1>1, <1>7, <1>8, <1>9, <1>10

LEMMA UserJudges ==
  ASSUME UserDeletes = FALSE, TypeInv, Judged, Next, NEW n \in Names,
         UserCreate(n) \/ UserSetTTL(n) \/ UserSetStart(n) \/ UserSetJob(n) \/ UserDelete(n)
  PROVE  Judged'
<1>1. run' = run
  BY DEF UserCreate, UserSetTTL, UserSetStart, UserSetJob, UserDelete, UserWrite
<1>2. ~UserDelete(n)
  BY DEF UserDelete
<1>3. ASSUME W.pc \in Busy
      PROVE  api'[W.name] # Gone /\ api'[W.name].uid = W.obj.uid
  <2>1. W.name \in Names /\ api[W.name] # Gone /\ api[W.name].uid = W.obj.uid
    BY <1>3 DEF Judged, SameIncarnation, TypeInv, InFlight, Busy, Threads, W
  <2>2. CASE n # W.name
    <3>1. api'[W.name] = api[W.name]
      BY <2>1, <2>2, <1>2 DEF UserCreate, UserSetTTL, UserSetStart, UserSetJob, UserWrite, Write, TypeInv, TypeOK
    <3> QED
      BY <2>1, <3>1
  <2>3. CASE n = W.name
    <3>1. PICK o \in Object : o.uid = api[n].uid /\ UserWrite(n, o)
      BY <2>1, <2>3, UserWritesWhat
    <3>2. api'[n] = o
      BY <3>1 DEF UserWrite, Write, TypeInv, TypeOK
    <3> QED
      BY <2>1, <2>3, <3>1, <3>2, InputAssumption
  <2> QED
    BY <2>2, <2>3
<1> QED
  BY <1>1, <1>3, JudgedStays DEF W

LEMMA InitJudges == ASSUME Init PROVE Judged
<1>1. W = Idle
  BY DEF Init, LeaseInit, Threads, W
<1>2. clock \in Nat
  BY ClockAssumption DEF Init, LeaseInit
<1> QED
  BY <1>1, <1>2 DEF Init, LeaseInit, Judged, SameIncarnation, ReadingIsPast, VersionIsHeld,
     StartIsMissing, DoomIsPromised, Idle, Busy, Doomed

LEMMA NextJudges ==
  ASSUME UserDeletes = FALSE, Goroutines = {}, TypeInv, Judged, Next PROVE Judged'
<1>1. ASSUME run' = run, api' = api PROVE Judged'
  BY <1>1, JudgedStays DEF Judged, SameIncarnation, W
<1>2. ASSUME NEW n \in Names, Dequeue(n) PROVE Judged'
  <2>1. W' = Started(n)
    BY <1>2 DEF Dequeue, TypeInv, TypeOK, Threads, W
  <2>2. clock' \in Nat
    BY NextTyped, ClockAssumption DEF TypeInv, TypeOK
  <2> QED
    BY <2>1, <2>2, JudgedNothing DEF Started, Idle, Busy, Phases
<1>3. ASSUME NEW n \in Names, Deliver(n) PROVE Judged'
  BY <1>1, <1>3 DEF Deliver
<1>4. ASSUME NEW t \in Threads, ReconcileStep(t) PROVE Judged'
  BY <1>4, WorkerJudges DEF Threads
<1>5. ASSUME World PROVE Judged'
  BY <1>1, <1>5 DEF World, Tick, FinishJob, Miss
<1>6. ASSUME Crash PROVE Judged'
  <2>1. W' = Idle
    BY <1>6 DEF Crash, Threads, W
  <2>2. clock' \in Nat
    BY NextTyped, ClockAssumption DEF TypeInv, TypeOK
  <2> QED
    BY <2>1, <2>2, JudgedNothing DEF Idle, Busy, Phases
<1> QED
  BY <1>2, <1>3, <1>4, <1>5, <1>6, UserJudges DEF Next, System, Environment, Users, Restart

\* No deletion before its time: with one worker and nobody else deleting, an
\* object is deleted only when its lease is over by some ttl and lease-start
\* this very incarnation held, however often users move the two, calls fail or
\* lose their answers, and the process crashes.
THEOREM NoEarlyDeletion ==
  ASSUME UserDeletes = FALSE, Goroutines = {} PROVE Spec => OnlyOverdueDeleted
<1> DEFINE Inv == TypeInv /\ Judged
           Due == \A n \in Names :
                    ControllerDeletes(n) =>
                      \E v \in held : /\ v.name = n
                                      /\ v.uid = api[n].uid
                                      /\ Overdue(v, clock)
<1>1. Init => Inv
  BY InitTyped, InitJudges
<1>2. Inv /\ [Next]_vars => Inv'
  <2>1. ASSUME Inv, Next PROVE Inv'
    BY <2>1, NextTyped, NextJudges
  <2>2. ASSUME Inv, UNCHANGED vars PROVE Inv'
    BY <2>2 DEF vars, TypeInv, TypeOK, InFlight, Judged, SameIncarnation,
       ReadingIsPast, VersionIsHeld, StartIsMissing, DoomIsPromised,
       WasPromised, HeldNow, W
  <2> QED
    BY <2>1, <2>2
<1>3. Inv => [Due]_vars
  <2> SUFFICES ASSUME Inv, NEW n \in Names, ControllerDeletes(n)
               PROVE  \E v \in held : /\ v.name = n
                                      /\ v.uid = api[n].uid
                                      /\ Overdue(v, clock)
    OBVIOUS
  <2>1. W.pc = "delete" /\ W.name = n
    BY DEF ControllerDeletes, DeletedBy, Threads, W
  <2>2. WasPromised(n, W.obj.uid) /\ api[n].uid = W.obj.uid
    BY <2>1 DEF Judged, DoomIsPromised, SameIncarnation, Doomed, Busy, Phases
  <2> QED
    BY <2>2 DEF WasPromised
<1> QED
  BY <1>1, <1>2, <1>3, PTL DEF Spec, OnlyOverdueDeleted

=============================================================================
