------------------------- MODULE LeaseAnnotationsProofs -------------------------
(***************************************************************************)
(* When the lease controller has nothing left to do about an object, its   *)
(* annotations are right. The proof follows each change of an object from  *)
(* the watch to the queue: as long as the annotations are not what they    *)
(* should be, a change is on its way that the event filter lets through,   *)
(* the name is ready in the queue, or the worker is on it with a copy that *)
(* is up to date; or the watch broke and lost the change. One worker,      *)
(* nobody else deleting.                                                   *)
(***************************************************************************)
EXTENDS LeaseControllerProofs

-----------------------------------------------------------------------------
(* The watch: s is the view the informer has, q are the ones to come.       *)

LatestView(s, q) == IF q = <<>> THEN s ELSE q[Len(q)]

\* The watch ends with what the API server has.
Linked == \A n \in Names : LatestView(seen[n], pending[n]) = leaseRelevantAnns(api[n])

\* The controller will look at n again, or would if the watch had not broken.
Stirred(n) == due[n] <= clock \/ Passing(seen[n], pending[n]) \/ n \in missed

-----------------------------------------------------------------------------
(* The invariant.                                                           *)

AllTracked == tracked = { NamespaceOf[n] : n \in Names }

\* What SettledIsConsistent asks of an object.
Consistent(o) ==
  /\ noTTL(o) => ~HasLeaseAnns(o)
  /\ o.ttl = Invalid => HasLeaseStart(o) /\ o.status = BadTTL
  /\ o.ttl \in Durations =>
       /\ HasLeaseStart(o)
       /\ o.expireAt = Format(o.start + o.ttl)
       /\ o.status = Active(o.start + o.ttl)

\* Nobody but the worker writes the annotations users leave alone, and users
\* do not change the others unnoticed.
CopyIsFresh ==
  W.pc \in Busy =>
    /\ api[W.name].expireAt = W.obj.expireAt
    /\ api[W.name].status = W.obj.status
    /\ \/ Stirred(W.name)
       \/ api[W.name].ttl = W.obj.ttl /\ api[W.name].start = W.obj.start

\* The step the worker is about to take is the one its copy calls for.
StepIsRight ==
  /\ W.pc = "clean" => noTTL(W.obj)
  /\ W.pc \in {"time", "patchStart"} => ~noTTL(W.obj)
  /\ W.pc = "patchInvalid" => W.obj.ttl = Invalid /\ HasLeaseStart(W.obj)
  /\ W.pc = "patchActive" => /\ W.obj.ttl \in Durations
                             /\ HasLeaseStart(W.obj)
                             /\ W.expireAt = W.obj.start + W.obj.ttl

OnIt(n) == W.pc # "idle" /\ W.name = n

\* An object the worker is not on is as it should be, or will be looked at.
NoneForgotten ==
  \A n \in Names : ~OnIt(n) /\ api[n] # Gone => Stirred(n) \/ Consistent(api[n])

Attended == /\ CopyIsFresh
            /\ W.pc \in Busy => Stirred(W.name) \/ StepIsRight
            /\ NoneForgotten

\* No call has failed and the process has not restarted.
Untroubled == faults = 0 /\ crashes = 0

AttendedInv == TypeInv /\ Judged /\ AllTracked /\ Linked /\ (Untroubled => Attended)

-----------------------------------------------------------------------------
(* Lemmas: changes on their way to the queue.                               *)

\* A new change comes last, and takes no other away.
LEMMA AppendView ==
  ASSUME NEW s, NEW q \in Seq(Views), NEW v \in Views
  PROVE  /\ Passing(s, q) => Passing(s, Append(q, v))
         /\ onlyWithTTLAnnotation(LatestView(s, q), v) => Passing(s, Append(q, v))
         /\ LatestView(s, Append(q, v)) = v
<1> DEFINE r == Append(q, v)
<1>1. /\ Len(r) = Len(q) + 1 /\ Len(q) \in Nat /\ r # <<>>
      /\ \A i \in 1 .. Len(q) : r[i] = q[i]
      /\ r[Len(q) + 1] = v
  OBVIOUS
<1> HIDE DEF r
<1>2. ASSUME Passing(s, q) PROVE Passing(s, r)
  <2>1. PICK i \in 1 .. Len(q) : onlyWithTTLAnnotation(ViewAt(s, q, i), q[i])
    BY <1>2 DEF Passing
  <2>2. i \in 1 .. Len(r) /\ r[i] = q[i] /\ ViewAt(s, r, i) = ViewAt(s, q, i)
    BY <1>1 DEF ViewAt
  <2> QED
    BY <2>1, <2>2 DEF Passing
<1>3. ASSUME onlyWithTTLAnnotation(LatestView(s, q), v) PROVE Passing(s, r)
  <2>1. ViewAt(s, r, Len(q) + 1) = LatestView(s, q)
    BY <1>1 DEF ViewAt, LatestView
  <2>2. Len(q) + 1 \in 1 .. Len(r)
    BY <1>1
  <2> QED
    BY <1>1, <1>3, <2>1, <2>2 DEF Passing
<1>4. LatestView(s, r) = v
  BY <1>1 DEF LatestView
<1> QED
  BY <1>2, <1>3, <1>4 DEF r

\* The first change passes the filter now, or a later one still will.
LEMMA HeadView ==
  ASSUME NEW s, NEW q \in Seq(Views), q # <<>>
  PROVE  /\ Passing(s, q) => onlyWithTTLAnnotation(s, Head(q)) \/ Passing(Head(q), Tail(q))
         /\ LatestView(Head(q), Tail(q)) = LatestView(s, q)
<1> DEFINE h == Head(q)
           r == Tail(q)
<1>1. /\ Len(q) \in Nat \ {0} /\ Len(r) = Len(q) - 1 /\ h = q[1]
      /\ \A i \in 1 .. Len(r) : r[i] = q[i + 1]
      /\ r = <<>> <=> Len(r) = 0
  <2>1. Len(q) \in Nat \ {0} /\ h = q[1]
    OBVIOUS
  <2>2. r \in Seq(Views) /\ Len(r) = Len(q) - 1
    OBVIOUS
  <2>3. \A i \in 1 .. Len(r) : r[i] = q[i + 1]
    OBVIOUS
  <2>4. \A x \in Seq(Views) : x = <<>> <=> Len(x) = 0
    OBVIOUS
  <2> QED
    BY <2>1, <2>2, <2>3, <2>4
<1> HIDE DEF h, r
<1>2. ASSUME Passing(s, q), ~onlyWithTTLAnnotation(s, h) PROVE Passing(h, r)
  <2>1. PICK i \in 1 .. Len(q) : onlyWithTTLAnnotation(ViewAt(s, q, i), q[i])
    BY <1>2 DEF Passing
  <2>2. i # 1
    BY <1>1, <1>2, <2>1 DEF ViewAt
  <2>3. i - 1 \in 1 .. Len(r) /\ r[i - 1] = q[i] /\ ViewAt(h, r, i - 1) = ViewAt(s, q, i)
    BY <1>1, <2>2 DEF ViewAt
  <2> QED
    BY <2>1, <2>3 DEF Passing
<1>3. LatestView(h, r) = LatestView(s, q)
  BY <1>1 DEF LatestView
<1> QED
  BY <1>2, <1>3 DEF h, r

\* Skipping a version leaves the latest one, which is never the one skipped.
LEMMA SkippedView ==
  ASSUME NEW s, NEW q \in Seq(Views), Len(q) > 1
  PROVE  LatestView(s, Tail(q)) = LatestView(s, q)
<1> DEFINE r == Tail(q)
<1>1. q # <<>> /\ r \in Seq(Views)
  OBVIOUS
<1>2. Len(r) = Len(q) - 1 /\ Len(q) \in Nat
  BY <1>1
<1>3. \A i \in 1 .. Len(r) : r[i] = q[i + 1]
  BY <1>1
<1> HIDE DEF r
<1>4. r # <<>>
  BY <1>2
<1>5. LatestView(s, r) = LatestView(s, q)
  BY <1>1, <1>2, <1>3, <1>4 DEF LatestView
<1> QED
  BY <1>5 DEF r

\* Stirred in the next state.
StirredNext(n) == due'[n] <= clock' \/ Passing(seen'[n], pending'[n]) \/ n \in missed'

LEMMA StirredThen == ASSUME NEW n PROVE StirredNext(n) <=> Stirred(n)'
  BY DEF StirredNext, Stirred, Passing, ViewAt, onlyWithTTLAnnotation

LEMMA ConsistentThen == ASSUME NEW n PROVE Consistent(api'[n]) <=> Consistent(api[n])'
  BY DEF Consistent, noTTL, HasLeaseAnns, HasLeaseStart, Format, Active

LEMMA LinkedThen ==
  ASSUME \A n \in Names : LatestView(seen'[n], pending'[n]) = leaseRelevantAnns(api'[n])
  PROVE  Linked'
  BY DEF Linked, LatestView, leaseRelevantAnns

\* A name that will be looked at stays so until the worker takes it.
LEMMA StirredStays ==
  ASSUME TypeInv, TypeInv', NEW n \in Names, Stirred(n),
         clock <= clock', due'[n] <= due[n], seen' = seen, missed' = missed,
         \/ pending'[n] = pending[n]
         \/ \E v \in Views : pending'[n] = Append(pending[n], v)
  PROVE  StirredNext(n)
<1>1. /\ clock \in Int /\ clock' \in Int /\ due[n] \in Int /\ due'[n] \in Int
      /\ pending[n] \in Seq(Views)
  BY TimeTypes DEF TypeInv, TypeOK
<1>2. CASE due[n] <= clock
  BY <1>1, <1>2 DEF StirredNext
<1>3. CASE Passing(seen[n], pending[n])
  BY <1>1, <1>3, AppendView DEF StirredNext
<1>4. CASE n \in missed
  BY <1>4 DEF StirredNext
<1> QED
  BY <1>2, <1>3, <1>4 DEF Stirred

\* A write adds to the watch of its name what the filters see of it, if that
\* is anything new.
LEMMA WriteShows ==
  ASSUME TypeInv, Linked, NEW n \in Names, NEW o \in Object \cup {Gone}, Write(n, o), seen' = seen
  PROVE  /\ \A m \in Names \ {n} : api'[m] = api[m] /\ pending'[m] = pending[m]
         /\ api'[n] = o
         /\ \/ pending'[n] = pending[n]
            \/ \E v \in Views : pending'[n] = Append(pending[n], v)
         /\ LatestView(seen'[n], pending'[n]) = leaseRelevantAnns(o)
         /\ onlyWithTTLAnnotation(leaseRelevantAnns(api[n]), leaseRelevantAnns(o))
              /\ leaseRelevantAnns(api[n]) # leaseRelevantAnns(o) =>
                Passing(seen'[n], pending'[n])
<1> DEFINE v == leaseRelevantAnns(o)
<1>1. v \in Views /\ pending[n] \in Seq(Views)
  BY ViewType DEF TypeInv, TypeOK
<1>2. /\ \A m \in Names \ {n} : api'[m] = api[m] /\ pending'[m] = pending[m]
      /\ api'[n] = o
  BY DEF Write, TypeInv, TypeOK
<1>3. LatestView(seen[n], pending[n]) = leaseRelevantAnns(api[n])
  BY DEF Linked
<1>4. CASE v = leaseRelevantAnns(api[n])
  BY <1>2, <1>3, <1>4 DEF Write
<1>5. CASE v # leaseRelevantAnns(api[n])
  <2>1. pending'[n] = Append(pending[n], v)
    BY <1>5 DEF Write, TypeInv, TypeOK
  <2> QED
    BY <1>1, <1>2, <1>3, <2>1, AppendView
<1> QED
  BY <1>4, <1>5

LEMMA WriteLinks ==
  ASSUME TypeInv, Linked, NEW n \in Names, NEW o \in Object \cup {Gone}, Write(n, o), seen' = seen
  PROVE  Linked'
<1>1. \A m \in Names : LatestView(seen'[m], pending'[m]) = leaseRelevantAnns(api'[m])
  BY WriteShows DEF Linked
<1> QED
  BY <1>1, LinkedThen

\* A write that changes the ttl or the lease-start of an object wakes the
\* controller.
LEMMA ChangeStirs ==
  ASSUME TypeInv, Linked, NEW n \in Names, NEW o \in Object, Write(n, o), seen' = seen,
         api[n] # Gone, api[n].ttl # o.ttl \/ api[n].start # o.start
  PROVE  StirredNext(n)
<1>1. leaseRelevantAnns(api[n]) = <<api[n].ttl, api[n].start>>
  BY DEF leaseRelevantAnns
<1>2. leaseRelevantAnns(o) = <<o.ttl, o.start>>
  BY InputAssumption DEF leaseRelevantAnns
<1>3. leaseRelevantAnns(api[n]) # Gone /\ leaseRelevantAnns(o) # Gone
  <2>1. api[n] \in Object
    BY DEF TypeInv, TypeOK
  <2>2. leaseRelevantAnns(api[n]) \in TTLValues \X Stamps /\ leaseRelevantAnns(o) \in TTLValues \X Stamps
    BY <1>1, <1>2, <2>1 DEF Object
  <2> QED
    BY <2>2, InputAssumption
<1>4. leaseRelevantAnns(api[n]) # leaseRelevantAnns(o)
  BY <1>1, <1>2
<1>5. Passing(seen'[n], pending'[n])
  BY <1>3, <1>4, WriteShows DEF onlyWithTTLAnnotation
<1> QED
  BY <1>5 DEF StirredNext

-----------------------------------------------------------------------------
(* Lemmas: the worker.                                                      *)

\* A step of a thread writes under its own name, or not at all.
LEMMA StepWritesUnder ==
  ASSUME TypeInv, NEW t \in Threads, ReconcileStep(t)
  PROVE  /\ run[t].name \in Names
         /\ \/ UNCHANGED <<api, pending>>
            \/ \E o \in Object \cup {Gone} : Write(run[t].name, o)
<1>1. run[t].pc # "idle"
  BY DEF ReconcileStep, Filter, Get, Clean, ReadClock, PatchStart, PatchInvalid,
         PatchActive, PatchExpired, CreateJob, WaitJob, Delete
<1>2. run[t].name \in Names /\ run[t] \in Reconcile
  BY <1>1 DEF TypeInv, TypeOK, InFlight
<1>3. ASSUME run[t].pc \in Busy, NEW new \in Object,
             \E after \in PatchResults(t, new) : Patch(t, new, after)
      PROVE  UNCHANGED <<api, pending>> \/ \E o \in Object \cup {Gone} : Write(run[t].name, o)
  <2>1. run[t].obj \in Object /\ (api[run[t].name] # Gone => api[run[t].name] \in Object)
    BY <1>2, <1>3 DEF TypeInv, TypeOK, InFlight, Busy
  <2>2. api[run[t].name] # Gone => MergePatch(api[run[t].name], run[t].obj, new) \in Object
    BY <2>1, MergeType
  <2> QED
    BY <1>3, <2>2 DEF Patch
<1>4. CASE Filter(t) \/ Get(t) \/ ReadClock(t) \/ CreateJob(t) \/ WaitJob(t)
  BY <1>2, <1>4 DEF Filter, Get, ReadClock, CreateJob, WaitJob
<1>5. CASE Delete(t)
  BY <1>2, <1>5 DEF Delete
<1>6. run[t].pc \in Busy => run[t].obj \in Object
  BY DEF TypeInv, InFlight, Busy
<1>7. CASE Clean(t)
  <2>1. run[t].pc \in Busy
    BY <1>7 DEF Clean, Busy, Phases
  <2> QED
    BY <1>2, <1>3, <1>6, <1>7, <2>1, ClearedTypes DEF Clean
<1>8. CASE PatchInvalid(t)
  <2>1. run[t].pc \in Busy
    BY <1>8 DEF PatchInvalid, Busy, Phases
  <2> QED
    BY <1>2, <1>3, <1>6, <1>8, <2>1, ClearedTypes DEF PatchInvalid
<1>9. CASE PatchStart(t)
  <2>1. run[t].pc \in Busy /\ run[t].now \in Int
    BY <1>2, <1>9 DEF PatchStart, Busy, Phases, Reconcile
  <2>2. [run[t].obj EXCEPT !.start = Format(run[t].now)] \in Object
    BY <1>6, <2>1, StampedTypes
  <2> QED
    BY <1>2, <1>3, <1>9, <2>1, <2>2 DEF PatchStart
<1>10. CASE PatchActive(t)
  <2>1. run[t].pc \in Busy /\ run[t].expireAt \in Int
    BY <1>2, <1>10 DEF PatchActive, Busy, Phases, Reconcile
  <2>2. [run[t].obj EXCEPT !.expireAt = Format(run[t].expireAt), !.status = Active(run[t].expireAt)] \in Object
    BY <1>6, <2>1, StampedTypes
  <2> QED
    BY <1>2, <1>3, <1>10, <2>1, <2>2 DEF PatchActive
<1>11. CASE PatchExpired(t)
  <2>1. run[t].pc \in Busy /\ run[t].expireAt \in Int
    BY <1>2, <1>11 DEF PatchExpired, Busy, Phases, Reconcile
  <2>2. [run[t].obj EXCEPT !.expireAt = Format(run[t].expireAt), !.status = ExpiredStatus] \in Object
    BY <1>6, <2>1, StampedTypes
  <2> QED
    BY <1>2, <1>3, <1>11, <2>1, <2>2 DEF PatchExpired
<1> QED
  BY <1>4, <1>5, <1>7, <1>8, <1>9, <1>10, <1>11 DEF ReconcileStep

\* A step puts no name off that was to be looked at earlier.
LEMMA StepHastens ==
  ASSUME TypeInv, TypeInv', NEW t \in Threads, ReconcileStep(t), NEW n \in Names
  PROVE  due'[n] <= due[n]
<1>1. due[n] \in Int /\ due'[n] \in Int
  BY TimeTypes DEF TypeInv, TypeOK
<1>2. ASSUME NEW when, Return(t, when) PROVE due'[n] <= due[n]
  <2>1. due'[n] = due[n] \/ due'[n] = Earlier(due[n], when)
    BY <1>2 DEF Return, TypeInv, TypeOK
  <2> QED
    BY <1>1, <2>1 DEF Earlier
<1>3. UNCHANGED due \/ \E when : Return(t, when)
  BY DEF ReconcileStep, Filter, Get, Clean, ReadClock, PatchStart, PatchInvalid,
         PatchActive, PatchExpired, CreateJob, WaitJob, Delete
<1> QED
  BY <1>1, <1>2, <1>3

\* It leaves what is stirred stirred, and what lies under other names alone.
LEMMA StepKeeps ==
  ASSUME TypeInv, TypeInv', Linked, Next, NEW t \in Threads, ReconcileStep(t)
  PROVE  /\ seen' = seen /\ missed' = missed
         /\ Linked'
         /\ \A n \in Names : Stirred(n) => StirredNext(n)
         /\ \A n \in Names \ {run[t].name} : api'[n] = api[n]
<1>1. seen' = seen /\ missed' = missed
  BY DEF ReconcileStep
<1>2. \A o \in Object \cup {Gone} : Write(run[t].name, o) => Linked'
  BY <1>1, StepWritesUnder, WriteLinks
<1>3. Linked'
  <2>1. UNCHANGED <<api, pending>> => Linked'
    <3>1. UNCHANGED <<api, pending>> =>
            \A n \in Names : LatestView(seen'[n], pending'[n]) = leaseRelevantAnns(api'[n])
      BY <1>1 DEF Linked
    <3> QED
      BY <3>1, LinkedThen
  <2> QED
    BY <1>2, <2>1, StepWritesUnder
<1>4. ASSUME NEW n \in Names, Stirred(n) PROVE StirredNext(n)
  <2>1. due'[n] <= due[n]
    BY StepHastens
  <2>2. \/ pending'[n] = pending[n]
        \/ \E v \in Views : pending'[n] = Append(pending[n], v)
    BY <1>1, StepWritesUnder, WriteShows
  <2> QED
    BY <1>1, <1>4, <2>1, <2>2, StirredStays, TimeGoesOn
<1>5. \A n \in Names \ {run[t].name} : api'[n] = api[n]
  BY <1>1, StepWritesUnder, WriteShows
<1> QED
  BY <1>1, <1>3, <1>4, <1>5

\* So does the worker.
LEMMA WorkerWrites ==
  ASSUME TypeInv, ReconcileStep(Worker)
  PROVE  /\ W.name \in Names
         /\ \/ UNCHANGED <<api, pending>>
            \/ \E o \in Object \cup {Gone} : Write(W.name, o)
  BY StepWritesUnder DEF Threads, W

LEMMA WorkerKeeps ==
  ASSUME TypeInv, TypeInv', Linked, Next, ReconcileStep(Worker)
  PROVE  /\ seen' = seen /\ missed' = missed
         /\ Linked'
         /\ \A n \in Names : Stirred(n) => StirredNext(n)
         /\ \A n \in Names \ {W.name} : api'[n] = api[n]
  BY StepKeeps DEF Threads, W

\* What the list brings is the latest there is, and passes if there is a ttl.
LEMMA ListedIsLatest ==
  ASSUME NEW n PROVE LatestView(Gone, Listed(n)) = leaseRelevantAnns(api[n])
  BY DEF LatestView, Listed, leaseRelevantAnns

LEMMA ListedPasses ==
  ASSUME NEW n, api[n] \in Object, api[n] # Gone, api[n].ttl # Absent
  PROVE  Passing(Gone, Listed(n))
<1>1. /\ Listed(n) = <<leaseRelevantAnns(api[n])>>
      /\ leaseRelevantAnns(api[n]) = <<api[n].ttl, api[n].start>>
      /\ <<api[n].ttl, api[n].start>> \in TTLValues \X Stamps
  BY DEF Listed, leaseRelevantAnns, Object
<1>2. leaseRelevantAnns(api[n]) # Gone
  BY <1>1, InputAssumption
<1>3. Len(Listed(n)) = 1 /\ Listed(n)[1] = leaseRelevantAnns(api[n])
  BY <1>1
<1>4. onlyWithTTLAnnotation(Gone, Listed(n)[1])
  BY <1>1, <1>2, <1>3 DEF onlyWithTTLAnnotation
<1> QED
  BY <1>3, <1>4 DEF Passing, ViewAt

\* Without a fault, a patch finds the object it is meant for and brings back
\* what it made of it.
LEMMA PatchLands ==
  ASSUME TypeInv, Judged, Untroubled, Untroubled', W.pc \in Busy, NEW new \in Object,
         NEW after \in PatchResults(Worker, new), Patch(Worker, new, after)
  PROVE  LET merged == MergePatch(api[W.name], W.obj, new)
         IN  /\ W.name \in Names /\ W.obj \in Object
             /\ api[W.name] \in Object /\ merged \in Object
             /\ after = merged /\ Write(W.name, merged) /\ api'[W.name] = merged
<1> DEFINE n == W.name
           merged == MergePatch(api[n], W.obj, new)
<1>1. n \in Names /\ W.obj \in Object /\ api[n] # Gone /\ api[n] \in Object
  BY DEF TypeInv, TypeOK, InFlight, Judged, SameIncarnation, Busy, Threads, W
<1>2. merged \in Object
  BY <1>1, MergeType
<1>3. ~Fault
  BY DEF Fault, Untroubled
<1>4. after = merged /\ Write(n, merged)
  BY <1>1, <1>3 DEF Patch, W
<1>5. api'[n] = merged
  BY <1>1, <1>4 DEF Write, TypeInv, TypeOK
<1> QED
  BY <1>1, <1>2, <1>4, <1>5

\* A reconcile may end when its object is as it should be, is gone, or will be
\* looked at again.
LEMMA ReturnAttends ==
  ASSUME TypeInv, TypeInv', Linked, Attended, Next, ReconcileStep(Worker),
         NEW when, Return(Worker, when),
         api'[W.name] = Gone \/ StirredNext(W.name) \/ Consistent(api'[W.name])
  PROVE  Attended'
<1>1. W' = Idle
  BY DEF Return, TypeInv, TypeOK, Threads, W
<1>2. CopyIsFresh' /\ W'.pc \notin Busy
  BY <1>1 DEF CopyIsFresh, Idle, Busy
<1>3. ASSUME NEW n \in Names, api'[n] # Gone PROVE StirredNext(n) \/ Consistent(api'[n])
  <2>1. CASE n = W.name
    BY <1>3, <2>1
  <2>2. CASE n # W.name
    BY <1>3, <2>2, WorkerKeeps DEF Attended, NoneForgotten, OnIt
  <2> QED
    BY <2>1, <2>2
<1>4. NoneForgotten'
  BY <1>3, StirredThen, ConsistentThen DEF NoneForgotten
<1> QED
  BY <1>2, <1>4 DEF Attended

\* It may go on when its copy is fresh and the next step right, or when the
\* object will be looked at again.
LEMMA GoingOnAttends ==
  ASSUME TypeInv, TypeInv', Linked, Attended, Next, ReconcileStep(Worker),
         W'.name = W.name, W'.pc # "idle",
         W'.pc \in Busy =>
           /\ api'[W.name].expireAt = W'.obj.expireAt
           /\ api'[W.name].status = W'.obj.status
           /\ \/ StirredNext(W.name)
              \/ /\ api'[W.name].ttl = W'.obj.ttl /\ api'[W.name].start = W'.obj.start
                 /\ StepIsRight'
  PROVE  Attended'
<1>1. CopyIsFresh'
  BY StirredThen DEF CopyIsFresh
<1>2. W'.pc \in Busy => Stirred(W.name)' \/ StepIsRight'
  BY StirredThen
<1>3. ASSUME NEW n \in Names, n # W.name, api'[n] # Gone PROVE StirredNext(n) \/ Consistent(api'[n])
  BY <1>3, WorkerKeeps DEF Attended, NoneForgotten, OnIt
<1>4. NoneForgotten'
  BY <1>3, StirredThen, ConsistentThen DEF NoneForgotten, OnIt
<1> QED
  BY <1>1, <1>2, <1>4 DEF Attended

-----------------------------------------------------------------------------
(* Each step of the worker leaves every object attended.                    *)

\* What the steps of a reconcile past its Get have in common.
Working == /\ TypeInv /\ TypeInv' /\ Judged /\ Linked /\ Attended
           /\ Untroubled /\ Untroubled' /\ Next /\ ReconcileStep(Worker)

LEMMA WorkingOn ==
  ASSUME Working, W.pc \in Busy
  PROVE  /\ W \in Reconcile /\ W.name \in Names /\ W.obj \in Object
         /\ api[W.name] \in Object /\ api[W.name] # Gone /\ api[W.name].uid = W.obj.uid
         /\ api[W.name].expireAt = W.obj.expireAt
         /\ api[W.name].status = W.obj.status
         /\ \/ StirredNext(W.name)
            \/ /\ api[W.name].ttl = W.obj.ttl /\ api[W.name].start = W.obj.start
               /\ StepIsRight
<1>1. TypeInv /\ Judged /\ Attended
  BY DEF Working
<1>2. W \in Reconcile /\ W.name \in Names /\ W.obj \in Object
  BY <1>1 DEF TypeInv, TypeOK, InFlight, Busy, Threads, W
<1>3. api[W.name] \in Object /\ api[W.name] # Gone /\ api[W.name].uid = W.obj.uid
  BY <1>1, <1>2 DEF TypeInv, TypeOK, Judged, SameIncarnation
<1>4. Stirred(W.name) => StirredNext(W.name)
  BY <1>2, WorkerKeeps DEF Working
<1> QED
  BY <1>1, <1>2, <1>3, <1>4 DEF Attended, CopyIsFresh

LEMMA GetAttends ==
  ASSUME Working, Get(Worker) PROVE Attended'
<1> DEFINE n == W.name
           o == api[n]
<1>1. /\ W \in Reconcile /\ Worker \in Threads /\ n \in Names /\ api' = api
      /\ TypeInv /\ ReconcileStep(Worker)
  BY WorkerWrites DEF Working, Get, TypeInv, TypeOK, Threads, W
<1>2. ~Fault
  BY DEF Working, Fault, Untroubled
<1>3. ASSUME NEW p \in {"time", "clean"}, o # Gone, p = "clean" <=> noTTL(o),
             run' = [run EXCEPT ![Worker].pc = p, ![Worker].obj = o]
      PROVE  Attended'
  <2>1. W'.pc = p /\ W'.obj = o /\ W'.name = n
    BY <1>1, <1>3 DEF TypeInv, TypeOK, W, Reconcile
  <2>2. noTTL(W'.obj) = noTTL(o)
    BY <2>1
  <2>3. StepIsRight'
    BY <1>3, <2>1, <2>2 DEF StepIsRight, noTTL
  <2> QED
    BY <1>1, <2>1, <2>3, GoingOnAttends DEF Working
<1>4. ASSUME Return(Worker, Never), o = Gone \/ (noTTL(o) /\ ~HasLeaseAnns(o))
      PROVE  Attended'
  <2>1. o = Gone \/ Consistent(o)
    BY <1>4, MarkAssumption DEF Consistent, noTTL, Durations
  <2> QED
    BY <1>1, <1>4, <2>1, ReturnAttends DEF Working
<1> QED
  <2>1. o # Gone /\ ~noTTL(o) /\ run' = [run EXCEPT ![Worker].pc = "time", ![Worker].obj = o]
          => Attended'
    BY <1>3
  <2>2. o # Gone /\ noTTL(o) /\ run' = [run EXCEPT ![Worker].pc = "clean", ![Worker].obj = o]
          => Attended'
    BY <1>3
  <2> QED
    BY <1>2, <1>4, <2>1, <2>2 DEF Get, W

LEMMA CleanAttends ==
  ASSUME Working, Clean(Worker) PROVE Attended'
<1> DEFINE n == W.name
           new == WithoutLeaseAnns(W.obj)
           merged == MergePatch(api[n], W.obj, new)
<1>1. W.pc = "clean" /\ W.pc \in Busy
  BY DEF Clean, Busy, Phases, W
<1>2. W.obj \in Object /\ new \in Object
  BY <1>1, WorkingOn, ClearedTypes
<1>3. PICK after \in PatchResults(Worker, new) : Patch(Worker, new, after)
  BY DEF Clean, W
<1>4. api'[n] = merged /\ api[n] \in Object
  BY <1>1, <1>2, <1>3, PatchLands DEF Working
<1>5. CASE StirredNext(n)
  BY <1>5, ReturnAttends DEF Working, Clean
<1>6. CASE api[n].ttl = W.obj.ttl /\ api[n].start = W.obj.start /\ StepIsRight
  <2>1. new.start = Absent /\ new.expireAt = Absent /\ new.status = Absent
    BY <1>2 DEF WithoutLeaseAnns, Object
  <2>2. /\ merged.ttl = W.obj.ttl /\ merged.start = Absent
        /\ merged.expireAt = Absent /\ merged.status = Absent
    BY <1>1, <1>4, <1>6, <2>1, WorkingOn DEF MergePatch, PatchValue, Object
  <2>3. noTTL(W.obj)
    BY <1>1, <1>6 DEF StepIsRight
  <2>4. Consistent(merged)
    BY <2>2, <2>3, MarkAssumption DEF Consistent, noTTL, HasLeaseAnns, Durations
  <2> QED
    BY <1>4, <2>4, ReturnAttends DEF Working, Clean
<1> QED
  BY <1>1, <1>5, <1>6, WorkingOn

LEMMA PatchInvalidAttends ==
  ASSUME Working, PatchInvalid(Worker) PROVE Attended'
<1> DEFINE n == W.name
           new == [W.obj EXCEPT !.status = BadTTL]
           merged == MergePatch(api[n], W.obj, new)
<1>1. W.pc = "patchInvalid" /\ W.pc \in Busy
  BY DEF PatchInvalid, Busy, Phases, W
<1>2. W.obj \in Object /\ new \in Object
  BY <1>1, WorkingOn, ClearedTypes
<1>3. PICK after \in PatchResults(Worker, new) : Patch(Worker, new, after)
  BY DEF PatchInvalid, W
<1>4. api'[n] = merged /\ api[n] \in Object
  BY <1>1, <1>2, <1>3, PatchLands DEF Working
<1>5. CASE StirredNext(n)
  BY <1>5, ReturnAttends DEF Working, PatchInvalid
<1>6. CASE api[n].ttl = W.obj.ttl /\ api[n].start = W.obj.start /\ StepIsRight
  <2>1. new.start = W.obj.start /\ new.status = BadTTL
    BY <1>2 DEF Object
  <2>2. merged.ttl = W.obj.ttl /\ merged.start = W.obj.start /\ merged.status = BadTTL
    BY <1>1, <1>4, <1>6, <2>1, WorkingOn DEF MergePatch, PatchValue, Object
  <2>3. W.obj.ttl = Invalid /\ HasLeaseStart(W.obj)
    BY <1>1, <1>6 DEF StepIsRight
  <2>4. Consistent(merged)
    BY <2>2, <2>3, MarkAssumption DEF Consistent, noTTL, HasLeaseStart, Durations
  <2> QED
    BY <1>4, <2>4, ReturnAttends DEF Working, PatchInvalid
<1> QED
  BY <1>1, <1>5, <1>6, WorkingOn

LEMMA PatchActiveAttends ==
  ASSUME Working, PatchActive(Worker) PROVE Attended'
<1> DEFINE n == W.name
           end == W.expireAt
           new == [W.obj EXCEPT !.expireAt = Format(end), !.status = Active(end)]
           merged == MergePatch(api[n], W.obj, new)
<1>1. W.pc = "patchActive" /\ W.pc \in Busy
  BY DEF PatchActive, Busy, Phases, W
<1>2. W.obj \in Object /\ new \in Object
  BY <1>1, WorkingOn, StampedTypes DEF Reconcile
<1>3. PICK after \in PatchResults(Worker, new) : Patch(Worker, new, after)
  BY DEF PatchActive, W
<1>4. api'[n] = merged /\ api[n] \in Object
  BY <1>1, <1>2, <1>3, PatchLands DEF Working
<1>5. PICK when : Return(Worker, when)
  BY DEF PatchActive
<1>6. CASE StirredNext(n)
  BY <1>5, <1>6, ReturnAttends DEF Working
<1>7. CASE api[n].ttl = W.obj.ttl /\ api[n].start = W.obj.start /\ StepIsRight
  <2>1. new.start = W.obj.start /\ new.expireAt = Format(end) /\ new.status = Active(end)
    BY <1>2 DEF Object
  <2>2. /\ merged.ttl = W.obj.ttl /\ merged.start = W.obj.start
        /\ merged.expireAt = Format(end) /\ merged.status = Active(end)
    BY <1>1, <1>4, <1>7, <2>1, WorkingOn DEF MergePatch, PatchValue, Object
  <2>3. W.obj.ttl \in Durations /\ HasLeaseStart(W.obj) /\ end = W.obj.start + W.obj.ttl
    BY <1>1, <1>7 DEF StepIsRight
  <2>4. Consistent(merged)
    BY <2>2, <2>3, MarkAssumption DEF Consistent, noTTL, HasLeaseStart, Durations
  <2> QED
    BY <1>4, <1>5, <2>4, ReturnAttends DEF Working
<1> QED
  BY <1>1, <1>6, <1>7, WorkingOn

LEMMA ReadClockAttends ==
  ASSUME Working, ReadClock(Worker) PROVE Attended'
<1> DEFINE n == W.name
           o == W.obj
<1>1. W.pc = "time" /\ W.pc \in Busy /\ api' = api
  BY DEF ReadClock, Busy, Phases, W
<1>2. /\ W \in Reconcile /\ n \in Names /\ o \in Object
      /\ run \in [Threads -> Reconcile] /\ Worker \in Threads
  BY <1>1, WorkingOn DEF Working, TypeInv, TypeOK, Threads
<1>3. ASSUME W'.name = n, W'.obj = o, W'.pc # "idle", ~noTTL(o) => StepIsRight' PROVE Attended'
  <2>1. StepIsRight => ~noTTL(o)
    BY <1>1 DEF StepIsRight
  <2> QED
    BY <1>1, <1>3, <2>1, WorkingOn, GoingOnAttends DEF Working
<1>4. CASE HasLeaseStart(o)
  <2> DEFINE verdict == Verdict(o.ttl, o.start, clock)
  <2>1. W' = Decided(Worker, o, o.start, clock)
    BY <1>2, <1>4 DEF ReadClock, W
  <2>2. W'.name = n /\ W'.obj = o /\ W'.expireAt = ExpiryOf(o.ttl, o.start)
    BY <1>2, <2>1 DEF Decided, Reconcile, W
  <2>3. verdict \in {"markInvalid", "expire", "activate"}
    BY DEF Verdict
  <2>4. /\ W'.pc \in {"patchInvalid", "patchExpired", "patchActive"}
        /\ W'.pc = "patchInvalid" => verdict = "markInvalid"
        /\ W'.pc = "patchActive" => verdict = "activate"
    BY <1>2, <2>1, <2>3 DEF Decided, Reconcile, W
  <2>5. verdict = "markInvalid" /\ ~noTTL(o) => o.ttl = Invalid
    BY <1>2 DEF Verdict, Durations, noTTL, Object, TTLValues
  <2>6. verdict = "activate" => o.ttl \in Durations
    BY DEF Verdict
  <2>7. o.ttl \in Durations => ExpiryOf(o.ttl, o.start) = o.start + o.ttl
    BY DEF ExpiryOf
  <2>8. HasLeaseStart(W'.obj)
    BY <1>4, <2>2
  <2>9. ~noTTL(o) => StepIsRight'
    BY <2>2, <2>4, <2>5, <2>6, <2>7, <2>8 DEF StepIsRight, HasLeaseStart
  <2> QED
    BY <1>3, <2>2, <2>4, <2>9
<1>5. CASE ~HasLeaseStart(o)
  <2>1. W'.pc = "patchStart" /\ W'.name = n /\ W'.obj = o
    BY <1>2, <1>5 DEF ReadClock, Reconcile, W
  <2>2. ~noTTL(o) => StepIsRight'
    BY <2>1 DEF StepIsRight, noTTL
  <2> QED
    BY <1>3, <2>1, <2>2
<1> QED
  BY <1>4, <1>5

\* The lease-start it writes wakes the controller, unless a change that came
\* before it does.
LEMMA PatchStartAttends ==
  ASSUME Working, PatchStart(Worker) PROVE Attended'
<1> DEFINE n == W.name
           new == [W.obj EXCEPT !.start = Format(W.now)]
           merged == MergePatch(api[n], W.obj, new)
<1>1. W.pc = "patchStart" /\ W.pc \in Busy
  BY DEF PatchStart, Busy, Phases, W
<1>2. /\ W \in Reconcile /\ n \in Names /\ W.obj \in Object /\ api[n] # Gone
      /\ run \in [Threads -> Reconcile] /\ Worker \in Threads
  BY <1>1, WorkingOn DEF Working, TypeInv, TypeOK, Threads
<1>3. new \in Object /\ Format(W.now) \in Int /\ new.start = Format(W.now)
  <2>1. W.now \in Int
    BY <1>2 DEF Reconcile
  <2>2. new.start = Format(W.now)
    BY <1>2 DEF Object
  <2> QED
    BY <1>2, <2>1, <2>2, StampedTypes, FormatType
<1>4. PICK after \in PatchResults(Worker, new) :
        /\ Patch(Worker, new, after)
        /\ run' = [run EXCEPT ![Worker] = Decided(Worker, after, W.now, W.now)]
  BY DEF PatchStart, W
<1>5. /\ after = merged /\ merged \in Object /\ api[n] \in Object
      /\ Write(n, merged) /\ api'[n] = merged
  BY <1>1, <1>3, <1>4, PatchLands DEF Working
<1>6. W'.name = n /\ W'.obj = merged /\ W'.pc # "idle"
  <2>1. W' = Decided(Worker, merged, W.now, W.now)
    BY <1>2, <1>4, <1>5 DEF W
  <2>2. W.now \in Nat /\ W.now \in Int
    BY <1>2 DEF Reconcile
  <2>3. Decided(Worker, merged, W.now, W.now).obj = merged
    BY <1>2 DEF Decided, Reconcile, W
  <2> QED
    BY <1>2, <1>5, <2>1, <2>2, <2>3, DecidedType DEF Working, W
<1>7. StirredNext(n)
  <2>1. ~HasLeaseStart(W.obj)
    BY <1>1 DEF Working, Judged, StartIsMissing
  <2>2. CASE StirredNext(n)
    BY <2>2
  <2>3. CASE api[n].start = W.obj.start
    <3>1. merged.start = Format(W.now)
      BY <1>3, <1>5, <2>1 DEF MergePatch, PatchValue, HasLeaseStart, Object
    <3>2. api[n].start # merged.start
      BY <1>3, <2>1, <2>3, <3>1 DEF HasLeaseStart
    <3> QED
      BY <1>2, <1>5, <3>2, ChangeStirs DEF Working, ReconcileStep
  <2> QED
    BY <1>1, <2>2, <2>3, WorkingOn
<1> QED
  BY <1>5, <1>6, <1>7, GoingOnAttends DEF Working

LEMMA PatchExpiredAttends ==
  ASSUME Working, PatchExpired(Worker) PROVE Attended'
<1> DEFINE n == W.name
           new == [W.obj EXCEPT !.expireAt = Format(W.expireAt), !.status = ExpiredStatus]
           merged == MergePatch(api[n], W.obj, new)
<1>1. W.pc = "patchExpired" /\ W.pc \in Busy
  BY DEF PatchExpired, Busy, Phases, W
<1>2. /\ W \in Reconcile /\ new \in Object
      /\ run \in [Threads -> Reconcile] /\ Worker \in Threads
  BY <1>1, WorkingOn, StampedTypes DEF Working, TypeInv, TypeOK, Threads, Reconcile
<1>3. PICK after \in PatchResults(Worker, new) :
        /\ Patch(Worker, new, after)
        /\ run' = [run EXCEPT
             ![Worker].obj = after,
             ![Worker].pc  = IF after.job \in {"fire", "wait"} THEN "createJob" ELSE "delete"]
  BY DEF PatchExpired, W
<1>4. after = merged /\ api'[n] = merged
  BY <1>1, <1>2, <1>3, PatchLands DEF Working
<1>5. W'.name = n /\ W'.obj = merged /\ W'.pc \in {"createJob", "delete"}
  BY <1>2, <1>3, <1>4 DEF Reconcile, W
<1>6. StepIsRight'
  BY <1>5 DEF StepIsRight
<1> QED
  BY <1>4, <1>5, <1>6, GoingOnAttends DEF Working

LEMMA JobStepAttends ==
  ASSUME Working, CreateJob(Worker) \/ WaitJob(Worker) PROVE Attended'
<1>1. W.pc \in {"createJob", "waitJob"} /\ W.pc \in Busy /\ api' = api
  BY DEF CreateJob, WaitJob, Busy, Phases, W
<1>2. W \in Reconcile /\ run \in [Threads -> Reconcile] /\ Worker \in Threads
  BY <1>1, WorkingOn DEF Working, TypeInv, TypeOK, Threads
<1>3. \/ \E pc \in {"waitJob", "delete"} :
           \E id : run' = [run EXCEPT ![Worker].pc = pc, ![Worker].job = id]
      \/ run' = [run EXCEPT ![Worker].pc = "delete"]
  BY DEF CreateJob, WaitJob
<1>4. W'.name = W.name /\ W'.obj = W.obj /\ W'.pc \in {"waitJob", "delete"}
  BY <1>2, <1>3 DEF Reconcile, W
<1>5. StepIsRight'
  BY <1>4 DEF StepIsRight
<1> QED
  BY <1>1, <1>4, <1>5, WorkingOn, GoingOnAttends DEF Working

LEMMA DeleteAttends ==
  ASSUME Working, Delete(Worker) PROVE Attended'
<1>1. W.pc = "delete" /\ W.pc \in Busy
  BY DEF Delete, Busy, Phases, W
<1>2. W.name \in Names /\ api[W.name] # Gone /\ UIDPrecondition(api[W.name], W.obj)
  BY <1>1, WorkingOn DEF UIDPrecondition
<1>3. ~Fault
  BY DEF Working, Fault, Untroubled
<1>4. Write(W.name, Gone) /\ Return(Worker, Never)
  BY <1>2, <1>3 DEF Delete, W
<1>5. api'[W.name] = Gone
  BY <1>2, <1>4 DEF Working, TypeInv, TypeOK, Write
<1> QED
  BY <1>4, <1>5, ReturnAttends DEF Working

LEMMA FilterAttends ==
  ASSUME Working, AllTracked, Filter(Worker) PROVE Attended'
<1>1. W.name \in Names /\ W \in Reconcile /\ Worker \in Threads
  BY WorkerWrites DEF Working, TypeInv, TypeOK, Threads, W
<1>2. isNamespaceTracked(W.name)
  BY <1>1 DEF AllTracked, isNamespaceTracked
<1>3. W'.name = W.name /\ W'.pc = "get"
  BY <1>1, <1>2 DEF Filter, Working, TypeInv, TypeOK, Reconcile, W
<1> QED
  BY <1>3, GoingOnAttends DEF Working, Busy

LEMMA WorkerAttends ==
  ASSUME Working, AllTracked PROVE Attended'
  BY FilterAttends, GetAttends, CleanAttends, ReadClockAttends, PatchStartAttends,
     PatchInvalidAttends, PatchActiveAttends, PatchExpiredAttends, JobStepAttends,
     DeleteAttends DEF Working, ReconcileStep

-----------------------------------------------------------------------------
(* The other steps.                                                         *)

\* A step of a thread has one fault at most.
LEMMA StepFaults ==
  ASSUME NEW t \in Threads, ReconcileStep(t) PROVE faults' = faults \/ Fault
<1>1. ASSUME NEW new, \E after \in PatchResults(t, new) : Patch(t, new, after)
      PROVE  faults' = faults \/ Fault
  BY <1>1 DEF Patch
<1>2. CASE Filter(t) \/ Get(t) \/ ReadClock(t) \/ CreateJob(t) \/ WaitJob(t) \/ Delete(t)
  BY <1>2 DEF Filter, Get, ReadClock, CreateJob, WaitJob, Delete
<1>3. CASE Clean(t) \/ PatchInvalid(t)
  BY <1>1, <1>3 DEF Clean, PatchInvalid
<1>4. CASE PatchActive(t)
  BY <1>1, <1>4 DEF PatchActive
<1>5. CASE PatchStart(t) \/ PatchExpired(t)
  BY <1>1, <1>5 DEF PatchStart, PatchExpired
<1> QED
  BY <1>2, <1>3, <1>4, <1>5 DEF ReconcileStep

\* Faults and crashes are never undone.
LEMMA TroubleStays ==
  ASSUME TypeInv, Next, Untroubled' PROVE Untroubled
<1>1. faults \in Nat /\ crashes \in Nat
  BY BoundAssumption DEF TypeInv, TypeOK
<1>2. faults' = faults \/ faults' = faults + 1
  <2>1. ASSUME NEW t \in Threads, ReconcileStep(t) PROVE faults' = faults \/ faults' = faults + 1
    BY <2>1, StepFaults DEF Fault
  <2>2. ASSUME Tick \/ Crash \/ (\E j \in jobs : FinishJob(j))
               \/ (\E n \in Names : Dequeue(n) \/ Deliver(n) \/ Miss(n))
        PROVE  faults' = faults
    BY <2>2 DEF Tick, Crash, FinishJob, Dequeue, Deliver, Miss
  <2>3. ASSUME Users PROVE faults' = faults
    BY <2>3 DEF Users, UserCreate, UserSetTTL, UserSetStart, UserSetJob, UserDelete, UserWrite
  <2> QED
    BY <2>1, <2>2, <2>3 DEF Next, System, Environment, World, Restart
<1>3. crashes' = crashes \/ crashes' = crashes + 1
  BY DEF Next, System, Environment, World, Users, Restart, outerVars, Crash
<1> QED
  BY <1>1, <1>2, <1>3 DEF Untroubled

\* A step that leaves the worker and the objects alone.
LEMMA AttendedStays ==
  ASSUME Attended, UNCHANGED <<api, run>>,
         \A n \in Names : Stirred(n) => StirredNext(n),
         W.pc \in Busy => W.name \in Names
  PROVE  Attended'
<1>1. W' = W
  BY DEF W
<1>2. CopyIsFresh'
  BY <1>1, StirredThen DEF Attended, CopyIsFresh
<1>3. W.pc \in Busy => Stirred(W.name)' \/ StepIsRight'
  BY <1>1, StirredThen DEF Attended, StepIsRight
<1>4. NoneForgotten'
  BY <1>1, StirredThen DEF Attended, NoneForgotten, OnIt
<1> QED
  BY <1>1, <1>2, <1>3, <1>4 DEF Attended

LEMMA DeliverAttends ==
  ASSUME TypeInv, TypeInv', Linked, NEW m \in Names, Deliver(m)
  PROVE  Linked' /\ \A n \in Names : Stirred(n) => StirredNext(n)
<1> DEFINE h == Head(pending[m])
<1>1. pending \in [Names -> Seq(Views)] /\ due \in [Names -> 0 .. Never] /\ seen \in [Names -> Views]
  BY DEF TypeInv, TypeOK
<1>2. /\ pending[m] # <<>> /\ api' = api /\ clock' = clock
      /\ seen'[m] = h /\ pending'[m] = Tail(pending[m])
      /\ due' = IF onlyWithTTLAnnotation(seen[m], h) THEN Enqueued(m) ELSE due
      /\ \A n \in missed : n \in missed' \/ (n = m /\ onlyWithTTLAnnotation(seen[m], h))
      /\ \A n \in Names \ {m} : seen'[n] = seen[n] /\ pending'[n] = pending[n]
  BY <1>1 DEF Deliver
<1>3. /\ Passing(seen[m], pending[m]) =>
           onlyWithTTLAnnotation(seen[m], h) \/ Passing(seen'[m], pending'[m])
      /\ LatestView(seen'[m], pending'[m]) = LatestView(seen[m], pending[m])
  BY <1>1, <1>2, HeadView
<1>4. clock \in Nat
  BY ClockAssumption DEF TypeInv, TypeOK
<1>5. Linked'
  <2>1. \A n \in Names : LatestView(seen'[n], pending'[n]) = leaseRelevantAnns(api'[n])
    BY <1>2, <1>3 DEF Linked
  <2> QED
    BY <2>1, LinkedThen
<1>6. ASSUME NEW n \in Names, Stirred(n) PROVE StirredNext(n)
  <2>1. due'[n] = due[n] \/ due'[n] = 0
    BY <1>1, <1>2 DEF Enqueued, Ready
  <2>2. n = m /\ onlyWithTTLAnnotation(seen[m], h) => due'[n] = 0
    BY <1>1, <1>2 DEF Enqueued, Ready
  <2> QED
    BY <1>2, <1>3, <1>4, <1>6, <2>1, <2>2 DEF Stirred, StirredNext
<1> QED
  BY <1>5, <1>6

LEMMA MissAttends ==
  ASSUME TypeInv, Linked, NEW m \in Names, Miss(m)
  PROVE  Linked' /\ \A n \in Names : Stirred(n) => StirredNext(n)
<1>1. pending \in [Names -> Seq(Views)]
  BY DEF TypeInv, TypeOK
<1>2. /\ UNCHANGED <<api, clock, seen, due>>
      /\ pending'[m] = Tail(pending[m])
      /\ \A n \in Names \ {m} : pending'[n] = pending[n]
      /\ missed \subseteq missed'
      /\ Passing(seen[m], pending[m]) => Passing(seen[m], Tail(pending[m])) \/ m \in missed'
  BY <1>1 DEF Miss
<1>3. LatestView(seen'[m], pending'[m]) = LatestView(seen[m], pending[m])
  BY <1>1, <1>2, SkippedView DEF Miss
<1>4. \A n \in Names : LatestView(seen'[n], pending'[n]) = leaseRelevantAnns(api'[n])
  BY <1>2, <1>3 DEF Linked
<1>5. ASSUME NEW n \in Names, Stirred(n) PROVE StirredNext(n)
  BY <1>2, <1>5 DEF Stirred, StirredNext
<1> QED
  BY <1>4, <1>5, LinkedThen

\* Whatever users write, the watch tells the controller of it, unless the
\* object needs nothing done.
LEMMA UserAttends ==
  ASSUME UserDeletes = FALSE, TypeInv, TypeInv', Judged, Linked, Attended, Next, NEW m \in Names,
         UserCreate(m) \/ UserSetTTL(m) \/ UserSetStart(m) \/ UserSetJob(m) \/ UserDelete(m)
  PROVE  Attended'
<1>1. PICK o \in Object :
        /\ UserWrite(m, o)
        /\ \/ /\ api[m] = Gone /\ o.expireAt = Absent /\ o.status = Absent
              /\ o.ttl = Absent => o.start = Absent
           \/ /\ api[m] # Gone
              /\ o.expireAt = api[m].expireAt /\ o.status = api[m].status
  BY UserWritesWhat
<1>2. run' = run /\ seen' = seen /\ due' = due /\ missed' = missed /\ Write(m, o)
  BY <1>1 DEF UserWrite
<1>3. W' = W
  BY <1>2 DEF W
<1>4. api'[m] = o /\ \A n \in Names \ {m} : api'[n] = api[n]
  BY <1>2, WriteShows
<1>5. ASSUME NEW n \in Names, Stirred(n) PROVE StirredNext(n)
  <2>1. due'[n] <= due[n]
    BY <1>2, TimeTypes DEF TypeInv, TypeOK
  <2>2. \/ pending'[n] = pending[n]
        \/ \E v \in Views : pending'[n] = Append(pending[n], v)
    BY <1>2, WriteShows
  <2> QED
    BY <1>2, <1>5, <2>1, <2>2, StirredStays, TimeGoesOn
<1>6. api[m] # Gone /\ (o.ttl # api[m].ttl \/ o.start # api[m].start) => StirredNext(m)
  BY <1>2, ChangeStirs
<1>7. ASSUME api[m] = Gone, o.ttl # Absent PROVE StirredNext(m)
  <2>1. leaseRelevantAnns(api[m]) = Gone
    BY <1>7 DEF leaseRelevantAnns
  <2>2. leaseRelevantAnns(o) = <<o.ttl, o.start>> /\ leaseRelevantAnns(o) # Gone
    <3>1. o # Gone /\ <<o.ttl, o.start>> \in TTLValues \X Stamps
      BY InputAssumption DEF Object
    <3> QED
      BY <3>1, InputAssumption DEF leaseRelevantAnns
  <2>3. onlyWithTTLAnnotation(leaseRelevantAnns(api[m]), leaseRelevantAnns(o))
    BY <1>7, <2>1, <2>2 DEF onlyWithTTLAnnotation
  <2> QED
    BY <1>2, <2>1, <2>2, <2>3, WriteShows DEF StirredNext
<1>8. W.pc \in Busy => W.name \in Names /\ api[W.name] # Gone
  BY DEF TypeInv, InFlight, Judged, SameIncarnation, Busy, Threads, W
<1>9. CopyIsFresh'
  BY <1>1, <1>3, <1>4, <1>5, <1>6, <1>8, StirredThen DEF Attended, CopyIsFresh
<1>10. W.pc \in Busy => Stirred(W.name)' \/ StepIsRight'
  BY <1>3, <1>5, <1>8, StirredThen DEF Attended, StepIsRight
<1>11. ASSUME NEW n \in Names, ~OnIt(n), api'[n] # Gone
       PROVE  StirredNext(n) \/ Consistent(api'[n])
  <2>1. CASE n # m
    BY <1>4, <1>5, <1>11, <2>1 DEF Attended, NoneForgotten
  <2>2. ASSUME n = m, api[m] = Gone, o.ttl = Absent PROVE Consistent(o)
    BY <1>1, <2>2, MarkAssumption DEF Consistent, noTTL, HasLeaseAnns, Durations
  <2>3. ASSUME n = m, api[m] # Gone, o.ttl = api[m].ttl, o.start = api[m].start,
               Consistent(api[m])
        PROVE  Consistent(o)
    BY <1>1, <2>3 DEF Consistent, noTTL, HasLeaseAnns, HasLeaseStart
  <2> QED
    BY <1>4, <1>5, <1>6, <1>7, <1>11, <2>1, <2>2, <2>3 DEF Attended, NoneForgotten
<1>12. NoneForgotten'
  BY <1>3, <1>11, StirredThen, ConsistentThen DEF NoneForgotten, OnIt
<1> QED
  BY <1>3, <1>9, <1>10, <1>12 DEF Attended

\* The worker takes a name off the queue to look at it.
LEMMA DequeueAttends ==
  ASSUME TypeInv, Attended, NEW m \in Names, Dequeue(m) PROVE Attended'
<1>1. run \in [Threads -> Reconcile] /\ Worker \in Threads /\ due \in [Names -> 0 .. Never]
  BY DEF TypeInv, TypeOK, Threads
<1>2. W'.pc = "filter" /\ W'.name = m
  BY <1>1 DEF Dequeue, Started, Idle, W
<1>3. ASSUME NEW n \in Names, n # m, Stirred(n) PROVE StirredNext(n)
  BY <1>1, <1>3 DEF Dequeue, Stirred, StirredNext
<1>4. ASSUME NEW n \in Names, n # m, api'[n] # Gone PROVE StirredNext(n) \/ Consistent(api'[n])
  <2>1. ~OnIt(n) /\ api'[n] = api[n]
    BY DEF Dequeue, OnIt, W
  <2> QED
    BY <1>3, <1>4, <2>1 DEF Attended, NoneForgotten
<1>5. NoneForgotten'
  BY <1>2, <1>4, StirredThen, ConsistentThen DEF NoneForgotten, OnIt
<1> QED
  BY <1>2, <1>5 DEF Attended, CopyIsFresh, Busy

LEMMA NextAttends ==
  ASSUME UserDeletes = FALSE, Goroutines = {}, TypeInv, Judged, AllTracked, Linked,
         Untroubled => Attended, Next
  PROVE  AllTracked' /\ Linked' /\ (Untroubled' => Attended')
<1>1. TypeInv' /\ (Untroubled' => Untroubled)
  BY NextTyped, TroubleStays
<1>2. AllTracked'
  BY DEF Next, System, Environment, World, Users, outerVars, AllTracked
<1>3. ASSUME UNCHANGED <<api, run, seen, pending, missed>>, clock <= clock', due' = due
      PROVE  Linked' /\ (Untroubled' => Attended')
  <2>1. \A n \in Names : LatestView(seen'[n], pending'[n]) = leaseRelevantAnns(api'[n])
    BY <1>3 DEF Linked
  <2>2. ASSUME NEW n \in Names, Stirred(n) PROVE StirredNext(n)
    <3>1. due[n] <= due'[n] /\ due[n] \in Int
      BY <1>3, TimeTypes DEF TypeInv, TypeOK
    <3> QED
      BY <1>1, <1>3, <2>2, <3>1, StirredStays
  <2>3. W.pc \in Busy => W.name \in Names
    BY DEF TypeInv, InFlight, Busy, Threads, W
  <2> QED
    BY <1>1, <1>3, <2>1, <2>2, <2>3, LinkedThen, AttendedStays
<1>4. ASSUME NEW n \in Names, Dequeue(n) PROVE Linked' /\ (Untroubled' => Attended')
  <2>1. \A m \in Names : LatestView(seen'[m], pending'[m]) = leaseRelevantAnns(api'[m])
    BY <1>4 DEF Linked, Dequeue
  <2> QED
    BY <1>1, <1>4, <2>1, LinkedThen, DequeueAttends
<1>5. ASSUME NEW n \in Names, Deliver(n) PROVE Linked' /\ (Untroubled' => Attended')
  <2>1. W.pc \in Busy => W.name \in Names
    BY DEF TypeInv, InFlight, Busy, Threads, W
  <2>2. UNCHANGED <<api, run>>
    BY <1>5 DEF Deliver
  <2> QED
    BY <1>1, <1>5, <2>1, <2>2, DeliverAttends, AttendedStays
<1>6. ASSUME NEW t \in Threads, ReconcileStep(t) PROVE Linked' /\ (Untroubled' => Attended')
  <2>1. ReconcileStep(Worker)
    BY <1>6 DEF Threads
  <2> QED
    BY <1>1, <2>1, WorkerKeeps, WorkerAttends DEF Working
<1>7. ASSUME Tick \/ \E j \in jobs : FinishJob(j)
      PROVE  Linked' /\ (Untroubled' => Attended')
  <2>1. UNCHANGED <<api, run, seen, pending, missed, due>>
    BY <1>7 DEF Tick, FinishJob
  <2> QED
    BY <1>3, <2>1, TimeGoesOn
<1>8. ASSUME NEW n \in Names,
             UserCreate(n) \/ UserSetTTL(n) \/ UserSetStart(n) \/ UserSetJob(n) \/ UserDelete(n)
      PROVE  Linked' /\ (Untroubled' => Attended')
  <2>1. PICK o \in Object : UserWrite(n, o)
    BY <1>8, UserWritesWhat
  <2>2. Write(n, o) /\ seen' = seen
    BY <2>1 DEF UserWrite
  <2> QED
    BY <1>1, <1>8, <2>2, WriteLinks, UserAttends
<1>9. ASSUME Crash PROVE Linked' /\ (Untroubled' => Attended')
  <2>1. ~Untroubled'
    <3>1. crashes \in Nat /\ crashes' = crashes + 1
      BY <1>9, BoundAssumption DEF Crash, TypeInv, TypeOK
    <3> QED
      BY <3>1 DEF Untroubled
  <2>2. ASSUME NEW n \in Names
        PROVE  LatestView(seen'[n], pending'[n]) = leaseRelevantAnns(api'[n])
    <3>1. seen'[n] = Gone /\ pending'[n] = Listed(n) /\ api'[n] = api[n]
      BY <1>9 DEF Crash
    <3> QED
      BY <3>1, ListedIsLatest
  <2> QED
    BY <2>1, <2>2, LinkedThen
<1>10. ASSUME NEW n \in Names, Miss(n) PROVE Linked' /\ (Untroubled' => Attended')
  <2>1. W.pc \in Busy => W.name \in Names
    BY DEF TypeInv, InFlight, Busy, Threads, W
  <2>2. UNCHANGED <<api, run>>
    BY <1>10 DEF Miss
  <2> QED
    BY <1>1, <1>10, <2>1, <2>2, MissAttends, AttendedStays
<1>11. Linked' /\ (Untroubled' => Attended')
  BY <1>10, <1>4, <1>5, <1>6, <1>7, <1>8, <1>9 DEF Next, System, Environment, World, Users, Restart
<1> QED
  BY <1>2, <1>11

LEMMA InitAttends ==
  ASSUME Init, \A o \in InitialObjects : o.ttl = Absent => ~HasLeaseAnns(o)
  PROVE  AllTracked /\ Linked /\ Attended
<1>1. TypeInv /\ AllTracked /\ W = Idle
  BY InitTyped DEF Init, LeaseInit, AllTracked, Threads, W
<1>2. ASSUME NEW n \in Names
      PROVE  /\ seen[n] = Gone /\ pending[n] = Listed(n)
             /\ LatestView(seen[n], pending[n]) = leaseRelevantAnns(api[n])
  BY ListedIsLatest DEF Init, LeaseInit
<1>3. ASSUME NEW n \in Names, api[n] # Gone PROVE Stirred(n) \/ Consistent(api[n])
  <2>1. api[n] \in Object /\ api[n] \in InitialObjects
    BY <1>1, <1>3 DEF Init, LeaseInit, TypeInv, TypeOK
  <2>2. CASE api[n].ttl = Absent
    BY <2>1, <2>2, MarkAssumption DEF Consistent, noTTL, Durations
  <2>3. CASE api[n].ttl # Absent
    <3>1. Passing(Gone, Listed(n))
      BY <1>3, <2>1, <2>3, ListedPasses
    <3> QED
      BY <1>2, <3>1 DEF Stirred
  <2> QED
    BY <2>2, <2>3
<1>4. Attended
  BY <1>1, <1>3 DEF Attended, CopyIsFresh, NoneForgotten, Idle, Busy
<1> QED
  BY <1>1, <1>2, <1>4 DEF Linked

\* Whenever the controller has nothing left to do about an object, the object
\* shows what its ttl says, unless a broken watch lost the name a wake-up that no
\* later one made up for: with one worker, nobody else deleting and no lease left
\* over on an object without a ttl when the controller starts, for any number of
\* objects, clock readings and writes of users, and however often the watch
\* breaks.
THEOREM SettledIsRight ==
  ASSUME UserDeletes = FALSE, Goroutines = {},
         \A o \in InitialObjects : o.ttl = Absent => ~HasLeaseAnns(o)
  PROVE  Spec => []SettledIsConsistent
<1>1. Init => AttendedInv
  BY InitTyped, InitJudges, InitAttends DEF AttendedInv
<1>2. AttendedInv /\ [Next]_vars => AttendedInv'
  <2> SUFFICES ASSUME AttendedInv, [Next]_vars PROVE AttendedInv'
    OBVIOUS
  <2>1. CASE Next
    BY <2>1, NextTyped, NextJudges, NextAttends DEF AttendedInv
  <2>2. CASE UNCHANGED vars
    BY <2>2 DEF vars, AttendedInv, TypeInv, TypeOK, InFlight, Judged, SameIncarnation,
       ReadingIsPast, VersionIsHeld, StartIsMissing, DoomIsPromised, WasPromised, HeldNow, W,
       AllTracked, Linked, Untroubled, Attended, CopyIsFresh, StepIsRight, NoneForgotten,
       OnIt, Stirred
  <2> QED
    BY <2>1, <2>2
<1>3. AttendedInv => SettledIsConsistent
  <2> SUFFICES ASSUME AttendedInv, NEW n \in Names, Settled(n), n \notin missed, api[n] # Gone,
                      faults = 0, crashes = 0
               PROVE  Consistent(api[n])
    BY DEF SettledIsConsistent, Consistent
  <2>1. NoneForgotten
    BY DEF AttendedInv, Attended, Untroubled
  <2>2. ~OnIt(n)
    BY DEF Settled, OnIt, Threads, W
  <2>3. ~Stirred(n)
    <3>1. due[n] \in Int /\ clock \in Int
      BY TimeTypes DEF AttendedInv, TypeInv, TypeOK
    <3>2. ~Passing(seen[n], pending[n])
      BY DEF Settled, Passing
    <3> QED
      BY <3>1, <3>2 DEF Settled, Stirred
  <2> QED
    BY <2>1, <2>2, <2>3 DEF NoneForgotten
<1> QED
  BY <1>1, <1>2, <1>3, PTL DEF Spec
=============================================================================
