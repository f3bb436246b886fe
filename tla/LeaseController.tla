-------------------------- MODULE LeaseController --------------------------
(***************************************************************************)
(* One lease controller process (LeaseWatcher) against the API server.     *)
(*                                                                         *)
(* The controller learns of objects from watch events that pass its event  *)
(* filter, queues their names, and one worker reconciles one name at a     *)
(* time. A reconcile is a sequence of calls to the API server; users       *)
(* write to the same objects between any two of them, the watch may break  *)
(* and skip what they wrote, calls fail or are applied without their       *)
(* answer arriving, and the process may crash and start again.             *)
(***************************************************************************)
EXTENDS LeaseObject, Sequences, FiniteSets

CONSTANTS
  Names,         \* namespaced names of the objects of the controller's kind
  NamespaceOf,   \* the namespace of each name
  Worker,        \* the work queue's only worker (MaxConcurrentReconciles is 1)
  Goroutines,    \* goroutines that may call Reconcile outside the work queue
  Instants,      \* the clock readings of a behaviour; bounds the clock
  Horizon,       \* the last of them
  JobTimeout,    \* job-timeout, in ticks
  InitialObjects,\* objects the controller may find when it starts
  UserTTLs,      \* the ttl values users write
  UserStarts,    \* the lease-start values users write
  UserJobs,      \* the cleanup job configurations users write
  UserDeletes,   \* whether users delete objects themselves
  MaxOps,        \* bound on the writes of users
  MaxFaults,     \* bound on the calls that fail
  MaxCrashes     \* bound on the crashes of the controller

Threads == {Worker} \cup Goroutines

ASSUME ThreadAssumption == Worker \notin Goroutines
ASSUME NameAssumption ==
  /\ Absent \notin Names
  /\ Names # {}
ASSUME ClockAssumption ==
  /\ Instants \subseteq Nat
  /\ Horizon \in Instants
  /\ \A t \in Instants : t <= Horizon
  /\ JobTimeout \in Nat
ASSUME InputAssumption ==
  /\ Gone \notin Object
  /\ Gone \notin TTLValues \X Stamps
  /\ Gone \notin [uid : Nat, ttl : TTLValues, start : Stamps]
  /\ InitialObjects \subseteq { o \in Object : o.uid = 0 }
  /\ UserTTLs \subseteq TTLValues
  /\ UserStarts \subseteq Stamps
  /\ UserJobs \subseteq JobModes
  /\ UserDeletes \in BOOLEAN
ASSUME BoundAssumption == {MaxOps, MaxFaults, MaxCrashes} \subseteq Nat

VARIABLES
  api,      \* api[n]: the object the API server holds under n, or Gone
  nextUid,  \* the next unused uid
  clock,    \* what time.Now would return
  pending,  \* pending[n]: the views of n the watch has still to deliver
  seen,     \* seen[n]: the view of n in the controller's informer
  due,      \* due[n]: when the work queue hands out n; 0 is now
  run,      \* run[t]: the reconcile thread t is in
  jobs,     \* the cleanup Jobs created
  tracked,  \* the namespaces in the NamespaceTracker
  ops, faults, crashes, \* how much of each bound is used
  held,     \* history: the ttl and lease-start each incarnation has held
  missed    \* history: names whose wake-up a broken watch lost; no other came yet

\* What the controller itself never changes.
outerVars == <<ops, crashes, nextUid, tracked>>
vars == <<api, nextUid, clock, pending, seen, due, run, jobs, tracked,
          ops, faults, crashes, held, missed>>

-----------------------------------------------------------------------------
(* The work queue and the watch.                                            *)

Ready == 0
Never == Horizon + 1          \* later than every clock reading

Earlier(a, b) == IF a < b THEN a ELSE b

\* An entry is added now, or with a delay; an entry already there keeps the
\* earlier of the two times. A wake-up that would fall behind the last instant
\* although the lease ends before it is brought forward to that instant.
Enqueued(n)     == [due EXCEPT ![n] = Ready]
WakeUp(delay, end) ==
  IF end > Horizon THEN Never ELSE Earlier(clock + delay, Horizon)

\* Write o under n and queue the watch event, unless no event filter of the
\* controller could tell the new version from the old one.
Write(n, o) ==
  /\ api' = [api EXCEPT ![n] = o]
  /\ pending' = IF leaseRelevantAnns(o) = leaseRelevantAnns(api[n])
                THEN pending
                ELSE [pending EXCEPT ![n] = Append(@, leaseRelevantAnns(o))]

\* One of the changes that would take the informer from view s through the views
\* q passes the event filter.
ViewAt(s, q, i) == IF i = 1 THEN s ELSE q[i - 1]
Passing(s, q) == \E i \in 1 .. Len(q) : onlyWithTTLAnnotation(ViewAt(s, q, i), q[i])

Fault == /\ faults < MaxFaults
         /\ faults' = faults + 1

-----------------------------------------------------------------------------
(* A reconcile: its phase and its local variables. The phase names the next  *)
(* call the reconcile makes.                                                *)

Phases == {"idle", "filter", "get", "clean", "time", "patchStart",
           "patchInvalid", "patchExpired", "patchActive",
           "createJob", "waitJob", "delete"}

Reconcile == [ pc       : Phases,
               name     : Names \cup {Absent},
               obj      : Object \cup {Gone},   \* the local copy of the object
               now      : Nat,                  \* the reading Reconcile took
               expireAt : Int,
               job      : Nat ]                 \* the Job waited for

Idle == [pc |-> "idle", name |-> Absent, obj |-> Gone, now |-> 0,
         expireAt |-> 0, job |-> 0]

Started(n) == [Idle EXCEPT !.pc = "filter", !.name = n]

\* Reconcile returns. The queue acts on the result only when it made the call:
\* handleNamespaceEvents drops the result of the reconciles it starts. "when"
\* is Never for Result{}, Ready for an error, and a delay puts the name back.
Return(t, when) ==
  /\ run' = [run EXCEPT ![t] = Idle]
  /\ due' = IF t = Worker
            THEN [due EXCEPT ![run[t].name] = Earlier(@, when)]
            ELSE due

\* r.Patch(ctx, obj, client.MergeFrom(base)) where base is obj as it was and
\* new is obj with its annotations changed; after is obj when the call returns.
\* The answer of the server replaces obj, an error leaves it as the caller
\* changed it, and no caller looks at the error.
PatchResults(t, new) ==
  LET n == run[t].name IN
  {new} \cup (IF api[n] = Gone THEN {} ELSE {MergePatch(api[n], run[t].obj, new)})

Patch(t, new, after) ==
  LET n == run[t].name
      merged == MergePatch(api[n], run[t].obj, new)
  IN \/ /\ api[n] # Gone
        /\ after = merged
        /\ Write(n, merged)
        /\ UNCHANGED faults
     \/ /\ api[n] = Gone
        /\ after = new
        /\ UNCHANGED <<api, pending, faults>>
     \/ /\ Fault                       \* refused, or never arrived
        /\ after = new
        /\ UNCHANGED <<api, pending>>
     \/ /\ Fault                       \* applied, the answer got lost
        /\ api[n] # Gone
        /\ after = new
        /\ Write(n, merged)

-----------------------------------------------------------------------------
(* The steps of Reconcile, each up to and including one call.               *)

\* The worker takes a name whose time has come off the queue.
Dequeue(n) ==
  /\ run[Worker].pc = "idle"
  /\ due[n] <= clock
  /\ due' = [due EXCEPT ![n] = Never]
  /\ run' = [run EXCEPT ![Worker] = Started(n)]
  /\ missed' = missed \ {n}
  /\ UNCHANGED <<api, clock, pending, seen, jobs, faults>>

\* Mutant: an empty tracker filters nothing.
TrackedOrEmpty(n) == NamespaceOf[n] \in tracked \/ tracked = {}

isNamespaceTracked(n) == NamespaceOf[n] \in tracked

Filter(t) ==
  /\ run[t].pc = "filter"
  /\ IF isNamespaceTracked(run[t].name)
     THEN /\ run' = [run EXCEPT ![t].pc = "get"]
          /\ UNCHANGED due
     ELSE Return(t, Never)
  /\ UNCHANGED <<api, pending, jobs, faults>>

\* getObject reads the server, not the informer: the manager's client does not
\* cache unstructured objects. A missing object is no error.
Get(t) ==
  LET o == api[run[t].name] IN
  /\ run[t].pc = "get"
  /\ \/ /\ o # Gone
        /\ ~noTTL(o)
        /\ run' = [run EXCEPT ![t].pc = "time", ![t].obj = o]
        /\ UNCHANGED <<due, faults>>
     \/ /\ o # Gone
        /\ noTTL(o)
        /\ HasLeaseAnns(o)
        /\ run' = [run EXCEPT ![t].pc = "clean", ![t].obj = o]
        /\ UNCHANGED <<due, faults>>
     \/ /\ o # Gone
        /\ noTTL(o)
        /\ ~HasLeaseAnns(o)
        /\ Return(t, Never)
        /\ UNCHANGED faults
     \/ /\ o = Gone
        /\ Return(t, Never)
        /\ UNCHANGED faults
     \/ /\ Fault
        /\ Return(t, Ready)
  /\ UNCHANGED <<api, pending, jobs>>

\* cleanupLeaseAnnotations, and the end of the reconcile.
Clean(t) ==
  LET new == WithoutLeaseAnns(run[t].obj) IN
  /\ run[t].pc = "clean"
  /\ \E after \in PatchResults(t, new) : Patch(t, new, after)
  /\ Return(t, Never)
  /\ UNCHANGED jobs

\* What Reconcile goes on with once it knows the start of the lease.
Decided(t, o, startAt, reading) ==
  [run[t] EXCEPT
    !.obj      = o,
    !.now      = reading,
    !.expireAt = ExpiryOf(o.ttl, startAt),
    !.pc       = CASE Verdict(o.ttl, startAt, reading) = "markInvalid" -> "patchInvalid"
                   [] Verdict(o.ttl, startAt, reading) = "expire"      -> "patchExpired"
                   [] Verdict(o.ttl, startAt, reading) = "activate"    -> "patchActive"]

\* Reconcile reads the clock; ensureLeaseStart takes the lease-start it finds,
\* or has to write one first.
ReadClock(t) ==
  LET o == run[t].obj IN
  /\ run[t].pc = "time"
  /\ run' = [run EXCEPT ![t] =
       IF HasLeaseStart(o)
       THEN Decided(t, o, o.start, clock)
       ELSE [@ EXCEPT !.pc = "patchStart", !.now = clock]]
  /\ UNCHANGED <<api, pending, due, jobs, faults>>

\* ensureLeaseStart writes lease-start. The ttl is read afterwards, from the
\* object the answer brought; the lease starts at the unrounded reading.
PatchStart(t) ==
  LET new == [run[t].obj EXCEPT !.start = Format(run[t].now)] IN
  /\ run[t].pc = "patchStart"
  /\ \E after \in PatchResults(t, new) :
       /\ Patch(t, new, after)
       /\ run' = [run EXCEPT ![t] = Decided(t, after, run[t].now, run[t].now)]
  /\ UNCHANGED <<due, jobs>>

\* markInvalidTTL, and the end of the reconcile.
PatchInvalid(t) ==
  LET new == [run[t].obj EXCEPT !.status = BadTTL] IN
  /\ run[t].pc = "patchInvalid"
  /\ \E after \in PatchResults(t, new) : Patch(t, new, after)
  /\ Return(t, Never)
  /\ UNCHANGED jobs

\* setActive, and the end of the reconcile. A RequeueAfter of zero is the same
\* as none: the queue forgets the name.
PatchActive(t) ==
  LET end   == run[t].expireAt
      delay == end - run[t].now
      new   == [run[t].obj EXCEPT !.expireAt = Format(end), !.status = Active(end)]
  IN
  /\ run[t].pc = "patchActive"
  /\ \E after \in PatchResults(t, new) : Patch(t, new, after)
  /\ Return(t, IF delay > 0 THEN WakeUp(delay, end) ELSE Never)
  /\ UNCHANGED jobs

\* handleExpired: mark the object, then look at its cleanup job configuration
\* as the answer of the server has it. A refused configuration is no obstacle.
PatchExpired(t) ==
  LET new == [run[t].obj EXCEPT !.expireAt = Format(run[t].expireAt),
                                !.status   = ExpiredStatus]
  IN
  /\ run[t].pc = "patchExpired"
  /\ \E after \in PatchResults(t, new) :
       /\ Patch(t, new, after)
       /\ run' = [run EXCEPT
            ![t].obj = after,
            ![t].pc  = IF after.job \in {"fire", "wait"} THEN "createJob" ELSE "delete"]
  /\ UNCHANGED <<due, jobs>>

\* executeCleanupJob up to the creation of the Job. Any failure goes on to the
\* deletion.
NewJob(t) == [ id       |-> Cardinality(jobs) + 1,
               name     |-> run[t].name,
               uid      |-> run[t].obj.uid,
               state    |-> "running",
               deadline |-> Earlier(clock + JobTimeout, Horizon) ]

\* Mutant: the reconcile that creates a Job leaves the deletion to the next one.
CreateJobFirst(t) ==
  /\ run[t].pc = "createJob"
  /\ jobs' = jobs \cup {NewJob(t)}
  /\ Return(t, Ready)
  /\ UNCHANGED <<api, pending, faults>>

CreateJob(t) ==
  /\ run[t].pc = "createJob"
  /\ \/ /\ jobs' = jobs \cup {NewJob(t)}
        /\ run' = [run EXCEPT
             ![t].pc  = IF run[t].obj.job = "wait" THEN "waitJob" ELSE "delete",
             ![t].job = IF run[t].obj.job = "wait" THEN NewJob(t).id ELSE 0]
        /\ UNCHANGED faults
     \/ /\ Fault                       \* created or not, the caller has an error
        /\ jobs' \in {jobs, jobs \cup {NewJob(t)}}
        /\ run' = [run EXCEPT ![t].pc = "delete"]
  /\ UNCHANGED <<api, pending, due>>

\* Mutant: the first poll ends the wait.
WaitOnePoll(t) ==
  /\ run[t].pc = "waitJob"
  /\ run' = [run EXCEPT ![t].pc = "delete", ![t].job = 0]
  /\ UNCHANGED <<api, pending, due, jobs, faults>>

\* Mutant: a Job that is not done in time makes the reconcile fail.
WaitOrRetry(t) ==
  /\ run[t].pc = "waitJob"
  /\ \E j \in jobs :
       /\ j.id = run[t].job
       /\ \/ /\ j.state # "running"
             /\ run' = [run EXCEPT ![t].pc = "delete", ![t].job = 0]
             /\ UNCHANGED due
          \/ /\ clock >= j.deadline
             /\ Return(t, Ready)
  /\ UNCHANGED <<api, pending, jobs, faults>>

\* WaitForJobCompletion returns: the Job succeeded or failed, the time is up,
\* or its state could not be read, because the call failed or because the cache
\* it is served from does not have the Job yet (both count as faults). All of
\* them lead to the deletion.
WaitJob(t) ==
  /\ run[t].pc = "waitJob"
  /\ \E j \in jobs :
       /\ j.id = run[t].job
       /\ \/ j.state # "running" /\ UNCHANGED faults
          \/ clock >= j.deadline /\ UNCHANGED faults
          \/ Fault
  /\ run' = [run EXCEPT ![t].pc = "delete", ![t].job = 0]
  /\ UNCHANGED <<api, pending, due, jobs>>

\* Mutant: the error of a deletion is dropped like the error of a patch.
DeleteOnce(t) ==
  LET n == run[t].name IN
  /\ run[t].pc = "delete"
  /\ \/ /\ api[n] # Gone
        /\ UIDPrecondition(api[n], run[t].obj)
        /\ Write(n, Gone)
        /\ UNCHANGED faults
     \/ /\ api[n] # Gone => ~UIDPrecondition(api[n], run[t].obj)
        /\ UNCHANGED <<api, pending, faults>>
     \/ /\ Fault
        /\ UNCHANGED <<api, pending>>
  /\ Return(t, Never)
  /\ UNCHANGED jobs

\* The deletion, and the end of the reconcile. NotFound counts as done, any
\* other error is returned and the name is tried again.
Delete(t) ==
  LET n == run[t].name IN
  /\ run[t].pc = "delete"
  /\ \/ /\ api[n] = Gone
        /\ Return(t, Never)
        /\ UNCHANGED <<api, pending, faults>>
     \/ /\ api[n] # Gone
        /\ UIDPrecondition(api[n], run[t].obj)
        /\ Write(n, Gone)
        /\ Return(t, Never)
        /\ UNCHANGED faults
     \/ /\ api[n] # Gone               \* Conflict
        /\ ~UIDPrecondition(api[n], run[t].obj)
        /\ Return(t, Ready)
        /\ UNCHANGED <<api, pending, faults>>
     \/ /\ Fault
        /\ Return(t, Ready)
        /\ UNCHANGED <<api, pending>>
     \/ /\ Fault                       \* deleted, the answer got lost
        /\ api[n] # Gone
        /\ UIDPrecondition(api[n], run[t].obj)
        /\ Write(n, Gone)
        /\ Return(t, Ready)
  /\ UNCHANGED jobs

ReconcileStep(t) ==
  /\ \/ Filter(t)       \/ Get(t)          \/ Clean(t)
     \/ ReadClock(t)    \/ PatchStart(t)   \/ PatchInvalid(t)
     \/ PatchActive(t)  \/ PatchExpired(t) \/ CreateJob(t)
     \/ WaitJob(t)      \/ Delete(t)
  /\ UNCHANGED <<clock, seen, missed>>

-----------------------------------------------------------------------------
(* The watch, the clock, the job controller, users and crashes.             *)

\* The informer delivers the next version of n and the event filter decides.
Deliver(n) ==
  /\ pending[n] # <<>>
  /\ seen' = [seen EXCEPT ![n] = Head(pending[n])]
  /\ pending' = [pending EXCEPT ![n] = Tail(@)]
  /\ IF onlyWithTTLAnnotation(seen[n], Head(pending[n]))
     THEN due' = Enqueued(n) /\ missed' = missed \ {n}
     ELSE UNCHANGED <<due, missed>>
  /\ UNCHANGED <<api, clock, run, jobs, faults>>

\* The watch broke, and the informer lists again what is there: a version is
\* skipped, and the event filter will compare the next one with what it saw last.
\* A wake-up is lost when that leaves no change the filter lets through.
Miss(n) ==
  /\ Len(pending[n]) > 1
  /\ pending' = [pending EXCEPT ![n] = Tail(@)]
  /\ missed' = IF Passing(seen[n], pending[n]) /\ ~Passing(seen[n], Tail(pending[n]))
               THEN missed \cup {n} ELSE missed
  /\ UNCHANGED <<api, clock, seen, due, run, jobs, faults>>

Tick ==
  /\ clock' \in { t \in Instants : t > clock }
  /\ UNCHANGED <<api, pending, seen, due, run, jobs, faults, missed>>

FinishJob(j) ==
  /\ j.state = "running"
  /\ \E s \in {"complete", "failed"} :
       jobs' = (jobs \ {j}) \cup {[j EXCEPT !.state = s]}
  /\ UNCHANGED <<api, clock, pending, seen, due, run, faults, missed>>

UserWrite(n, o) ==
  /\ ops < MaxOps
  /\ ops' = ops + 1
  /\ Write(n, o)
  /\ UNCHANGED <<clock, seen, due, run, jobs, faults, missed>>

\* Only objects with a ttl are created with a lease-start.
UserCreate(n) ==
  /\ api[n] = Gone
  /\ nextUid' = nextUid + 1
  /\ \E ttl \in UserTTLs, start \in UserStarts, job \in UserJobs :
       /\ ttl = Absent => start = Absent
       /\ UserWrite(n, [uid |-> nextUid, ttl |-> ttl, start |-> start,
                        expireAt |-> Absent, status |-> Absent, job |-> job])

UserSetTTL(n) ==
  /\ api[n] # Gone
  /\ \E ttl \in UserTTLs : UserWrite(n, [api[n] EXCEPT !.ttl = ttl])
  /\ UNCHANGED nextUid

UserSetStart(n) ==
  /\ api[n] # Gone
  /\ \E start \in UserStarts : UserWrite(n, [api[n] EXCEPT !.start = start])
  /\ UNCHANGED nextUid

UserSetJob(n) ==
  /\ api[n] # Gone
  /\ \E job \in UserJobs : UserWrite(n, [api[n] EXCEPT !.job = job])
  /\ UNCHANGED nextUid

UserDelete(n) ==
  /\ UserDeletes
  /\ api[n] # Gone
  /\ UserWrite(n, Gone)
  /\ UNCHANGED nextUid

\* A controller that starts lists the objects: the informer holds nothing and
\* every object there is comes as a creation.
Listed(n) == IF api[n] = Gone THEN <<>> ELSE <<leaseRelevantAnns(api[n])>>

Crash ==
  /\ crashes < MaxCrashes
  /\ crashes' = crashes + 1
  /\ run' = [t \in Threads |-> Idle]
  /\ due' = [n \in Names |-> Never]
  /\ seen' = [n \in Names |-> Gone]
  /\ pending' = [n \in Names |-> Listed(n)]
  /\ missed' = {}
  /\ UNCHANGED <<api, clock, jobs, faults>>

-----------------------------------------------------------------------------
\* What the annotations of the objects there are say in this state.
HeldNow == { [name |-> n, uid |-> api[n].uid, ttl |-> api[n].ttl, start |-> api[n].start]
               : n \in { m \in Names : api[m] # Gone } }

LeaseInit ==
  /\ api \in [Names -> InitialObjects \cup {Gone}]
  /\ nextUid = 1
  /\ clock \in { t \in Instants : \A u \in Instants : t <= u }
  /\ pending = [n \in Names |-> Listed(n)]
  /\ seen = [n \in Names |-> Gone]
  /\ due = [n \in Names |-> Never]
  /\ run = [t \in Threads |-> Idle]
  /\ jobs = {}
  /\ ops = 0 /\ faults = 0 /\ crashes = 0
  /\ held = HeldNow
  /\ missed = {}

\* Without opt-in every namespace counts as tracked.
Init == /\ LeaseInit
        /\ tracked = { NamespaceOf[n] : n \in Names }

System ==
  /\ \/ \E n \in Names : Dequeue(n) \/ Deliver(n)
     \/ \E t \in Threads : ReconcileStep(t)
  /\ UNCHANGED outerVars

World ==
  /\ \/ Tick
     \/ \E j \in jobs : FinishJob(j)
     \/ \E n \in Names : Miss(n)
  /\ UNCHANGED outerVars

Users ==
  /\ \E n \in Names : \/ UserCreate(n)   \/ UserSetTTL(n) \/ UserSetStart(n)
                       \/ UserSetJob(n)   \/ UserDelete(n)
  /\ UNCHANGED <<crashes, tracked>>

Restart == Crash /\ UNCHANGED <<ops, nextUid>>

Environment == \/ World
               \/ Users
               \/ Restart /\ UNCHANGED tracked

Next == /\ System \/ Environment
        /\ held' = held \cup HeldNow'

Spec == Init /\ [][Next]_vars

\* Threads that are in a call get its answer, the watch delivers, the clock
\* goes on, and the queue serves names in the order they became ready. Users,
\* Jobs, broken watches, faults and crashes owe nothing.
Fairness ==
  /\ \A t \in Threads : WF_vars(ReconcileStep(t) /\ Next)
  /\ \A n \in Names : WF_vars(Deliver(n) /\ Next) /\ SF_vars(Dequeue(n) /\ Next)
  /\ WF_vars(Tick /\ Next)

FairSpec == Spec /\ Fairness

-----------------------------------------------------------------------------
(* Properties.                                                              *)

JobRecord == [ id : Nat, name : Names, uid : Nat,
               state : {"running", "complete", "failed"}, deadline : Nat ]

TypeOK ==
  /\ api \in [Names -> Object \cup {Gone}]
  /\ nextUid \in Nat
  /\ clock \in Instants
  /\ pending \in [Names -> Seq(Views)]
  /\ seen \in [Names -> Views]
  /\ due \in [Names -> 0 .. Never]
  /\ run \in [Threads -> Reconcile]
  /\ jobs \subseteq JobRecord
  /\ IsFiniteSet(jobs)
  /\ tracked \subseteq { NamespaceOf[n] : n \in Names }
  /\ ops \in 0 .. MaxOps
  /\ faults \in 0 .. MaxFaults
  /\ crashes \in 0 .. MaxCrashes
  /\ held \subseteq [name : Names, uid : Nat, ttl : TTLValues, start : Stamps]
  /\ missed \subseteq Names

\* A step in which the reconcile of thread t deletes the object under n.
DeletedBy(t, n) ==
  /\ run[t].pc = "delete"
  /\ run[t].name = n
  /\ run'[t].pc = "idle"
  /\ crashes' = crashes
  /\ api[n] # Gone
  /\ api'[n] = Gone

ControllerDeletes(n) == \E t \in Threads : DeletedBy(t, n)

\* Every object the controller deletes carries the status "Lease expired.
\* Deleting object.": whatever was deleted and created again under the name
\* while a cleanup job was waited for, the uid precondition spares an object
\* that was never marked. Holds as long as no call fails, of objects that carry
\* no mark of an earlier process.
OnlyMarkedDeleted ==
  [][\A n \in Names :
       ControllerDeletes(n) /\ faults' = 0 /\ crashes = 0 =>
         api[n].status = ExpiredStatus]_vars

\* The controller deletes an incarnation only when its lease is over by some
\* ttl and lease-start it held at one time: however users move the two during
\* the reconcile, calls fail or the process crashes, no object is deleted
\* before the earliest end its own annotations ever promised. Holds as long as
\* only the controller deletes.
OnlyOverdueDeleted ==
  [][\A n \in Names :
       ControllerDeletes(n) =>
         \E v \in held : /\ v.name = n
                         /\ v.uid = api[n].uid
                         /\ Overdue(v, clock)]_vars

\* Nothing is deleted under a name that never had an overdue object: whatever
\* users delete and create again during a reconcile, however many reconciles run
\* side by side, calls fail and processes crash, the controller deletes only
\* where the lease of an object of that name is over by a ttl and lease-start
\* the object held. What a patch brings in of another incarnation may be deleted
\* for its predecessor, but no object of a name whose leases all run.
OnlyOverdueNamesDeleted ==
  [][\A n \in Names :
       ControllerDeletes(n) => \E v \in held : v.name = n /\ Overdue(v, clock)]_vars

\* An object that had a cleanup job when it was marked expired is deleted only
\* after a Job was created for this very incarnation and, if it asked to wait,
\* after that Job ended or had its time; what users do to the object or to its
\* job configuration meanwhile changes nothing. Holds as long as no call fails.
CleanupBeforeDelete ==
  [][\A n \in Names, t \in Threads :
       DeletedBy(t, n) /\ faults' = 0 /\ run[t].obj.job \in {"fire", "wait"} =>
         \E j \in jobs : /\ j.name = n
                         /\ j.uid = api[n].uid
                         /\ run[t].obj.job = "wait" =>
                              j.state # "running" \/ clock >= j.deadline]_vars

\* One incarnation gets a second cleanup Job only for a failed call or a crash:
\* the deletion is what ends the retries.
JobsPerIncarnation ==
  \A j \in jobs :
    Cardinality({ k \in jobs : k.name = j.name /\ k.uid = j.uid })
      <= 1 + faults + crashes

\* Nothing is left to do about n: no event on its way, no entry of the queue
\* whose time has come, no reconcile under way.
Settled(n) ==
  /\ pending[n] = <<>>
  /\ due[n] > clock
  /\ \A t \in Threads : run[t].name # n

\* Whenever the controller has nothing left to do about an object, the object
\* shows what its ttl says: no lease annotation without a ttl, a status that
\* tells of a ttl that does not parse, or a lease-start and the expiry that
\* follows from it. Holds of a process that has not restarted and whose calls
\* have not failed, unless the watch broke and lost the name a wake-up.
SettledIsConsistent ==
  \A n \in Names :
    Settled(n) /\ n \notin missed /\ api[n] # Gone /\ faults = 0 /\ crashes = 0 =>
      LET o == api[n] IN
      /\ noTTL(o) => ~HasLeaseAnns(o)
      /\ o.ttl = Invalid => HasLeaseStart(o) /\ o.status = BadTTL
      /\ o.ttl \in Durations =>
           /\ HasLeaseStart(o)
           /\ o.expireAt = Format(o.start + o.ttl)
           /\ o.status = Active(o.start + o.ttl)

\* The worker found the lease of n active at its very end: the delay to come
\* back after is zero, which the queue takes for none.
ReadOnTheEnd(n) ==
  \E t \in Threads : /\ run[t].pc = "patchActive"
                    /\ run[t].name = n
                    /\ run[t].now = run[t].expireAt

\* An object whose lease is over does not stay: it is deleted, or a user renews
\* or ends its lease, whatever calls fail and processes crash. Holds if no
\* reading of the clock ever falls on the end of its lease, and unless the watch
\* breaks and loses the name a wake-up that no later change makes up for.
OverdueGoes ==
  \A n \in Names :
    []~ReadOnTheEnd(n) =>
      (api[n] # Gone /\ Overdue(api[n], clock) ~>
         api[n] = Gone \/ ~Overdue(api[n], clock) \/ n \in missed)

\* What LeaseLifecycle sees of an object.
LeaseOf(o) == IF o = Gone THEN Gone ELSE [uid |-> o.uid, ttl |-> o.ttl, start |-> o.start]

Lifecycle == INSTANCE LeaseLifecycle
               WITH lease  <- [n \in Names |-> LeaseOf(api[n])],
                    time   <- clock,
                    writes <- ops,
                    said   <- held

\* Every step of the controller is one its promise allows: it writes lease-start
\* only into an incarnation that once had a ttl and no lease-start, removes it
\* only from one that once had no ttl, deletes only what was overdue, and
\* otherwise leaves uid, ttl and lease-start alone; no failed call and no restart
\* makes an exception. What the object had when it was read is what counts: a
\* lease-start that a user writes between the read and the patch is overwritten,
\* and one whose ttl came back meanwhile is removed. Holds as long as only the
\* controller deletes.
KeepsPromise == Lifecycle!Spec

-----------------------------------------------------------------------------
(* What the documentation says, and the code does not do.                   *)

\* README, "Behavior summary": delete ttl to stop management, the controller
\* removes the lease annotations.
UnmanagedIsClean ==
  \A n \in Names :
    Settled(n) /\ api[n] # Gone => (noTTL(api[n]) => ~HasLeaseAnns(api[n]))
=============================================================================
