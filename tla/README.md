# Object lease controller: TLA+ models, checks and proofs

The object lease controller deletes Kubernetes objects when the time to live in
their `object-lease-controller.ullberg.io/ttl` annotation has passed. One
process handles one kind of object (GVK). These modules model what the process
does, call by call, between an API server that other people write to, a watch
that may break, calls that fail or lose their answer, and crashes.

Paths below are relative to the repository (`pkg/controllers/...`); "line" is a
line of the source file named with it.

## 1. The system

| component | state it keeps | operations | works with |
|---|---|---|---|
| **Lease reconciler**, `pkg/controllers/lease_controller.go`, `pkg/util/delete.go` | none of its own: `lease-start`, `expire-at` and `lease-status` live in the object; the local copy of a running reconcile; the work queue and its delayed entries | event filter (`onlyWithTTLAnnotation`), `Reconcile` = namespace check, Get, then clean up, or start, judge and mark invalid, active or expired; cleanup job, delete with a uid precondition | API server (live reads: the objects are unstructured and the client does not cache those), tracker, Jobs |
| **Namespace tracker**, `pkg/util/tracker.go` | set of namespaces, listener channels; one lock | `AddNamespace`, `RemoveNamespace`, reads, `RegisterListener`, `notifyListeners` (drops when a channel is full) | written by the namespace reconciler, read by every reconcile, drained by the event loop |
| **Namespace reconciler**, `pkg/controllers/namespace_controller.go` | none; informer store and queue behind it | event filter, `Reconcile` = cached Get, add or remove | tracker |
| **Namespace event loop**, `handleNamespaceEvents`, `lease_controller.go` 388-421 | a channel of ten events | receive, List, a goroutine with a `Reconcile` for each object found | tracker, lease reconciler |
| **Cleanup jobs**, `pkg/util/cleanup_job.go` | the Job in the cluster | parse the configuration, create, poll every 2 s until the timeout | lease reconciler, Job controller |
| **Duration parser**, `pkg/util/duration.go` | none | `ParseFlexibleDuration` | reconciler (`ttl`), cleanup jobs (`job-timeout`) |
| **Cache transform**, `pkg/util/object_filter.go` | none | keep metadata and the relevant annotations of cached objects | informer, hence the event filter |
| **Start-up**, `cmd/main.go` | flags, environment | parse, leader election settings, wire the rest | everything |
| Metrics, health checks, leader election (client-go), Helm operator and CRD, console plugin | | | not modelled, see section 7 |

What makes it hard:

* **Stale copies.** A reconcile reads an object once and decides on that copy;
  every patch answer replaces the copy, uid included, while users change,
  delete and recreate the object. Waiting for a cleanup job stretches the
  window to minutes.
* **Errors that are dropped.** `updateAnnotations` (line 361) ignores the error
  of its patch, the event loop ignores the error of its List (402), and the
  goroutines ignore the result of their reconciles (412).
* **Crashes and lost answers.** A reconcile has up to five calls; after a crash
  the controller starts from a list, and creation events pass a narrower filter
  than updates.
* **A watch that skips.** The filter compares the version the informer saw last
  with the next one. An informer that lists again after a broken watch skips what
  lies between: a change and its reversal compare equal and wake nobody, while a
  Get that went to the API server may have read the version between.
* **Time.** Stamps are written in whole seconds and compared with nanosecond
  readings; the wake-up is a delay computed from a reading; a delay of zero is
  no delay.
* **Two ways to a reconcile.** In opt-in mode the worker skips objects of
  untracked namespaces, and a goroutine for each object of a newly tracked
  namespace reconciles beside the worker, with nobody to keep its result.
* **Bounded channel.** The tracker never waits, so a listener that is slow
  misses events for good.

What makes each component correct:

* lease reconciler: nothing is deleted before an end its own annotations
  promised; what is deleted was marked and had its cleanup job; failures cost at
  most one more job each; a settled object shows what its ttl says; an overdue
  object goes away;
* tracker and namespace reconciler: when nothing is under way, the tracker holds
  exactly the namespaces whose label matches, and it gets there; a listener that
  missed nothing believes what the tracker holds;
* event loop: each tracked namespace has been listed since it was last added, or
  that list failed;
* with opt-in: what never opted in is left alone; an object that was skipped
  because the tracker was behind is found later, and its end is not forgotten;
* cleanup jobs: the Job is the one the annotations ask for, the wait ends at the
  latest at the timeout, and its outcome is the Job's when the Job was seen
  finished;
* duration parser: the value of the text, or an error, with the arithmetic of
  an int64;
* cache transform: every reader of the cache decides as it would on the object;
* start-up: each setting means one thing, however it is spelled and wherever it
  is read.

## 2. Modules

| module | models |
|---|---|
| `LeaseObject` | the annotations of an object, what the filter and `Reconcile` decide from them, merge patches, the uid precondition |
| `LeaseController` | one controller process with its work queue, watch and reconciles, the API server, users, Jobs, clock, crashes; its properties |
| `LeaseControllerProofs` | theorems about `LeaseController` |
| `LeaseCleanupProofs`, `LeaseAnnotationsProofs` | theorems about its Jobs and marks, and about what a settled object shows |
| `LeaseLifecycleProofs` | theorem: `LeaseController` implements `LeaseLifecycle` |
| `MCLease` | small instances of `LeaseController` for TLC |
| `NamespaceTracker` | the tracker's set, channels and operations |
| `NamespaceController` | namespaces and labels, the watch, the namespace reconciler, the event loop up to its List; its properties |
| `MCNamespace` | small instances of `NamespaceController` |
| `NamespaceControllerProofs` | theorems about `NamespaceController` and the tracker in it |
| `LeaseLifecycle` | abstract: what the controller promises the owner of an object; `LeaseController` implements it |
| `OptInLease` | `LeaseController` composed with `NamespaceTracker` and the event loop with its goroutines |
| `MCOptIn` | small instances of `OptInLease` |
| `OptInLeaseProofs` | theorems about `OptInLease`; extends the proofs about `LeaseController` |
| `JobWait` | abstract: what the wait for a cleanup Job promises; `CleanupJob` implements it |
| `CleanupJob` | the job annotations, the creation of the Job, the polling loop, the Job and its cache |
| `MCCleanupJob` | a small instance of `CleanupJob` |
| `CleanupJobProofs` | theorems about `CleanupJob`, its refinement of `JobWait` among them |
| `FlexibleDuration` | `ParseFlexibleDuration` with the width of int64 |
| `ObjectTransform` | what the manager's cache keeps, and what its readers make of it |
| `Startup` | what flags, environment and pod decide before the manager starts |
| `MCInputs` | small instances of the three modules above |
| `InputsProofs` | theorems about them |

### LeaseObject

An annotation value is a number of clock ticks (what the parser returns),
`Invalid` (a text the parser refuses), `Empty` (key present, empty value) or
`Absent`. The distinction of `Empty` and `Absent` matters: the creation filter
asks for the key, `noTTL` for a value. `Format` is RFC3339: it loses the part of
a second, `Sec` ticks. The status is one of the three texts the controller
writes; the text of an active lease carries its expiry. `MergePatch` is
`client.MergeFrom`: only annotations the caller changed are in the patch, and
the server puts them into whatever it now has under the name. That last point is
what carries a new incarnation's uid into the local copy.

### LeaseController

State: `api` (the server's objects), `nextUid`, `clock`; `pending` (versions the
watch has still to bring, as the filter sees them), `seen` (the informer's
version), `due` (when the queue hands out a name; an entry keeps the earlier of
two times); `run` (each reconcile: phase and local variables); `jobs`;
`tracked`; the used part of each bound; and two histories, which only properties
read: `held`, every ttl and lease-start an incarnation has held, and `missed`,
the names a broken watch has lost a wake-up for that nothing has made up for yet.

A reconcile is cut at its calls, since others act between two of them:

| action | code |
|---|---|
| `Dequeue`, `Deliver` | controller-runtime's queue and event source; the filter is lines 60-95 |
| `Miss` | the informer, listing again after a broken watch: a version is skipped, and the filter will compare the one after it with what it saw last |
| `Filter` | the tracker check, 111-115 |
| `Get` | `getObject` and `noTTL`, 117-128; missing object, failed call |
| `Clean` | `cleanupLeaseAnnotations`, 175-193 |
| `ReadClock` | `time.Now` (130), the part of `ensureLeaseStart` that finds a start, the verdict (133-144) |
| `PatchStart` | the part of `ensureLeaseStart` that writes one, 195-219. The ttl is then read from the patch's answer, the start stays the unrounded reading |
| `PatchInvalid`, `PatchActive` | `markInvalidTTL`, `setActive` and the `RequeueAfter` it returns |
| `PatchExpired` | the head of `handleExpired`, and `ParseCleanupJobConfig` on the patched copy |
| `CreateJob`, `WaitJob` | `executeCleanupJob`, `CreateCleanupJob`, `WaitForJobCompletion` by their outcomes |
| `Delete` | `DeleteWithUIDPrecondition`: done, not there, conflict, failed, done with the answer lost |
| `UserCreate/SetTTL/SetStart/SetJob/Delete`, `Tick`, `FinishJob`, `Crash` | the environment |

Every call may fail (`Fault`), either without effect or with its effect and the
answer lost. A crash forgets the queue and the reconciles; the restarted process
gets every object as a creation.

`Miss` takes a version out of the watch at any time, as long as a later one
follows it: a list brings the newest. A name enters `missed` when a change that
the filter would have let through was on its way before, and none is after. It
leaves when the filter lets another change through, when the worker takes the
name off the queue (a delay that ran out), and with a new process.

Abstractions: the API server is one object per name with optimistic merge
patches (no resource versions, the code sends none); watch versions that look
alike to the filter are not sent; a rate-limited retry is due at once (how long
it takes is the scheduler's choice); `time.Now` moves in jumps through
`Instants` and never back; a wake-up that falls behind the last instant although
the lease ends before it is brought forward to that instant (`WakeUp`), for
otherwise the end of the model, not the code, would keep an object alive. A
wait for a Job that ends because the cache the Job is read from lags behind
counts as a fault; the polling loop itself is `CleanupJob`.

### NamespaceTracker and NamespaceController

Every tracker operation runs under its lock, so each is one step. A namespace's
label is what the opt-in asks for (`match`), another value, or none. A version
takes three steps: the watch brings it to the informer's store (`Watch`; after a
break it may skip versions, as in `LeaseController`, so that a deletion and a
creation look like one update), the handler filters the change (`Handle`, lines 28-36), and the
reconcile reads whatever the store holds then (`Get`) and updates the tracker
(`Track`, 50-62). `Receive` and `ListObjects` are the event loop. `view`,
`listed` and `unlisted` are histories: what a listener would believe by the
events it got, and which namespaces were listed since they were last added, or
had their list fail. A crash empties the
tracker, as a new process has an empty one.

### LeaseLifecycle

The promise without queues, reconciles, patches and failures: for each name the
uid, ttl and lease-start of its object. `Start` writes a lease-start, `End`
removes it, `Expire` deletes, each only if some version this incarnation once
had gives the reason (no start, no ttl, an end that has passed); nothing else
of the controller is visible. "Once had" and not "has": the controller acts on a
copy. So `Start` may write over a lease-start that a user has set since, and
`End` may take it from an object whose ttl is back. `LeaseController` maps `api`
to it by dropping the annotations it only writes (`LeaseOf`), `clock` to `time`,
`ops` to `writes`, `held` to `said`. A creation with a uid that was used before,
a ttl written by the controller, a stamp that is not a formatted reading of the
clock, or a patch that puts back the start of the copy it was made from (the
whole annotation map instead of what changed) are steps it does not allow.

### OptInLease

`LeaseController`'s actions with `NamespaceTracker`'s inside: the same state,
and the watcher's channel, the labels (`optedIn`), the namespace the loop is
listing, and as history `consented`, `dropped` and the number of lists that
started something. `Relabel` is the user; `Track` is the namespace reconciler
reduced to its effect; `Receive` and `ListObjects` are the two halves of
`handleNamespaceEvents`: `ListObjects` hands each object with a ttl key a
goroutine, whose reconcile then goes through the same actions as the worker's,
and `Return` drops the result of every thread but the worker's (line 412).
`RestartAll` empties the tracker and the channel and kills goroutines. The
objects of a list get at most as many goroutines as the model has; a list that
finds none free waits.

### CleanupJob and JobWait

One expiry, from the annotations to the deletion. `Parse` is
`ParseCleanupJobConfig` with its defaults (60 s for job-ttl; `README.md`, line
169, says 300) and its all-or-nothing refusals. `Create` is `CreateCleanupJob`;
the API server refuses a negative ttl or backoff limit, which the parser lets
through. `TimeOut`, `PollJob` and `GetAnswer` are the loop of
`WaitForJobCompletion`: a select that takes either channel when both are ready,
a ticker whose channel holds one tick, a Get from the manager's cache, which
answers "not found" for a Job it has not seen yet or that its own ttl has
removed, and whose very first use waits for the informer's first list. The
environment is `JobEnds`, `JobExpires`, `CacheSyncs` and `Tick`.

`JobWait` says what the deletion that follows may rely on: a wait is over when
the Job has ended that way, when the time is up, or when the Job was out of
sight or a call failed, and `answer` says which. It does not promise that a Job
that has ended is reported so: one that completes and is removed before a poll
is reported as unreadable, and the code counts it as failed.

### FlexibleDuration, ObjectTransform, Startup

`FlexibleDuration` is the loop over the elements the regular expression finds:
`Fail`, `Add` (one element), `Finish` (the sign). `Wrap` is int64 arithmetic,
`FromFloat` the conversion of an unrepresentable float64, which Go leaves to the
platform: both outcomes are allowed. Units that `time.ParseDuration` reads are
range-checked by it, the custom ones (d, w, mth, y) are not.

`ObjectTransform` is `MinimalObjectTransform` with the keys `buildManagerOptions`
keeps, and the three readers of the cache: the event filter, the label check of
namespaces, the condition check of Jobs. The key of job-env-secrets is not kept;
nothing reads it from the cache, as the reconciler gets the object live.

`Startup` is `parseParameters` and `parseLeaderElectionConfig`, which read
`LEASE_LEADER_ELECTION` by different rules, the check of version and kind, the
refusal of controller-runtime to elect without a namespace, and
`configureNamespaceReconciler`: with only one of the two opt-in settings there is
no opt-in, and the process manages every namespace.

## 3. Runs

Passing runs:

| run | properties | instance |
|---|---|---|
| `lease_safety` | `TypeOK`, `JobsPerIncarnation`, `OnlyMarkedDeleted`, `OnlyOverdueNamesDeleted`, `CleanupBeforeDelete` | one name, two user writes of any kind (so delete and recreate fits), a job to wait for, to start, or none, one fault, one crash, three instants; 1.3 million states |
| `lease_annotations` | `SettledIsConsistent`, `OnlyOverdueDeleted`, `KeepsPromise` | an object with a ttl that does not parse; two writes of all five kinds of ttl (absent, empty, invalid, positive, negative), of three starts (none, and leases that end before and after the last reading), and of a refused job configuration; one fault, one crash; two readings of the clock; nobody else deletes; 892 thousand states |
| `lease_liveness` | `OverdueGoes` under `FairSpec` | a lease that has started, with a job to wait for; three instants, before, on and after its end; two writes of a ttl (the same, absent, invalid), one fault, one crash; 368 thousand states |
| `namespace` | `TypeOK`, `SettledMatches`, `ReplayIsTracked`, `TrackedIsListed`, `TrackerConverges` under `FairSpec` | two namespaces, any initial labels, a channel of two events, two writes, one fault, one crash; 420 thousand states |
| `optin` | `OptInTypeOK`, `JobsPerList`, `SkippedIsFound`, `ComesBack`, `OnlyConsentedTouched`, `OnlyOverdueNamesDeleted` | one name, worker and one goroutine, a channel of two, either initial label, two readings of the clock (before and after the end), a job to start; a user write, a relabelling, a fault and a crash, any two of them in a behaviour (`MaxEvents`); 1.3 million states |
| `cleanup_job` | `TypeOK`, `JobAsAsked`, `SeenInTime`, `WaitEnds`, `ReportsTruly` under `FairSpec` | every combination of the annotations with timeouts below, at and beyond the period, absent, passed and unreadable; seven seconds, a ticker of two, defaults scaled to 6 and 3; one fault; 429 thousand states |
| `inputs` | `ReadAsWritten`, `StripsNothingNeeded`, `SpellingsAgree` | texts of up to three elements over h, d, mth, y, a missing and an unknown unit, and numbers on both sides of the range; ticks of an hour, of which an int64 of nanoseconds holds 5124096; all settings; all pairs of cached objects over four keys and two values; 341 thousand states |

Why these bounds: objects never share state (queue entries, patches and
deletions are by name; the only worker serves them in some order), so one name
shows every per-object behaviour; two names would add only the wait for the
worker, which lasts as long as a cleanup job's and ends (`WaitEnds`). Two user
writes are what a delete and recreate, or a change and its reversal, takes; one
fault and one crash let each call fail and the process die at each step, and the
two may come together. Two ticks to a second tell a rounded stamp from an
unrounded reading. The ttl of two ticks with two or three instants leaves readings
before and after the end. Two namespaces with a channel of two overflow it and
still let it fill without a loss.

The readings of the safety runs lie half-way between two seconds: none falls
exactly on the end of a lease. When one does, the code finds the lease not yet
over (`now.After` is strict) and returns a `RequeueAfter` of zero, which the
queue takes for none: the object stays until something else wakes the controller,
although `README.md`, line 273, says that the controller "requeues until expiry".
It takes a reading equal to the end to the clock's resolution. `lease_liveness`
takes such readings (`OnTheEnd`), and `OverdueGoes` has the hypothesis that the
worker makes none of the object it speaks of (`[]~ReadOnTheEnd(n)`); without it
TLC finds the property violated in this way. `LeasesComeBack` has it for a
hypothesis, too.

In every run of the lease controller the watch may break at any time and skip
any version but the last. Three orders in which the code then forgets an object,
and which the exception for `missed` in four properties is about:

* The ttl is `2h`; a user makes it `abc`, which a wake-up that comes just then
  reads (line 118) and marks invalid, with no time to come back at (136); the user
  makes it `2h` again. If the watch was broken for the two changes, the list after
  it compares equal to what the filter saw last (91). The status stays "Invalid
  TTL", and the object is never deleted. Without the exception
  `SettledIsConsistent` and `OverdueGoes` are violated in this way.
* In opt-in mode, a goroutine writes `lease-start` while the watch is broken, and a
  user removes it. The list compares equal: the object has a ttl, no start, and
  nobody will come back to it. Without the exception, `SkippedIsFound`
  is violated.
* The wake-up at the end of a lease reads an invalid ttl in the first of these
  gaps: then an active lease has no time to come back at. With one write of a user
  TLC finds another way: the user removes `lease-start`, the worker and then a
  goroutine that took its reading earlier write new ones, and the last happens to
  be, in whole seconds, the one the filter saw before the gap. Without the
  exception `ComesBack` is violated.

A process that starts anew, another change of ttl or lease-start, or a delay that
is still set ends such a state.

The goroutine bound of `optin` is one because the namespace has one object with
one list at a time; a second list that comes while the first one's goroutine is
busy waits for it, where the code would start another.

The runs stop at the last instant and when the bounds are used up, so deadlock
is not checked: the controller really is idle then.

Violations, each of which quotes what the repository says:

| run | shows |
|---|---|
| `lease_recreated` | delete and recreate between the read and the patch that marks the object expired: the patch goes to the new object, its answer brings the new uid into the local copy, and the precondition of the deletion then names the new object, which goes before its time |
| `lease_downtime` | ttl removed while the controller is down: the creation event has no ttl key, does not pass the filter, and the lease annotations stay |
| `namespace_dropped` | the channel is full while the loop lists: the event is dropped, the namespace is tracked and never listed |
| `optin_restart` | the process starts while a lease is running in a namespace that opted in: the object comes as a creation and is skipped, since the tracker is still empty; the goroutine of the tracker's event finds an active lease with its start written, changes nothing the filter looks at, and its `RequeueAfter` is dropped. The object is never deleted |
| `duration_overflow` | 293 years and more leave the int64: a ttl without a sign becomes negative, hence overdue at once |

More that the models allow and the code does, by intent or not. A ttl that a user
removes after the read of a reconcile does not keep the object from being deleted
(line 281 decides on the copy). A ttl that becomes invalid leaves the `expire-at`
of the lease before it (line 223 writes only the status), a time at which nothing
happens, although the README calls `expire-at` safe for dashboards to read. When
the patch that writes `lease-start` fails, its error is dropped (line 361): the
reconcile goes on, the object has an expiry and no start, and the wake-up at the
end starts the lease anew; `SettledIsConsistent` is therefore stated for calls
that do not fail, and `OverdueGoes` and `KeepsPromise` hold all the same. Several
goroutines and the worker may each create a cleanup job for one incarnation
(`JobsPerList` counts them). A `lease-start` that a user writes after the read of a
reconcile (118) that found none, and before its patch (211), is overwritten by the
reading of the clock, and one written into an object whose ttl was missing at the
read and is back is removed by `cleanupLeaseAnnotations`: the patch of a merge says
what the copy lacked, not what the server has. `README.md`, line 105, says "You can
set `lease-start` explicitly" without this exception. A namespace that opts out
while a reconcile is past its check (112) sees that reconcile finish, deletion
included. An object with finalizers that is waiting for them is still there after
its deletion, and the code, which never looks at `deletionTimestamp`, may start
another cleanup job for it (see section 7).

### What the properties say

* `OnlyOverdueDeleted`: a deletion hits an incarnation only when its lease is
  over by some ttl and start this incarnation held at one time. It is the
  strongest form that holds: the controller may judge by a version that a user
  has replaced since, never by a mixture or by another incarnation's.
* `OnlyOverdueNamesDeleted`: what is left of it when users delete and create again
  under the name, or goroutines reconcile beside the worker: the incarnation that
  goes may not be the one that was judged (`lease_recreated`), but some object of
  that name was overdue. A name whose leases all run is safe from every order of
  steps.
* `OnlyMarkedDeleted`: with no failed call, what is deleted carries the status
  that announces it. This is what the uid precondition buys while a job is
  waited for, also when the object is replaced then.
* `CleanupBeforeDelete`: an object that had a job when it was marked goes only
  after a Job for this very uid was created and, if asked for, ended or had its
  time.
* `JobsPerIncarnation`: retries repeat the whole reconcile, job included; the
  number of Jobs is one more than the failures and crashes at most.
* `SettledIsConsistent`: no order of user writes, reconciles and skipped versions
  leaves an idle controller with annotations that do not follow from the ttl,
  unless a broken watch lost the object its last wake-up. The controller is woken
  only by changes of two annotations and one delay, so this is about lost
  wake-ups: a change and its reversal in one gap are the only way to lose one for
  good.
* `OverdueGoes`: an overdue object is deleted, or a user renews it, if the clock is
  never read exactly on its end and no broken watch loses its wake-up (both told
  above).
* `KeepsPromise`: every step of `LeaseController`, with failed calls, lost answers
  and crashes, is a step of `LeaseLifecycle` or invisible to it. This covers what
  the single properties leave open: the controller never touches a ttl or a uid,
  writes only formatted readings into lease-start, and only into an incarnation
  that once had a ttl and no start, and removes it only from one that once had no
  ttl. It is not a promise that a lease-start survives: one that a user writes
  after the read is overwritten or removed, as told above.
* `OnlyConsentedTouched`: the controller never reads a label, only a tracker that
  is filled by events and asked once, at the start of a reconcile. All the same
  nothing is written in a namespace that never opted in. (One that opted out may
  still see the reconcile under way finish.)
* `JobsPerList`: what reconciling beside the worker costs.
* `SkippedIsFound`: a skipped reconcile and the event that makes up for it cannot
  miss each other, in any order of worker, tracker, loop, users and restarts; only
  a broken watch that lost the object its last wake-up makes an exception.
* `ComesBack`: the goroutine's dropped `RequeueAfter` is harmless when it starts
  the lease itself, since its own write wakes the worker, unless a broken watch
  lost that wake-up. That this is the only thing that saves it is what
  `optin_restart` shows.
* `JobAsAsked`, `SeenInTime`, `WaitEnds`, `ReportsTruly`: see `CleanupJob`.
  `WaitEnds` needs the deadline also inside the first Get, which waits for a cache
  that may never come.
* `ReadAsWritten`: exact as long as the sum fits, whatever the order of elements
  and the sign; `duration_overflow` is the other case.
* `StripsNothingNeeded`, `SpellingsAgree`: two places that have to agree and are
  written down apart: the list of kept keys and the filter that compares them; the
  two readers of one variable.
* `SettledMatches`, `TrackerConverges`: the tracker ends up with the labels
  although a reconcile acts on a read that is stale by then.
* `ReplayIsTracked`: the channel's events, in order, tell a listener exactly what
  the tracker holds, unless one was dropped.
* `TrackedIsListed`: the loop, once caught up, has listed every tracked namespace
  since it was added, unless an event was dropped or the list of that very
  namespace failed. A failed list is not tried again (line 402).

## 4. Fairness

Weak fairness of a reconcile's next call (a call returns, with an answer or an
error), of the delivery of watch events, of the clock, of the handler and of
both loops: each is a goroutine that runs whenever it can. Strong fairness of
`Dequeue(n)`: the worker is busy again and again, and the queue is first in
first out, so a name whose time has come is not passed over for ever. Users,
Jobs, faults and crashes owe nothing, and since they are bounded the liveness
properties speak of what follows the last of them. A cleanup job that never ends
is covered by the timeout, which only needs the clock.

`OptInFairness` adds weak fairness of the namespace reconciler and of the event
loop, which are goroutines like the others. `CleanupJob`'s `FairSpec` is weak
fairness of the code's own steps and of the clock; the Job need not end and the
cache need not catch up.

## 5. What is proved

Every safety property, action property and refinement that the passing runs of
section 3 check is a theorem that TLAPS checks to the last leaf:
for every set of names, threads, namespaces, clock readings and user inputs, and
for all bounds. What TLC shows on an instance with one name and one fault then
holds for any number. Where a theorem has a hypothesis, the theorem states it,
and what happens without it is told below.

The assumptions on the constants are named and sit in the modules that declare
them; TLC evaluates them in the runs: the special values are no numbers, no
texts and no objects, inputs are values of their types, instants are natural
numbers with a greatest one, the worker is no goroutine, periods and capacities
are positive, `Word` is a positive even number.

`Goroutines = {}` is the controller without the two opt-in settings: then there
is no event loop, and the worker is the only thread. `OptInLeaseProofs` is about
any number of goroutines.

### The lease controller

* `TypeCorrect`. `TypeOK` is not inductive: a step writes `api[run[t].name]`, so
  the proof carries `InFlight`: a reconcile under way has a name, and past its
  Get an object. There is a lemma for each action.
* `NoEarlyDeletion`: `OnlyOverdueDeleted`, with one worker and nobody else
  deleting. Both are needed: with a user who deletes, `lease_recreated` is the
  counterexample. The invariant `Judged` follows a reconcile through its phases:
  the object under its name stays the incarnation it read (`SameIncarnation`),
  its clock reading is past (`ReadingIsPast`), the copy it is about to judge is a
  version that was held (`VersionIsHeld`), a start is written only where there was
  none (`StartIsMissing`), and from the verdict "expired" on there is a held
  version that is overdue (`DoomIsPromised`), which stays true because the clock
  and the history only grow. The subtle step is `PatchStart`: the ttl comes from
  the answer, the start is the unrounded reading, and the stamp the server now
  holds is earlier; it is overdue at once only for a negative ttl, and then by the
  version in the answer.
* `PromiseKept`: `KeepsPromise`, the refinement, under the same two hypotheses.
  To `Judged` it adds `Founded`: a lease is ended on behalf of a version without
  a ttl, started on behalf of one without a start, stamped with a reading, and
  uids of the history are used ones. Each step maps to `Start`, `End`, `Expire`,
  `Owner`, a tick, or nothing.
* `NoNameWithoutOverdue`: `OnlyOverdueNamesDeleted`, for any threads, users, faults
  and crashes, without hypotheses. The invariant `NamesJudged` is `Judged` for a
  name instead of an incarnation, so that it needs nobody to keep still: the copy a
  thread judges by is a version the name held (`JudgesName`), and a thread past its
  verdict has a version of the name to point to that is overdue (`NameIsDoomed`).
  At `PatchStart` a negative ttl may come from another incarnation than the read
  did, with the stamp the thread wrote there itself; the server then held that
  version (`PatchBrings`), so it is in the history.
* `CleanupComesFirst`: `CleanupBeforeDelete`, for any threads and users, without
  hypotheses. Jobs are numbered apart (`JobsNumbered`), and a thread that has an
  expired object with a job before it has its Job (`JobIsThere`), past its wait
  one that has ended or had its time.
* `OneJobEach`: `JobsPerIncarnation`, with one worker. The count alone is not
  inductive. An incarnation the worker may still create a Job for unharmed, since
  it is alive or about to be deleted for the first time, is one Job below the
  bound; a conflict that sends the worker round again is one with another
  incarnation.
* `OnlyMarkedGo`: `OnlyMarkedDeleted`, with one worker and no object that an
  earlier process marked. Without the second hypothesis it is false: the merge
  patch of a copy that carries the mark already does not send it, so an object
  that was deleted and created again under the name is deleted unmarked. The
  invariant: what carries the mark is what the worker is about to delete, and the
  other way round.
* `SettledIsRight`: `SettledIsConsistent`, with one worker, nobody else deleting,
  and no object that lost its ttl before the controller started (that is
  `lease_downtime`). `Linked`: the end of the watch is what the API server has.
  `Attended`: the name of an object that is not as it should be is `Stirred`
  (ready in the queue, or a change the filter lets through is on its way, or lost
  to a broken watch), or the
  worker is on it with a copy that is up to date and a step that is the right
  one. Each write shows up in the watch (`WriteShows`), and delivery turns a
  change on its way into a name in the queue (`DeliverAttends`). A skipped version
  takes nothing from the end of the watch (`SkippedView`), and if it takes the
  change the filter would have let through, the name is in `missed`
  (`MissAttends`): that is the one way to lose a wake-up.

### Namespaces

`NamespaceControllerProofs` needs no hypotheses.

* `TrackerFollows`: `SettledMatches`. The watch, the store and the queue together
  always lead to the label (`WatchIsComplete`), and a name that is not due is
  tracked, or will be by the reconcile under way, exactly if the store's version
  matches (`StoreIsFollowed`).
* `ListenerLearns`: `ReplayIsTracked`, inductive with the types: what the last
  event about a namespace says is what the tracker holds. The cases are those of
  a sequence that loses its head or gains an event.
* `AdditionsReachTheList`: `TrackedIsListed`. A tracked namespace has been listed or
  had its list fail, is being listed, or is announced in the channel
  (`AdditionsListed`).

### Opt-in

* `NothingWithoutConsent`: `OnlyConsentedTouched`, without hypotheses. What is
  tracked, and what a thread past its filter deals with, has consented
  (`Consent`).
* `NobodyIsForgotten`: `SkippedIsFound`, without hypotheses but what the property
  says of failed calls, dropped events and the broken watch. An object in a
  tracked namespace in want of a lease-start is stirred, or its namespace is
  announced or being listed, or a thread is on its way to write the start
  (`NoneSkipped`). The step that matters: a namespace enters the tracker together
  with its event, and a list hands each object a goroutine.
* `OneJobMoreForAList`: `JobsPerList`, without hypotheses. Jobs and goroutines
  that may still create one are counted together; a list adds one goroutine for
  a name at most.
* `NoNameWithoutOverdueInOptIn`, `CleanupComesFirstInOptIn`: what the lease
  controller promises of deletions without hypotheses, it keeps in opt-in mode.
  The invariants are those of `LeaseController`; what the reconciler, the tracker
  and the event loop add moves no object and starts reconciles only from their
  filter (`AsideMoves`).
* `LeasesComeBack`: `ComesBack`. A lease that runs has a time to come back at, or a
  change of it is on its way, or the worker is on it with a copy of that lease
  (`ComingBack`). A write that makes another lease of an object stirs its name
  (`OtherLeaseStirs`), whichever thread wrote it, and the worker does not skip it:
  its namespace is tracked, since a reconcile has got past its filter there
  (`BegunIsTracked`). Two hypotheses are stated, and both are needed: no lease has
  started before the controller and users start none (`FreshLeases`), or else
  `optin_restart` happens; and no clock reading falls on the end of a lease
  (`NoReadingOnTheEnd`), or else the delay is zero, which the queue takes for none.

### Cleanup jobs

`CleanupJobProofs` needs no hypotheses.

* `AskedForIsCreated`: `JobAsAsked`, by what each phase of the controller says
  about the Job so far (`OnTheWay`).
* `EndIsNotMissed`: `SeenInTime`, for any period and timeout. The ticker's next
  tick is at most a period ahead, and once the end of the Job is in the cache a
  tick waits in the channel or comes within a period (`TickAfterEnd`).
* `WaitIsTruthful`: `ReportsTruly`, the refinement of `JobWait`. What the cache
  says of a finished Job is true (`CacheIsTrue`), so that a poll that ends the
  wait is a step `JobWait` allows, and a timeout is one only when the time is up.

### Inputs

* `ReadableIsAnswered`: an error exactly for a text without elements or with one
  that is refused, at whatever place.
* `ParserReadsAsWritten`: `ReadAsWritten`, for texts of any length and integers of
  any width. `Written` is a fold over the set of places, which picks them in an
  order of its own, and the parser adds from left to right. That the fold's
  recursive function exists, and that any place may be the last one picked
  (`SumExists`, `SumEquation`, `AnyLast`), is shown by induction on the size of the
  set. The library's rules of induction take the claim as an operator, which the
  provers cannot instantiate; `SetInduction` takes the set of numbers for which it
  holds, and follows from `<` being well-founded. Hence the fold of a text is its
  last prefix sum (`WrittenIsSum`), and the prefix sums grow (`PrefixesGrow`): if
  the whole fits the integer, each of them does, and no addition of the parser
  wraps (`SumInv`).
* `NothingNeededIsStripped`: `StripsNothingNeeded`, for all values.
* `SpellingMakesNoDifference`: `SpellingsAgree`, for all settings; the run
  enumerates the same ones.

### Only model-checked

Liveness: `OverdueGoes`, `TrackerConverges`, `WaitEnds`. TLAPS reasons about safety
here: fairness needs ENABLED, which it does not handle.

The violations: each is a behaviour TLC found in an instance, and needs no proof
beyond it.

## 6. Plan

What remains, in this order:

1. Weaker hypotheses: `PromiseKept` for a user who deletes, with the promise about
   incarnations that nobody replaced; `SettledIsRight` after a restart, for objects
   that have their ttl.
2. Two processes: the lock of the leader is released when the manager stops
   (`main.go`, line 310), while goroutines of the event loop, which have a context
   of their own (411), may go on until the process has exited.

## 7. What is not modelled

Metrics, Kubernetes Events and log lines: nothing reads them back. Leader
election: its settings are in `Startup`; the algorithm is client-go's, and the
models have one active process at a time, as it promises. The text of a cleanup
Job's spec (image, service account, environment, volumes): written once, never
read back. Fractions in durations: a fraction of a unit is a number of smaller
ticks, and float64 rounding of the product is not modelled. Health and readiness checks: stateless reads. The Helm operator, its
CRD and watches: templates rendered by another program. The console plugin: a
read-only page. Finalizers: deletion is a single step, since the code neither
sets nor looks at `deletionTimestamp`. A clock that is set back: Go's readings
are monotonic within a process, and across processes the code has nothing against
it. More than one worker per kind: `MaxConcurrentReconciles` is left at one.
