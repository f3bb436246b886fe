-------------------------- MODULE LeaseCleanupProofs --------------------------
(***************************************************************************)
(* What LeaseController does around a deletion: the cleanup Job it creates *)
(* first, the overdue lease without which it deletes nothing under a name, *)
(* how many Jobs an incarnation gets, and the mark an object carries when  *)
(* it goes.                                                                *)
(***************************************************************************)
EXTENDS LeaseControllerProofs

\* Every Job has a number of its own.
JobsNumbered ==
  /\ \A j \in jobs : j.id \in 1 .. Cardinality(jobs)
  /\ \A j, k \in jobs : j.id = k.id => j = k

\* A thread past the creation of a Job has one for the incarnation it read; it
\* waits for that Job, or has waited for it.
JobIsThere(t) ==
  faults = 0 /\ run[t].pc \in {"waitJob", "delete"} /\ run[t].obj.job \in {"fire", "wait"} =>
    \E j \in jobs :
      /\ j.name = run[t].name
      /\ j.uid = run[t].obj.uid
      /\ run[t].pc = "waitJob" => j.id = run[t].job
      /\ run[t].pc = "delete" /\ run[t].obj.job = "wait" =>
           j.state # "running" \/ clock >= j.deadline

CleanupInv == TypeInv /\ JobsNumbered /\ \A t \in Threads : JobIsThere(t)

-----------------------------------------------------------------------------
(* What a step may do to the threads, the Jobs and the counts of failures.   *)

\* A thread moves by a step of its own, by its dequeue, or in a crash.
LEMMA ThreadMoves ==
  ASSUME TypeInv, Next, NEW t \in Threads
  PROVE  \/ run'[t] = run[t]
         \/ ReconcileStep(t)
         \/ t = Worker /\ \E n \in Names : Dequeue(n)
         \/ Crash
<1>1. ASSUME NEW s \in Threads, s # t, ReconcileStep(s) PROVE run'[t] = run[t]
  <2>1. \E r : run' = [run EXCEPT ![s] = r]
    BY <1>1 DEF ReconcileStep, Filter, Get, Clean, ReadClock, PatchStart, PatchInvalid,
       PatchActive, PatchExpired, CreateJob, WaitJob, Delete, Return
  <2> QED
    BY <1>1, <2>1 DEF TypeInv, TypeOK
<1>2. ASSUME NEW n \in Names, Dequeue(n), t # Worker PROVE run'[t] = run[t]
  BY <1>2 DEF Dequeue, TypeInv, TypeOK
<1>3. ASSUME run' = run PROVE run'[t] = run[t]
  BY <1>3
<1>4. CASE System
  BY <1>1, <1>2, <1>3, <1>4 DEF System, Deliver
<1>5. CASE World
  BY <1>3, <1>5 DEF World, Tick, FinishJob, Miss
<1>6. CASE Users
  BY <1>3, <1>6 DEF Users, UserCreate, UserSetTTL, UserSetStart, UserSetJob, UserDelete, UserWrite
<1> QED
  BY <1>4, <1>5, <1>6 DEF Next, Environment, Restart

LEMMA JobsMove ==
  ASSUME Next
  PROVE  \/ jobs' = jobs
         \/ \E t \in Threads : CreateJob(t) /\ jobs' = jobs \cup {NewJob(t)}
         \/ \E j \in jobs : FinishJob(j)
<1>1. ASSUME NEW t \in Threads, ReconcileStep(t)
      PROVE  jobs' = jobs \/ (CreateJob(t) /\ jobs' = jobs \cup {NewJob(t)})
  BY <1>1 DEF ReconcileStep, Filter, Get, Clean, ReadClock, PatchStart, PatchInvalid,
     PatchActive, PatchExpired, CreateJob, WaitJob, Delete
<1>2. CASE System
  BY <1>1, <1>2 DEF System, Dequeue, Deliver
<1>3. CASE World
  BY <1>3 DEF World, Tick, Miss
<1>4. CASE Users
  BY <1>4 DEF Users, UserCreate, UserSetTTL, UserSetStart, UserSetJob, UserDelete, UserWrite
<1>5. CASE Restart
  BY <1>5 DEF Restart, Crash
<1> QED
  BY <1>2, <1>3, <1>4, <1>5 DEF Next, Environment

LEMMA HarmGrows ==
  ASSUME TypeInv, Next
  PROVE  /\ faults \in Nat /\ faults' \in Nat /\ faults <= faults'
         /\ crashes \in Nat /\ crashes' \in Nat /\ crashes <= crashes'
         /\ Crash => crashes' = crashes + 1
<1>1. TypeInv'
  BY NextTyped
<1>2. faults \in Nat /\ faults' \in Nat /\ crashes \in Nat /\ crashes' \in Nat
  BY <1>1, BoundAssumption DEF TypeInv, TypeOK
<1>3. ASSUME NEW t \in Threads, ReconcileStep(t) PROVE faults' = faults \/ faults' = faults + 1
  <2>1. ASSUME NEW new, \E after \in PatchResults(t, new) : Patch(t, new, after)
        PROVE  faults' = faults \/ faults' = faults + 1
    BY <2>1 DEF Patch, Fault
  <2>2. CASE Clean(t) \/ PatchInvalid(t)
    BY <2>1, <2>2 DEF Clean, PatchInvalid
  <2>3. CASE PatchActive(t)
    BY <2>1, <2>3 DEF PatchActive
  <2>4. CASE PatchStart(t)
    BY <2>1, <2>4 DEF PatchStart
  <2>5. CASE PatchExpired(t)
    BY <2>1, <2>5 DEF PatchExpired
  <2>6. CASE Filter(t) \/ Get(t) \/ ReadClock(t) \/ CreateJob(t) \/ WaitJob(t) \/ Delete(t)
    BY <2>6 DEF Filter, Get, ReadClock, CreateJob, WaitJob, Delete, Fault
  <2> QED
    BY <1>3, <2>2, <2>3, <2>4, <2>5, <2>6 DEF ReconcileStep
<1>4. faults' = faults \/ faults' = faults + 1
  <2>1. CASE System
    BY <1>3, <2>1 DEF System, Dequeue, Deliver
  <2>2. CASE World
    BY <2>2 DEF World, Tick, FinishJob, Miss
  <2>3. CASE Users
    BY <2>3 DEF Users, UserCreate, UserSetTTL, UserSetStart, UserSetJob, UserDelete, UserWrite
  <2>4. CASE Restart
    BY <2>4 DEF Restart, Crash
  <2> QED
    BY <2>1, <2>2, <2>3, <2>4 DEF Next, Environment
<1>5. crashes' = crashes \/ crashes' = crashes + 1
  BY DEF Next, System, Environment, World, Users, Restart, outerVars, Crash
<1>6. Crash => crashes' = crashes + 1
  BY DEF Crash
<1> QED
  BY <1>2, <1>4, <1>5, <1>6

-----------------------------------------------------------------------------
(* The numbers of the Jobs.                                                 *)

LEMMA NumberedAdd ==
  ASSUME IsFiniteSet(jobs), JobsNumbered, NEW j, j.id = Cardinality(jobs) + 1,
         jobs' = jobs \cup {j}
  PROVE  JobsNumbered'
<1> DEFINE c == Cardinality(jobs)
<1>1. c \in Nat
  BY FS_CardinalityType
<1>2. \A k \in jobs : k.id \in 1 .. c
  BY DEF JobsNumbered
<1>3. j \notin jobs
  BY <1>1, <1>2
<1>4. Cardinality(jobs') = c + 1
  BY <1>3, FS_AddElement
<1>5. \A k \in jobs' : k.id \in 1 .. (c + 1)
  BY <1>1, <1>2
<1>6. ASSUME NEW k \in jobs', NEW l \in jobs', k.id = l.id PROVE k = l
  BY <1>1, <1>2, <1>6 DEF JobsNumbered
<1> QED
  BY <1>4, <1>5, <1>6 DEF JobsNumbered

LEMMA NumberedSwap ==
  ASSUME IsFiniteSet(jobs), JobsNumbered, NEW j \in jobs, NEW k, k.id = j.id,
         jobs' = (jobs \ {j}) \cup {k}
  PROVE  JobsNumbered'
<1> DEFINE c == Cardinality(jobs)
<1>1. c \in Nat /\ \A l \in jobs : l.id \in 1 .. c
  BY FS_CardinalityType DEF JobsNumbered
<1>2. k \notin jobs \ {j}
  BY DEF JobsNumbered
<1>3. IsFiniteSet(jobs \ {j}) /\ Cardinality(jobs \ {j}) = c - 1
  BY FS_RemoveElement
<1>4. Cardinality(jobs') = c
  <2> DEFINE rest == jobs \ {j}
  <2>1. IsFiniteSet(rest) /\ Cardinality(rest) = c - 1 /\ k \notin rest
    BY <1>2, <1>3
  <2> HIDE DEF rest
  <2>2. Cardinality(rest \cup {k}) = Cardinality(rest) + 1
    BY <2>1, FS_AddElement
  <2>3. Cardinality(rest \cup {k}) = c
    BY ONLY <1>1, <2>1, <2>2
  <2> QED
    BY <2>3 DEF rest
<1>5. \A l \in jobs' : l.id \in 1 .. c
  BY <1>1
<1>6. ASSUME NEW l \in jobs', NEW m \in jobs', l.id = m.id PROVE l = m
  BY <1>6 DEF JobsNumbered
<1> QED
  BY <1>4, <1>5, <1>6 DEF JobsNumbered

\* What FinishJob leaves of a Job.
LEMMA FinishedJob ==
  ASSUME TypeInv, NEW j \in jobs, FinishJob(j)
  PROVE  \E k : /\ jobs' = (jobs \ {j}) \cup {k}
                /\ k.id = j.id /\ k.name = j.name /\ k.uid = j.uid
                /\ k.deadline = j.deadline /\ k.state # "running"
<1>1. PICK s \in {"complete", "failed"} :
        jobs' = (jobs \ {j}) \cup {[j EXCEPT !.state = s]}
  BY DEF FinishJob
<1>2. j \in JobRecord
  BY DEF TypeInv, TypeOK
<1> DEFINE k == [j EXCEPT !.state = s]
<1>3. /\ k.id = j.id /\ k.name = j.name /\ k.uid = j.uid
      /\ k.deadline = j.deadline /\ k.state # "running"
  BY <1>2 DEF JobRecord
<1> QED
  BY <1>1, <1>3

LEMMA NumbersStay ==
  ASSUME TypeInv, JobsNumbered, Next PROVE JobsNumbered'
<1>1. IsFiniteSet(jobs)
  BY DEF TypeInv, TypeOK
<1>2. ASSUME jobs' = jobs PROVE JobsNumbered'
  BY <1>2 DEF JobsNumbered
<1>3. ASSUME NEW t \in Threads, jobs' = jobs \cup {NewJob(t)} PROVE JobsNumbered'
  <2>1. NewJob(t).id = Cardinality(jobs) + 1
    BY DEF NewJob
  <2> QED
    BY <1>1, <1>3, <2>1, NumberedAdd
<1>4. ASSUME NEW j \in jobs, FinishJob(j) PROVE JobsNumbered'
  BY <1>1, <1>4, FinishedJob, NumberedSwap
<1> QED
  BY <1>2, <1>3, <1>4, JobsMove

\* No Job is lost, and one that ended stays ended.
LEMMA JobsGoOn ==
  ASSUME TypeInv, Next, NEW j \in jobs
  PROVE  \E k \in jobs' : /\ k.id = j.id /\ k.name = j.name /\ k.uid = j.uid
                          /\ k.deadline = j.deadline
                          /\ j.state # "running" => k.state # "running"
<1>1. ASSUME NEW i \in jobs, FinishJob(i)
      PROVE  \E k \in jobs' : /\ k.id = j.id /\ k.name = j.name /\ k.uid = j.uid
                              /\ k.deadline = j.deadline
                              /\ j.state # "running" => k.state # "running"
  BY <1>1, FinishedJob
<1> QED
  BY <1>1, JobsMove

-----------------------------------------------------------------------------
(* The cleanup Job comes before the deletion.                               *)

\* A thread that stays where it is keeps its Job.
LEMMA JobStays ==
  ASSUME TypeInv, Next, NEW t \in Threads, JobIsThere(t), run'[t] = run[t]
  PROVE  JobIsThere(t)'
<1> SUFFICES ASSUME faults' = 0, run[t].pc \in {"waitJob", "delete"},
                    run[t].obj.job \in {"fire", "wait"}
             PROVE  \E j \in jobs' :
                      /\ j.name = run[t].name
                      /\ j.uid = run[t].obj.uid
                      /\ run[t].pc = "waitJob" => j.id = run[t].job
                      /\ run[t].pc = "delete" /\ run[t].obj.job = "wait" =>
                           j.state # "running" \/ clock' >= j.deadline
  BY DEF JobIsThere
<1>1. faults = 0
  BY HarmGrows
<1>2. PICK j \in jobs :
        /\ j.name = run[t].name
        /\ j.uid = run[t].obj.uid
        /\ run[t].pc = "waitJob" => j.id = run[t].job
        /\ run[t].pc = "delete" /\ run[t].obj.job = "wait" =>
             j.state # "running" \/ clock >= j.deadline
  BY <1>1 DEF JobIsThere
<1>3. PICK k \in jobs' : /\ k.id = j.id /\ k.name = j.name /\ k.uid = j.uid
                         /\ k.deadline = j.deadline
                         /\ j.state # "running" => k.state # "running"
  BY JobsGoOn
<1>4. clock >= j.deadline => clock' >= k.deadline
  <2>1. clock \in Int /\ clock' \in Int /\ clock <= clock'
    BY ONLY TimeGoesOn, TypeInv, Next
  <2>2. j \in JobRecord
    BY ONLY TypeInv DEF TypeInv, TypeOK
  <2>3. j.deadline \in Int
    BY ONLY <2>2 DEF JobRecord
  <2>4. clock \in Int /\ clock' \in Int /\ clock <= clock' /\ j.deadline \in Int
    BY ONLY <2>1, <2>3
  <2> DEFINE d == j.deadline
  <2>5. d \in Int /\ k.deadline = d
    BY <1>3, <2>4
  <2> HIDE DEF d
  <2>6. clock >= d => clock' >= d
    BY ONLY <2>4, <2>5
  <2> QED
    BY <2>5, <2>6 DEF d
<1> QED
  BY <1>2, <1>3, <1>4

\* Outside the phases with a Job there is nothing to show.
LEMMA JobNotNeeded ==
  ASSUME NEW t \in Threads, run'[t].pc \notin {"waitJob", "delete"} PROVE JobIsThere(t)'
  BY DEF JobIsThere

LEMMA CreateJobHasJob ==
  ASSUME TypeInv, JobsNumbered, Next, NEW t \in Threads, CreateJob(t) PROVE JobIsThere(t)'
<1> SUFFICES ASSUME faults' = 0 PROVE JobIsThere(t)'
  BY DEF JobIsThere
<1>1. ~Fault
  BY HarmGrows DEF Fault
<1>2. run[t] \in Reconcile /\ NewJob(t) \in jobs'
  BY <1>1 DEF CreateJob, TypeInv, TypeOK
<1>3. /\ run'[t].name = run[t].name /\ run'[t].obj = run[t].obj
      /\ run'[t].pc = IF run[t].obj.job = "wait" THEN "waitJob" ELSE "delete"
      /\ run[t].obj.job = "wait" => run'[t].job = NewJob(t).id
  BY <1>1 DEF CreateJob, TypeInv, TypeOK, Reconcile
<1>4. NewJob(t).name = run[t].name /\ NewJob(t).uid = run[t].obj.uid
  BY DEF NewJob
<1> QED
  BY <1>2, <1>3, <1>4 DEF JobIsThere

LEMMA WaitJobHasJob ==
  ASSUME TypeInv, JobsNumbered, Next, NEW t \in Threads, JobIsThere(t), WaitJob(t),
         clock' = clock
  PROVE  JobIsThere(t)'
<1> SUFFICES ASSUME faults' = 0, run'[t].obj.job \in {"fire", "wait"} PROVE JobIsThere(t)'
  BY DEF JobIsThere
<1>1. ~Fault /\ faults = 0
  BY HarmGrows DEF Fault
<1>2. /\ run[t].pc = "waitJob" /\ run'[t].pc = "delete"
      /\ run'[t].name = run[t].name /\ run'[t].obj = run[t].obj
      /\ jobs' = jobs
  <2>1. run[t] \in Reconcile /\ run'[t] = [run[t] EXCEPT !.pc = "delete", !.job = 0]
    BY DEF WaitJob, TypeInv, TypeOK
  <2>2. run[t].pc = "waitJob" /\ jobs' = jobs
    BY DEF WaitJob
  <2> QED
    BY <2>1, <2>2 DEF Reconcile
<1>3. PICK j \in jobs : j.id = run[t].job /\ (j.state # "running" \/ clock >= j.deadline)
  BY <1>1 DEF WaitJob
<1>4. PICK k \in jobs : k.name = run[t].name /\ k.uid = run[t].obj.uid /\ k.id = run[t].job
  BY <1>1, <1>2 DEF JobIsThere
<1>5. j = k
  BY <1>3, <1>4 DEF JobsNumbered
<1> QED
  BY <1>2, <1>3, <1>4, <1>5 DEF JobIsThere

\* A return ends the reconcile; every other step but these two and PatchExpired
\* leads to a phase before the Job.
LEMMA StepHasJob ==
  ASSUME TypeInv, JobsNumbered, Next, NEW t \in Threads, JobIsThere(t), ReconcileStep(t)
  PROVE  JobIsThere(t)'
<1>1. run[t] \in Reconcile /\ run \in [Threads -> Reconcile] /\ clock' = clock
  BY DEF TypeInv, TypeOK, ReconcileStep
<1>2. ASSUME NEW when, Return(t, when) PROVE JobIsThere(t)'
  BY <1>1, <1>2, JobNotNeeded DEF Return, Idle
<1>3. CASE Filter(t)
  <2>1. ASSUME run' = [run EXCEPT ![t].pc = "get"] PROVE JobIsThere(t)'
    BY <1>1, <2>1, JobNotNeeded DEF Reconcile
  <2> QED
    BY <1>2, <1>3, <2>1 DEF Filter
<1>4. CASE Get(t)
  <2>1. ASSUME NEW pc \in {"time", "clean"}, NEW o, run' = [run EXCEPT ![t].pc = pc, ![t].obj = o]
        PROVE  JobIsThere(t)'
    BY <1>1, <2>1, JobNotNeeded DEF Reconcile
  <2> QED
    BY <1>2, <1>4, <2>1 DEF Get
<1>5. ASSUME NEW o, NEW s, NEW reading, run' = [run EXCEPT ![t] = Decided(t, o, s, reading)]
      PROVE  JobIsThere(t)'
  <2>1. Verdict(o.ttl, s, reading) \in {"markInvalid", "expire", "activate"}
    BY DEF Verdict
  <2>2. run'[t].pc \in {"patchInvalid", "patchExpired", "patchActive"}
    BY <1>1, <1>5, <2>1 DEF Decided, Reconcile
  <2> QED
    BY <2>2, JobNotNeeded
<1>6. CASE ReadClock(t)
  <2>1. ASSUME run' = [run EXCEPT ![t] = [@ EXCEPT !.pc = "patchStart", !.now = clock]]
        PROVE  JobIsThere(t)'
    BY <1>1, <2>1, JobNotNeeded DEF Reconcile
  <2> QED
    BY <1>5, <1>6, <2>1 DEF ReadClock
<1>7. CASE PatchStart(t)
  BY <1>5, <1>7 DEF PatchStart
<1>8. CASE PatchExpired(t)
  <2>1. PICK after :
          run' = [run EXCEPT ![t].obj = after,
                             ![t].pc  = IF after.job \in {"fire", "wait"} THEN "createJob" ELSE "delete"]
    BY <1>8 DEF PatchExpired
  <2>2. /\ run'[t].obj = after
        /\ run'[t].pc = IF after.job \in {"fire", "wait"} THEN "createJob" ELSE "delete"
    BY <1>1, <2>1 DEF Reconcile
  <2> QED
    BY <2>2 DEF JobIsThere
<1>9. CASE Clean(t) \/ PatchInvalid(t) \/ PatchActive(t) \/ Delete(t)
  BY <1>2, <1>9 DEF Clean, PatchInvalid, PatchActive, Delete
<1> QED
  BY <1>1, <1>3, <1>4, <1>6, <1>7, <1>8, <1>9, CreateJobHasJob, WaitJobHasJob DEF ReconcileStep

LEMMA NextHasJobs == ASSUME CleanupInv, Next PROVE CleanupInv'
<1>1. TypeInv' /\ JobsNumbered'
  BY NextTyped, NumbersStay DEF CleanupInv
<1>2. ASSUME NEW t \in Threads PROVE JobIsThere(t)'
  <2>1. TypeInv /\ JobsNumbered /\ JobIsThere(t) /\ run \in [Threads -> Reconcile]
    BY DEF CleanupInv, TypeInv, TypeOK
  <2>2. CASE run'[t] = run[t]
    BY <2>1, <2>2, JobStays
  <2>3. CASE ReconcileStep(t)
    BY <2>1, <2>3, StepHasJob
  <2>4. ASSUME t = Worker, NEW n \in Names, Dequeue(n) PROVE JobIsThere(t)'
    BY <2>1, <2>4, JobNotNeeded DEF Dequeue, Started, Idle
  <2>5. CASE Crash
    BY <2>5, JobNotNeeded DEF Crash, Idle
  <2> QED
    BY <2>1, <2>2, <2>3, <2>4, <2>5, ThreadMoves
<1> QED
  BY <1>1, <1>2 DEF CleanupInv, Threads

\* The step that deletes is the deletion, and the uid precondition held.
LEMMA DeletionIsDelete ==
  ASSUME TypeInv, Next, NEW t \in Threads, NEW n \in Names, DeletedBy(t, n)
  PROVE  Delete(t) /\ UIDPrecondition(api[n], run[t].obj)
<1>1. run[t].pc = "delete" /\ run[t].name = n /\ run'[t].pc = "idle" /\ api[n] # Gone /\ api'[n] = Gone
  BY DEF DeletedBy
<1>2. ~Crash
  BY HarmGrows DEF DeletedBy
<1>3. ~(t = Worker /\ \E m \in Names : Dequeue(m))
  BY <1>1 DEF Dequeue
<1>4. ReconcileStep(t)
  BY <1>1, <1>2, <1>3, ThreadMoves
<1>5. Delete(t)
  BY <1>1, <1>4 DEF ReconcileStep, Filter, Get, Clean, ReadClock, PatchStart, PatchInvalid,
     PatchActive, PatchExpired, CreateJob, WaitJob
<1> QED
  BY <1>1, <1>5 DEF Delete

\* The cleanup comes first: whatever threads reconcile the object and whatever
\* users do to it or to its job configuration, an object that had a cleanup job
\* when it was marked is deleted only after a Job was created for this very
\* incarnation and, if it asked to wait, after that Job ended or had its time;
\* as long as no call fails.
THEOREM CleanupComesFirst == Spec => CleanupBeforeDelete
<1> DEFINE Cleaned == \A n \in Names, t \in Threads :
              DeletedBy(t, n) /\ faults' = 0 /\ run[t].obj.job \in {"fire", "wait"} =>
                \E j \in jobs : /\ j.name = n
                                /\ j.uid = api[n].uid
                                /\ run[t].obj.job = "wait" =>
                                     j.state # "running" \/ clock >= j.deadline
<1>1. Init => CleanupInv
  BY InitTyped DEF Init, LeaseInit, Idle, CleanupInv, JobsNumbered, JobIsThere
<1>2. CleanupInv /\ [Next]_vars => CleanupInv'
  <2>1. ASSUME CleanupInv, UNCHANGED vars PROVE CleanupInv'
    BY <2>1 DEF vars, CleanupInv, TypeInv, TypeOK, InFlight, JobsNumbered, JobIsThere
  <2> QED
    BY <2>1, NextHasJobs
<1>3. CleanupInv /\ [Next]_vars => [Cleaned]_vars
  <2> SUFFICES ASSUME CleanupInv, Next, NEW n \in Names, NEW t \in Threads,
                      DeletedBy(t, n), faults' = 0, run[t].obj.job \in {"fire", "wait"}
               PROVE  \E j \in jobs : /\ j.name = n
                                      /\ j.uid = api[n].uid
                                      /\ run[t].obj.job = "wait" =>
                                           j.state # "running" \/ clock >= j.deadline
    OBVIOUS
  <2>1. TypeInv /\ JobIsThere(t)
    BY DEF CleanupInv
  <2>2. UIDPrecondition(api[n], run[t].obj) /\ faults = 0
    BY <2>1, DeletionIsDelete, HarmGrows
  <2>3. run[t].pc = "delete" /\ run[t].name = n
    BY DEF DeletedBy
  <2> QED
    BY <2>1, <2>2, <2>3 DEF JobIsThere, UIDPrecondition
<1> QED
  BY <1>1, <1>2, <1>3, PTL DEF Spec, CleanupBeforeDelete

-----------------------------------------------------------------------------
(* No deletion under a name without an overdue object. Any number of threads  *)
(* reconcile the object and users delete it and create it again meanwhile, so *)
(* a thread may judge by one incarnation and delete the next; what stays true *)
(* is that some version under the name condemned it.                          *)

\* Some incarnation of n held a ttl and lease-start by which it is overdue.
NameIsDoomed(n) == \E v \in held : v.name = n /\ Overdue(v, clock)

NameIsDoomedNext(n) == \E v \in held' : v.name = n /\ Overdue(v, clock')

\* What a thread has judged so far: its reading of the clock is past, its copy is
\* of a version the name held, and if it is to delete, the name is doomed.
JudgesName(t) ==
  /\ run[t].now <= clock
  /\ run[t].pc \in {"time", "patchStart"} => Version(run[t].name, run[t].obj) \in held
  /\ run[t].pc = "patchStart" => ~HasLeaseStart(run[t].obj)
  /\ run[t].pc \in Doomed => NameIsDoomed(run[t].name)

NamesJudged == HeldNow \subseteq held /\ \A t \in Threads : JudgesName(t)

LEMMA DoomedThen == ASSUME NEW t PROVE NameIsDoomed(run[t].name)' <=> NameIsDoomedNext(run'[t].name)
  BY DEF NameIsDoomed, NameIsDoomedNext

LEMMA NameStaysDoomed ==
  ASSUME TypeInv, Next, NEW n, NameIsDoomed(n) PROVE NameIsDoomedNext(n)
<1>1. PICK v \in held : v.name = n /\ Overdue(v, clock)
  BY DEF NameIsDoomed
<1>2. v \in held' /\ Overdue(v, clock')
  BY <1>1, TimeGoesOn, OverdueGrows
<1> QED
  BY <1>1, <1>2 DEF NameIsDoomedNext

\* A thread that stays at its place, or moves on to delete, goes by what it judged.
LEMMA JudgedNameStays ==
  ASSUME TypeInv, Next, NEW t \in Threads, JudgesName(t),
         run'[t].now = run[t].now, run'[t].name = run[t].name,
         run'[t] = run[t] \/ (run[t].pc \in Doomed /\ run'[t].pc \in Doomed)
  PROVE  JudgesName(t)'
<1>1. run'[t].now <= clock'
  <2>1. run[t].now \in Int /\ run[t].now <= clock
    BY DEF JudgesName, TypeInv, TypeOK, Reconcile
  <2> QED
    BY <2>1, TimeGoesOn
<1>2. run'[t].pc \in Doomed => NameIsDoomedNext(run'[t].name)
  BY NameStaysDoomed DEF JudgesName
<1>3. run'[t].pc \in {"time", "patchStart"} => Version(run'[t].name, run'[t].obj) \in held'
  BY TimeGoesOn DEF JudgesName, Doomed
<1>4. run'[t].pc = "patchStart" => ~HasLeaseStart(run'[t].obj)
  BY DEF JudgesName, Doomed
<1> QED
  BY <1>1, <1>2, <1>3, <1>4, DoomedThen DEF JudgesName

\* A thread that has read nothing has judged nothing.
LEMMA NothingJudged ==
  ASSUME TypeInv, Next, NEW t \in Threads, run'[t].now <= clock',
         run'[t].pc \notin {"time", "patchStart"} \cup Doomed
  PROVE  JudgesName(t)'
  BY DEF JudgesName

\* A thread that is idle or has just started has read no clock.
LEMMA FreshReading ==
  ASSUME NEW r, r = Idle \/ \E n \in Names : r = Started(n)
  PROVE  r.now = 0 /\ r.pc \in {"idle", "filter"}
<1>1. ASSUME NEW n PROVE Started(n).now = 0 /\ Started(n).pc = "filter"
  BY DEF Started, Idle
<1>2. Idle.now = 0 /\ Idle.pc = "idle"
  BY DEF Idle
<1> QED
  BY <1>1, <1>2

LEMMA IdleJudgesNothing ==
  ASSUME TypeInv, Next, NEW t \in Threads,
         run'[t] = Idle \/ \E n \in Names : run'[t] = Started(n)
  PROVE  JudgesName(t)'
<1>1. clock' \in Nat
  BY NextTyped, ClockAssumption DEF TypeInv, TypeOK
<1>2. run'[t].now = 0 /\ run'[t].pc \in {"idle", "filter"}
  BY FreshReading
<1> QED
  BY <1>1, <1>2, NothingJudged DEF Doomed

LEMMA GetJudgesName ==
  ASSUME TypeInv, NamesJudged, Next, NEW t \in Threads, Get(t) PROVE JudgesName(t)'
<1> DEFINE o == api[run[t].name]
<1>1. run \in [Threads -> Reconcile] /\ run[t].name \in Names /\ JudgesName(t)
  BY DEF Get, TypeInv, TypeOK, InFlight, NamesJudged
<1>2. ASSUME NEW when, Return(t, when) PROVE JudgesName(t)'
  BY <1>1, <1>2, IdleJudgesNothing DEF Return
<1>3. ASSUME NEW p \in {"time", "clean"}, o # Gone,
             run' = [run EXCEPT ![t].pc = p, ![t].obj = o]
      PROVE  JudgesName(t)'
  <2>1. run'[t].pc = p /\ run'[t].obj = o /\ run'[t].name = run[t].name /\ run'[t].now = run[t].now
    BY <1>1, <1>3 DEF Reconcile
  <2>2. Version(run[t].name, o) \in held'
    <3>1. Version(run[t].name, o) \in HeldNow
      BY <1>1, <1>3 DEF Version, HeldNow
    <3> QED
      BY <3>1, TimeGoesOn DEF NamesJudged
  <2>3. run[t].now <= clock'
    <3>1. run[t].now \in Int /\ run[t].now <= clock
      BY <1>1 DEF JudgesName, Reconcile
    <3> QED
      BY <3>1, TimeGoesOn
  <2> QED
    BY <2>1, <2>2, <2>3 DEF JudgesName, Doomed
<1> QED
  BY <1>2, <1>3 DEF Get

\* A verdict dooms the name only with a version to point to.
LEMMA VerdictOnName ==
  ASSUME TypeInv, Next, NEW t \in Threads, NEW o, NEW s, NEW reading \in Int, reading <= clock',
         run' = [run EXCEPT ![t] = Decided(t, o, s, reading)],
         Verdict(o.ttl, s, reading) = "expire" => NameIsDoomedNext(run[t].name)
  PROVE  JudgesName(t)'
<1>1. run \in [Threads -> Reconcile]
  BY DEF TypeInv, TypeOK
<1> DEFINE d == Decided(t, o, s, reading)
<1>2. run'[t] = d /\ d.name = run[t].name /\ d.now = reading
  BY <1>1 DEF Decided, Reconcile
<1>3. /\ d.pc \in {"patchInvalid", "patchExpired", "patchActive"}
      /\ d.pc = "patchExpired" => Verdict(o.ttl, s, reading) = "expire"
  <2>1. Verdict(o.ttl, s, reading) \in {"markInvalid", "expire", "activate"}
    BY DEF Verdict
  <2> QED
    BY <1>1, <2>1 DEF Decided, Reconcile
<1> HIDE DEF d
<1>4. run'[t].pc \in Doomed => NameIsDoomedNext(run'[t].name)
  BY <1>2, <1>3 DEF Doomed
<1> QED
  BY <1>2, <1>3, <1>4, DoomedThen DEF JudgesName, Doomed

LEMMA ReadClockJudgesName ==
  ASSUME TypeInv, NamesJudged, Next, NEW t \in Threads, ReadClock(t), clock' = clock
  PROVE  JudgesName(t)'
<1> DEFINE o == run[t].obj
           v == Version(run[t].name, o)
<1>1. /\ run \in [Threads -> Reconcile] /\ run[t].pc = "time" /\ JudgesName(t)
      /\ clock \in Int
  BY TimeTypes DEF ReadClock, TypeInv, TypeOK, NamesJudged
<1>2. v \in held
  BY <1>1 DEF JudgesName
<1>3. CASE HasLeaseStart(o)
  <2>1. run' = [run EXCEPT ![t] = Decided(t, o, o.start, clock)]
    BY <1>3 DEF ReadClock
  <2>2. Verdict(o.ttl, o.start, clock) = "expire" => NameIsDoomed(run[t].name)
    <3> SUFFICES ASSUME Verdict(o.ttl, o.start, clock) = "expire" PROVE NameIsDoomed(run[t].name)
      OBVIOUS
    <3>1. Overdue(v, clock)
      BY <1>3 DEF Verdict, Overdue, HasLeaseStart, Version
    <3> QED
      BY <1>2, <3>1 DEF NameIsDoomed, Version
  <2>3. Verdict(o.ttl, o.start, clock) = "expire" => NameIsDoomedNext(run[t].name)
    BY <2>2, NameStaysDoomed
  <2>4. clock <= clock'
    BY <1>1
  <2> HIDE DEF o
  <2> QED
    BY <1>1, <2>1, <2>3, <2>4, VerdictOnName
<1>4. CASE ~HasLeaseStart(o)
  <2>1. run'[t] = [run[t] EXCEPT !.pc = "patchStart", !.now = clock]
    BY <1>1, <1>4 DEF ReadClock
  <2>2. /\ run'[t].pc = "patchStart" /\ run'[t].now = clock
        /\ run'[t].name = run[t].name /\ run'[t].obj = o
    BY <1>1, <2>1 DEF Reconcile
  <2>3. v \in held' /\ clock <= clock'
    BY <1>1, <1>2, TimeGoesOn
  <2> QED
    BY <1>4, <2>2, <2>3 DEF JudgesName, Doomed
<1> QED
  BY <1>3, <1>4

\* What a call leaves in the caller's hands: what it asked for, or what the server
\* then holds under the name.
LEMMA PatchBrings ==
  ASSUME TypeInv, NEW t \in Threads, run[t].name \in Names, run[t].obj \in Object,
         NEW new \in Object, NEW after, Patch(t, new, after)
  PROVE  \/ after = new
         \/ /\ api[run[t].name] \in Object
            /\ after = MergePatch(api[run[t].name], run[t].obj, new)
            /\ after \in Object /\ api'[run[t].name] = after
<1> DEFINE n == run[t].name
           merged == MergePatch(api[n], run[t].obj, new)
<1>1. api[n] # Gone => api[n] \in Object /\ merged \in Object
  BY MergeType DEF TypeInv, TypeOK
<1>2. Write(n, merged) => api'[n] = merged
  BY DEF Write, TypeInv, TypeOK
<1> QED
  BY <1>1, <1>2 DEF Patch

LEMMA PatchStartJudgesName ==
  ASSUME TypeInv, NamesJudged, Next, NEW t \in Threads, PatchStart(t), clock' = clock
  PROVE  JudgesName(t)'
<1> DEFINE start == Format(run[t].now)
           new   == [run[t].obj EXCEPT !.start = start]
           v     == Version(run[t].name, run[t].obj)
<1>1. /\ run \in [Threads -> Reconcile] /\ run[t].pc = "patchStart" /\ JudgesName(t)
      /\ run[t].name \in Names /\ run[t].obj \in Object
      /\ clock \in Int
  BY TimeTypes DEF PatchStart, TypeInv, TypeOK, InFlight, NamesJudged
<1>2. /\ run[t].now \in Int /\ run[t].now <= clock
      /\ start \in Int /\ start <= run[t].now
  BY <1>1, FormatBelow DEF Reconcile, JudgesName
<1>3. new \in Object /\ new.ttl = run[t].obj.ttl /\ new.start = start
  BY <1>1, <1>2, StampedTypes DEF Object
<1>4. PICK after \in PatchResults(t, new) :
        /\ Patch(t, new, after)
        /\ run' = [run EXCEPT ![t] = Decided(t, after, run[t].now, run[t].now)]
  BY DEF PatchStart
<1>5. \/ after = new
      \/ /\ api[run[t].name] \in Object
         /\ after = MergePatch(api[run[t].name], run[t].obj, new)
         /\ after \in Object /\ api'[run[t].name] = after
  <2> HIDE DEF new
  <2> QED
    BY <1>1, <1>3, <1>4, PatchBrings
<1>6. v \in held /\ ~HasLeaseStart(run[t].obj)
  BY <1>1 DEF JudgesName
<1>7. Verdict(after.ttl, run[t].now, run[t].now) = "expire" => NameIsDoomedNext(run[t].name)
  <2> SUFFICES ASSUME Verdict(after.ttl, run[t].now, run[t].now) = "expire"
               PROVE  NameIsDoomedNext(run[t].name)
    OBVIOUS
  <2>1. after.ttl \in Int /\ after.ttl < 0
    BY <1>2 DEF Verdict, Durations
  <2>2. CASE after = new
    <3>1. Overdue(v, clock)
      BY <1>3, <1>6, <2>1, <2>2 DEF Overdue, HasLeaseStart, Durations, Version
    <3>2. NameIsDoomed(run[t].name)
      BY <1>6, <3>1 DEF NameIsDoomed, Version
    <3> QED
      BY <3>2, NameStaysDoomed
  <2>3. ASSUME api[run[t].name] \in Object,
               after = MergePatch(api[run[t].name], run[t].obj, new),
               after \in Object, api'[run[t].name] = after
        PROVE  NameIsDoomedNext(run[t].name)
    <3> DEFINE u == Version(run[t].name, after)
    <3>1. u \in held'
      <4>1. u \in HeldNow'
        BY <1>1, <2>3, InputAssumption DEF Version, HeldNow
      <4> QED
        BY <4>1, TimeGoesOn
    <3>2. after.start = start
      <4>1. run[t].obj.start # start
        BY <1>2, <1>6 DEF HasLeaseStart
      <4>2. after.start = PatchValue(run[t].obj.start, new.start, api[run[t].name].start)
        BY <2>3 DEF MergePatch, Object
      <4> QED
        BY <1>3, <4>1, <4>2 DEF PatchValue
    <3>3. clock' > start + after.ttl
      BY <1>1, <1>2, <2>1
    <3>4. Overdue(u, clock')
      BY <1>2, <2>1, <3>2, <3>3 DEF Overdue, HasLeaseStart, Durations, Version
    <3> QED
      BY <3>1, <3>4 DEF NameIsDoomedNext, Version
  <2> QED
    BY <1>5, <2>2, <2>3
<1>8. run[t].now <= clock'
  BY <1>2
<1> QED
  BY <1>2, <1>4, <1>7, <1>8, VerdictOnName

LEMMA StepJudgesName ==
  ASSUME TypeInv, NamesJudged, Next, NEW t \in Threads, ReconcileStep(t) PROVE JudgesName(t)'
<1>1. run \in [Threads -> Reconcile] /\ JudgesName(t) /\ clock' = clock
  BY DEF TypeInv, TypeOK, NamesJudged, ReconcileStep
<1>2. ASSUME NEW when, Return(t, when) PROVE JudgesName(t)'
  BY <1>1, <1>2, IdleJudgesNothing DEF Return
<1>3. CASE Filter(t)
  <2>1. ASSUME run' = [run EXCEPT ![t].pc = "get"] PROVE JudgesName(t)'
    <3>1. run'[t].pc = "get" /\ run'[t].now = run[t].now
      BY <1>1, <2>1 DEF Reconcile
    <3> QED
      BY <1>1, <3>1, NothingJudged DEF JudgesName, Doomed
  <2> QED
    BY <1>2, <1>3, <2>1 DEF Filter
<1>4. CASE PatchExpired(t)
  <2>1. PICK after :
          run' = [run EXCEPT ![t].obj = after,
                             ![t].pc  = IF after.job \in {"fire", "wait"} THEN "createJob" ELSE "delete"]
    BY <1>4 DEF PatchExpired
  <2>2. /\ run'[t].now = run[t].now /\ run'[t].name = run[t].name
        /\ run'[t].pc \in {"createJob", "delete"}
    BY <1>1, <2>1 DEF Reconcile
  <2>3. run[t].pc = "patchExpired"
    BY <1>4 DEF PatchExpired
  <2> QED
    BY <1>1, <2>2, <2>3, JudgedNameStays DEF Doomed
<1>5. CASE CreateJob(t) \/ WaitJob(t)
  <2>1. /\ run'[t].now = run[t].now /\ run'[t].name = run[t].name
        /\ run'[t].pc \in {"waitJob", "delete"}
    BY <1>1, <1>5 DEF CreateJob, WaitJob, Reconcile
  <2>2. run[t].pc \in {"createJob", "waitJob"}
    BY <1>5 DEF CreateJob, WaitJob
  <2> QED
    BY <1>1, <2>1, <2>2, JudgedNameStays DEF Doomed
<1>6. CASE Clean(t) \/ PatchInvalid(t) \/ PatchActive(t) \/ Delete(t)
  BY <1>2, <1>6 DEF Clean, PatchInvalid, PatchActive, Delete
<1> QED
  BY <1>1, <1>3, <1>4, <1>5, <1>6, GetJudgesName, ReadClockJudgesName, PatchStartJudgesName
  DEF ReconcileStep

LEMMA NextJudgesNames ==
  ASSUME TypeInv, NamesJudged, Next PROVE NamesJudged'
<1>1. ASSUME NEW t \in Threads PROVE JudgesName(t)'
  <2>1. JudgesName(t)
    BY DEF NamesJudged
  <2>2. CASE run'[t] = run[t]
    BY <2>1, <2>2, JudgedNameStays
  <2>3. CASE ReconcileStep(t)
    BY <2>3, StepJudgesName
  <2>4. ASSUME t = Worker, NEW n \in Names, Dequeue(n) PROVE JudgesName(t)'
    BY <2>4, IdleJudgesNothing DEF Dequeue, TypeInv, TypeOK
  <2>5. CASE Crash
    BY <2>5, IdleJudgesNothing DEF Crash
  <2> QED
    BY <2>2, <2>3, <2>4, <2>5, ThreadMoves
<1> QED
  BY <1>1, TimeGoesOn DEF NamesJudged, Threads

LEMMA InitJudgesNames == ASSUME LeaseInit PROVE NamesJudged
<1>1. clock \in Nat
  BY ClockAssumption DEF LeaseInit
<1> QED
  BY <1>1 DEF LeaseInit, NamesJudged, JudgesName, Idle, Doomed

\* Whatever is doomed when it is deleted was doomed under its name.
LEMMA DoomedWhenDeleted ==
  ASSUME NamesJudged, NEW n \in Names, ControllerDeletes(n)
  PROVE  \E v \in held : v.name = n /\ Overdue(v, clock)
  BY DEF NamesJudged, JudgesName, NameIsDoomed, ControllerDeletes, DeletedBy, Doomed

\* For any names, threads, users who delete, failed calls and crashes: if the
\* controller deletes an object, the lease of some object of that name is over by a
\* ttl and lease-start that object held.
THEOREM NoNameWithoutOverdue == Spec => OnlyOverdueNamesDeleted
<1> DEFINE Inv == TypeInv /\ NamesJudged
           Due == \A n \in Names :
                    ControllerDeletes(n) => \E v \in held : v.name = n /\ Overdue(v, clock)
<1>1. Init => Inv
  BY InitTyped, InitJudgesNames DEF Init
<1>2. Inv /\ [Next]_vars => Inv'
  <2>1. ASSUME Inv, UNCHANGED vars PROVE Inv'
    BY <2>1 DEF vars, TypeInv, TypeOK, InFlight, NamesJudged, JudgesName, NameIsDoomed, HeldNow
  <2> QED
    BY <2>1, NextTyped, NextJudgesNames
<1>3. Inv => [Due]_vars
  BY DoomedWhenDeleted
<1> QED
  BY <1>1, <1>2, <1>3, PTL DEF Spec, OnlyOverdueNamesDeleted

-----------------------------------------------------------------------------
\* What the number of Jobs of one incarnation depends on: whether the object is
\* there, and how far the worker is with it.
JobsOf(n, u)      == { k \in jobs : k.name = n /\ k.uid = u }
JobCount(n, u)    == Cardinality(JobsOf(n, u))
Alive(n, u)       == api[n] # Gone /\ api[n].uid = u
BeforeJob(n, u)   == W.pc \in Busy \ {"waitJob", "delete"} /\ W.name = n /\ W.obj.uid = u
AfterJob(n, u)    == W.pc \in {"waitJob", "delete"} /\ W.name = n /\ W.obj.uid = u

\* The phases of a reconcile that is going to delete.
Deleting == {"createJob", "waitJob", "delete"}

JobsBounded(n, u) ==
  /\ JobCount(n, u) <= 1 + faults + crashes
  /\ (Alive(n, u) \/ BeforeJob(n, u)) /\ ~AfterJob(n, u) => JobCount(n, u) <= faults + crashes

JobsCounted == \A n \in Names, u \in Nat : JobsBounded(n, u)

UidsHandedOut ==
  /\ \A n \in Names : api[n] # Gone => api[n].uid < nextUid
  /\ \A t \in Threads : run[t].pc \in Busy => run[t].obj.uid < nextUid
  /\ \A j \in jobs : j.uid < nextUid

CountInv == TypeInv /\ UidsHandedOut /\ JobsCounted

\* Where a thread is after a step of its own, if it is still dealing with an
\* object, and which incarnation its copy is of then.
LEMMA ThreadGoesOn ==
  ASSUME TypeInv, NEW t \in Threads, ReconcileStep(t), run'[t].pc \in Busy
  PROVE  /\ run[t].name \in Names /\ run'[t].name = run[t].name /\ run'[t].obj \in Object
         /\ \/ /\ run[t].pc = "get" /\ run'[t].pc \notin Deleting
               /\ api[run[t].name] # Gone /\ run'[t].obj = api[run[t].name]
            \/ /\ run[t].pc \in Busy \ Deleting /\ run'[t].pc # "waitJob"
               /\ \/ run'[t].obj.uid = run[t].obj.uid
                  \/ api[run[t].name] # Gone /\ run'[t].obj.uid = api[run[t].name].uid
            \/ /\ CreateJob(t)
               /\ run'[t].pc \in {"waitJob", "delete"} /\ run'[t].obj = run[t].obj
            \/ /\ WaitJob(t)
               /\ run'[t].pc = "delete" /\ run'[t].obj = run[t].obj
<1> DEFINE n == run[t].name
<1>1. /\ run[t] \in Reconcile /\ run \in [Threads -> Reconcile]
      /\ api \in [Names -> Object \cup {Gone}]
  BY DEF TypeInv, TypeOK
<1>2. run[t].pc \in Busy => n \in Names /\ run[t].obj \in Object
  BY <1>1 DEF TypeInv, InFlight, Busy
<1>3. ASSUME NEW when, Return(t, when) PROVE FALSE
  BY <1>1, <1>3 DEF Return, Idle, Busy
<1>4. ASSUME run[t].pc \in Busy, NEW new \in Object, new.uid = run[t].obj.uid, NEW after \in PatchResults(t, new)
      PROVE  /\ after \in Object
             /\ after.uid = run[t].obj.uid \/ (api[n] # Gone /\ after.uid = api[n].uid)
  <2>1. CASE after = new
    BY <1>4, <2>1
  <2>2. CASE api[n] # Gone /\ after = MergePatch(api[n], run[t].obj, new)
    <3>1. api[n] \in Object /\ run[t].obj \in Object
      BY <1>1, <1>2, <1>4, <2>2
    <3>2. after \in Object
      BY <1>4, <2>2, <3>1, MergeType
    <3>3. after.uid = api[n].uid
      BY <2>2, <3>1 DEF MergePatch, Object
    <3> QED
      BY <2>2, <3>2, <3>3
  <2> QED
    BY <1>4, <2>1, <2>2 DEF PatchResults
<1>5. ASSUME NEW o \in Object, NEW s, NEW reading, run'[t]= Decided(t, o, s, reading)
      PROVE  run'[t].name = n /\ run'[t].obj = o /\ run'[t].pc \in {"patchInvalid", "patchExpired", "patchActive"}
  <2>1. Verdict(o.ttl, s, reading) \in {"markInvalid", "expire", "activate"}
    BY DEF Verdict
  <2> QED
    BY <1>1, <1>5, <2>1 DEF Decided, Reconcile
<1>6. ~Filter(t)
  <2>1. ~(run' = [run EXCEPT ![t].pc = "get"])
    BY <1>1 DEF Reconcile, Busy
  <2> QED
    BY <1>3, <2>1 DEF Filter
<1>7. ~(Clean(t) \/ PatchInvalid(t) \/ PatchActive(t) \/ Delete(t))
  BY <1>3 DEF Clean, PatchInvalid, PatchActive, Delete
<1>8. ASSUME Get(t)
      PROVE  /\ n \in Names /\ run'[t].name = n /\ run'[t].obj \in Object
             /\ run[t].pc = "get" /\ run'[t].pc \notin Deleting /\ api[n] # Gone /\ run'[t].obj = api[n]
  <2>1. run[t].pc = "get" /\ api[n] # Gone /\ \E pc \in {"time", "clean"} : run'[t] = [run[t] EXCEPT !.pc = pc, !.obj = api[n]]
    BY <1>1, <1>3, <1>8 DEF Get
  <2>2. n \in Names
    BY <1>1, <2>1 DEF TypeInv, InFlight
  <2> QED
    BY <1>1, <2>1, <2>2 DEF Reconcile, Deleting
<1>9. ASSUME ReadClock(t)
      PROVE  run[t].pc = "time" /\ run'[t].name = n /\ run'[t].obj = run[t].obj /\ run'[t].pc # "waitJob"
  <2>1. run[t].pc = "time" /\ run[t].obj \in Object
    BY <1>2, <1>9 DEF ReadClock, Busy, Phases
  <2>2. CASE HasLeaseStart(run[t].obj)
    <3>1. run'[t] = Decided(t, run[t].obj, run[t].obj.start, clock)
      BY <1>1, <1>9, <2>2 DEF ReadClock
    <3> QED
      BY <1>5, <2>1, <3>1
  <2>3. CASE ~HasLeaseStart(run[t].obj)
    <3>1. run'[t] = [run[t] EXCEPT !.pc = "patchStart", !.now = clock]
      BY <1>1, <1>9, <2>3 DEF ReadClock
    <3> QED
      BY <1>1, <2>1, <3>1 DEF Reconcile
  <2> QED
    BY <2>2, <2>3
<1>10. ASSUME PatchStart(t)
       PROVE  /\ run[t].pc = "patchStart" /\ run'[t].name = n /\ run'[t].obj \in Object /\ run'[t].pc # "waitJob"
              /\ run'[t].obj.uid = run[t].obj.uid \/ (api[n] # Gone /\ run'[t].obj.uid = api[n].uid)
  <2> DEFINE new == [run[t].obj EXCEPT !.start = Format(run[t].now)]
  <2>1. run[t].pc = "patchStart" /\ run[t].pc \in Busy
    BY <1>10 DEF PatchStart, Busy, Phases
  <2>2. PICK after \in PatchResults(t, new) : run'[t] = Decided(t, after, run[t].now, run[t].now)
    BY <1>1, <1>10 DEF PatchStart
  <2>3. run[t].now \in Int
    BY <1>1 DEF Reconcile
  <2>4. new \in Object /\ new.uid = run[t].obj.uid
    BY <1>2, <2>1, <2>3, StampedTypes DEF Object
  <2>5. /\ after \in Object
        /\ after.uid = run[t].obj.uid \/ (api[n] # Gone /\ after.uid = api[n].uid)
    BY <1>4, <2>1, <2>2, <2>4
  <2>6. run'[t].name = n /\ run'[t].obj = after /\ run'[t].pc \in {"patchInvalid", "patchExpired", "patchActive"}
    BY <1>5, <2>2, <2>5
  <2> QED
    BY <2>1, <2>5, <2>6
<1>11. ASSUME PatchExpired(t)
       PROVE  /\ run[t].pc = "patchExpired" /\ run'[t].name = n /\ run'[t].obj \in Object /\ run'[t].pc # "waitJob"
              /\ run'[t].obj.uid = run[t].obj.uid \/ (api[n] # Gone /\ run'[t].obj.uid = api[n].uid)
  <2> DEFINE new == [run[t].obj EXCEPT !.expireAt = Format(run[t].expireAt), !.status = ExpiredStatus]
  <2>1. run[t].pc = "patchExpired" /\ run[t].pc \in Busy
    BY <1>11 DEF PatchExpired, Busy, Phases
  <2>2. PICK after \in PatchResults(t, new) :
          run'[t] = [run[t] EXCEPT !.obj = after,
                         !.pc  = IF after.job \in {"fire", "wait"} THEN "createJob" ELSE "delete"]
    BY <1>1, <1>11 DEF PatchExpired
  <2>3. run[t].expireAt \in Int
    BY <1>1 DEF Reconcile
  <2>4. new \in Object /\ new.uid = run[t].obj.uid
    BY <1>2, <2>1, <2>3, StampedTypes DEF Object
  <2>5. /\ after \in Object
        /\ after.uid = run[t].obj.uid \/ (api[n] # Gone /\ after.uid = api[n].uid)
    BY <1>4, <2>1, <2>2, <2>4
  <2>6. run'[t].name = n /\ run'[t].obj = after /\ run'[t].pc \in {"createJob", "delete"}
    BY <1>1, <2>2 DEF Reconcile
  <2> QED
    BY <2>1, <2>5, <2>6
<1>12. ASSUME CreateJob(t)
       PROVE  run[t].pc \in Busy /\ run'[t].name = n /\ run'[t].obj = run[t].obj /\ run'[t].pc \in {"waitJob", "delete"}
  <2>1. \/ run'[t] = [run[t] EXCEPT !.pc = "delete"]
        \/ \E pc \in {"waitJob", "delete"} : \E id : run'[t] = [run[t] EXCEPT !.pc = pc, !.job = id]
    BY <1>1, <1>12 DEF CreateJob
  <2>2. run[t].pc \in Busy
    BY <1>12 DEF CreateJob, Busy, Phases
  <2> QED
    BY <1>1, <2>1, <2>2 DEF Reconcile
<1>13. ASSUME WaitJob(t)
       PROVE  run[t].pc \in Busy /\ run'[t].name = n /\ run'[t].obj = run[t].obj /\ run'[t].pc = "delete"
  <2>1. run'[t] = [run[t] EXCEPT !.pc = "delete", !.job = 0]
    BY <1>1, <1>13 DEF WaitJob
  <2>2. run[t].pc \in Busy
    BY <1>13 DEF WaitJob, Busy, Phases
  <2> QED
    BY <1>1, <2>1, <2>2 DEF Reconcile
<1>14. {"time", "patchStart", "patchExpired"} \subseteq Busy \ Deleting
  BY DEF Busy, Phases, Deleting
<1> QED
  BY <1>2, <1>6, <1>7, <1>8, <1>9, <1>10, <1>11, <1>12, <1>13, <1>14 DEF ReconcileStep

LEMMA WorkerGoesOn ==
  ASSUME TypeInv, ReconcileStep(Worker), W'.pc \in Busy
  PROVE  /\ W.name \in Names /\ W'.name = W.name /\ W'.obj \in Object
         /\ \/ /\ W.pc = "get" /\ W'.pc \notin Deleting
               /\ api[W.name] # Gone /\ W'.obj = api[W.name]
            \/ /\ W.pc \in Busy \ Deleting /\ W'.pc # "waitJob"
               /\ \/ W'.obj.uid = W.obj.uid
                  \/ api[W.name] # Gone /\ W'.obj.uid = api[W.name].uid
            \/ /\ CreateJob(Worker)
               /\ W'.pc \in {"waitJob", "delete"} /\ W'.obj = W.obj
            \/ /\ WaitJob(Worker)
               /\ W'.pc = "delete" /\ W'.obj = W.obj
  BY ThreadGoesOn DEF Threads, W

\* The controller makes no incarnation.
LEMMA ThreadMakesNone ==
  ASSUME TypeInv, NEW t \in Threads, ReconcileStep(t), NEW m \in Names, api'[m] # Gone
  PROVE  api[m] # Gone /\ api'[m].uid = api[m].uid
<1> DEFINE n == run[t].name
<1>1. /\ run[t] \in Reconcile
      /\ api \in [Names -> Object \cup {Gone}]
  BY DEF TypeInv, TypeOK
<1>2. ASSUME api' = api PROVE api[m] # Gone /\ api'[m].uid = api[m].uid
  BY <1>2
<1>3. ASSUME NEW base, NEW new, api[n] # Gone, Write(n, MergePatch(api[n], base, new))
      PROVE  api[m] # Gone /\ api'[m].uid = api[m].uid
  <2>1. CASE m = n
    <3>1. api'[m] = MergePatch(api[m], base, new) /\ api[m] \in Object
      BY <1>1, <1>3, <2>1 DEF Write
    <3> QED
      BY <1>3, <2>1, <3>1 DEF MergePatch, Object
  <2>2. CASE m # n
    BY <1>1, <1>3, <2>2 DEF Write
  <2> QED
    BY <2>1, <2>2
<1>4. ASSUME NEW new, \E after \in PatchResults(t, new) : Patch(t, new, after)
      PROVE  api[m] # Gone /\ api'[m].uid = api[m].uid
  BY <1>2, <1>3, <1>4 DEF Patch
<1>5. ASSUME Write(n, Gone) PROVE api[m] # Gone /\ api'[m].uid = api[m].uid
  BY <1>1, <1>5 DEF Write
<1>6. CASE Clean(t) \/ PatchInvalid(t)
  BY <1>4, <1>6 DEF Clean, PatchInvalid
<1>7. CASE PatchActive(t)
  BY <1>4, <1>7 DEF PatchActive
<1>8. CASE PatchStart(t)
  BY <1>4, <1>8 DEF PatchStart
<1>9. CASE PatchExpired(t)
  BY <1>4, <1>9 DEF PatchExpired
<1>10. CASE Delete(t)
  BY <1>2, <1>5, <1>10 DEF Delete
<1>11. CASE Filter(t) \/ Get(t) \/ ReadClock(t) \/ CreateJob(t) \/ WaitJob(t)
  BY <1>2, <1>11 DEF Filter, Get, ReadClock, CreateJob, WaitJob
<1> QED
  BY <1>6, <1>7, <1>8, <1>9, <1>10, <1>11 DEF ReconcileStep

LEMMA WorkerMakesNone ==
  ASSUME TypeInv, ReconcileStep(Worker), NEW m \in Names, api'[m] # Gone
  PROVE  api[m] # Gone /\ api'[m].uid = api[m].uid
  BY ThreadMakesNone DEF Threads

\* Every other step than those of the threads.
OtherStep == \/ /\ \E n \in Names : Dequeue(n) \/ Deliver(n)
                /\ UNCHANGED outerVars
             \/ Environment

LEMMA StepIs ==
  ASSUME Next
  PROVE  (\E t \in Threads : ReconcileStep(t) /\ UNCHANGED outerVars) \/ OtherStep
  BY DEF Next, System, OtherStep

LEMMA NextIs ==
  ASSUME Goroutines = {}, Next
  PROVE  (ReconcileStep(Worker) /\ UNCHANGED outerVars) \/ OtherStep
  BY StepIs DEF Threads

\* An incarnation there is after a step was there before, or is the next one.
Known(m) == api[m] # Gone /\ api'[m].uid = api[m].uid
Fresh(m) == api'[m].uid = nextUid /\ nextUid' = nextUid + 1

\* What the environment does to incarnations: it makes none but the next.
LEMMA OthersMake ==
  ASSUME TypeInv, OtherStep
  PROVE  /\ nextUid \in Nat /\ nextUid' \in Nat /\ nextUid <= nextUid'
         /\ \A m \in Names : api'[m] # Gone => Known(m) \/ Fresh(m)
<1>1. nextUid \in Nat
  BY DEF TypeInv, TypeOK
<1>2. CASE api' = api /\ nextUid' = nextUid
  BY <1>1, <1>2 DEF Known
<1>3. ASSUME NEW n \in Names,
             UserCreate(n) \/ UserSetTTL(n) \/ UserSetStart(n) \/ UserSetJob(n) \/ UserDelete(n)
      PROVE  /\ nextUid' = nextUid \/ nextUid' = nextUid + 1
             /\ \A m \in Names : api'[m] # Gone => Known(m) \/ Fresh(m)
  <2>1. PICK o \in Object \cup {Gone} :
           /\ UserWrite(n, o)
           /\ \/ o = Gone /\ nextUid' = nextUid
              \/ o.uid = nextUid /\ nextUid' = nextUid + 1
              \/ api[n] # Gone /\ o.uid = api[n].uid /\ nextUid' = nextUid
    BY <1>3, UserWritesWhat
  <2>2. api'[n] = o /\ \A m \in Names \ {n} : api'[m] = api[m]
    BY <2>1 DEF UserWrite, Write, TypeInv, TypeOK
  <2> QED
    BY <2>1, <2>2 DEF Known, Fresh
<1>4. CASE Users
  BY <1>1, <1>3, <1>4 DEF Users
<1> QED
  BY <1>2, <1>4 DEF OtherStep, Environment, World, Restart, outerVars, Tick, FinishJob, Miss, Crash, Dequeue, Deliver

\* Only a step of its own brings the worker on to, or on in, an object.
LEMMA OthersLeave ==
  ASSUME TypeInv, OtherStep
  PROVE  W' = W \/ (W'.pc \notin Busy /\ (W.pc = "idle" \/ Crash))
<1>1. Worker \in Threads /\ run \in [Threads -> Reconcile]
  BY DEF TypeInv, TypeOK, Threads
<1>2. ASSUME NEW n \in Names, Dequeue(n) PROVE W'.pc \notin Busy /\ W.pc = "idle"
  BY <1>1, <1>2 DEF Dequeue, Started, Idle, Busy, W
<1>3. ASSUME Crash PROVE W'.pc \notin Busy
  BY <1>1, <1>3 DEF Crash, Idle, Busy, W
<1>4. ASSUME run' = run PROVE W' = W
  BY <1>4 DEF W
<1> QED
  BY <1>2, <1>3, <1>4 DEF OtherStep, Environment, World, Users, Restart, Tick, FinishJob, Miss, Deliver,
     UserCreate, UserSetTTL, UserSetStart, UserSetJob, UserDelete, UserWrite

\* Nor any other thread.
LEMMA OthersLeaveAll ==
  ASSUME TypeInv, OtherStep, NEW t \in Threads
  PROVE  run'[t] = run[t] \/ run'[t].pc \notin Busy
<1>1. run \in [Threads -> Reconcile] /\ Worker \in Threads
  BY DEF TypeInv, TypeOK, Threads
<1>2. ASSUME NEW n \in Names, Dequeue(n) PROVE run'[t] = run[t] \/ run'[t].pc \notin Busy
  BY <1>1, <1>2 DEF Dequeue, Started, Idle, Busy
<1>3. ASSUME Crash PROVE run'[t].pc \notin Busy
  BY <1>3 DEF Crash, Idle, Busy
<1>4. ASSUME run' = run PROVE run'[t] = run[t]
  BY <1>4
<1> QED
  BY <1>2, <1>3, <1>4 DEF OtherStep, Environment, World, Users, Restart, Tick, FinishJob, Miss, Deliver,
     UserCreate, UserSetTTL, UserSetStart, UserSetJob, UserDelete, UserWrite

\* The Jobs after a step, and the incarnations they are for.
LEMMA JobsAre ==
  ASSUME TypeInv, Next
  PROVE  \/ jobs' = jobs
         \/ \E t \in Threads :
              /\ CreateJob(t)
              /\ \E k : /\ jobs' = jobs \cup {k}
                        /\ k.name = run[t].name /\ k.uid = run[t].obj.uid
         \/ \E j \in jobs : \E k :
              jobs' = (jobs \ {j}) \cup {k} /\ k.name = j.name /\ k.uid = j.uid
<1>1. ASSUME NEW t \in Threads, CreateJob(t), jobs' = jobs \cup {NewJob(t)}
      PROVE  /\ CreateJob(t)
             /\ \E k : /\ jobs' = jobs \cup {k}
                       /\ k.name = run[t].name /\ k.uid = run[t].obj.uid
  <2>1. NewJob(t).name = run[t].name /\ NewJob(t).uid = run[t].obj.uid
    BY DEF NewJob
  <2> QED
    BY <1>1, <2>1
<1> QED
  BY <1>1, JobsMove, FinishedJob

LEMMA NextHandsOut ==
  ASSUME TypeInv, UidsHandedOut, Next PROVE UidsHandedOut'
<1>1. TypeInv' /\ nextUid \in Nat /\ nextUid' \in Nat
  BY NextTyped DEF TypeInv, TypeOK
<1>2. /\ nextUid <= nextUid'
      /\ \A m \in Names : api'[m] # Gone => Known(m) \/ Fresh(m)
  <2>1. ASSUME NEW t \in Threads, ReconcileStep(t), UNCHANGED outerVars
        PROVE  /\ nextUid <= nextUid'
               /\ \A m \in Names : api'[m] # Gone => Known(m) \/ Fresh(m)
    BY <1>1, <2>1, ThreadMakesNone DEF outerVars, Known
  <2> QED
    BY <2>1, StepIs, OthersMake
<1>3. ASSUME NEW u \in Nat, u < nextUid PROVE u < nextUid'
  BY <1>1, <1>2, <1>3
<1>4. ASSUME NEW m \in Names, api'[m] # Gone PROVE api'[m].uid < nextUid'
  <2>1. CASE Known(m)
    <3>1. api[m].uid < nextUid /\ api[m].uid \in Nat
      BY <2>1 DEF Known, UidsHandedOut, TypeInv, TypeOK, Object
    <3> QED
      BY <1>3, <2>1, <3>1 DEF Known
  <2>2. CASE Fresh(m)
    BY <1>1, <2>2 DEF Fresh
  <2> QED
    BY <1>2, <1>4, <2>1, <2>2
<1>5. ASSUME NEW t \in Threads, run[t].pc \in Busy PROVE run[t].obj.uid < nextUid'
  <2>1. run[t].obj \in Object /\ run[t].obj.uid < nextUid
    BY <1>5 DEF UidsHandedOut, TypeInv, InFlight, Busy
  <2>2. run[t].obj.uid \in Nat
    BY <2>1 DEF Object
  <2> QED
    BY <1>3, <2>1, <2>2
<1>6. ASSUME NEW n \in Names, api[n] # Gone PROVE api[n].uid < nextUid'
  <2>1. api[n] \in Object /\ api[n].uid < nextUid
    BY <1>6 DEF UidsHandedOut, TypeInv, TypeOK
  <2>2. api[n].uid \in Nat
    BY <2>1 DEF Object
  <2> QED
    BY <1>3, <2>1, <2>2
<1>7. ASSUME NEW t \in Threads, run'[t].pc \in Busy PROVE run'[t].obj.uid < nextUid'
  <2>1. CASE run'[t] = run[t]
    BY <1>5, <1>7, <2>1
  <2>2. CASE ReconcileStep(t)
    BY <1>5, <1>6, <1>7, <2>2, ThreadGoesOn DEF CreateJob, WaitJob, Busy, Phases
  <2>3. ~Crash
    BY <1>7 DEF Crash, Idle, Busy
  <2>4. ASSUME NEW n \in Names, Dequeue(n), t = Worker PROVE FALSE
    <3>1. run'[t] = Started(n)
      BY <2>4 DEF Dequeue, TypeInv, TypeOK
    <3> QED
      BY <1>7, <3>1 DEF Started, Idle, Busy
  <2> QED
    BY <2>1, <2>2, <2>3, <2>4, ThreadMoves
<1>8. ASSUME NEW j \in jobs PROVE j.uid < nextUid'
  <2>1. j.uid \in Nat /\ j.uid < nextUid
    BY DEF UidsHandedOut, TypeInv, TypeOK, JobRecord
  <2> QED
    BY <1>3, <2>1
<1>9. ASSUME NEW j \in jobs' PROVE j.uid < nextUid'
  <2>1. \A t \in Threads : CreateJob(t) => run[t].pc \in Busy
    BY DEF CreateJob, Busy, Phases
  <2> QED
    BY <1>5, <1>8, <2>1, JobsAre
<1> QED
  BY <1>4, <1>7, <1>9 DEF UidsHandedOut

-----------------------------------------------------------------------------
(* One incarnation, one Job.                                                *)

LEMMA CountIs ==
  ASSUME TypeInv, NEW n, NEW u
  PROVE  IsFiniteSet(JobsOf(n, u)) /\ JobCount(n, u) \in Nat
<1>1. IsFiniteSet(JobsOf(n, u))
  BY FS_Subset DEF TypeInv, TypeOK, JobsOf
<1> QED
  BY <1>1, FS_CardinalityType DEF JobCount

\* A Job more counts for its incarnation.
LEMMA CountAdds ==
  ASSUME TypeInv, NEW n, NEW u, NEW k, jobs' = jobs \cup {k}
  PROVE  /\ JobCount(n, u)' <= JobCount(n, u) + 1
         /\ ~(k.name = n /\ k.uid = u) => JobCount(n, u)' = JobCount(n, u)
<1> DEFINE S == JobsOf(n, u)
           T == JobsOf(n, u)'
<1>1. IsFiniteSet(S) /\ Cardinality(S) \in Nat
  BY CountIs DEF JobCount
<1>2. CASE k.name = n /\ k.uid = u
  <2>1. T = S \cup {k}
    BY <1>2 DEF JobsOf
  <2> HIDE DEF S, T
  <2>2. Cardinality(T) <= Cardinality(S) + 1
    BY <1>1, <2>1, FS_AddElement
  <2> QED
    BY <1>2, <2>2 DEF JobCount, S, T
<1>3. CASE ~(k.name = n /\ k.uid = u)
  <2>1. T = S
    BY <1>3 DEF JobsOf
  <2> HIDE DEF S, T
  <2>2. Cardinality(T) = Cardinality(S) /\ Cardinality(T) <= Cardinality(S) + 1 /\ Cardinality(T) <= Cardinality(S)
    BY <1>1, <2>1
  <2> QED
    BY <2>2 DEF JobCount, S, T
<1> QED
  BY <1>2, <1>3

\* A Job that ends counts as before.
LEMMA CountStays ==
  ASSUME TypeInv, NEW n, NEW u, NEW j \in jobs, NEW k, k.name = j.name, k.uid = j.uid,
         jobs' = (jobs \ {j}) \cup {k}
  PROVE  JobCount(n, u)' <= JobCount(n, u)
<1> DEFINE S == JobsOf(n, u)
           T == JobsOf(n, u)'
<1>1. IsFiniteSet(S) /\ Cardinality(S) \in Nat
  BY CountIs DEF JobCount
<1>2. CASE j \in S
  <2>1. T = (S \ {j}) \cup {k}
    BY <1>2 DEF JobsOf
  <2> HIDE DEF S, T
  <2>2. IsFiniteSet(S \ {j}) /\ Cardinality(S \ {j}) = Cardinality(S) - 1
    BY <1>1, <1>2, FS_RemoveElement
  <2> DEFINE R == S \ {j}
  <2> HIDE DEF R
  <2>3. T = R \cup {k} /\ IsFiniteSet(R)
    BY ONLY <2>1, <2>2 DEF R
  <2>4. Cardinality(T) = Cardinality(R) \/ Cardinality(T) = Cardinality(R) + 1
    BY ONLY <2>3, FS_AddElement
  <2>5. Cardinality(R) = Cardinality(S) - 1
    BY ONLY <2>2 DEF R
  <2>6. Cardinality(T) <= Cardinality(S)
    BY ONLY <1>1, <2>4, <2>5
  <2> QED
    BY <2>6 DEF JobCount, S, T
<1>3. CASE j \notin S
  <2>1. T = S
    BY <1>3 DEF JobsOf
  <2> HIDE DEF S, T
  <2>2. Cardinality(T) = Cardinality(S) /\ Cardinality(T) <= Cardinality(S) + 1 /\ Cardinality(T) <= Cardinality(S)
    BY <1>1, <2>1
  <2> QED
    BY <2>2 DEF JobCount, S, T
<1> QED
  BY <1>2, <1>3

\* How many Jobs a step adds for an incarnation.
LEMMA CountMoves ==
  ASSUME TypeInv, Next, NEW n, NEW u
  PROVE  /\ JobCount(n, u) \in Nat /\ JobCount(n, u)' \in Nat
         /\ \/ JobCount(n, u)' <= JobCount(n, u)
            \/ /\ \E t \in Threads : CreateJob(t) /\ run[t].name = n /\ run[t].obj.uid = u
               /\ JobCount(n, u)' <= JobCount(n, u) + 1
<1>1. JobCount(n, u) \in Nat
  BY CountIs
<1>2. JobCount(n, u)' \in Nat
  <2>1. IsFiniteSet(jobs')
    BY NextTyped DEF TypeInv, TypeOK
  <2>2. IsFiniteSet(JobsOf(n, u)')
    BY <2>1, FS_Subset DEF JobsOf
  <2> QED
    BY <2>2, FS_CardinalityType DEF JobCount
<1>3. CASE jobs' = jobs
  BY <1>1, <1>3 DEF JobCount, JobsOf
<1>4. ASSUME NEW t \in Threads, CreateJob(t), NEW k, jobs' = jobs \cup {k},
             k.name = run[t].name, k.uid = run[t].obj.uid
      PROVE  \/ JobCount(n, u)' <= JobCount(n, u)
             \/ /\ CreateJob(t) /\ run[t].name = n /\ run[t].obj.uid = u
                /\ JobCount(n, u)' <= JobCount(n, u) + 1
  BY <1>1, <1>4, CountAdds
<1>5. ASSUME NEW j \in jobs, NEW k, jobs' = (jobs \ {j}) \cup {k}, k.name = j.name, k.uid = j.uid
      PROVE  JobCount(n, u)' <= JobCount(n, u)
  BY <1>5, CountStays
<1> QED
  BY <1>1, <1>2, <1>3, <1>4, <1>5, JobsAre

\* The worker only gets away from an object it has a Job for when the object is
\* gone, or for a failed call.
LEMMA DeleteEnds ==
  ASSUME TypeInv, Delete(Worker), NEW n \in Names, NEW u,
         W.name = n, W.obj.uid = u, api'[n] # Gone, api'[n].uid = u
  PROVE  faults' = faults + 1
<1>1. Worker \in Threads /\ api \in [Names -> Object \cup {Gone}]
  BY DEF TypeInv, TypeOK, Threads
<1>2. ASSUME Write(n, Gone) PROVE FALSE
  BY <1>1, <1>2 DEF Write
<1> QED
  BY <1>1, <1>2 DEF Delete, Fault, UIDPrecondition, W

LEMMA WorkerCounts ==
  ASSUME Goroutines = {}, CountInv, Next, ReconcileStep(Worker), NEW n \in Names, NEW u \in Nat
  PROVE  JobsBounded(n, u)'
<1> DEFINE harm  == faults + crashes
           harmN == faults' + crashes'
           count == JobCount(n, u)
           countN == JobCount(n, u)'
<1>1. TypeInv /\ JobsBounded(n, u)
  BY DEF CountInv, JobsCounted
<1>2. harm \in Nat /\ harmN \in Nat /\ harm <= harmN /\ count \in Nat /\ countN \in Nat
  BY <1>1, HarmGrows, CountMoves
<1>3. count <= 1 + harm /\ ((Alive(n, u) \/ BeforeJob(n, u)) /\ ~AfterJob(n, u) => count <= harm)
  BY <1>1, HarmGrows DEF JobsBounded
<1>4. Alive(n, u)' => Alive(n, u)
  BY <1>1, WorkerMakesNone DEF Alive
<1>5. CASE CreateJob(Worker) /\ W.name = n /\ W.obj.uid = u
  <2>1. W.pc = "createJob" /\ W.pc \in Busy
    BY <1>5 DEF CreateJob, Busy, Phases, W
  <2>2. BeforeJob(n, u) /\ ~AfterJob(n, u)
    BY <1>5, <2>1 DEF BeforeJob, AfterJob
  <2>3. AfterJob(n, u)'
    <3>1. Worker \in Threads /\ W \in Reconcile
      BY <1>1 DEF TypeInv, TypeOK, Threads, W
    <3>2. \/ W' = [W EXCEPT !.pc = "delete"]
          \/ \E pc \in {"waitJob", "delete"} : \E id : W' = [W EXCEPT !.pc = pc, !.job = id]
      BY <1>1, <1>5 DEF CreateJob, TypeInv, TypeOK, Threads, W
    <3>3. W'.pc \in {"waitJob", "delete"} /\ W'.name = W.name /\ W'.obj = W.obj
      BY <3>1, <3>2 DEF Reconcile
    <3> QED
      BY <1>5, <3>3 DEF AfterJob
  <2>4. countN <= 1 + harmN
    <3>1. count <= harm /\ countN <= count + 1
      BY <1>1, <1>2, <1>3, <2>2, CountMoves
    <3> QED
      BY ONLY <1>2, <3>1
  <2>5. countN <= 1 + faults' + crashes'
    BY <1>1, <1>2, <2>4, HarmGrows
  <2> QED
    BY <2>3, <2>5 DEF JobsBounded
<1>6. CASE ~(CreateJob(Worker) /\ W.name = n /\ W.obj.uid = u)
  <2>1. countN <= count
    BY <1>1, <1>6, CountMoves DEF Threads, W
  <2>2. countN <= 1 + harmN
    BY ONLY <1>2, <1>3, <2>1
  <2>3. ASSUME Alive(n, u)' \/ BeforeJob(n, u)', ~AfterJob(n, u)' PROVE countN <= harmN
    <3>1. CASE AfterJob(n, u)
      <4>1. ~(W'.pc \in Busy)
        <5> SUFFICES ASSUME W'.pc \in Busy PROVE FALSE
          OBVIOUS
        <5>1. W.pc \in {"waitJob", "delete"} /\ W.name = n /\ W.obj.uid = u
          BY <3>1 DEF AfterJob
        <5>2. WaitJob(Worker) /\ W'.pc = "delete" /\ W'.obj = W.obj /\ W'.name = n
          BY <1>1, <5>1, WorkerGoesOn DEF CreateJob, Deleting, W
        <5> QED
          BY <2>3, <5>1, <5>2 DEF AfterJob
      <4>2. Alive(n, u)'
        BY <2>3, <4>1 DEF BeforeJob
      <4>3. Delete(Worker)
        <5>1. W.pc \in {"waitJob", "delete"}
          BY <3>1 DEF AfterJob
        <5>2. ~WaitJob(Worker)
          <6> SUFFICES ASSUME WaitJob(Worker) PROVE FALSE
            OBVIOUS
          <6>1. Worker \in Threads /\ W \in Reconcile /\ W' = [W EXCEPT !.pc = "delete", !.job = 0]
            BY <1>1 DEF WaitJob, TypeInv, TypeOK, Threads, W
          <6> QED
            BY <4>1, <6>1 DEF Reconcile, Busy, Phases
        <5> QED
          BY <5>1, <5>2 DEF ReconcileStep, Filter, Get, Clean, ReadClock, PatchStart, PatchInvalid,
             PatchActive, PatchExpired, CreateJob, W
      <4>4. faults' = faults + 1
        BY <1>1, <3>1, <4>2, <4>3, DeleteEnds DEF AfterJob, Alive
      <4>5. harmN >= harm + 1
        BY <1>1, <4>4, HarmGrows
      <4> QED
        BY ONLY <1>2, <1>3, <2>1, <4>5
    <3>2. CASE ~AfterJob(n, u)
      <4>1. Alive(n, u) \/ BeforeJob(n, u)
        <5>1. CASE Alive(n, u)'
          BY <1>4, <5>1
        <5>2. CASE BeforeJob(n, u)'
          <6>1. W'.pc \in Busy /\ W'.pc \notin {"waitJob", "delete"} /\ W'.name = n /\ W'.obj.uid = u
            BY <5>2 DEF BeforeJob
          <6>2. /\ W.name = n
                /\ \/ api[n] # Gone /\ W'.obj.uid = api[n].uid
                   \/ W.pc \in Busy \ Deleting /\ W'.obj.uid = W.obj.uid
            BY <1>1, <6>1, WorkerGoesOn
          <6> QED
            BY <6>1, <6>2 DEF Alive, BeforeJob, Deleting
        <5> QED
          BY <2>3, <5>1, <5>2
      <4> QED
        BY ONLY <1>2, <1>3, <2>1, <3>2, <4>1
    <3> QED
      BY <3>1, <3>2
  <2>4. countN <= 1 + faults' + crashes'
    BY <1>1, <1>2, <2>2, HarmGrows
  <2> QED
    BY <2>3, <2>4 DEF JobsBounded
<1> QED
  BY <1>5, <1>6

LEMMA OthersCount ==
  ASSUME CountInv, Next, OtherStep, NEW n \in Names, NEW u \in Nat
  PROVE  JobsBounded(n, u)'
<1> DEFINE harm  == faults + crashes
           harmN == faults' + crashes'
           count == JobCount(n, u)
           countN == JobCount(n, u)'
<1>1. TypeInv /\ JobsBounded(n, u) /\ UidsHandedOut
  BY DEF CountInv, JobsCounted
<1>2. jobs' = jobs \/ \E j \in jobs : FinishJob(j)
  BY DEF OtherStep, Environment, World, Users, Restart, Tick, Miss, Crash, Dequeue, Deliver,
     UserCreate, UserSetTTL, UserSetStart, UserSetJob, UserDelete, UserWrite
<1>3. count \in Nat /\ countN \in Nat /\ countN <= count
  <2>1. count \in Nat
    BY <1>1, CountIs
  <2>2. CASE jobs' = jobs
    <3>1. countN = count
      BY <2>2 DEF JobCount, JobsOf
    <3> QED
      BY <2>1, <3>1
  <2>3. CASE \E j \in jobs : FinishJob(j)
    <3>1. countN <= count
      BY <1>1, <2>3, FinishedJob, CountStays
    <3>2. IsFiniteSet(jobs')
      BY <1>1, NextTyped DEF TypeInv, TypeOK
    <3>3. IsFiniteSet(JobsOf(n, u)')
      BY <3>2, FS_Subset DEF JobsOf
    <3>4. countN \in Nat
      BY <3>3, FS_CardinalityType DEF JobCount
    <3> QED
      BY <2>1, <3>1, <3>4
  <2> QED
    BY <1>2, <2>2, <2>3
<1>4. harm \in Nat /\ harmN \in Nat /\ harm <= harmN
  BY <1>1, HarmGrows
<1>5. count <= 1 + harm /\ ((Alive(n, u) \/ BeforeJob(n, u)) /\ ~AfterJob(n, u) => count <= harm)
  BY <1>1, HarmGrows DEF JobsBounded
<1>6. countN <= 1 + faults' + crashes'
  <2>1. countN <= 1 + harmN
    BY ONLY <1>3, <1>4, <1>5
  <2> QED
    BY <1>1, <1>3, <2>1, HarmGrows
<1>7. ASSUME Alive(n, u)' \/ BeforeJob(n, u)', ~AfterJob(n, u)' PROVE countN <= harmN
  <2>1. CASE Crash
    <3>1. harmN >= harm + 1
      BY <1>1, <2>1, HarmGrows
    <3> QED
      BY ONLY <1>3, <1>4, <1>5, <3>1
  <2>2. CASE ~Crash
    <3>1. W' = W \/ (W'.pc \notin Busy /\ W.pc = "idle")
      BY <1>1, <2>2, OthersLeave
    <3>2. ~AfterJob(n, u)
      BY <1>7, <3>1 DEF AfterJob, Busy, Phases
    <3>3. BeforeJob(n, u)' => BeforeJob(n, u)
      BY <3>1 DEF BeforeJob
    <3>4. Alive(n, u)' => Alive(n, u) \/ count = 0
      <4> SUFFICES ASSUME Alive(n, u)' PROVE Alive(n, u) \/ count = 0
        OBVIOUS
      <4>1. CASE Known(n)
        BY <4>1 DEF Known, Alive
      <4>2. CASE Fresh(n)
        <5>1. u = nextUid /\ nextUid \in Nat
          BY <1>1, <4>2 DEF Fresh, Alive, TypeInv, TypeOK
        <5>2. \A j \in jobs : j.uid \in Nat /\ j.uid < nextUid
          BY <1>1 DEF UidsHandedOut, TypeInv, TypeOK, JobRecord
        <5>3. JobsOf(n, u) = {}
          BY <5>1, <5>2 DEF JobsOf
        <5> QED
          BY <5>3, FS_EmptySet DEF JobCount
      <4> QED
        BY <1>1, <4>1, <4>2, OthersMake DEF Alive
    <3>5. Alive(n, u) \/ BeforeJob(n, u) \/ count = 0
      BY <1>7, <3>3, <3>4
    <3> QED
      BY ONLY <1>3, <1>4, <1>5, <3>2, <3>5
  <2> QED
    BY <2>1, <2>2
<1> QED
  BY <1>6, <1>7 DEF JobsBounded

LEMMA InitCounts == ASSUME Init PROVE CountInv
<1>1. TypeInv /\ W = Idle /\ jobs = {} /\ faults = 0 /\ crashes = 0 /\ nextUid = 1
  BY InitTyped DEF Init, LeaseInit, Threads, W
<1>2. ASSUME NEW n \in Names, api[n] # Gone PROVE api[n].uid = 0
  BY <1>2, InputAssumption DEF Init, LeaseInit
<1>3. UidsHandedOut
  BY <1>1, <1>2 DEF Init, LeaseInit, UidsHandedOut, Idle, Busy
<1>4. ASSUME NEW n \in Names, NEW u \in Nat PROVE JobsBounded(n, u)
  <2>1. JobsOf(n, u) = {}
    BY <1>1 DEF JobsOf
  <2>2. JobCount(n, u) = 0
    BY <2>1, FS_EmptySet DEF JobCount
  <2> QED
    BY <1>1, <2>2 DEF JobsBounded
<1> QED
  BY <1>1, <1>3, <1>4 DEF CountInv, JobsCounted

\* One worker creates a second cleanup Job for an incarnation only for a failed
\* call or a crash, whatever users do to the object meanwhile: every reconcile
\* that creates a Job ends the incarnation it creates it for, unless its delete
\* fails.
THEOREM OneJobEach == ASSUME Goroutines = {} PROVE Spec => []JobsPerIncarnation
<1>1. Init => CountInv
  BY InitCounts
<1>2. CountInv /\ [Next]_vars => CountInv'
  <2>1. ASSUME CountInv, Next PROVE CountInv'
    <3>1. TypeInv' /\ UidsHandedOut'
      BY <2>1, NextTyped, NextHandsOut DEF CountInv
    <3>2. ASSUME NEW n \in Names, NEW u \in Nat PROVE JobsBounded(n, u)'
      BY <2>1, NextIs, WorkerCounts, OthersCount
    <3> QED
      BY <3>1, <3>2 DEF CountInv, JobsCounted
  <2>2. ASSUME CountInv, UNCHANGED vars PROVE CountInv'
    BY <2>2 DEF vars, CountInv, TypeInv, TypeOK, InFlight, UidsHandedOut, JobsCounted,
       JobsBounded, JobCount, JobsOf, Alive, BeforeJob, AfterJob, W
  <2> QED
    BY <2>1, <2>2
<1>3. CountInv => JobsPerIncarnation
  <2> SUFFICES ASSUME CountInv, NEW j \in jobs
               PROVE  Cardinality({ k \in jobs : k.name = j.name /\ k.uid = j.uid })
                        <= 1 + faults + crashes
    BY DEF JobsPerIncarnation
  <2>1. j.name \in Names /\ j.uid \in Nat
    BY DEF CountInv, TypeInv, TypeOK, JobRecord
  <2>2. JobsBounded(j.name, j.uid)
    BY <2>1 DEF CountInv, JobsCounted
  <2> QED
    BY <2>2 DEF JobsBounded, JobCount, JobsOf
<1> QED
  BY <1>1, <1>2, <1>3, PTL DEF Spec

-----------------------------------------------------------------------------
\* As long as no call failed and the process did not crash, an object is marked
\* as expired only while the worker goes about to delete it.
Unharmed == faults = 0 /\ crashes = 0

MarkedIsDoomed ==
  \A n \in Names : api[n] # Gone /\ api[n].status = ExpiredStatus =>
    W.pc \in Deleting /\ W.name = n /\ W.obj.uid = api[n].uid
DoomedIsMarked ==
  W.pc \in Deleting /\ api[W.name] # Gone /\ api[W.name].uid = W.obj.uid =>
    api[W.name].status = ExpiredStatus
BaseIsUnmarked == W.pc \in Busy \ Deleting => W.obj.status # ExpiredStatus

MarksAreTrue == Unharmed => MarkedIsDoomed /\ DoomedIsMarked /\ BaseIsUnmarked

MarkInv == TypeInv /\ UidsHandedOut /\ MarksAreTrue

\* The mark is no other text, nor the absence of one.
LEMMA Texts ==
  ASSUME NEW e
  PROVE  Active(e) # ExpiredStatus /\ BadTTL # ExpiredStatus /\ Absent # ExpiredStatus
  BY StatusAssumption DEF Active, BadTTL, ExpiredStatus, StatusTexts

\* A patch whose call does not fail: the copy is what the server has then.
LEMMA PatchAnswered ==
  ASSUME TypeInv, ~Fault, W.pc \in Busy, NEW new \in Object,
         NEW after \in PatchResults(Worker, new), Patch(Worker, new, after)
  PROVE  \/ /\ api[W.name] = Gone /\ api' = api /\ after = new
         \/ /\ api[W.name] # Gone /\ after \in Object
            /\ api' = [api EXCEPT ![W.name] = after]
            /\ after.uid = api[W.name].uid
            /\ after.status = PatchValue(W.obj.status, new.status, api[W.name].status)
<1> DEFINE n == W.name
<1>1. n \in Names /\ W.obj \in Object /\ (api[n] # Gone => api[n] \in Object)
  BY DEF TypeInv, TypeOK, InFlight, Busy, Threads, W
<1>2. \/ api[n] = Gone /\ api' = api /\ after = new
      \/ /\ api[n] # Gone /\ after = MergePatch(api[n], W.obj, new)
         /\ Write(n, after)
  BY DEF Patch, W
<1>3. CASE api[n] = Gone /\ api' = api /\ after = new
  BY <1>3
<1>4. CASE /\ api[n] # Gone /\ after = MergePatch(api[n], W.obj, new)
           /\ Write(n, after)
  <2>1. after \in Object
    BY <1>1, <1>4, MergeType
  <2>2. after.uid = api[n].uid /\ after.status = PatchValue(W.obj.status, new.status, api[n].status)
    BY <1>1, <1>4 DEF MergePatch, Object
  <2>3. api' = [api EXCEPT ![n] = after]
    BY <1>4 DEF Write
  <2> QED
    BY <1>4, <2>1, <2>2, <2>3
<1> QED
  BY <1>2, <1>3, <1>4

\* What the three conjuncts come to when the worker leaves Deleting alone: no
\* object carries the mark, and neither does its copy.
LEMMA UnmarkedStays ==
  ASSUME W'.pc \notin Deleting,
         \A m \in Names : api'[m] # Gone => api'[m].status # ExpiredStatus,
         W'.pc \in Busy => W'.obj.status # ExpiredStatus
  PROVE  MarksAreTrue'
  BY DEF MarksAreTrue, MarkedIsDoomed, DoomedIsMarked, BaseIsUnmarked

\* A patch that does not mark, of a worker that is not deleting.
LEMMA PatchUnmarked ==
  ASSUME TypeInv, MarksAreTrue, Unharmed, ~Fault, W.pc \in Busy \ Deleting, NEW new \in Object,
         new.status = W.obj.status \/ new.status # ExpiredStatus,
         NEW after \in PatchResults(Worker, new), Patch(Worker, new, after)
  PROVE  /\ after.status # ExpiredStatus
         /\ \A m \in Names : api'[m] # Gone => api'[m].status # ExpiredStatus
<1> DEFINE n == W.name
<1>1. \A m \in Names : api[m] # Gone => api[m].status # ExpiredStatus
  BY DEF MarksAreTrue, MarkedIsDoomed
<1>2. W.obj.status # ExpiredStatus
  BY DEF MarksAreTrue, BaseIsUnmarked
<1>3. n \in Names /\ api \in [Names -> Object \cup {Gone}]
  BY DEF TypeInv, TypeOK, InFlight, Busy, Threads, W
<1>4. CASE api[n] = Gone /\ api' = api /\ after = new
  BY <1>1, <1>2, <1>4
<1>5. CASE /\ api[n] # Gone /\ after \in Object
           /\ api' = [api EXCEPT ![n] = after]
           /\ after.status = PatchValue(W.obj.status, new.status, api[n].status)
  <2>1. after.status # ExpiredStatus
    BY <1>1, <1>2, <1>3, <1>5 DEF PatchValue
  <2> QED
    BY <1>1, <1>3, <1>5, <2>1
<1> QED
  BY <1>4, <1>5, PatchAnswered

LEMMA WorkerMarks ==
  ASSUME MarkInv, Next, ReconcileStep(Worker), Unharmed' PROVE MarksAreTrue'
<1> DEFINE n == W.name
<1>1. TypeInv /\ MarksAreTrue /\ UidsHandedOut
  BY DEF MarkInv
<1>2. Unharmed /\ ~Fault
  BY <1>1, HarmGrows DEF Unharmed, Fault
<1>3. /\ Worker \in Threads /\ W \in Reconcile /\ run \in [Threads -> Reconcile]
      /\ api \in [Names -> Object \cup {Gone}]
  BY <1>1 DEF TypeInv, TypeOK, Threads, W
<1>4. ASSUME NEW when, Return(Worker, when) PROVE W'.pc \notin Busy /\ W'.pc \notin Deleting
  BY <1>3, <1>4 DEF Return, Idle, Busy, Deleting, W
<1>5. W.pc \notin Deleting => \A m \in Names : api[m] # Gone => api[m].status # ExpiredStatus
  BY <1>1, <1>2 DEF MarksAreTrue, MarkedIsDoomed
<1>6. W.pc \in Busy \ Deleting => W.obj.status # ExpiredStatus
  BY <1>1, <1>2 DEF MarksAreTrue, BaseIsUnmarked
<1>7. W.pc \in Busy => n \in Names /\ W.obj \in Object
  BY <1>1, <1>3 DEF TypeInv, InFlight, Busy, W
<1>8. CASE Filter(Worker)
  <2>1. W.pc \notin Deleting /\ api' = api
    BY <1>8 DEF Filter, Deleting, W
  <2>2. W'.pc \notin Busy /\ W'.pc \notin Deleting
    BY <1>3, <1>4, <1>8 DEF Filter, Reconcile, Busy, Deleting, W
  <2> QED
    BY <1>5, <2>1, <2>2, UnmarkedStays
<1>9. CASE Get(Worker)
  <2>1. W.pc = "get" /\ W.pc \notin Deleting /\ api' = api
    BY <1>9 DEF Get, Deleting, W
  <2>2. CASE W'.pc \in Busy
    <3>1. n \in Names /\ W'.pc \notin Deleting /\ api[n] # Gone /\ W'.obj = api[n]
      BY <1>1, <2>1, <2>2, WorkerGoesOn DEF CreateJob, WaitJob, Busy, W
    <3> QED
      BY <1>5, <2>1, <3>1, UnmarkedStays
  <2>3. CASE W'.pc \notin Busy
    BY <1>5, <2>1, <2>3, UnmarkedStays DEF Deleting, Busy, Phases
  <2> QED
    BY <2>2, <2>3
<1>10. ASSUME NEW o, NEW s, NEW reading, W' = Decided(Worker, o, s, reading)
       PROVE  W'.obj = o /\ W'.pc \notin Deleting
  <2>1. Verdict(o.ttl, s, reading) \in {"markInvalid", "expire", "activate"}
    BY DEF Verdict
  <2> QED
    BY <1>3, <1>10, <2>1 DEF Decided, Reconcile, Deleting, W
<1>11. CASE ReadClock(Worker)
  <2>1. W.pc \in Busy \ Deleting /\ api' = api
    BY <1>11 DEF ReadClock, Busy, Phases, Deleting, W
  <2>2. W'.obj = W.obj /\ W'.pc \notin Deleting
    <3>1. CASE HasLeaseStart(W.obj)
      <4>1. W' = Decided(Worker, W.obj, W.obj.start, clock)
        BY <1>3, <1>11, <3>1 DEF ReadClock, W
      <4> QED
        BY <1>10, <4>1
    <3>2. CASE ~HasLeaseStart(W.obj)
      <4>1. W' = [W EXCEPT !.pc = "patchStart", !.now = clock]
        BY <1>3, <1>11, <3>2 DEF ReadClock, W
      <4> QED
        BY <1>3, <4>1 DEF Reconcile, Deleting
    <3> QED
      BY <3>1, <3>2
  <2> QED
    BY <1>5, <1>6, <2>1, <2>2, UnmarkedStays
<1>12. CASE PatchStart(Worker)
  <2> DEFINE new == [W.obj EXCEPT !.start = Format(W.now)]
  <2>1. W.pc \in Busy \ Deleting
    BY <1>12 DEF PatchStart, Busy, Phases, Deleting, W
  <2>2. PICK after \in PatchResults(Worker, new) :
          Patch(Worker, new, after) /\ W' = Decided(Worker, after, W.now, W.now)
    BY <1>3, <1>12 DEF PatchStart, W
  <2>3. W.now \in Int
    BY <1>3 DEF Reconcile
  <2>4. new \in Object /\ new.status = W.obj.status
    BY <1>7, <2>1, <2>3, StampedTypes DEF Object
  <2>5. /\ after.status # ExpiredStatus
        /\ \A m \in Names : api'[m] # Gone => api'[m].status # ExpiredStatus
    BY <1>1, <1>2, <2>1, <2>2, <2>4, PatchUnmarked
  <2>6. W'.obj = after /\ W'.pc \notin Deleting
    BY <1>10, <2>2
  <2> QED
    BY <2>5, <2>6, UnmarkedStays
<1>13. ASSUME W.pc \in Busy \ Deleting, NEW new \in Object, new.status # ExpiredStatus,
              \E after \in PatchResults(Worker, new) : Patch(Worker, new, after),
              \E when : Return(Worker, when)
       PROVE  MarksAreTrue'
  <2>1. \A m \in Names : api'[m] # Gone => api'[m].status # ExpiredStatus
    BY <1>1, <1>2, <1>13, PatchUnmarked
  <2> QED
    BY <1>4, <1>13, <2>1, UnmarkedStays
<1>14. CASE Clean(Worker)
  <2> DEFINE new == WithoutLeaseAnns(W.obj)
  <2>1. W.pc \in Busy \ Deleting
    BY <1>14 DEF Clean, Busy, Phases, Deleting, W
  <2>2. new \in Object /\ new.status # ExpiredStatus
    BY <1>7, <2>1, ClearedTypes, Texts DEF WithoutLeaseAnns, Object
  <2>3. /\ \E after \in PatchResults(Worker, new) : Patch(Worker, new, after)
        /\ \E when : Return(Worker, when)
    BY <1>14 DEF Clean, W
  <2> QED
    BY <1>13, <2>1, <2>2, <2>3
<1>15. CASE PatchInvalid(Worker)
  <2> DEFINE new == [W.obj EXCEPT !.status = BadTTL]
  <2>1. W.pc \in Busy \ Deleting
    BY <1>15 DEF PatchInvalid, Busy, Phases, Deleting, W
  <2>2. new \in Object /\ new.status # ExpiredStatus
    BY <1>7, <2>1, ClearedTypes, Texts DEF Object
  <2>3. /\ \E after \in PatchResults(Worker, new) : Patch(Worker, new, after)
        /\ \E when : Return(Worker, when)
    BY <1>15 DEF PatchInvalid, W
  <2> QED
    BY <1>13, <2>1, <2>2, <2>3
<1>16. CASE PatchActive(Worker)
  <2> DEFINE new == [W.obj EXCEPT !.expireAt = Format(W.expireAt), !.status = Active(W.expireAt)]
  <2>1. W.pc \in Busy \ Deleting
    BY <1>16 DEF PatchActive, Busy, Phases, Deleting, W
  <2>2. W.expireAt \in Int
    BY <1>3 DEF Reconcile
  <2>3. new \in Object /\ new.status # ExpiredStatus
    BY <1>7, <2>1, <2>2, StampedTypes, Texts DEF Object
  <2>4. /\ \E after \in PatchResults(Worker, new) : Patch(Worker, new, after)
        /\ \E when : Return(Worker, when)
    BY <1>16 DEF PatchActive, W
  <2> QED
    BY <1>13, <2>1, <2>3, <2>4
<1>17. CASE PatchExpired(Worker)
  <2> DEFINE new == [W.obj EXCEPT !.expireAt = Format(W.expireAt), !.status = ExpiredStatus]
  <2>1. W.pc \in Busy \ Deleting
    BY <1>17 DEF PatchExpired, Busy, Phases, Deleting, W
  <2>2. PICK after \in PatchResults(Worker, new) :
          /\ Patch(Worker, new, after)
          /\ W' = [W EXCEPT !.obj = after,
                            !.pc  = IF after.job \in {"fire", "wait"} THEN "createJob" ELSE "delete"]
    BY <1>3, <1>17 DEF PatchExpired, W
  <2>3. W.expireAt \in Int
    BY <1>3 DEF Reconcile
  <2>4. new \in Object /\ new.status = ExpiredStatus
    BY <1>7, <2>1, <2>3, StampedTypes DEF Object
  <2>5. W'.name = n /\ W'.obj = after /\ W'.pc \in Deleting
    BY <1>3, <2>2 DEF Reconcile, Deleting
  <2>6. \/ api[n] = Gone /\ api' = api
        \/ /\ api[n] # Gone /\ api' = [api EXCEPT ![n] = after]
           /\ after.status = PatchValue(W.obj.status, ExpiredStatus, api[n].status)
    BY <1>1, <1>2, <2>1, <2>2, <2>4, PatchAnswered
  <2>7. CASE api[n] = Gone /\ api' = api
    BY <1>5, <2>1, <2>5, <2>7 DEF MarksAreTrue, MarkedIsDoomed, DoomedIsMarked, BaseIsUnmarked
  <2>8. CASE /\ api[n] # Gone /\ api' = [api EXCEPT ![n] = after]
             /\ after.status = PatchValue(W.obj.status, ExpiredStatus, api[n].status)
    <3>1. after.status = ExpiredStatus
      BY <1>6, <2>1, <2>8 DEF PatchValue
    <3>2. api'[n] = after /\ \A m \in Names \ {n} : api'[m] = api[m]
      BY <1>3, <1>7, <2>1, <2>8
    <3> QED
      BY <1>5, <2>1, <2>5, <3>1, <3>2 DEF MarksAreTrue, MarkedIsDoomed, DoomedIsMarked, BaseIsUnmarked
  <2> QED
    BY <2>6, <2>7, <2>8
<1>18. ASSUME W.pc \in Deleting, api' = api, W'.pc \in Deleting, W'.name = n, W'.obj = W.obj
       PROVE  MarksAreTrue'
  BY <1>1, <1>2, <1>18 DEF MarksAreTrue, MarkedIsDoomed, DoomedIsMarked, BaseIsUnmarked
<1>19. CASE CreateJob(Worker)
  <2>1. W.pc \in Deleting /\ api' = api
    BY <1>19 DEF CreateJob, Deleting, W
  <2>2. \E pc \in {"waitJob", "delete"} : \E id : W' = [W EXCEPT !.pc = pc, !.job = id] \/ W' = [W EXCEPT !.pc = pc]
    BY <1>3, <1>19 DEF CreateJob, W
  <2>3. W'.pc \in Deleting /\ W'.name = n /\ W'.obj = W.obj
    BY <1>3, <2>2 DEF Reconcile, Deleting
  <2> QED
    BY <1>18, <2>1, <2>3
<1>20. CASE WaitJob(Worker)
  <2>1. W.pc \in Deleting /\ api' = api
    BY <1>20 DEF WaitJob, Deleting, W
  <2>2. W' = [W EXCEPT !.pc = "delete", !.job = 0]
    BY <1>3, <1>20 DEF WaitJob, W
  <2>3. W'.pc \in Deleting /\ W'.name = n /\ W'.obj = W.obj
    BY <1>3, <2>2 DEF Reconcile, Deleting
  <2> QED
    BY <1>18, <2>1, <2>3
<1>21. CASE Delete(Worker)
  <2>1. W.pc \in Deleting /\ W.pc \in Busy
    BY <1>21 DEF Delete, Deleting, Busy, Phases, W
  <2>2. W'.pc \notin Busy /\ W'.pc \notin Deleting
    BY <1>4, <1>21 DEF Delete
  <2>3. \A m \in Names : api[m] # Gone /\ api[m].status = ExpiredStatus => m = n /\ W.obj.uid = api[m].uid
    BY <1>1, <1>2 DEF MarksAreTrue, MarkedIsDoomed
  <2>4. \/ api' = api /\ (api[n] # Gone => api[n].uid # W.obj.uid)
        \/ api' = [api EXCEPT ![n] = Gone]
    BY <1>2, <1>21 DEF Delete, Write, UIDPrecondition, W
  <2>5. \A m \in Names : api'[m] # Gone => api'[m].status # ExpiredStatus
    BY <1>3, <1>7, <2>1, <2>3, <2>4
  <2> QED
    BY <2>2, <2>5, UnmarkedStays
<1> QED
  BY <1>8, <1>9, <1>11, <1>12, <1>14, <1>15, <1>16, <1>17, <1>19, <1>20, <1>21 DEF ReconcileStep

\* Users do not write lease-status, and what they create is not marked.
LEMMA UsersMark ==
  ASSUME MarkInv, NEW n \in Names, crashes' = crashes,
         UserCreate(n) \/ UserSetTTL(n) \/ UserSetStart(n) \/ UserSetJob(n) \/ UserDelete(n)
  PROVE  MarksAreTrue'
<1>1. TypeInv /\ MarksAreTrue /\ UidsHandedOut
  BY DEF MarkInv
<1>2. PICK o \in Object \cup {Gone} :
        /\ UserWrite(n, o)
        /\ \/ o = Gone
           \/ api[n] = Gone /\ o.uid = nextUid /\ o.status = Absent
           \/ api[n] # Gone /\ o.uid = api[n].uid /\ o.status = api[n].status
  BY <1>1, UserWritesWhat
<1>3. /\ api'[n] = o /\ \A m \in Names \ {n} : api'[m] = api[m]
      /\ W' = W /\ faults' = faults
  BY <1>1, <1>2 DEF UserWrite, Write, TypeInv, TypeOK, W
<1>4. Unharmed' => Unharmed
  BY <1>3 DEF Unharmed
<1>5. W.pc \in Deleting => W.obj.uid \in Nat /\ nextUid \in Nat /\ W.obj.uid < nextUid
  <2> SUFFICES ASSUME W.pc \in Deleting PROVE W.obj.uid \in Nat /\ nextUid \in Nat /\ W.obj.uid < nextUid
    OBVIOUS
  <2>1. W.pc \in Busy
    BY DEF Deleting, Busy, Phases
  <2>2. W.obj \in Object
    BY <1>1, <2>1 DEF TypeInv, InFlight, Busy, Threads, W
  <2> QED
    BY <1>1, <2>1, <2>2 DEF UidsHandedOut, TypeInv, TypeOK, Object, Threads, W
<1>6. ASSUME Unharmed PROVE MarkedIsDoomed' /\ DoomedIsMarked' /\ BaseIsUnmarked'
  <2>1. MarkedIsDoomed /\ DoomedIsMarked /\ BaseIsUnmarked
    BY <1>1, <1>6 DEF MarksAreTrue
  <2>2. o # Gone /\ o.status = ExpiredStatus => api[n] # Gone /\ o.uid = api[n].uid /\ o.status = api[n].status
    BY <1>2, Texts
  <2>3. MarkedIsDoomed'
    BY <1>3, <2>1, <2>2 DEF MarkedIsDoomed
  <2>4. W.pc \in Deleting /\ o # Gone /\ o.uid = W.obj.uid =>
          api[n] # Gone /\ o.uid = api[n].uid /\ o.status = api[n].status
    BY <1>2, <1>5
  <2>5. DoomedIsMarked'
    BY <1>3, <2>1, <2>4, <1>1 DEF DoomedIsMarked, TypeInv, InFlight, Deleting, Threads, W
  <2> QED
    BY <1>3, <2>1, <2>3, <2>5 DEF BaseIsUnmarked
<1> QED
  BY <1>4, <1>6 DEF MarksAreTrue

LEMMA NextMarks ==
  ASSUME Goroutines = {}, MarkInv, Next PROVE MarkInv'
<1>1. TypeInv' /\ UidsHandedOut'
  BY NextTyped, NextHandsOut DEF MarkInv
<1>2. ASSUME UNCHANGED <<api, faults, crashes>>, W' = W \/ (W.pc = "idle" /\ W'.pc \notin Busy)
      PROVE  MarksAreTrue'
  BY <1>2 DEF MarkInv, MarksAreTrue, Unharmed, MarkedIsDoomed, DoomedIsMarked, BaseIsUnmarked,
     Deleting, Busy, Phases
<1>3. ASSUME ReconcileStep(Worker) PROVE MarksAreTrue'
  BY <1>3, WorkerMarks DEF MarksAreTrue
<1>4. ASSUME Crash PROVE MarksAreTrue'
  <2>1. ~Unharmed'
    BY <1>4, HarmGrows DEF MarkInv, Unharmed
  <2> QED
    BY <2>1 DEF MarksAreTrue
<1>5. ASSUME Users PROVE MarksAreTrue'
  BY <1>5, UsersMark DEF Users
<1>6. ASSUME OtherStep, ~Crash, ~Users PROVE MarksAreTrue'
  <2>1. W' = W \/ (W.pc = "idle" /\ W'.pc \notin Busy)
    BY <1>6, OthersLeave DEF MarkInv
  <2>2. UNCHANGED <<api, faults, crashes>>
    BY <1>6 DEF OtherStep, Environment, World, Restart, outerVars, Tick, FinishJob, Miss, Dequeue, Deliver
  <2> QED
    BY <1>2, <2>1, <2>2
<1>7. MarksAreTrue'
  BY <1>3, <1>4, <1>5, <1>6, NextIs
<1> QED
  BY <1>1, <1>7 DEF MarkInv

\* Only marked objects go: with one worker, and no object that carries the mark
\* of an earlier process, every object the controller deletes carries the status
\* "Lease expired. Deleting object.", whatever users delete and create again
\* during a reconcile, as long as no call fails. (A mark from before would be
\* taken for its own: the merge patch of a copy that has the mark already does
\* not send it.)
THEOREM OnlyMarkedGo ==
  ASSUME Goroutines = {}, \A o \in InitialObjects : o.status # ExpiredStatus
  PROVE  Spec => OnlyMarkedDeleted
<1> DEFINE Marked == \A n \in Names :
             ControllerDeletes(n) /\ faults' = 0 /\ crashes = 0 => api[n].status = ExpiredStatus
<1>1. Init => MarkInv
  <2> SUFFICES ASSUME Init PROVE MarkInv
    OBVIOUS
  <2>1. TypeInv /\ UidsHandedOut
    BY InitCounts DEF CountInv
  <2>2. W = Idle /\ \A n \in Names : api[n] # Gone => api[n].status # ExpiredStatus
    BY DEF Init, LeaseInit, Threads, W
  <2> QED
    BY <2>1, <2>2 DEF MarkInv, MarksAreTrue, MarkedIsDoomed, DoomedIsMarked, BaseIsUnmarked,
       Idle, Busy, Deleting
<1>2. MarkInv /\ [Next]_vars => MarkInv'
  <2>1. ASSUME MarkInv, UNCHANGED vars PROVE MarkInv'
    BY <2>1 DEF vars, MarkInv, TypeInv, TypeOK, InFlight, UidsHandedOut, MarksAreTrue, Unharmed,
       MarkedIsDoomed, DoomedIsMarked, BaseIsUnmarked, W
  <2> QED
    BY <2>1, NextMarks
<1>3. MarkInv /\ [Next]_vars => [Marked]_vars
  <2> SUFFICES ASSUME MarkInv, Next, NEW n \in Names, ControllerDeletes(n), faults' = 0, crashes = 0
               PROVE  api[n].status = ExpiredStatus
    OBVIOUS
  <2>1. TypeInv /\ DeletedBy(Worker, n)
    BY DEF ControllerDeletes, Threads, MarkInv
  <2>2. UIDPrecondition(api[n], W.obj) /\ Unharmed
    BY <2>1, DeletionIsDelete, HarmGrows DEF Threads, Unharmed, W
  <2>3. W.pc = "delete" /\ W.name = n /\ api[n] # Gone
    BY <2>1 DEF DeletedBy, W
  <2> QED
    BY <2>2, <2>3 DEF MarkInv, MarksAreTrue, DoomedIsMarked, Deleting, UIDPrecondition
<1> QED
  BY <1>1, <1>2, <1>3, PTL DEF Spec, OnlyMarkedDeleted
=============================================================================
