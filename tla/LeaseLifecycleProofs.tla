------------------------- MODULE LeaseLifecycleProofs -------------------------
(***************************************************************************)
(* LeaseController keeps the promise of LeaseLifecycle: each of its steps  *)
(* is one the abstract specification allows, or changes nothing the owner  *)
(* of an object sees. One worker, and nobody else deletes.                 *)
(***************************************************************************)
EXTENDS LeaseControllerProofs

\* What the refinement needs beside Judged: the version a reconcile read before
\* it ends or starts a lease is one the object has had, a lease is started at a
\* reading of the clock, and every uid is used for one incarnation.
EndsNoLease     == W.pc = "clean" => noTTL(W.obj) /\ Version(W.name, W.obj) \in held
StartsALease    == W.pc \in {"time", "patchStart"} => ~noTTL(W.obj)
StampIsAReading == W.pc = "patchStart" => W.now \in Instants
UidsAreUsed     == \A v \in held : v.uid < nextUid

Founded == EndsNoLease /\ StartsALease /\ StampIsAReading /\ UidsAreUsed

Inv == TypeInv /\ Judged /\ Founded

\* The mapping.
Leases == [n \in Names |-> LeaseOf(api[n])]

-----------------------------------------------------------------------------
(* What the mapping makes of objects, patches and writes.                   *)

LEMMA LeaseOfType ==
  ASSUME NEW o \in Object
  PROVE  /\ LeaseOf(o) = [uid |-> o.uid, ttl |-> o.ttl, start |-> o.start]
         /\ LeaseOf(o) \in [uid : Nat, ttl : TTLValues, start : Stamps]
         /\ LeaseOf(o) # Gone
<1>1. LeaseOf(o) = [uid |-> o.uid, ttl |-> o.ttl, start |-> o.start]
  BY InputAssumption DEF LeaseOf
<1>2. LeaseOf(o) \in [uid : Nat, ttl : TTLValues, start : Stamps]
  BY <1>1 DEF Object
<1> QED
  BY <1>1, <1>2, InputAssumption

LEMMA LeasesSeen ==
  ASSUME TypeOK
  PROVE  \A n \in Names : /\ Leases[n] = Gone <=> api[n] = Gone
                          /\ api[n] # Gone => /\ Leases[n].uid = api[n].uid
                                              /\ Leases[n].ttl = api[n].ttl
                                              /\ Leases[n].start = api[n].start
<1> SUFFICES ASSUME NEW n \in Names
             PROVE  /\ Leases[n] = Gone <=> api[n] = Gone
                    /\ api[n] # Gone => /\ Leases[n].uid = api[n].uid
                                        /\ Leases[n].ttl = api[n].ttl
                                        /\ Leases[n].start = api[n].start
  OBVIOUS
<1>1. Leases[n] = LeaseOf(api[n])
  BY DEF Leases
<1>2. CASE api[n] = Gone
  BY <1>1, <1>2 DEF LeaseOf
<1>3. CASE api[n] # Gone
  <2>1. api[n] \in Object
    BY <1>3 DEF TypeOK
  <2> QED
    BY <1>1, <1>3, <2>1, LeaseOfType
<1> QED
  BY <1>2, <1>3

\* The abstract specification remembers what the history does.
LEMMA CarriedIsHeld == ASSUME TypeOK PROVE Lifecycle!Carried = HeldNow
<1>1. \A n \in Names : Leases[n] = Gone <=> api[n] = Gone
  BY LeasesSeen
<1>2. \A n \in Names : api[n] # Gone =>
         [name |-> n, uid |-> Leases[n].uid, ttl |-> Leases[n].ttl, start |-> Leases[n].start]
           = [name |-> n, uid |-> api[n].uid, ttl |-> api[n].ttl, start |-> api[n].start]
  BY LeasesSeen
<1> QED
  BY <1>1, <1>2 DEF Lifecycle!Carried, HeldNow, Leases

\* A patch changes of a lease at most its start.
LEMMA LeaseOfMerged ==
  ASSUME NEW server \in Object, NEW base \in Object, NEW new \in Object
  PROVE  LeaseOf(MergePatch(server, base, new)) =
           [LeaseOf(server) EXCEPT !.start = PatchValue(base.start, new.start, server.start)]
<1> DEFINE merged == MergePatch(server, base, new)
<1>1. merged \in Object
  BY MergeType
<1>2. /\ merged.uid = server.uid /\ merged.ttl = server.ttl
      /\ merged.start = PatchValue(base.start, new.start, server.start)
  BY DEF MergePatch, Object
<1> QED
  BY <1>1, <1>2, LeaseOfType

\* A write shows under its name only.
LEMMA LeasesWritten ==
  ASSUME TypeOK, NEW n \in Names, NEW o, Write(n, o)
  PROVE  Leases' = [Leases EXCEPT ![n] = LeaseOf(o)]
  BY DEF TypeOK, Write, Leases, LeaseOf

LEMMA LeasesStay == ASSUME api' = api PROVE Leases' = Leases
  BY DEF Leases, LeaseOf

\* What a patch of the worker does to the leases.
LEMMA PatchMoves ==
  ASSUME TypeInv, SameIncarnation, W.pc \in Busy, NEW new \in Object,
         NEW after \in PatchResults(Worker, new), Patch(Worker, new, after)
  PROVE  LET start == PatchValue(W.obj.start, new.start, api[W.name].start)
         IN  Leases' = Leases \/ Leases' = [Leases EXCEPT ![W.name].start = start]
<1> DEFINE n == W.name
           merged == MergePatch(api[n], W.obj, new)
           start == PatchValue(W.obj.start, new.start, api[n].start)
<1>1. n \in Names /\ W.obj \in Object /\ api[n] \in Object
  BY DEF TypeInv, TypeOK, InFlight, SameIncarnation, Busy, Threads, W
<1>2. api' = api \/ Write(n, merged)
  BY DEF Patch, W
<1>3. CASE api' = api
  BY <1>3, LeasesStay
<1>4. CASE Write(n, merged)
  <2>1. Leases' = [Leases EXCEPT ![n] = LeaseOf(merged)]
    BY <1>1, <1>4, LeasesWritten DEF TypeInv
  <2>2. LeaseOf(merged) = [LeaseOf(api[n]) EXCEPT !.start = start]
    BY <1>1, LeaseOfMerged
  <2>3. Leases[n] = LeaseOf(api[n])
    BY <1>1 DEF Leases
  <2>4. LeaseOf(merged) = [Leases[n] EXCEPT !.start = start]
    BY <2>2, <2>3
  <2>5. Leases' = [Leases EXCEPT ![n].start = start]
    BY <2>1, <2>4
  <2> QED
    BY <2>5
<1> QED
  BY <1>2, <1>3, <1>4

\* A patch that leaves lease-start alone does not show.
LEMMA PatchHidden ==
  ASSUME TypeInv, SameIncarnation, W.pc \in Busy, NEW new \in Object,
         new.start = W.obj.start,
         NEW after \in PatchResults(Worker, new), Patch(Worker, new, after)
  PROVE  Leases' = Leases
<1> DEFINE n == W.name
<1>1. n \in Names /\ api[n] \in Object
  BY DEF TypeInv, TypeOK, InFlight, SameIncarnation, Busy, Threads, W
<1>2. Leases' = Leases \/ Leases' = [Leases EXCEPT ![n].start = api[n].start]
  BY PatchMoves DEF PatchValue
<1>3. Leases[n] = [uid |-> api[n].uid, ttl |-> api[n].ttl, start |-> api[n].start]
  BY <1>1, LeaseOfType DEF Leases
<1>4. [Leases EXCEPT ![n].start = api[n].start] = Leases
  BY <1>1, <1>3 DEF Leases
<1> QED
  BY <1>2, <1>4

-----------------------------------------------------------------------------
(* Each step of the worker is one its promise allows.                       *)

Promised == \/ Leases' = Leases
            \/ \E n \in Names : Lifecycle!Start(n) \/ Lifecycle!End(n) \/ Lifecycle!Expire(n)

\* A version of the incarnation the worker deals with is one the abstract
\* specification counts among the versions of its object.
LEMMA VersionCounts ==
  ASSUME TypeInv, SameIncarnation, W.pc \in Busy,
         NEW v \in held, v.name = W.name, v.uid = W.obj.uid
  PROVE  Leases[W.name] # Gone /\ v \in Lifecycle!Versions(W.name)
<1>1. W.name \in Names /\ api[W.name] # Gone /\ api[W.name].uid = W.obj.uid
  BY DEF TypeInv, InFlight, SameIncarnation, Busy, Threads, W
<1>2. Leases[W.name] # Gone /\ Leases[W.name].uid = W.obj.uid
  BY <1>1, LeasesSeen DEF TypeInv
<1> QED
  BY <1>2 DEF Lifecycle!Versions, Leases

LEMMA CleanMoves ==
  ASSUME Inv, Clean(Worker) PROVE Promised
<1> DEFINE n   == W.name
           v   == Version(n, W.obj)
           new == WithoutLeaseAnns(W.obj)
<1>1. /\ W.pc = "clean" /\ W.pc \in Busy /\ n \in Names /\ W.obj \in Object
      /\ TypeInv /\ SameIncarnation
  BY DEF Clean, Inv, Judged, TypeInv, InFlight, Busy, Phases, Threads, W
<1>2. new \in Object /\ new.start = Absent
  BY <1>1, ClearedTypes DEF WithoutLeaseAnns, Object
<1>3. PICK after \in PatchResults(Worker, new) : Patch(Worker, new, after)
  BY DEF Clean, W
<1>4. CASE W.obj.start = Absent
  BY <1>1, <1>2, <1>3, <1>4, PatchHidden DEF Promised
<1>5. CASE W.obj.start # Absent
  <2>1. Leases' = Leases \/ Leases' = [Leases EXCEPT ![n].start = Absent]
    BY <1>1, <1>2, <1>3, <1>5, PatchMoves DEF PatchValue
  <2>2. v \in held /\ noTTL(W.obj)
    BY <1>1 DEF Inv, Founded, EndsNoLease
  <2>3. v.name = n /\ v.uid = W.obj.uid /\ v.ttl = W.obj.ttl
    BY DEF Version
  <2>4. Leases[n] # Gone /\ v \in Lifecycle!Versions(n)
    BY <1>1, <2>2, <2>3, VersionCounts
  <2>5. Lifecycle!noTTL(v)
    BY <2>2, <2>3 DEF noTTL, Lifecycle!noTTL
  <2>6. Leases' = [Leases EXCEPT ![n].start = Absent] => Lifecycle!End(n)
    BY <2>4, <2>5 DEF Lifecycle!End, Leases
  <2> QED
    BY <1>1, <2>1, <2>6 DEF Promised
<1> QED
  BY <1>4, <1>5

LEMMA PatchStartMoves ==
  ASSUME Inv, PatchStart(Worker) PROVE Promised
<1> DEFINE n   == W.name
           v   == Version(n, W.obj)
           new == [W.obj EXCEPT !.start = Format(W.now)]
<1>1. /\ W.pc = "patchStart" /\ W.pc \in Busy /\ n \in Names /\ W.obj \in Object
      /\ TypeInv /\ SameIncarnation
  BY DEF PatchStart, Inv, Judged, TypeInv, InFlight, Busy, Phases, Threads, W
<1>2. W.now \in Instants /\ W.now <= clock /\ W.now \in Int
  BY <1>1, TimeTypes DEF Inv, Founded, StampIsAReading, Judged, ReadingIsPast
<1>3. new \in Object /\ new.start = Format(W.now) /\ Format(W.now) \in Int
  BY <1>1, <1>2, StampedTypes, FormatType DEF Object
<1>4. PICK after \in PatchResults(Worker, new) : Patch(Worker, new, after)
  BY DEF PatchStart, W
<1>5. v \in held /\ ~HasLeaseStart(W.obj) /\ ~noTTL(W.obj)
  BY <1>1 DEF Inv, Judged, VersionIsHeld, StartIsMissing, Founded, StartsALease
<1>6. Leases' = Leases \/ Leases' = [Leases EXCEPT ![n].start = Format(W.now)]
  <2>1. W.obj.start # Format(W.now)
    BY <1>3, <1>5 DEF HasLeaseStart
  <2> QED
    BY <1>1, <1>3, <1>4, <2>1, PatchMoves DEF PatchValue
<1>7. /\ v.name = n /\ v.uid = W.obj.uid
      /\ v.ttl = W.obj.ttl /\ v.start = W.obj.start
  BY DEF Version
<1>8. Leases[n] # Gone /\ v \in Lifecycle!Versions(n)
  BY <1>1, <1>5, <1>7, VersionCounts
<1>9. ~Lifecycle!noTTL(v) /\ ~Lifecycle!HasLeaseStart(v)
  BY <1>5, <1>7 DEF noTTL, HasLeaseStart, Lifecycle!noTTL, Lifecycle!HasLeaseStart
<1>10. ASSUME Leases' = [Leases EXCEPT ![n].start = Format(W.now)] PROVE Lifecycle!Start(n)
  <2>1. Leases' = [Leases EXCEPT ![n].start = Lifecycle!Format(W.now)]
    BY <1>10 DEF Format, Lifecycle!Format
  <2> QED
    BY <1>2, <1>8, <1>9, <2>1 DEF Lifecycle!Start, Leases
<1> QED
  BY <1>1, <1>6, <1>10 DEF Promised

LEMMA DeleteMoves ==
  ASSUME Inv, Delete(Worker) PROVE Promised
<1> DEFINE n == W.name
<1>1. /\ W.pc = "delete" /\ W.pc \in Busy /\ W.pc \in Doomed /\ n \in Names
      /\ TypeInv /\ SameIncarnation
  BY DEF Delete, Inv, Judged, TypeInv, InFlight, Busy, Doomed, Phases, Threads, W
<1>2. api' = api \/ Write(n, Gone)
  BY DEF Delete, W
<1>3. PICK v \in held : v.name = n /\ v.uid = W.obj.uid /\ Overdue(v, clock)
  BY <1>1 DEF Inv, Judged, DoomIsPromised, WasPromised
<1>4. Leases[n] # Gone /\ v \in Lifecycle!Versions(n)
  BY <1>1, <1>3, VersionCounts
<1>5. Lifecycle!Overdue(v, clock)
  BY <1>3 DEF Overdue, HasLeaseStart, Durations,
              Lifecycle!Overdue, Lifecycle!HasLeaseStart, Lifecycle!Durations
<1>6. ASSUME Write(n, Gone) PROVE Lifecycle!Expire(n)
  <2>1. Leases' = [Leases EXCEPT ![n] = Gone]
    BY <1>1, <1>6, LeasesWritten DEF TypeInv, LeaseOf
  <2> QED
    BY <1>4, <1>5, <2>1 DEF Lifecycle!Expire, Leases
<1> QED
  BY <1>1, <1>2, <1>6, LeasesStay DEF Promised

LEMMA WorkerMoves ==
  ASSUME Inv, ReconcileStep(Worker) PROVE Promised
<1>1. W \in Reconcile /\ TypeInv /\ SameIncarnation
  BY DEF Inv, Judged, TypeInv, TypeOK, Threads, W
<1>2. ASSUME W.pc \in Busy, NEW new \in Object, new.start = W.obj.start,
             \E after \in PatchResults(Worker, new) : Patch(Worker, new, after)
      PROVE  Promised
  BY <1>1, <1>2, PatchHidden DEF Promised
<1>3. ASSUME W.pc \in Busy PROVE W.obj \in Object
  BY <1>1, <1>3 DEF TypeInv, InFlight, Busy, Threads, W
<1>4. CASE PatchInvalid(Worker)
  <2> DEFINE new == [W.obj EXCEPT !.status = BadTTL]
  <2>1. W.pc \in Busy /\ \E after \in PatchResults(Worker, new) : Patch(Worker, new, after)
    BY <1>4 DEF PatchInvalid, Busy, Phases, W
  <2>2. new \in Object /\ new.start = W.obj.start
    BY <1>3, <2>1, ClearedTypes DEF Object
  <2> QED
    BY <1>2, <2>1, <2>2
<1>5. CASE PatchActive(Worker)
  <2> DEFINE new == [W.obj EXCEPT !.expireAt = Format(W.expireAt), !.status = Active(W.expireAt)]
  <2>1. W.pc \in Busy /\ \E after \in PatchResults(Worker, new) : Patch(Worker, new, after)
    BY <1>5 DEF PatchActive, Busy, Phases, W
  <2>2. W.expireAt \in Int
    BY <1>1 DEF Reconcile
  <2>3. new \in Object /\ new.start = W.obj.start
    BY <1>3, <2>1, <2>2, StampedTypes DEF Object
  <2> QED
    BY <1>2, <2>1, <2>3
<1>6. CASE PatchExpired(Worker)
  <2> DEFINE new == [W.obj EXCEPT !.expireAt = Format(W.expireAt), !.status = ExpiredStatus]
  <2>1. W.pc \in Busy /\ \E after \in PatchResults(Worker, new) : Patch(Worker, new, after)
    BY <1>6 DEF PatchExpired, Busy, Phases, W
  <2>2. W.expireAt \in Int
    BY <1>1 DEF Reconcile
  <2>3. new \in Object /\ new.start = W.obj.start
    BY <1>3, <2>1, <2>2, StampedTypes DEF Object
  <2> QED
    BY <1>2, <2>1, <2>3
<1>7. CASE Filter(Worker) \/ Get(Worker) \/ ReadClock(Worker) \/ CreateJob(Worker) \/ WaitJob(Worker)
  <2>1. api' = api
    BY <1>7 DEF Filter, Get, ReadClock, CreateJob, WaitJob
  <2> QED
    BY <2>1, LeasesStay DEF Promised
<1> QED
  BY <1>4, <1>5, <1>6, <1>7, CleanMoves, PatchStartMoves, DeleteMoves DEF ReconcileStep

-----------------------------------------------------------------------------
(* Users, and the invariant.                                                *)

\* What a user's write puts under a name: a new incarnation, or the one there is.
LEMMA UserWrites ==
  ASSUME UserDeletes = FALSE, TypeInv, NEW n \in Names,
         UserCreate(n) \/ UserSetTTL(n) \/ UserSetStart(n) \/ UserSetJob(n) \/ UserDelete(n)
  PROVE  \E o \in Object :
           /\ UserWrite(n, o)
           /\ IF api[n] = Gone THEN o.uid = nextUid /\ nextUid' = nextUid + 1
                               ELSE o.uid = api[n].uid /\ nextUid' = nextUid
  BY UserWritesWhat

LEMMA UserMoves ==
  ASSUME UserDeletes = FALSE, Inv, NEW n \in Names,
         UserCreate(n) \/ UserSetTTL(n) \/ UserSetStart(n) \/ UserSetJob(n) \/ UserDelete(n)
  PROVE  Lifecycle!Owner(n)
<1>1. TypeInv /\ TypeOK
  BY DEF Inv, TypeInv
<1>2. PICK o \in Object :
        /\ UserWrite(n, o)
        /\ IF api[n] = Gone THEN o.uid = nextUid /\ nextUid' = nextUid + 1
                            ELSE o.uid = api[n].uid /\ nextUid' = nextUid
  BY <1>1, UserWrites
<1>3. Leases' = [Leases EXCEPT ![n] = LeaseOf(o)] /\ ops' = ops + 1 /\ clock' = clock
  BY <1>1, <1>2, LeasesWritten DEF UserWrite
<1>4. Leases'[n] = LeaseOf(o) /\ \A m \in Names \ {n} : Leases'[m] = Leases[m]
  BY <1>3 DEF Leases
<1>5. LeaseOf(o) # Gone /\ LeaseOf(o).uid = o.uid
  BY LeaseOfType
<1>6. IF Leases[n] = Gone THEN \A v \in held : v.name = n => v.uid # Leases'[n].uid
                          ELSE Leases'[n].uid = Leases[n].uid
  <2>1. CASE api[n] = Gone
    <3>1. ASSUME NEW v \in held PROVE v.uid # nextUid
      <4>1. v.uid < nextUid /\ v.uid \in Nat /\ nextUid \in Nat
        BY <1>1 DEF TypeOK, Inv, Founded, UidsAreUsed
      <4> QED
        BY <4>1
    <3> QED
      BY <1>1, <1>2, <1>4, <1>5, <2>1, <3>1, LeasesSeen
  <2>2. CASE api[n] # Gone
    BY <1>1, <1>2, <1>4, <1>5, <2>2, LeasesSeen
  <2> QED
    BY <2>1, <2>2
<1> QED
  BY <1>3, <1>4, <1>5, <1>6 DEF Lifecycle!Owner, Leases

\* Every uid in use has been handed out.
LEMMA UidsBelow ==
  ASSUME TypeInv, Inv, NEW n \in Names, api[n] # Gone PROVE api[n].uid < nextUid
<1>1. Version(n, api[n]) \in HeldNow
  BY DEF Version, HeldNow
<1>2. Version(n, api[n]).uid < nextUid
  BY <1>1 DEF Inv, Judged, Founded, UidsAreUsed
<1> QED
  BY <1>2 DEF Version

LEMMA UidsStayUsed ==
  ASSUME Inv, held' = held \cup HeldNow', TypeOK', nextUid' >= nextUid,
         \A n \in Names : api'[n] # Gone => \/ api[n] # Gone /\ api'[n].uid = api[n].uid
                                            \/ api'[n].uid < nextUid'
  PROVE  UidsAreUsed'
<1>1. nextUid \in Nat /\ nextUid' \in Nat /\ TypeInv /\ TypeOK
  BY DEF Inv, TypeInv, TypeOK
<1>2. ASSUME NEW n \in Names, api'[n] # Gone PROVE api'[n].uid < nextUid'
  <2>1. CASE api[n] # Gone /\ api'[n].uid = api[n].uid
    <3>1. api[n].uid < nextUid /\ api[n].uid \in Nat
      BY <1>1, <2>1, UidsBelow DEF TypeOK, Object
    <3> QED
      BY <1>1, <2>1, <3>1
  <2> QED
    BY <1>2, <2>1
<1>3. ASSUME NEW v \in HeldNow' PROVE v.uid < nextUid'
  BY <1>2 DEF HeldNow
<1>4. ASSUME NEW v \in held PROVE v.uid < nextUid'
  <2>1. v.uid \in Nat /\ v.uid < nextUid
    BY <1>1 DEF TypeOK, Inv, Founded, UidsAreUsed
  <2> QED
    BY <1>1, <2>1
<1> QED
  BY <1>3, <1>4 DEF UidsAreUsed

\* A step of the controller makes no incarnation.
LEMMA ControllerUids ==
  ASSUME Inv, Promised, TypeOK', NEW n \in Names, api'[n] # Gone
  PROVE  api[n] # Gone /\ api'[n].uid = api[n].uid
<1>1. Leases'[n] = LeaseOf(api'[n])
  BY DEF Leases, LeaseOf
<1>2. api'[n] \in Object
  BY DEF TypeOK
<1>3. Leases'[n] # Gone /\ Leases'[n].uid = api'[n].uid
  BY <1>1, <1>2, LeaseOfType
<1>4. ASSUME Leases[n] # Gone, Leases'[n].uid = Leases[n].uid
      PROVE  api[n] # Gone /\ api'[n].uid = api[n].uid
  BY <1>3, <1>4, LeasesSeen DEF Inv, TypeInv
<1>5. CASE Leases' = Leases
  BY <1>3, <1>4, <1>5
<1>6. ASSUME NEW m \in Names, NEW s, Leases[m] # Gone, Leases' = [Leases EXCEPT ![m].start = s]
      PROVE  Leases[n] # Gone /\ Leases'[n].uid = Leases[n].uid
  <2>1. CASE n # m
    BY <1>3, <1>6, <2>1 DEF Leases
  <2>2. CASE n = m
    <3>1. api[n] \in Object
      BY <1>6, <2>2, LeasesSeen DEF Inv, TypeInv, TypeOK
    <3>2. Leases[n] = [uid |-> api[n].uid, ttl |-> api[n].ttl, start |-> api[n].start]
      BY <3>1, LeaseOfType DEF Leases
    <3>3. Leases'[n] = [Leases[n] EXCEPT !.start = s]
      BY <1>6, <2>2 DEF Leases
    <3> QED
      BY <1>6, <2>2, <3>2, <3>3
  <2> QED
    BY <2>1, <2>2
<1>7. ASSUME NEW m \in Names, Lifecycle!Start(m) \/ Lifecycle!End(m)
      PROVE  api[n] # Gone /\ api'[n].uid = api[n].uid
  <2>1. \E s : Leases[m] # Gone /\ Leases' = [Leases EXCEPT ![m].start = s]
    BY <1>7 DEF Lifecycle!Start, Lifecycle!End, Leases
  <2> QED
    BY <1>4, <1>6, <2>1
<1>8. ASSUME NEW m \in Names, Lifecycle!Expire(m)
      PROVE  api[n] # Gone /\ api'[n].uid = api[n].uid
  <2>1. Leases' = [Leases EXCEPT ![m] = Gone]
    BY <1>8 DEF Lifecycle!Expire, Leases
  <2>2. n # m /\ Leases'[n] = Leases[n]
    BY <1>3, <2>1 DEF Leases
  <2> QED
    BY <1>3, <1>4, <2>2
<1> QED
  BY <1>5, <1>7, <1>8 DEF Promised

\* Only the read of the object leads the worker to the phases that end and start
\* leases, and only the reading of the clock from the one to the other.
LEMMA WorkerReaches ==
  ASSUME TypeInv, Goroutines = {}, Next, W'.pc \in {"clean", "time", "patchStart"}
  PROVE  \/ W' = W
         \/ Get(Worker)
         \/ ReadClock(Worker) /\ W'.pc = "patchStart"
<1>1. Worker \in Threads /\ W \in Reconcile
  BY DEF TypeInv, TypeOK, Threads, W
<1>2. ASSUME NEW when, Return(Worker, when) PROVE FALSE
  BY <1>1, <1>2 DEF Return, Idle, TypeInv, TypeOK, W
<1>3. ASSUME NEW n \in Names, Dequeue(n) PROVE FALSE
  BY <1>1, <1>3 DEF Dequeue, Started, Idle, TypeInv, TypeOK, W
<1>4. ~Crash
  BY <1>1 DEF Crash, Idle, W
<1>5. ~Filter(Worker)
  <2>1. ~(run' = [run EXCEPT ![Worker].pc = "get"])
    BY <1>1 DEF TypeInv, TypeOK, Reconcile, W
  <2> QED
    BY <1>2, <2>1 DEF Filter
<1>6. ~(Clean(Worker) \/ PatchInvalid(Worker) \/ PatchActive(Worker) \/ Delete(Worker))
  BY <1>2 DEF Clean, PatchInvalid, PatchActive, Delete
<1>7. ASSUME NEW o, NEW s, NEW reading, run' = [run EXCEPT ![Worker] = Decided(Worker, o, s, reading)]
      PROVE  FALSE
  <2>1. Verdict(o.ttl, s, reading) \in {"markInvalid", "expire", "activate"}
    BY DEF Verdict
  <2>2. W' = Decided(Worker, o, s, reading)
    BY <1>1, <1>7 DEF TypeInv, TypeOK, W
  <2>3. W'.pc \in {"patchInvalid", "patchExpired", "patchActive"}
    BY <1>1, <2>1, <2>2 DEF Decided, Reconcile, W
  <2> QED
    BY <2>3
<1>8. ~PatchStart(Worker)
  BY <1>7 DEF PatchStart
<1>9. ReadClock(Worker) => W'.pc = "patchStart"
  <2>1. ASSUME ReadClock(Worker), ~HasLeaseStart(W.obj) PROVE W'.pc = "patchStart"
    BY <1>1, <2>1 DEF ReadClock, TypeInv, TypeOK, Reconcile, W
  <2>2. ASSUME ReadClock(Worker), HasLeaseStart(W.obj) PROVE FALSE
    BY <1>7, <2>2 DEF ReadClock, W
  <2> QED
    BY <2>1, <2>2
<1>10. PatchExpired(Worker) => W'.pc \in {"createJob", "delete"}
  BY <1>1 DEF PatchExpired, TypeInv, TypeOK, Reconcile, W
<1>11. CreateJob(Worker) => W'.pc \in {"waitJob", "delete"}
  BY <1>1 DEF CreateJob, TypeInv, TypeOK, Reconcile, W
<1>12. WaitJob(Worker) => W'.pc = "delete"
  BY <1>1 DEF WaitJob, TypeInv, TypeOK, Reconcile, W
<1>13. ASSUME ReconcileStep(Worker)
       PROVE  Get(Worker) \/ (ReadClock(Worker) /\ W'.pc = "patchStart")
  <2>1. ~PatchExpired(Worker) /\ ~CreateJob(Worker) /\ ~WaitJob(Worker)
    BY <1>10, <1>11, <1>12
  <2>2. Get(Worker) \/ ReadClock(Worker)
    BY ONLY <1>5, <1>6, <1>8, <1>13, <2>1 DEF ReconcileStep
  <2> QED
    BY <1>9, <2>2
<1>14. ASSUME run' = run PROVE W' = W
  BY <1>14 DEF W
<1> QED
  BY <1>3, <1>4, <1>13, <1>14
  DEF Next, System, Environment, World, Users, Restart, Threads, Deliver, Tick, FinishJob, Miss,
      UserCreate, UserSetTTL, UserSetStart, UserSetJob, UserDelete, UserWrite

LEMMA InitFounds == ASSUME Init PROVE Founded
<1>1. W = Idle
  BY DEF Init, LeaseInit, Threads, W
<1>2. ASSUME NEW n \in Names, api[n] # Gone PROVE api[n].uid = 0
  BY <1>2, InputAssumption DEF Init, LeaseInit
<1>3. \A v \in HeldNow : v.uid = 0
  BY <1>2 DEF HeldNow
<1>4. UidsAreUsed
  BY <1>3 DEF UidsAreUsed, Init, LeaseInit
<1> QED
  BY <1>1, <1>4 DEF Founded, EndsNoLease, StartsALease, StampIsAReading, Idle

\* What the worker goes by stays founded, or was read just now.
LEMMA WorkerFounds ==
  ASSUME Goroutines = {}, Inv, Next, TypeInv'
  PROVE  EndsNoLease' /\ StartsALease' /\ StampIsAReading'
<1>1. TypeInv /\ Worker \in Threads /\ W \in Reconcile /\ held \subseteq held' /\ HeldNow \subseteq held
  BY TimeGoesOn DEF Inv, Judged, TypeInv, TypeOK, Threads, W
<1>2. CASE W'.pc \notin {"clean", "time", "patchStart"}
  BY <1>2 DEF EndsNoLease, StartsALease, StampIsAReading
<1>3. CASE W' = W
  <2>1. EndsNoLease'
    BY <1>1, <1>3 DEF Inv, Founded, EndsNoLease, Version, noTTL
  <2> QED
    BY <1>3, <2>1 DEF Inv, Founded, StartsALease, StampIsAReading, noTTL
<1>4. ASSUME Get(Worker), W'.pc \in {"clean", "time", "patchStart"}
      PROVE  EndsNoLease' /\ StartsALease' /\ StampIsAReading'
  <2> DEFINE n == W.name
             o == api[n]
  <2>1. ASSUME NEW when, Return(Worker, when) PROVE FALSE
    BY <1>1, <1>4, <2>1 DEF Return, Idle, TypeInv, TypeOK, W
  <2>2. /\ W.pc = "get" /\ o # Gone
        /\ \/ ~noTTL(o) /\ W' = [W EXCEPT !.pc = "time", !.obj = o]
           \/ noTTL(o) /\ W' = [W EXCEPT !.pc = "clean", !.obj = o]
    BY <1>1, <1>4, <2>1 DEF Get, TypeInv, TypeOK, W
  <2>3. n \in Names
    BY <1>1, <2>2 DEF TypeInv, InFlight, W
  <2>4. Version(n, o) \in held
    BY <1>1, <2>2, <2>3 DEF Version, HeldNow
  <2>5. /\ W'.obj = o /\ W'.name = n
        /\ \/ ~noTTL(o) /\ W'.pc = "time"
           \/ noTTL(o) /\ W'.pc = "clean"
    BY <1>1, <2>2 DEF Reconcile
  <2>6. EndsNoLease'
    BY <1>1, <2>4, <2>5 DEF EndsNoLease, Version, noTTL
  <2> QED
    BY <2>5, <2>6 DEF StartsALease, StampIsAReading, noTTL
<1>5. ASSUME ReadClock(Worker), W'.pc = "patchStart"
      PROVE  EndsNoLease' /\ StartsALease' /\ StampIsAReading'
  <2>1. W.pc = "time" /\ ~noTTL(W.obj)
    BY <1>5 DEF ReadClock, W, Inv, Founded, StartsALease
  <2>2. ~HasLeaseStart(W.obj)
    <3>1. SUFFICES ASSUME HasLeaseStart(W.obj) PROVE FALSE
      OBVIOUS
    <3>2. W' = Decided(Worker, W.obj, W.obj.start, clock)
      BY <1>1, <1>5, <3>1 DEF ReadClock, TypeInv, TypeOK, W
    <3>3. Verdict(W.obj.ttl, W.obj.start, clock) \in {"markInvalid", "expire", "activate"}
      BY DEF Verdict
    <3>4. W'.pc \in {"patchInvalid", "patchExpired", "patchActive"}
      BY <1>1, <3>2, <3>3 DEF Decided, Reconcile, W
    <3> QED
      BY <1>5, <3>4
  <2>3. W' = [W EXCEPT !.pc = "patchStart", !.now = clock]
    BY <1>1, <1>5, <2>2 DEF ReadClock, TypeInv, TypeOK, W
  <2>4. W'.obj = W.obj /\ W'.now = clock /\ clock \in Instants
    BY <1>1, <2>3 DEF Reconcile, TypeInv, TypeOK
  <2> QED
    BY <1>5, <2>1, <2>4 DEF EndsNoLease, StartsALease, StampIsAReading, noTTL
<1> QED
  BY <1>1, <1>2, <1>3, <1>4, <1>5, WorkerReaches

LEMMA NextFounds ==
  ASSUME UserDeletes = FALSE, Goroutines = {}, Inv, Next PROVE Inv'
<1>1. TypeInv' /\ TypeOK' /\ Judged'
  BY NextTyped, NextJudges DEF Inv, TypeInv
<1>2. held' = held \cup HeldNow' /\ nextUid \in Nat
  BY DEF Next, Inv, TypeInv, TypeOK
<1>3. ASSUME api' = api, nextUid' = nextUid PROVE UidsAreUsed'
  BY <1>1, <1>2, <1>3, UidsStayUsed
<1>4. ASSUME ReconcileStep(Worker), nextUid' = nextUid PROVE UidsAreUsed'
  <2>1. Promised
    BY <1>4, WorkerMoves
  <2>2. \A n \in Names : api'[n] # Gone => api[n] # Gone /\ api'[n].uid = api[n].uid
    BY <1>1, <2>1, ControllerUids
  <2> QED
    BY <1>1, <1>2, <1>4, <2>2, UidsStayUsed
<1>5. ASSUME NEW n \in Names,
             UserCreate(n) \/ UserSetTTL(n) \/ UserSetStart(n) \/ UserSetJob(n) \/ UserDelete(n)
      PROVE  UidsAreUsed'
  <2>1. PICK o \in Object :
          /\ UserWrite(n, o)
          /\ IF api[n] = Gone THEN o.uid = nextUid /\ nextUid' = nextUid + 1
                              ELSE o.uid = api[n].uid /\ nextUid' = nextUid
    BY <1>5, UserWrites DEF Inv
  <2>2. api' = [api EXCEPT ![n] = o] /\ o # Gone
    BY <2>1, InputAssumption DEF UserWrite, Write
  <2>3. api'[n] = o /\ \A m \in Names \ {n} : api'[m] = api[m]
    BY <2>2 DEF Inv, TypeInv, TypeOK
  <2>4. nextUid' >= nextUid /\ (api[n] = Gone => o.uid < nextUid')
    BY <1>2, <2>1
  <2> QED
    BY <1>1, <1>2, <2>1, <2>3, <2>4, UidsStayUsed
<1>6. UidsAreUsed'
  <2>1. CASE System
    BY <1>3, <1>4, <2>1 DEF System, outerVars, Dequeue, Deliver, Threads
  <2>2. CASE World \/ Restart
    BY <1>3, <2>2 DEF World, Restart, outerVars, Tick, FinishJob, Miss, Crash
  <2>3. CASE Users
    BY <1>5, <2>3 DEF Users
  <2> QED
    BY <2>1, <2>2, <2>3 DEF Next, Environment
<1> QED
  BY <1>1, <1>6, WorkerFounds DEF Inv, Founded

-----------------------------------------------------------------------------
(* The refinement.                                                          *)

LEMMA CarriedIsHeldNext == ASSUME TypeOK' PROVE Lifecycle!Carried' = HeldNow'
<1>1. ASSUME NEW n \in Names
      PROVE  /\ Leases'[n] = Gone <=> api'[n] = Gone
             /\ api'[n] # Gone =>
                  [name |-> n, uid |-> Leases'[n].uid, ttl |-> Leases'[n].ttl, start |-> Leases'[n].start]
                    = [name |-> n, uid |-> api'[n].uid, ttl |-> api'[n].ttl, start |-> api'[n].start]
  <2>1. Leases'[n] = LeaseOf(api'[n])
    BY DEF Leases, LeaseOf
  <2>2. CASE api'[n] = Gone
    BY <2>1, <2>2 DEF LeaseOf
  <2>3. CASE api'[n] # Gone
    <3>1. api'[n] \in Object
      BY <2>3 DEF TypeOK
    <3> QED
      BY <2>1, <2>3, <3>1, LeaseOfType
  <2> QED
    BY <2>2, <2>3
<1>2. \A n \in Names : Leases'[n] = Gone <=> api'[n] = Gone
  BY <1>1
<1>3. \A n \in Names : api'[n] # Gone =>
         [name |-> n, uid |-> Leases'[n].uid, ttl |-> Leases'[n].ttl, start |-> Leases'[n].start]
           = [name |-> n, uid |-> api'[n].uid, ttl |-> api'[n].ttl, start |-> api'[n].start]
  BY <1>1
<1> QED
  BY ONLY <1>2, <1>3 DEF Lifecycle!Carried, HeldNow, Leases

\* A step of the process is a step of its promise, or hidden from the owner.
LEMMA StepKept ==
  ASSUME UserDeletes = FALSE, Goroutines = {}, Inv, Next
  PROVE  Lifecycle!Next \/ UNCHANGED Lifecycle!lifecycleVars
<1>1. TypeOK /\ TypeOK' /\ HeldNow \subseteq held
  BY NextTyped DEF Inv, TypeInv, Judged
<1>2. held' = held \cup Lifecycle!Carried'
  BY <1>1, CarriedIsHeldNext DEF Next
<1>3. ASSUME Leases' = Leases, clock' = clock, ops' = ops
      PROVE  UNCHANGED Lifecycle!lifecycleVars
  <2>1. Lifecycle!Carried' = Lifecycle!Carried
    BY <1>3 DEF Lifecycle!Carried, Leases
  <2>2. held' = held
    BY <1>1, <1>2, <2>1, CarriedIsHeld
  <2> QED
    BY <1>3, <2>2 DEF Lifecycle!lifecycleVars, Leases
<1>4. ASSUME Promised, clock' = clock, ops' = ops
      PROVE  Lifecycle!Next \/ UNCHANGED Lifecycle!lifecycleVars
  <2>1. ASSUME NEW n \in Names, Lifecycle!Start(n) \/ Lifecycle!End(n) \/ Lifecycle!Expire(n)
        PROVE  Lifecycle!Next
    BY <1>2, <1>4, <2>1 DEF Lifecycle!Next, Lifecycle!Controller
  <2> QED
    BY <1>3, <1>4, <2>1 DEF Promised
<1>5. CASE System
  <2>1. clock' = clock /\ ops' = ops
    BY <1>5 DEF System, outerVars, Dequeue, Deliver, ReconcileStep
  <2>2. Promised
    BY <1>5, WorkerMoves, LeasesStay DEF System, Dequeue, Deliver, Threads, Promised
  <2> QED
    BY <1>4, <2>1, <2>2
<1>6. CASE World
  <2>1. CASE Tick
    <3>1. clock' \in Instants /\ clock' > clock /\ Leases' = Leases
      BY <2>1, LeasesStay DEF Tick
    <3>2. Lifecycle!Time
      BY <1>6, <3>1 DEF World, outerVars, Lifecycle!Time, Leases
    <3> QED
      BY <1>2, <3>2 DEF Lifecycle!Next
  <2>2. CASE \E j \in jobs : FinishJob(j)
    BY <1>3, <1>6, <2>2, LeasesStay DEF FinishJob, World, outerVars
  <2>3. CASE \E n \in Names : Miss(n)
    BY <1>3, <1>6, <2>3, LeasesStay DEF Miss, World, outerVars
  <2> QED
    BY <1>6, <2>1, <2>2, <2>3 DEF World
<1>7. CASE Users
  <2>1. \E n \in Names : Lifecycle!Owner(n)
    BY <1>7, UserMoves DEF Users
  <2> QED
    BY <1>2, <2>1 DEF Lifecycle!Next
<1>8. CASE Restart
  BY <1>3, <1>8, LeasesStay DEF Restart, Crash
<1> QED
  BY <1>5, <1>6, <1>7, <1>8 DEF Next, Environment

\* The controller keeps its promise: with one worker and nobody else deleting,
\* it writes lease-start only into an incarnation that once had a ttl and no
\* lease-start, removes it only from one that once had no ttl, deletes only what
\* was overdue, and otherwise leaves uid, ttl and lease-start of every object
\* alone, whatever calls fail or lose their answers and wherever the process
\* crashes. It says nothing of what users write between the read and the patch.
THEOREM PromiseKept ==
  ASSUME UserDeletes = FALSE, Goroutines = {} PROVE Spec => KeepsPromise
<1>1. Init => Inv /\ Lifecycle!Init
  <2>1. ASSUME Init PROVE Inv /\ Lifecycle!Init
    <3>1. Inv
      BY <2>1, InitTyped, InitJudges, InitFounds DEF Inv
    <3> QED
      BY <2>1, <3>1, CarriedIsHeld DEF Inv, TypeInv, Lifecycle!Init, Init, LeaseInit
  <2> QED
    BY <2>1
<1>2. Inv /\ [Next]_vars => Inv'
  <2>1. ASSUME Inv, Next PROVE Inv'
    BY <2>1, NextFounds
  <2>2. ASSUME Inv, UNCHANGED vars PROVE Inv'
    BY <2>2 DEF vars, Inv, TypeInv, TypeOK, InFlight, Judged, SameIncarnation,
       ReadingIsPast, VersionIsHeld, StartIsMissing, DoomIsPromised, WasPromised,
       HeldNow, W, Founded, EndsNoLease, StartsALease, StampIsAReading, UidsAreUsed,
       Version
  <2> QED
    BY <2>1, <2>2
<1>3. Inv /\ [Next]_vars => [Lifecycle!Next]_(Lifecycle!lifecycleVars)
  <2>1. ASSUME UNCHANGED vars PROVE UNCHANGED Lifecycle!lifecycleVars
    BY <2>1 DEF vars, Lifecycle!lifecycleVars, LeaseOf
  <2> QED
    BY <2>1, StepKept
<1> QED
  BY <1>1, <1>2, <1>3, PTL DEF Spec, KeepsPromise, Lifecycle!Spec
=============================================================================
