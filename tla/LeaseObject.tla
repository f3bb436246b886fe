---------------------------- MODULE LeaseObject ----------------------------
(***************************************************************************)
(* The data of the lease controller: the annotations of a leased object,   *)
(* what they mean at an instant, and how a merge patch changes them.       *)
(*                                                                         *)
(* Time is counted in ticks of the clock the program reads (time.Now).     *)
(* The controller writes stamps in RFC3339, which keeps whole seconds:     *)
(* Sec ticks make a second, and formatting a stamp loses the rest.         *)
(***************************************************************************)
EXTENDS Integers

CONSTANTS
  Absent,   \* no such annotation key on the object
  Empty,    \* the key is there, its value is the empty string
  Invalid,  \* any value the parser of that annotation refuses
  Gone,     \* what the API server holds under a name without an object
  Sec       \* clock ticks in a second

ASSUME SecAssumption  == Sec \in Nat \ {0}
ASSUME MarkAssumption ==
  /\ {Absent, Empty, Invalid} \cap Int = {}
  /\ Invalid \notin {Absent, Empty}

Durations == Int                               \* parsed ttl values, in ticks
TTLValues == Int \cup {Absent, Empty, Invalid}
Stamps    == Int \cup {Absent, Empty, Invalid}

\* time.Time.Format(time.RFC3339), read back as a number of ticks.
Format(t) == (t \div Sec) * Sec

\* The three texts the controller writes into lease-status. Only the text of
\* an active lease carries a value, the formatted time of its expiry.
Active(e)     == <<"active", Format(e)>>
ExpiredStatus == <<"expired", 0>>
BadTTL        == <<"invalid", 0>>
StatusTexts   == {"active", "expired", "invalid"} \X Int

\* What the on-delete-job and job-wait annotations amount to once
\* ParseCleanupJobConfig has read them: no job, a refused configuration, a job
\* nobody waits for, or a job the controller waits for.
JobModes == {"none", "bad", "fire", "wait"}

Object == [ uid      : Nat,                    \* identity of the incarnation
            ttl      : TTLValues,
            start    : Stamps,                 \* lease-start
            expireAt : Int \cup {Absent},
            status   : StatusTexts \cup {Absent},
            job      : JobModes ]

ASSUME StatusAssumption == Absent \notin StatusTexts

-----------------------------------------------------------------------------
(* What the event filter sees.                                             *)

Views == (TTLValues \X Stamps) \cup {Gone}

\* leaseRelevantAnns: the two annotations whose change wakes the controller.
leaseRelevantAnns(o) == IF o = Gone THEN Gone ELSE <<o.ttl, o.start>>

\* Mutant: an update passes only when the new version has a ttl.
UpdatesWithTTLOnly(old, new) ==
  /\ new # Gone
  /\ new[1] # Absent
  /\ old # new

\* Mutant: of the updates, only a change of ttl passes.
TTLChangesOnly(old, new) ==
  /\ new # Gone
  /\ IF old = Gone THEN new[1] # Absent ELSE old[1] # new[1]

\* onlyWithTTLAnnotation: a creation passes when the ttl key is there, whatever
\* its value, an update when a relevant annotation changed, a deletion never.
onlyWithTTLAnnotation(old, new) ==
  /\ new # Gone
  /\ IF old = Gone THEN new[1] # Absent ELSE old # new

-----------------------------------------------------------------------------
(* What Reconcile decides from the annotations.                            *)

noTTL(o) == o.ttl \in {Absent, Empty}

HasLeaseAnns(o) == \/ o.expireAt # Absent
                   \/ o.status # Absent
                   \/ o.start # Absent

\* Mutant: the expiry is blanked and its key kept.
BlankedLeaseAnns(o) ==
  [o EXCEPT !.expireAt = Empty, !.status = Absent, !.start = Absent]

\* The object cleanupLeaseAnnotations asks for.
WithoutLeaseAnns(o) ==
  [o EXCEPT !.expireAt = Absent, !.status = Absent, !.start = Absent]

\* ensureLeaseStart keeps a lease-start it can parse and replaces the others.
HasLeaseStart(o) == o.start \in Int

\* Mutant: the comparison forgets that formatted stamps lose part of a second.
RoundedVerdict(ttl, startAt, now) ==
  IF ttl \notin Durations         THEN "markInvalid"
  ELSE IF now + Sec > startAt + ttl THEN "expire"
  ELSE                                   "activate"

\* What follows once the start of the lease is known: Reconcile parses the ttl
\* and compares the clock reading it took with the end of the lease. The
\* comparison is strict (now.After): at the very end the lease is still active.
Verdict(ttl, startAt, now) ==
  IF ttl \notin Durations       THEN "markInvalid"
  ELSE IF now > startAt + ttl   THEN "expire"
  ELSE                               "activate"

ExpiryOf(ttl, startAt) == IF ttl \in Durations THEN startAt + ttl ELSE 0

-----------------------------------------------------------------------------
(* client.MergeFrom(base): the patch holds the annotations in which new      *)
(* differs from base, and the server puts those, and only those, into the    *)
(* object it has under that name, whichever incarnation that is now.         *)

\* Mutant: an update writes the whole copy.
CopyValue(base, new, server) == new

PatchValue(base, new, server) == IF new = base THEN server ELSE new

MergePatch(server, base, new) ==
  [server EXCEPT !.start    = PatchValue(base.start, new.start, @),
                 !.expireAt = PatchValue(base.expireAt, new.expireAt, @),
                 !.status   = PatchValue(base.status, new.status, @)]

\* Mutant: the deletion goes by name alone.
NoPrecondition(server, obj) == TRUE

\* DeleteWithUIDPrecondition: the server deletes what it has under the name only
\* if it is the incarnation of the local copy.
UIDPrecondition(server, obj) == server.uid = obj.uid

-----------------------------------------------------------------------------
(* What the annotations of an object promise at time t; used by properties.  *)

\* The lease of o is over at t. A lease that has not started starts now.
Overdue(o, t) ==
  /\ o.ttl \in Durations
  /\ IF HasLeaseStart(o) THEN t > o.start + o.ttl ELSE o.ttl < 0
=============================================================================
