---------------------------- MODULE ObjectTransform ----------------------------
(***************************************************************************)
(* What the manager's cache keeps of an object (MinimalObjectTransform),   *)
(* and what the code that reads through the cache makes of it: the event   *)
(* filter of the leased objects, the label check of namespaces, the wait   *)
(* for a cleanup Job. Only unstructured objects are stripped.              *)
(***************************************************************************)
EXTENDS LeaseObject

CONSTANTS
  Values       \* values of annotations, labels and conditions

ASSUME ValueAssumption == Absent \notin Values

\* The keys of the lease, one for all the others the cache keeps, and the one
\* of the program's keys it does not.
Keys == {"ttl", "lease-start", "other", "job-env-secrets"}

\* Mutant: lease-start is not kept.
KeptWithoutStart == {"ttl", "other"}

\* The keys buildManagerOptions asks the cache to keep.
Kept == {"ttl", "lease-start", "other"}

\* Annotations are a function from the keys present.
Annotations == UNION { [K -> Values] : K \in SUBSET Keys }

\* Leased objects are watched as unstructured, and of them the program reads
\* annotations through the cache. Namespaces and Jobs are typed: it reads the
\* labels of the ones and the conditions of the others.
CachedObject ==
  [ unstructured : {TRUE}, annotations : Annotations, label : {Absent}, condition : {Absent} ]
  \cup
  [ unstructured : {FALSE}, annotations : {<<>>},
    label : Values \cup {Absent}, condition : Values \cup {Absent} ]

VARIABLES old, new     \* two versions of an object, as the API server has them

changeVars == <<old, new>>

ChangeInit ==
  /\ old \in CachedObject
  /\ new \in { o \in CachedObject : o.unstructured = old.unstructured }

Only(anns, keys) == [k \in keys \cap DOMAIN anns |-> anns[k]]

\* stripU copies the listed annotations and identity, and nothing else.
Transform(o) ==
  IF o.unstructured
  THEN [o EXCEPT !.annotations = Only(@, Kept), !.label = Absent, !.condition = Absent]
  ELSE o

\* leaseRelevantAnns of a cached object.
View(o) ==
  LET at(k) == IF k \in DOMAIN o.annotations THEN o.annotations[k] ELSE Absent
  IN <<at("ttl"), at("lease-start")>>

-----------------------------------------------------------------------------
(* Properties.                                                              *)

\* All readers of the cache decide as they would on the objects themselves: the
\* event filter lets the same changes of leased objects through, the opt-in label
\* of a namespace is there, and so are the conditions of a Job.
StripsNothingNeeded ==
  /\ onlyWithTTLAnnotation(View(Transform(old)), View(Transform(new)))
       = onlyWithTTLAnnotation(View(old), View(new))
  /\ Transform(new).label = new.label
  /\ Transform(new).condition = new.condition
=============================================================================
