------------------------------- MODULE CleanupJob -------------------------------
(***************************************************************************)
(* One cleanup of an expired object (handleExpired, executeCleanupJob):    *)
(* the annotations are parsed into a configuration, a Job is created, and, *)
(* if the configuration says so, polled through the manager's cache until  *)
(* it has ended or the time is up. Whatever comes of it, the object is     *)
(* deleted next. Time is counted in seconds.                               *)
(***************************************************************************)
EXTENDS Integers

CONSTANTS
  Absent,          \* no value, or the empty string
  Invalid,         \* a value the parser of that annotation refuses
  None,            \* the configuration of an object that asks for no Job
  Refused,         \* the configuration of annotations that cannot be read
  Timeouts,        \* the values of job-timeout, parsed
  Numbers,         \* the values of job-ttl and job-backoff-limit, parsed
  DefaultTimeout,  \* 5 minutes in the code
  DefaultJobTTL,
  DefaultJobBackoffLimit,
  Poll,            \* the period of the ticker, 2 seconds in the code
  LastTick,        \* bound on the clock
  MaxFaults        \* bound on the calls that fail

ASSUME InputAssumption ==
  /\ Timeouts \subseteq Int \cup {Absent, Invalid}
  /\ Numbers \subseteq Int \cup {Absent, Invalid}
  /\ {Absent, Invalid} \cap (Int \cup {"noSlash", "configMap/key"}) = {}
  /\ Absent # Invalid
ASSUME DefaultAssumption == {DefaultTimeout, DefaultJobTTL, DefaultJobBackoffLimit} \subseteq Nat
ASSUME BoundAssumption   == Poll \in Nat \ {0} /\ {LastTick, MaxFaults} \subseteq Nat

\* The annotations ParseCleanupJobConfig can trip over.
Annotations == [ onDeleteJob : {Absent, "noSlash", "configMap/key"},
                 wait        : {Absent, "true", "false", Invalid},
                 timeout     : Timeouts,
                 ttl         : Numbers,
                 backoff     : Numbers ]

Config == [wait : BOOLEAN, timeout : Int, ttl : Int, backoff : Int]

ASSUME ConfigAssumption == None # Refused /\ None \notin Config /\ Refused \notin Config

VARIABLES
  anns,       \* the annotations of the object
  config,     \* what was made of them
  pc,
  clock,
  job,        \* the Job: how far it has got, "none" before it is created
  gone,       \* whether it has been removed from the API server
  endedAt,    \* when it ended
  cached,     \* the Job in the cache, "unsynced" before the first list
  ticking,    \* whether the ticker's channel holds a tick
  nextTick,   \* when the ticker fires next
  deadline,   \* when the context of the wait ends
  report,     \* what the wait returned
  faults,
  sawEnd,     \* history: when the cache learnt that the Job had ended
  late        \* history: time has passed while the loop had something to do

worldVars == <<job, gone, endedAt, cached>>
timerVars == <<clock, ticking, nextTick>>
vars == <<anns, config, pc, worldVars, timerVars, deadline, report, faults, sawEnd, late>>

Never == LastTick + 1

Fault == /\ faults < MaxFaults
         /\ faults' = faults + 1

-----------------------------------------------------------------------------
(* The configuration.                                                       *)

Or(value, default) == IF value = Absent THEN default ELSE value

\* Mutant: no defaults.
NoDefaults(a) ==
  IF a.onDeleteJob = Absent THEN None
  ELSE IF a.onDeleteJob = "noSlash" \/ Invalid \in {a.wait, a.timeout, a.ttl, a.backoff}
  THEN Refused
  ELSE [wait |-> a.wait = "true", timeout |-> a.timeout, ttl |-> a.ttl, backoff |-> a.backoff]

\* Mutant: an unreadable timeout is replaced by the default.
LenientCleanupJobConfig(a) ==
  IF a.onDeleteJob = Absent THEN None
  ELSE IF a.onDeleteJob = "noSlash" \/ Invalid \in {a.wait, a.ttl, a.backoff} THEN Refused
  ELSE [ wait    |-> a.wait = "true",
         timeout |-> IF a.timeout = Invalid THEN DefaultTimeout ELSE Or(a.timeout, DefaultTimeout),
         ttl     |-> Or(a.ttl, DefaultJobTTL),
         backoff |-> Or(a.backoff, DefaultJobBackoffLimit) ]

\* Without on-delete-job the other annotations are not looked at; with it, one
\* that cannot be read is enough to refuse them all.
ParseCleanupJobConfig(a) ==
  IF a.onDeleteJob = Absent THEN None
  ELSE IF a.onDeleteJob = "noSlash" \/ Invalid \in {a.wait, a.timeout, a.ttl, a.backoff}
  THEN Refused
  ELSE [ wait    |-> a.wait = "true",
         timeout |-> Or(a.timeout, DefaultTimeout),
         ttl     |-> Or(a.ttl, DefaultJobTTL),
         backoff |-> Or(a.backoff, DefaultJobBackoffLimit) ]

Parse ==
  /\ pc = "parse"
  /\ config' = ParseCleanupJobConfig(anns)
  /\ pc' = IF config' \in {None, Refused} THEN "delete" ELSE "create"
  /\ UNCHANGED <<anns, worldVars, timerVars, deadline, report, faults, sawEnd, late>>

\* The API server takes no Job with a negative ttl or backoff limit. A failed
\* call may have created the Job. The wait begins with the creation's answer.
Create ==
  /\ pc = "create"
  /\ \/ /\ config.ttl >= 0 /\ config.backoff >= 0
        /\ job' = "running"
        /\ pc' = IF config.wait THEN "wait" ELSE "delete"
        /\ deadline' = IF config.wait THEN clock + config.timeout ELSE deadline
        /\ nextTick' = IF config.wait THEN clock + Poll ELSE nextTick
        /\ UNCHANGED <<report, faults>>
     \/ /\ config.ttl < 0 \/ config.backoff < 0
        /\ pc' = "delete"
        /\ UNCHANGED <<job, deadline, nextTick, report, faults>>
     \/ /\ Fault
        /\ job' \in {job} \cup (IF config.ttl >= 0 /\ config.backoff >= 0 THEN {"running"} ELSE {})
        /\ pc' = "delete"
        /\ UNCHANGED <<deadline, nextTick, report>>
  /\ UNCHANGED <<anns, config, clock, gone, endedAt, cached, ticking, sawEnd, late>>

-----------------------------------------------------------------------------
(* WaitForJobCompletion.                                                    *)

Return(what) == pc' = "delete" /\ report' = what

\* The select with both channels ready takes either.
TimeOut ==
  /\ pc = "wait"
  /\ clock >= deadline
  /\ Return("timeout")
  /\ UNCHANGED <<anns, config, worldVars, timerVars, deadline, faults, sawEnd, late>>

PollJob ==
  /\ pc = "wait"
  /\ ticking
  /\ ticking' = FALSE
  /\ pc' = "get"
  /\ UNCHANGED <<anns, config, worldVars, clock, nextTick, deadline, report, faults, sawEnd, late>>

\* Mutant: a Job that is gone has completed.
GetAnswerGoneIsDone ==
  /\ pc = "get"
  /\ \/ /\ cached \in {"complete", "failed"}
        /\ Return(cached)
        /\ UNCHANGED faults
     \/ /\ cached = "running"
        /\ pc' = "wait"
        /\ UNCHANGED <<report, faults>>
     \/ /\ cached = "none"
        /\ Return("complete")
        /\ UNCHANGED faults
     \/ /\ cached = "unsynced" /\ clock >= deadline
        /\ Return("unreadable")
        /\ UNCHANGED faults
     \/ /\ Fault
        /\ Return("unreadable")
  /\ UNCHANGED <<anns, config, worldVars, timerVars, deadline, sawEnd, late>>

\* Mutant: the first Get waits for the cache and not for the context.
GetAnswerWhenSynced ==
  /\ pc = "get"
  /\ cached # "unsynced"
  /\ \/ /\ cached \in {"complete", "failed"}
        /\ Return(cached)
     \/ /\ cached = "running"
        /\ pc' = "wait"
        /\ UNCHANGED report
     \/ /\ cached = "none"
        /\ Return("unreadable")
  /\ UNCHANGED <<anns, config, worldVars, timerVars, deadline, faults, sawEnd, late>>

\* The answer comes from the cache: a Job that is not there, or not there yet,
\* is an error like any other. The first Get of a Job starts the cache and
\* waits for its first list, or for the end of the context.
GetAnswer ==
  /\ pc = "get"
  /\ \/ /\ cached \in {"complete", "failed"}
        /\ Return(cached)
        /\ UNCHANGED faults
     \/ /\ cached = "running"
        /\ pc' = "wait"
        /\ UNCHANGED <<report, faults>>
     \/ /\ cached = "none"
        /\ Return("unreadable")
        /\ UNCHANGED faults
     \/ /\ cached = "unsynced" /\ clock >= deadline
        /\ Return("unreadable")
        /\ UNCHANGED faults
     \/ /\ Fault
        /\ Return("unreadable")
  /\ UNCHANGED <<anns, config, worldVars, timerVars, deadline, sawEnd, late>>

-----------------------------------------------------------------------------
(* Jobs, the cache and time.                                                *)

JobEnds ==
  /\ job = "running"
  /\ job' \in {"complete", "failed"}
  /\ endedAt' = clock
  /\ UNCHANGED <<anns, config, pc, gone, cached, timerVars, deadline, report, faults, sawEnd, late>>

\* ttlSecondsAfterFinished.
JobExpires ==
  /\ job \in {"complete", "failed"}
  /\ ~gone
  /\ clock >= endedAt + config.ttl
  /\ gone' = TRUE
  /\ UNCHANGED <<anns, config, pc, job, endedAt, cached, timerVars, deadline, report, faults, sawEnd, late>>

\* What the API server has of the Job.
Stored == IF gone THEN "none" ELSE job

\* The cache catches up; it lists for the first time when the first Job is got.
CacheSyncs ==
  /\ cached # Stored
  /\ cached = "unsynced" => pc = "get"
  /\ cached' = Stored
  /\ sawEnd' = IF sawEnd = Never /\ Stored \in {"complete", "failed"} THEN clock ELSE sawEnd
  /\ UNCHANGED <<anns, config, pc, job, gone, endedAt, timerVars, deadline, report, faults, late>>

\* The loop has a step to take: the select, or a Get that need not wait.
HasWork == \/ pc = "wait" /\ (ticking \/ clock >= deadline)
           \/ pc = "get" /\ (cached # "unsynced" \/ clock >= deadline)

\* Mutant: the ticker needs twice its period.
SlowTick ==
  /\ pc \in {"wait", "get"}
  /\ clock < LastTick
  /\ clock' = clock + 1
  /\ ticking' = (ticking \/ clock' >= nextTick)
  /\ nextTick' = IF clock' >= nextTick THEN nextTick + 2 * Poll ELSE nextTick
  /\ late' = (late \/ HasWork)
  /\ UNCHANGED <<anns, config, pc, worldVars, deadline, report, faults, sawEnd>>

\* Time counts from the start of the wait. The ticker's channel holds one tick,
\* further ones are dropped.
Tick ==
  /\ pc \in {"wait", "get"}
  /\ clock < LastTick
  /\ clock' = clock + 1
  /\ ticking' = (ticking \/ clock' >= nextTick)
  /\ nextTick' = IF clock' >= nextTick THEN nextTick + Poll ELSE nextTick
  /\ late' = (late \/ HasWork)
  /\ UNCHANGED <<anns, config, pc, worldVars, deadline, report, faults, sawEnd>>

-----------------------------------------------------------------------------
\* The cache may have been in use before, and have no such Job.
Init ==
  /\ anns \in Annotations
  /\ config = None
  /\ pc = "parse"
  /\ clock = 0
  /\ job = "none"
  /\ gone = FALSE
  /\ endedAt = Never
  /\ cached \in {"unsynced", "none"}
  /\ ticking = FALSE
  /\ nextTick = Never
  /\ deadline = Never
  /\ report = "none"
  /\ faults = 0
  /\ sawEnd = Never
  /\ late = FALSE

Loop == TimeOut \/ PollJob \/ GetAnswer

Next == \/ Parse \/ Create
        \/ Loop
        \/ JobEnds \/ JobExpires \/ CacheSyncs
        \/ Tick

Spec == Init /\ [][Next]_vars

\* The controller and the clock go on. Jobs need not end, and the cache need not
\* catch up.
FairSpec == Spec /\ WF_vars(Parse \/ Create) /\ WF_vars(Loop) /\ WF_vars(Tick)

-----------------------------------------------------------------------------
(* Properties.                                                              *)

TypeOK ==
  /\ anns \in Annotations
  /\ config \in Config \cup {None, Refused}
  /\ pc \in {"parse", "create", "wait", "get", "delete"}
  /\ clock \in 0 .. LastTick
  /\ job \in {"none", "running", "complete", "failed"}
  /\ gone \in BOOLEAN
  /\ endedAt \in 0 .. Never
  /\ cached \in {"unsynced", "none", "running", "complete", "failed"}
  /\ ticking \in BOOLEAN
  /\ {nextTick, deadline} \subseteq Int
  /\ report \in {"none", "complete", "failed", "timeout", "unreadable"}
  /\ faults \in 0 .. MaxFaults
  /\ sawEnd \in 0 .. Never
  /\ late \in BOOLEAN

\* When the object is about to be deleted, there has been a Job exactly if the
\* object asked for one in annotations that can all be read and are accepted,
\* and it was waited for exactly if the object asked for that, too: one bad
\* annotation costs the Job, and never the deletion. Holds if no call failed.
JobAsAsked ==
  pc = "delete" /\ faults = 0 =>
    LET asked == /\ anns.onDeleteJob = "configMap/key"
                 /\ Invalid \notin {anns.wait, anns.timeout}
                 /\ {anns.ttl, anns.backoff} \subseteq Nat \cup {Absent}
    IN /\ job # "none" <=> asked
       /\ report # "none" <=> asked /\ anns.wait = "true"

\* A wait that runs out of time while the cache knew that the Job had ended knew
\* so for no longer than the period of the ticker, and less than that if the
\* deadline came first: no tick is lost between two reads, unless the loop itself
\* lags behind. A timeout below the period may always miss the end.
SeenInTime ==
  report = "timeout" /\ sawEnd # Never /\ ~late => deadline <= sawEnd + Poll

\* The wait comes to an end, whether or not the Job does and the cache is there.
WaitEnds == pc \in {"wait", "get"} ~> pc = "delete"

Wait == INSTANCE JobWait
          WITH phase   <- IF pc \in {"parse", "create"} THEN "before"
                          ELSE IF pc = "delete" THEN "over" ELSE "waiting",
               answer  <- report,
               result  <- IF job \in {"complete", "failed"} THEN job ELSE "none",
               inSight <- cached = Stored /\ Stored # "none",
               time    <- clock,
               until   <- deadline,
               errors  <- faults

\* What the wait reports is the case, although it reads a cache that lags behind
\* a Job that may be gone before it is seen: the outcome it names is the one the
\* Job had, it does not give up before its time, and it fails to tell only when
\* the Job was not to be seen or a call failed.
ReportsTruly == Wait!Spec
=============================================================================
