---------------------------- MODULE CleanupJobProofs ----------------------------
(***************************************************************************)
(* Proofs about CleanupJob: its types, what the annotations of an object   *)
(* lead to, how long the end of a Job can stay unseen, and that the wait   *)
(* keeps the promise of JobWait. They hold for every period of the ticker, *)
(* every timeout and every number of failed calls.                         *)
(***************************************************************************)
EXTENDS CleanupJob, TLAPS

\* The configuration of annotations that can be read has integers in it.
LEMMA ParsedTyped ==
  ASSUME NEW a \in Annotations
  PROVE  /\ ParseCleanupJobConfig(a) \in Config \cup {None, Refused}
         /\ ParseCleanupJobConfig(a) \notin {None, Refused} => ParseCleanupJobConfig(a) \in Config
<1>1. ASSUME NEW value \in Int \cup {Absent, Invalid}, value # Invalid, NEW default \in Int
      PROVE  Or(value, default) \in Int
  BY <1>1 DEF Or
<1>2. {a.timeout, a.ttl, a.backoff} \subseteq Int \cup {Absent, Invalid}
  BY InputAssumption DEF Annotations
<1>3. {DefaultTimeout, DefaultJobTTL, DefaultJobBackoffLimit} \subseteq Int
  BY DefaultAssumption
<1>4. CASE Invalid \notin {a.wait, a.timeout, a.ttl, a.backoff}
  <2>1. /\ Or(a.timeout, DefaultTimeout) \in Int
        /\ Or(a.ttl, DefaultJobTTL) \in Int
        /\ Or(a.backoff, DefaultJobBackoffLimit) \in Int
    BY <1>1, <1>2, <1>3, <1>4
  <2> QED
    BY <2>1 DEF ParseCleanupJobConfig, Config
<1> QED
  BY <1>4 DEF ParseCleanupJobConfig

-----------------------------------------------------------------------------
(* Types.                                                                   *)

\* TypeOK alone is not inductive: the wait adds the timeout of the configuration
\* to the clock, and there is one only once the annotations have been read.
Configured == pc \in {"create", "wait", "get"} => config \in Config

TypeInv == TypeOK /\ Configured

LEMMA InitTyped == Init => TypeInv
<1> SUFFICES ASSUME Init PROVE TypeInv
  OBVIOUS
<1>1. /\ LastTick \in Nat /\ MaxFaults \in Nat
      /\ Never \in Int /\ 0 \in 0 .. LastTick /\ 0 \in 0 .. MaxFaults /\ Never \in 0 .. Never
  BY BoundAssumption DEF Never
<1>2. TypeOK
  BY <1>1 DEF Init, TypeOK
<1> QED
  BY <1>2 DEF Init, TypeInv, Configured

LEMMA NextTyped == TypeInv /\ [Next]_vars => TypeInv'
<1> SUFFICES ASSUME TypeInv, [Next]_vars PROVE TypeInv'
  OBVIOUS
<1>1. TypeOK /\ Configured
  BY DEF TypeInv
<1>2. LastTick \in Nat /\ MaxFaults \in Nat /\ Poll \in Nat
  BY BoundAssumption
<1>3. Fault => faults' \in 0 .. MaxFaults
  BY <1>1, <1>2 DEF Fault, TypeOK
<1>4. CASE Parse
  BY <1>1, <1>4, ParsedTyped DEF Parse, worldVars, timerVars, TypeInv, TypeOK, Configured
<1>5. CASE Create
  <2>1. config.timeout \in Int
    BY <1>1, <1>5 DEF Create, Configured, Config
  <2>2. nextTick' \in Int /\ deadline' \in Int
    BY <1>1, <1>2, <1>5, <2>1 DEF Create, TypeOK
  <2>3. job' \in {"none", "running", "complete", "failed"} /\ pc' \in {"wait", "delete"}
    BY <1>1, <1>5 DEF Create, TypeOK
  <2>4. faults' \in 0 .. MaxFaults /\ report' = report
    BY <1>1, <1>3, <1>5 DEF Create, TypeOK
  <2> QED
    BY <1>1, <1>5, <2>2, <2>3, <2>4 DEF Create, TypeInv, TypeOK, Configured
<1>6. CASE TimeOut
  BY <1>1, <1>6 DEF TimeOut, Return, worldVars, timerVars, TypeInv, TypeOK, Configured
<1>7. CASE PollJob
  BY <1>1, <1>7 DEF PollJob, worldVars, TypeInv, TypeOK, Configured
<1>8. CASE GetAnswer
  <2>1. faults' \in 0 .. MaxFaults
    BY <1>1, <1>3, <1>8 DEF GetAnswer, TypeOK
  <2>2. pc' \in {"wait", "delete"} /\ report' \in {report, cached, "unreadable"}
    BY <1>8 DEF GetAnswer, Return
  <2>3. report' \in {"none", "complete", "failed", "timeout", "unreadable"}
    BY <1>1, <1>8 DEF GetAnswer, Return, TypeOK
  <2> QED
    BY <1>1, <1>8, <2>1, <2>2, <2>3 DEF GetAnswer, worldVars, timerVars, TypeInv, TypeOK, Configured
<1>9. CASE JobEnds
  <2>1. clock \in 0 .. Never
    BY <1>1, <1>2 DEF TypeOK, Never
  <2> QED
    BY <1>1, <1>9, <2>1 DEF JobEnds, timerVars, TypeInv, TypeOK, Configured
<1>10. CASE JobExpires
  BY <1>1, <1>10 DEF JobExpires, timerVars, TypeInv, TypeOK, Configured
<1>11. CASE CacheSyncs
  <2>1. clock \in 0 .. Never
    BY <1>1, <1>2 DEF TypeOK, Never
  <2> QED
    BY <1>1, <1>11, <2>1 DEF CacheSyncs, Stored, timerVars, TypeInv, TypeOK, Configured
<1>12. CASE Tick
  <2>1. clock' \in 0 .. LastTick /\ nextTick' \in Int
    BY <1>1, <1>2, <1>12 DEF Tick, TypeOK
  <2>2. ticking' \in BOOLEAN /\ late' \in BOOLEAN
    BY <1>12 DEF Tick
  <2> QED
    BY <1>1, <1>12, <2>1, <2>2 DEF Tick, worldVars, TypeInv, TypeOK, Configured
<1>13. CASE UNCHANGED vars
  BY <1>1, <1>13 DEF vars, worldVars, timerVars, TypeInv, TypeOK, Configured
<1> QED
  BY <1>4, <1>5, <1>6, <1>7, <1>8, <1>9, <1>10, <1>11, <1>12, <1>13 DEF Next, Loop

\* Every reachable state is of the declared types.
THEOREM TypeCorrect == Spec => []TypeOK
<1>1. TypeInv => TypeOK
  BY DEF TypeInv
<1> QED
  BY <1>1, InitTyped, NextTyped, PTL DEF Spec

-----------------------------------------------------------------------------
(* What the annotations lead to.                                            *)

\* The Job config asks for can be created.
Accepted(c) == c.ttl >= 0 /\ c.backoff >= 0

Asks == config \in Config /\ Accepted(config)

\* JobAsAsked at every step of the way: the configuration is the one of the
\* annotations, there is no Job before it is created, and a wait begins only
\* with a Job that was accepted and is to be waited for. At the end, what there
\* is agrees with the configuration, unless a call failed.
OnTheWay ==
  /\ pc = "parse" => config = None
  /\ pc # "parse" => config = ParseCleanupJobConfig(anns)
  /\ pc \in {"parse", "create"} => job = "none"
  /\ pc # "delete" => report = "none"
  /\ pc \in {"wait", "get"} => Asks /\ config.wait /\ job # "none"
  /\ pc = "delete" /\ faults = 0 =>
       /\ job # "none" <=> Asks
       /\ report # "none" <=> Asks /\ config.wait

JobInv == TypeInv /\ OnTheWay

LEMMA NextOnTheWay == TypeInv /\ OnTheWay /\ [Next]_vars => OnTheWay'
<1> SUFFICES ASSUME TypeInv, OnTheWay, [Next]_vars PROVE OnTheWay'
  OBVIOUS
<1>1. TypeOK /\ Configured
  BY DEF TypeInv
<1>2. ASSUME Fault PROVE faults' # 0
  BY <1>1, <1>2, BoundAssumption DEF Fault, TypeOK
<1>3. ASSUME UNCHANGED <<anns, config>> PROVE Asks' = Asks
  BY <1>3 DEF Asks, Accepted
<1>4. CASE Parse
  <2>1. config' = ParseCleanupJobConfig(anns) /\ anns' = anns
    BY <1>4 DEF Parse
  <2>2. pc' \in {"create", "delete"} /\ (pc' = "delete" => config' \in {None, Refused})
    BY <1>4 DEF Parse
  <2>3. job' = "none" /\ report' = "none"
    BY <1>4 DEF Parse, worldVars, OnTheWay
  <2>4. pc' = "delete" => ~Asks'
    BY <2>2, ConfigAssumption DEF Asks
  <2> QED
    BY <2>1, <2>2, <2>3, <2>4 DEF OnTheWay
<1>5. CASE Create
  <2>1. config \in Config /\ config = ParseCleanupJobConfig(anns) /\ job = "none" /\ report = "none"
    BY <1>1, <1>5 DEF Create, Configured, OnTheWay
  <2>2. UNCHANGED <<anns, config, report>> /\ pc' \in {"wait", "delete"}
    BY <1>5 DEF Create
  <2>3. ParseCleanupJobConfig(anns)' = ParseCleanupJobConfig(anns)
    BY <2>2 DEF ParseCleanupJobConfig, Or
  <2>4. pc' = "wait" => Accepted(config) /\ config.wait /\ job' # "none"
    BY <1>5 DEF Create, Accepted
  <2>5. pc' = "delete" /\ faults' = 0 => (job' # "none" <=> Accepted(config)) /\ ~(Accepted(config) /\ config.wait)
    <3>1. config.ttl \in Int /\ config.backoff \in Int
      BY <2>1 DEF Config
    <3> QED
      BY <1>2, <1>5, <2>1, <3>1 DEF Create, Accepted
  <2> QED
    BY <1>3, <2>1, <2>2, <2>3, <2>4, <2>5 DEF OnTheWay, Asks
<1>6. ASSUME UNCHANGED <<anns, config, job>>, pc \in {"wait", "get"},
             \/ pc' \in {"wait", "get"} /\ UNCHANGED report
             \/ pc' = "delete" /\ (report' # "none" \/ faults' # 0)
      PROVE  OnTheWay'
  <2>1. ParseCleanupJobConfig(anns)' = ParseCleanupJobConfig(anns)
    BY <1>6 DEF ParseCleanupJobConfig, Or
  <2> QED
    BY <1>3, <1>6, <2>1 DEF OnTheWay
<1>7. CASE Loop
  <2>1. UNCHANGED <<anns, config, job>> /\ pc \in {"wait", "get"}
    BY <1>7 DEF Loop, TimeOut, PollJob, GetAnswer, worldVars
  <2>2. \/ pc' \in {"wait", "get"} /\ UNCHANGED report
        \/ pc' = "delete" /\ (report' # "none" \/ faults' # 0)
    BY <1>7 DEF Loop, TimeOut, PollJob, GetAnswer, Return
  <2> QED
    BY <1>6, <2>1, <2>2
<1>8. ASSUME UNCHANGED <<anns, config, pc, report, faults>>, job' # "none" <=> job # "none"
      PROVE  OnTheWay'
  <2>1. ParseCleanupJobConfig(anns)' = ParseCleanupJobConfig(anns)
    BY <1>8 DEF ParseCleanupJobConfig, Or
  <2> QED
    BY <1>3, <1>8, <2>1 DEF OnTheWay
<1>9. CASE JobEnds \/ JobExpires \/ CacheSyncs \/ Tick \/ UNCHANGED vars
  <2>1. UNCHANGED <<anns, config, pc, report, faults>>
    BY <1>9 DEF JobEnds, JobExpires, CacheSyncs, Tick, vars
  <2>2. job' # "none" <=> job # "none"
    BY <1>9 DEF JobEnds, JobExpires, CacheSyncs, Tick, vars, worldVars
  <2> QED
    BY <1>8, <2>1, <2>2
<1> QED
  BY <1>4, <1>5, <1>7, <1>9 DEF Next

\* The configuration asks for a Job that is accepted exactly if the annotations
\* do, and for a wait exactly if they do.
LEMMA AsksWhatIsAsked ==
  ASSUME NEW a \in Annotations
  PROVE  LET c == ParseCleanupJobConfig(a)
             asked == /\ a.onDeleteJob = "configMap/key"
                      /\ Invalid \notin {a.wait, a.timeout}
                      /\ {a.ttl, a.backoff} \subseteq Nat \cup {Absent}
         IN /\ c \in Config /\ Accepted(c) <=> asked
            /\ c \in Config /\ Accepted(c) => (c.wait <=> a.wait = "true")
<1> DEFINE c == ParseCleanupJobConfig(a)
           asked == /\ a.onDeleteJob = "configMap/key"
                    /\ Invalid \notin {a.wait, a.timeout}
                    /\ {a.ttl, a.backoff} \subseteq Nat \cup {Absent}
<1>1. /\ a.onDeleteJob \in {Absent, "noSlash", "configMap/key"}
      /\ {a.timeout, a.ttl, a.backoff} \subseteq Int \cup {Absent, Invalid}
  BY InputAssumption DEF Annotations
<1>2. ASSUME NEW value \in Int \cup {Absent}, NEW default \in Nat
      PROVE  Or(value, default) >= 0 <=> value \in Nat \cup {Absent}
  BY InputAssumption DEF Or
<1>3. CASE a.onDeleteJob # "configMap/key" \/ Invalid \in {a.wait, a.timeout, a.ttl, a.backoff}
  <2>1. c \in {None, Refused}
    BY <1>1, <1>3 DEF ParseCleanupJobConfig
  <2>2. ~asked
    BY <1>3, InputAssumption
  <2> QED
    BY <2>1, <2>2, ConfigAssumption
<1>4. CASE a.onDeleteJob = "configMap/key" /\ Invalid \notin {a.wait, a.timeout, a.ttl, a.backoff}
  <2>1. c = [ wait    |-> a.wait = "true",
              timeout |-> Or(a.timeout, DefaultTimeout),
              ttl     |-> Or(a.ttl, DefaultJobTTL),
              backoff |-> Or(a.backoff, DefaultJobBackoffLimit) ]
    BY <1>4, InputAssumption DEF ParseCleanupJobConfig
  <2>2. c \in Config
    <3>1. /\ Or(a.timeout, DefaultTimeout) \in Int
          /\ Or(a.ttl, DefaultJobTTL) \in Int
          /\ Or(a.backoff, DefaultJobBackoffLimit) \in Int
      BY <1>1, <1>4, DefaultAssumption DEF Or
    <3> QED
      BY <2>1, <3>1 DEF Config
  <2>3. Or(a.ttl, DefaultJobTTL) >= 0 <=> a.ttl \in Nat \cup {Absent}
    BY <1>1, <1>2, <1>4, DefaultAssumption
  <2>4. Or(a.backoff, DefaultJobBackoffLimit) >= 0 <=> a.backoff \in Nat \cup {Absent}
    BY <1>1, <1>2, <1>4, DefaultAssumption
  <2>5. Accepted(c) <=> asked
    BY <1>4, <2>1, <2>3, <2>4 DEF Accepted
  <2>6. c.wait = (a.wait = "true")
    BY <2>1
  <2> HIDE DEF c, asked
  <2>7. (c \in Config /\ Accepted(c) <=> asked) /\ (c.wait <=> a.wait = "true")
    BY <2>2, <2>5, <2>6
  <2> QED
    BY <2>7 DEF c, asked
<1> QED
  BY <1>3, <1>4

\* Whatever the annotations of an object are, there is a Job, and a wait for it,
\* exactly if they ask for one and all of them can be read, as long as no call
\* fails: one bad annotation costs the Job, and never the deletion.
THEOREM AskedForIsCreated == Spec => []JobAsAsked
<1>1. Init => JobInv
  BY InitTyped DEF Init, JobInv, OnTheWay
<1>2. JobInv /\ [Next]_vars => JobInv'
  BY NextTyped, NextOnTheWay DEF JobInv
<1>3. JobInv => JobAsAsked
  <2> SUFFICES ASSUME JobInv, pc = "delete", faults = 0 PROVE JobAsAsked
    BY DEF JobAsAsked
  <2>1. anns \in Annotations /\ config = ParseCleanupJobConfig(anns)
    BY DEF JobInv, TypeInv, TypeOK, OnTheWay
  <2>2. job # "none" <=> Asks
    BY DEF JobInv, OnTheWay
  <2>3. report # "none" <=> Asks /\ config.wait
    BY DEF JobInv, OnTheWay
  <2> QED
    BY <2>1, <2>2, <2>3, AsksWhatIsAsked DEF JobAsAsked, Asks
<1> QED
  BY <1>1, <1>2, <1>3, PTL DEF Spec

-----------------------------------------------------------------------------
(* What the cache shows.                                                    *)

\* The cache never shows another end than the one the Job had, and there is
\* neither an end nor a Job to be seen before it is created.
CacheIsTrue ==
  /\ cached \in {"complete", "failed"} => cached = job
  /\ pc \in {"parse", "create"} => job = "none"

TruthInv == TypeInv /\ CacheIsTrue

LEMMA InitTrue == Init => TruthInv
  BY InitTyped DEF Init, TruthInv, CacheIsTrue

LEMMA NextTrue == TruthInv /\ [Next]_vars => TruthInv'
<1> SUFFICES ASSUME TruthInv, [Next]_vars PROVE TruthInv'
  OBVIOUS
<1>1. TypeInv' /\ CacheIsTrue
  BY NextTyped DEF TruthInv
<1>2. CASE Parse \/ TimeOut \/ PollJob \/ GetAnswer \/ Tick \/ UNCHANGED vars
  <2>1. UNCHANGED worldVars /\ (pc' \in {"parse", "create"} => pc \in {"parse", "create"})
    BY <1>2 DEF Parse, TimeOut, PollJob, GetAnswer, Return, Tick, vars
  <2> QED
    BY <1>1, <2>1 DEF worldVars, TruthInv, CacheIsTrue
<1>3. CASE Create
  <2>1. pc = "create" /\ cached' = cached /\ pc' \in {"wait", "delete"}
    BY <1>3 DEF Create
  <2>2. job' \in {job, "running"}
    BY <1>3 DEF Create
  <2>3. cached \notin {"complete", "failed"}
    BY <1>1, <2>1 DEF CacheIsTrue
  <2> QED
    BY <1>1, <2>1, <2>3 DEF TruthInv, CacheIsTrue
<1>4. CASE JobEnds
  BY <1>1, <1>4 DEF JobEnds, TruthInv, CacheIsTrue
<1>5. CASE JobExpires
  BY <1>1, <1>5 DEF JobExpires, TruthInv, CacheIsTrue
<1>6. CASE CacheSyncs
  BY <1>1, <1>6 DEF CacheSyncs, Stored, TruthInv, CacheIsTrue
<1> QED
  BY <1>2, <1>3, <1>4, <1>5, <1>6 DEF Next, Loop

-----------------------------------------------------------------------------
(* How long the end of the Job can stay unseen.                             *)

\* The ticker fires within a period from now as long as the loop waits.
TickerRuns == pc \in {"wait", "get"} => clock < nextTick /\ nextTick <= clock + Poll

\* As long as the loop is never late, it does not outlive the deadline, unless
\* that had passed when the wait began.
InTime ==
  /\ pc \in {"parse", "create"} => clock = 0
  /\ pc \in {"wait", "get"} /\ ~late => clock <= deadline \/ clock = 0
  /\ report = "timeout" => deadline <= clock /\ pc = "delete"

\* The cache learns of the end once, and shows the Job running no more.
EndIsSeen ==
  /\ gone => job \in {"complete", "failed"}
  /\ sawEnd # Never =>
       job \in {"complete", "failed"} /\ cached \in {"complete", "failed", "none"}

\* The loop does not come back to its select from a Get that could see the end:
\* it waits for the first tick since the cache learnt of it. A timeout comes
\* within a period of the ticker.
TickAfterEnd ==
  /\ pc = "wait" /\ sawEnd # Never /\ ~late =>
       /\ clock <= sawEnd + Poll
       /\ ~ticking => nextTick <= sawEnd + Poll
  /\ report = "timeout" /\ sawEnd # Never /\ ~late => deadline <= sawEnd + Poll

SightInv == TruthInv /\ TickerRuns /\ InTime /\ EndIsSeen /\ TickAfterEnd

LEMMA InitSeen == Init => SightInv
<1> SUFFICES ASSUME Init PROVE SightInv
  OBVIOUS
<1> QED
  BY InitTrue DEF Init, SightInv, TickerRuns, InTime, EndIsSeen, TickAfterEnd

LEMMA NextSeen == SightInv /\ [Next]_vars => SightInv'
<1> SUFFICES ASSUME SightInv, [Next]_vars PROVE SightInv'
  OBVIOUS
<1>1. TypeOK /\ CacheIsTrue /\ TickerRuns /\ InTime /\ EndIsSeen /\ TickAfterEnd
  BY DEF SightInv, TruthInv, TypeInv
<1>2. TruthInv'
  BY NextTrue DEF SightInv
<1>3. /\ LastTick \in Nat /\ Poll \in Nat \ {0}
      /\ clock \in Nat /\ clock <= LastTick /\ deadline \in Int /\ nextTick \in Int
      /\ sawEnd \in Nat /\ Never \in Nat /\ clock # Never /\ late \in BOOLEAN
  BY <1>1, BoundAssumption DEF TypeOK, Never
<1>4. CASE Parse
  <2>1. /\ UNCHANGED <<worldVars, timerVars, deadline, report, sawEnd, late>>
        /\ pc = "parse" /\ pc' \in {"create", "delete"}
    BY <1>4 DEF Parse
  <2> QED
    BY <1>1, <1>2, <2>1
       DEF worldVars, timerVars, SightInv, TickerRuns, InTime, EndIsSeen, TickAfterEnd
<1>5. CASE Create
  <2>1. /\ UNCHANGED <<clock, gone, cached, sawEnd, late, report>>
        /\ pc = "create" /\ pc' \in {"wait", "delete"}
        /\ pc' = "wait" => nextTick' = clock + Poll
    BY <1>5 DEF Create
  <2>2. clock = 0 /\ report # "timeout" /\ (job' = job \/ job' = "running")
    BY <1>1, <1>5 DEF Create, InTime
  <2>3. TickerRuns' /\ InTime'
    BY <1>3, <2>1, <2>2 DEF TickerRuns, InTime
  <2>4. EndIsSeen' /\ TickAfterEnd'
    <3>1. job = "none" /\ ~gone /\ sawEnd = Never
      BY <1>1, <2>1 DEF CacheIsTrue, EndIsSeen, TypeOK
    <3> QED
      BY <2>1, <2>2, <3>1 DEF EndIsSeen, TickAfterEnd
  <2> QED
    BY <1>2, <2>3, <2>4 DEF SightInv
<1>6. CASE TimeOut
  <2>1. /\ UNCHANGED <<worldVars, timerVars, deadline, sawEnd, late>>
        /\ pc = "wait" /\ pc' = "delete" /\ clock >= deadline
    BY <1>6 DEF TimeOut, Return
  <2>2. TickerRuns' /\ InTime' /\ EndIsSeen'
    BY <1>1, <1>3, <2>1 DEF worldVars, timerVars, TickerRuns, InTime, EndIsSeen
  <2>3. TickAfterEnd'
    BY <1>1, <1>3, <2>1 DEF timerVars, TickAfterEnd
  <2> QED
    BY <1>2, <2>2, <2>3 DEF SightInv
<1>7. CASE PollJob
  <2>1. /\ UNCHANGED <<worldVars, clock, nextTick, deadline, report, sawEnd, late>>
        /\ pc = "wait" /\ pc' = "get"
    BY <1>7 DEF PollJob
  <2> QED
    BY <1>1, <1>2, <1>3, <2>1
       DEF worldVars, SightInv, TickerRuns, InTime, EndIsSeen, TickAfterEnd
<1>8. CASE GetAnswer
  <2>1. /\ UNCHANGED <<worldVars, timerVars, deadline, sawEnd, late>>
        /\ pc = "get" /\ pc' \in {"wait", "delete"}
    BY <1>8 DEF GetAnswer, Return
  <2>2. pc' = "wait" => cached = "running"
    BY <1>8 DEF GetAnswer, Return
  <2>3. report' # "timeout"
    BY <1>1, <1>8 DEF GetAnswer, Return, InTime
  <2>4. TickerRuns' /\ InTime' /\ EndIsSeen'
    BY <1>1, <1>3, <2>1, <2>3 DEF worldVars, timerVars, TickerRuns, InTime, EndIsSeen
  <2>5. TickAfterEnd'
    BY <1>1, <2>1, <2>2, <2>3 DEF EndIsSeen, TickAfterEnd
  <2> QED
    BY <1>2, <2>4, <2>5 DEF SightInv
<1>9. CASE JobEnds \/ JobExpires
  <2>1. UNCHANGED <<pc, cached, timerVars, deadline, report, sawEnd, late>>
    BY <1>9 DEF JobEnds, JobExpires
  <2>2. job' \in {"complete", "failed"}
    BY <1>9 DEF JobEnds, JobExpires
  <2> QED
    BY <1>1, <1>2, <2>1, <2>2
       DEF timerVars, SightInv, TickerRuns, InTime, EndIsSeen, TickAfterEnd
<1>10. CASE CacheSyncs
  <2>1. /\ UNCHANGED <<pc, job, gone, timerVars, deadline, report, late>>
        /\ cached' = Stored
        /\ sawEnd' = sawEnd \/ (sawEnd' = clock /\ Stored \in {"complete", "failed"})
    BY <1>10 DEF CacheSyncs
  <2>2. TickerRuns' /\ InTime'
    BY <1>1, <2>1 DEF timerVars, TickerRuns, InTime
  <2>3. EndIsSeen'
    BY <1>1, <2>1 DEF EndIsSeen, Stored
  <2>4. ASSUME sawEnd' = sawEnd PROVE TickAfterEnd'
    BY <1>1, <2>1, <2>4 DEF timerVars, TickAfterEnd
  <2>5. ASSUME sawEnd' = clock PROVE TickAfterEnd'
    BY <1>1, <1>3, <2>1, <2>5 DEF timerVars, TickerRuns, InTime, TickAfterEnd
  <2>6. TickAfterEnd'
    BY <2>1, <2>4, <2>5
  <2> QED
    BY <1>2, <2>2, <2>3, <2>6 DEF SightInv
<1>11. CASE Tick
  <2>1. /\ UNCHANGED <<pc, worldVars, deadline, report, sawEnd>>
        /\ pc \in {"wait", "get"} /\ clock' = clock + 1
        /\ late' = (late \/ HasWork)
    BY <1>11 DEF Tick
  <2>2. /\ clock' >= nextTick => ticking' /\ nextTick' = nextTick + Poll
        /\ clock' < nextTick => ticking' = ticking /\ nextTick' = nextTick
    <3>1. ticking' = (ticking \/ clock' >= nextTick)
      BY <1>11 DEF Tick
    <3>2. nextTick' = IF clock' >= nextTick THEN nextTick + Poll ELSE nextTick
      BY <1>11 DEF Tick
    <3>3. ticking \in BOOLEAN /\ (clock' < nextTick => ~(clock' >= nextTick))
      BY <1>1, <1>3, <2>1 DEF TypeOK
    <3> QED
      BY <3>1, <3>2, <3>3
  <2>3. TickerRuns'
    BY <1>1, <1>3, <2>1, <2>2 DEF TickerRuns
  <2>4. report # "timeout"
    BY <1>1, <2>1 DEF InTime
  <2>5. ~late' => ~late /\ clock < deadline /\ ~(pc = "wait" /\ ticking)
    <3>1. ~late' => ~late /\ ~HasWork
      BY <2>1
    <3>2. ~HasWork => clock < deadline /\ ~(pc = "wait" /\ ticking)
      BY <1>3, <2>1 DEF HasWork
    <3> QED
      BY <3>1, <3>2
  <2>6. InTime'
    BY <1>3, <2>1, <2>4, <2>5 DEF InTime
  <2>7. EndIsSeen'
    BY <1>1, <2>1 DEF worldVars, EndIsSeen
  <2>8. TickAfterEnd'
    BY <1>1, <1>3, <2>1, <2>2, <2>4, <2>5 DEF TickerRuns, TickAfterEnd
  <2> QED
    BY <1>2, <2>3, <2>6, <2>7, <2>8 DEF SightInv
<1>12. CASE UNCHANGED vars
  BY <1>1, <1>2, <1>12
     DEF vars, worldVars, timerVars, SightInv, TickerRuns, InTime, EndIsSeen, TickAfterEnd
<1> QED
  BY <1>4, <1>5, <1>6, <1>7, <1>8, <1>9, <1>10, <1>11, <1>12 DEF Next, Loop

\* A wait that runs out of time while the cache knew of the end of the Job knew
\* so for at most one period of the ticker, whatever the period and the timeout
\* are: the one tick the ticker's channel holds is enough, unless the loop itself
\* lags behind.
THEOREM EndIsNotMissed == Spec => []SeenInTime
<1>1. SightInv => SeenInTime
  BY DEF SightInv, TickAfterEnd, SeenInTime
<1> QED
  BY <1>1, InitSeen, NextSeen, PTL DEF Spec

-----------------------------------------------------------------------------
(* The wait keeps the promise of JobWait.                                   *)

\* How a step of the wait maps to a step of its promise.
LEMMA StepMaps == TruthInv /\ [Next]_vars => [Wait!Next]_Wait!jobWaitVars
<1> SUFFICES ASSUME TruthInv, [Next]_vars PROVE [Wait!Next]_Wait!jobWaitVars
  OBVIOUS
<1> DEFINE phase   == IF pc \in {"parse", "create"} THEN "before"
                      ELSE IF pc = "delete" THEN "over" ELSE "waiting"
           result  == IF job \in {"complete", "failed"} THEN job ELSE "none"
           inSight == cached = Stored /\ Stored # "none"
<1>1. TypeOK /\ Configured /\ CacheIsTrue
  BY DEF TruthInv, TypeInv
<1>2. clock \in Nat /\ deadline \in Int /\ faults \in Nat
  BY <1>1, BoundAssumption DEF TypeOK
<1>3. Fault => faults' > faults
  BY <1>2 DEF Fault
<1>4. UNCHANGED worldVars => UNCHANGED <<result, inSight>>
  BY DEF worldVars, Stored
<1> USE DEF Wait!jobWaitVars, Wait!waitVars
<1>5. ASSUME UNCHANGED <<phase, report, result, inSight, clock, deadline, faults>>
      PROVE  [Wait!Next]_Wait!jobWaitVars
  BY <1>5 DEF Wait!Next
<1>6. ASSUME UNCHANGED <<pc, report, deadline, faults>>, clock' >= clock,
             result' = result \/ (result = "none" /\ result' \in {"complete", "failed"})
      PROVE  Wait!Next
  <2>1. inSight' \in BOOLEAN /\ phase' = phase
    BY <1>6
  <2> QED
    BY <1>6, <2>1 DEF Wait!Next, Wait!World
<1>7. CASE Parse
  <2>1. UNCHANGED <<worldVars, timerVars, deadline, report, faults>>
    BY <1>7 DEF Parse
  <2>2. CASE pc' = "create"
    <3>1. phase' = phase
      BY <1>7, <2>2 DEF Parse
    <3> QED
      BY <1>4, <1>5, <2>1, <3>1 DEF timerVars
  <2>3. CASE pc' = "delete"
    <3>1. phase = "before" /\ phase' = "over"
      BY <1>7, <2>3 DEF Parse
    <3> QED
      BY <1>4, <2>1, <3>1 DEF timerVars, Wait!Next, Wait!Skip
  <2> QED
    BY <1>7, <2>2, <2>3 DEF Parse
<1>8. CASE Create
  <2>1. phase = "before" /\ UNCHANGED <<report, clock>>
    BY <1>8 DEF Create
  <2>2. result' = result
    BY <1>1, <1>8 DEF Create, CacheIsTrue
  <2>3. CASE pc' = "wait"
    <3>1. phase' = "waiting" /\ deadline' \in Int
      BY <1>1, <1>2, <1>8, <2>3 DEF Create, Configured, Config
    <3> QED
      BY <2>1, <2>2, <3>1 DEF Wait!Next, Wait!Begin
  <2>4. CASE pc' = "delete"
    <3>1. phase' = "over" /\ deadline' = deadline
      BY <1>8, <2>4 DEF Create
    <3> QED
      BY <2>1, <2>2, <3>1 DEF Wait!Next, Wait!Skip
  <2> QED
    BY <1>8, <2>3, <2>4 DEF Create
<1>9. CASE TimeOut
  <2>1. /\ UNCHANGED <<worldVars, timerVars, deadline, faults>>
        /\ phase = "waiting" /\ phase' = "over"
        /\ clock >= deadline /\ report' = "timeout"
    BY <1>9 DEF TimeOut, Return
  <2> QED
    BY <1>4, <2>1 DEF timerVars, Wait!Next, Wait!TimeIsUp, Wait!Found
<1>10. CASE PollJob
  <2>1. UNCHANGED <<worldVars, clock, deadline, report, faults>> /\ phase' = phase
    BY <1>10 DEF PollJob
  <2> QED
    BY <1>4, <1>5, <2>1
<1>11. CASE GetAnswer
  <2>1. UNCHANGED <<worldVars, timerVars, deadline>> /\ phase = "waiting"
    BY <1>11 DEF GetAnswer
  <2>2. ASSUME cached \in {"complete", "failed"}, Return(cached), UNCHANGED faults
        PROVE  Wait!Next
    <3>1. result = cached /\ result # "none" /\ phase' = "over" /\ report' = cached
      BY <1>1, <2>2 DEF Return, CacheIsTrue
    <3> QED
      BY <1>4, <2>1, <2>2, <3>1 DEF timerVars, Wait!Next, Wait!Ended, Wait!Found
  <2>3. ASSUME pc' = "wait", UNCHANGED <<report, faults>> PROVE [Wait!Next]_Wait!jobWaitVars
    <3>1. phase' = phase
      BY <2>1, <2>3
    <3> QED
      BY <1>4, <1>5, <2>1, <2>3, <3>1 DEF timerVars
  <2>4. ASSUME Return("unreadable"), ~inSight \/ faults' > faults PROVE Wait!Next
    <3>1. phase' = "over" /\ report' = "unreadable"
      BY <2>4 DEF Return
    <3> QED
      BY <1>4, <2>1, <2>4, <3>1 DEF timerVars, Wait!Next, Wait!OutOfSight, Wait!Found
  <2>5. cached \in {"none", "unsynced"} => ~inSight
    BY <1>1 DEF Stored, TypeOK
  <2> QED
    BY <1>3, <1>11, <2>2, <2>3, <2>4, <2>5 DEF GetAnswer
<1>12. CASE JobEnds
  <2>1. UNCHANGED <<pc, timerVars, deadline, report, faults>>
    BY <1>12 DEF JobEnds
  <2>2. result = "none" /\ result' \in {"complete", "failed"}
    BY <1>12 DEF JobEnds
  <2> QED
    BY <1>2, <1>6, <2>1, <2>2 DEF timerVars
<1>13. CASE JobExpires \/ CacheSyncs
  <2>1. UNCHANGED <<pc, job, timerVars, deadline, report, faults>>
    BY <1>13 DEF JobExpires, CacheSyncs
  <2> QED
    BY <1>2, <1>6, <2>1 DEF timerVars
<1>14. CASE Tick
  <2>1. UNCHANGED <<pc, job, deadline, report, faults>> /\ clock' >= clock
    BY <1>2, <1>14 DEF Tick, worldVars
  <2> QED
    BY <1>6, <2>1
<1>15. CASE UNCHANGED vars
  BY <1>4, <1>5, <1>15 DEF vars, timerVars
<1> QED
  BY <1>7, <1>8, <1>9, <1>10, <1>11, <1>12, <1>13, <1>14, <1>15 DEF Next, Loop

\* The wait implements JobWait: what it reports is the case. The outcome it names
\* is the one the Job had, it does not give up before its time, and it fails to
\* tell only when the Job was not to be seen or a call failed, although it reads
\* a cache that lags behind and a Job that may be gone before it is seen.
THEOREM WaitIsTruthful == Spec => ReportsTruly
<1>1. Init => Wait!Init
  BY DEF Init, Wait!Init
<1> QED
  BY <1>1, InitTrue, NextTrue, StepMaps, PTL DEF Spec, ReportsTruly, Wait!Spec
=============================================================================
