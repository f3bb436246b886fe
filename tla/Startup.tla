-------------------------------- MODULE Startup --------------------------------
(***************************************************************************)
(* What run decides from flags, environment and pod before the manager     *)
(* starts: whether to elect a leader and where the lock lives, whether     *)
(* namespaces have to opt in, or whether not to run at all.                *)
(***************************************************************************)
EXTENDS Integers

\* The values LEASE_LEADER_ELECTION is checked with: unset, every way of saying
\* true or false that one of its two readers treats apart, and no boolean.
EnvWords == {"", "true", "tRuE", "1", "t", "false", "0", "f", "yes"}

\* The namespace file of the pod: readable in a cluster, missing outside of one.
Pods == {"inCluster", "outside", "unreadable"}

Settings == [ leaderElect     : BOOLEAN,          \* --leader-elect
              electNamespace  : {"", "byFlag"},   \* --leader-elect-namespace
              envElect        : EnvWords,         \* LEASE_LEADER_ELECTION
              envNamespace    : {"", "byEnv"},    \* LEASE_LEADER_ELECTION_NAMESPACE
              pod             : Pods,
              version         : {"", "v"},        \* and kind, treated alike
              optInKey        : {"", "k"},
              optInValue      : {"", "v"} ]

VARIABLE settings      \* what the process is started with

StartupInit == settings \in Settings

First(a, b) == IF a # "" THEN a ELSE b

\* parseParameters turns the election on for true in any case and for 1.
TurnsOn(word) == word \in {"true", "tRuE", "1"}

\* strconv.ParseBool.
IsTrue(word)  == word \in {"true", "1", "t"}
IsFalse(word) == word \in {"false", "0", "f"}

parseParameters(s) ==
  [ leader    |-> s.leaderElect \/ TurnsOn(s.envElect),
    namespace |-> First(s.electNamespace, s.envNamespace) ]

\* What controller-runtime and parseLeaderElectionConfig take from the pod.
PodNamespace(s) == IF s.pod = "inCluster" THEN "ofPod" ELSE ""

Refused == [leader |-> FALSE, namespace |-> "refused"]

\* Mutant: the pod's namespace is no default.
NoPodDefault(leader, namespace, s) ==
  IF leader \/ s.envElect = "" THEN [leader |-> leader, namespace |-> namespace]
  ELSE IF ~IsTrue(s.envElect) /\ ~IsFalse(s.envElect) THEN Refused
  ELSE IF IsFalse(s.envElect) THEN [leader |-> FALSE, namespace |-> namespace]
  ELSE IF namespace = "" THEN Refused
  ELSE [leader |-> TRUE, namespace |-> namespace]

\* parseLeaderElectionConfig reads the variable again if the election is still
\* off. A namespace file that is there and cannot be read leaves none.
parseLeaderElectionConfig(leader, namespace, s) ==
  IF leader \/ s.envElect = "" THEN [leader |-> leader, namespace |-> namespace]
  ELSE IF ~IsTrue(s.envElect) /\ ~IsFalse(s.envElect) THEN Refused
  ELSE IF IsFalse(s.envElect) THEN [leader |-> FALSE, namespace |-> namespace]
  ELSE IF namespace = "" /\ s.pod = "outside" THEN Refused
  ELSE [leader |-> TRUE, namespace |-> First(namespace, PodNamespace(s))]

\* configureNamespaceReconciler: without both settings there is no tracker, and
\* every namespace is managed.
OptIn(s) == s.optInKey # "" /\ s.optInValue # ""

\* newManager refuses to elect a leader without a namespace for the lock, and
\* run panics.
Outcome(s) ==
  LET params == parseParameters(s)
      config == parseLeaderElectionConfig(params.leader, params.namespace, s)
      lock   == First(config.namespace, PodNamespace(s))
  IN IF config = Refused \/ s.version = "" \/ (config.leader /\ lock = "")
     THEN [runs |-> FALSE]
     ELSE [runs |-> TRUE, leader |-> config.leader, optIn |-> OptIn(s),
           lock |-> IF config.leader THEN lock ELSE ""]

-----------------------------------------------------------------------------
(* Properties.                                                              *)

SameWord(v, w) == (IsTrue(v) /\ IsTrue(w)) \/ (IsFalse(v) /\ IsFalse(w))

\* LEASE_LEADER_ELECTION is read by two functions with different rules, of which
\* only one looks for a namespace. All the same, two words for the same boolean
\* never make a difference: the process runs or stops alike, elects a leader
\* alike, and under a lock in the same namespace.
SpellingsAgree ==
  \A w \in EnvWords :
    SameWord(settings.envElect, w) =>
      Outcome([settings EXCEPT !.envElect = w]) = Outcome(settings)
=============================================================================
