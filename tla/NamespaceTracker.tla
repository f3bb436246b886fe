--------------------------- MODULE NamespaceTracker ---------------------------
(***************************************************************************)
(* The set of namespaces that opted in (util.NamespaceTracker), and the    *)
(* buffered channels it tells its listeners of changes through. Every      *)
(* operation runs under the tracker's lock, so each is one step.           *)
(***************************************************************************)
EXTENDS Naturals, Sequences

CONSTANTS
  Namespaces,
  Listeners,    \* the channels registered with RegisterListener
  ChanCap       \* the capacity each of them was made with

ASSUME ChanCapAssumption == ChanCap \in Nat \ {0}

VARIABLES
  tracked,      \* namespaces
  chan,         \* chan[l]: the events in the buffer of l
  dropped       \* history: the listeners that have missed an event

trackerVars == <<tracked, chan, dropped>>

Changes == {"added", "removed"}
Events  == [ns : Namespaces, change : Changes]

TrackerTypeOK ==
  /\ tracked \subseteq Namespaces
  /\ chan \in [Listeners -> Seq(Events)]
  /\ \A l \in Listeners : Len(chan[l]) <= ChanCap
  /\ dropped \subseteq Listeners

NewTracker ==
  /\ tracked = {}
  /\ chan = [l \in Listeners |-> <<>>]
  /\ dropped = {}

\* Mutant: the buffer takes one event more than it has room for.
FullTooLate(l) == Len(chan[l]) > ChanCap

\* The default branch of the select: a send would have to wait.
Full(l) == Len(chan[l]) >= ChanCap

\* notifyListeners never waits: a listener whose buffer is full misses the event.
notifyListeners(event) ==
  /\ chan' = [l \in Listeners |->
                IF Full(l) THEN chan[l] ELSE Append(chan[l], event)]
  /\ dropped' = dropped \cup { l \in Listeners : Full(l) }

AddNamespace(ns) ==
  IF ns \in tracked
  THEN UNCHANGED trackerVars
  ELSE /\ tracked' = tracked \cup {ns}
       /\ notifyListeners([ns |-> ns, change |-> "added"])

\* Mutant: a removal tells nobody.
RemoveSilently(ns) ==
  /\ tracked' = tracked \ {ns}
  /\ UNCHANGED <<chan, dropped>>

RemoveNamespace(ns) ==
  IF ns \notin tracked
  THEN UNCHANGED trackerVars
  ELSE /\ tracked' = tracked \ {ns}
       /\ notifyListeners([ns |-> ns, change |-> "removed"])

\* The receiving end of the channel of l.
HasEvent(l)  == chan[l] # <<>>
NextEvent(l) == Head(chan[l])
TakeEvent(l) ==
  /\ chan' = [chan EXCEPT ![l] = Tail(@)]
  /\ UNCHANGED <<tracked, dropped>>
=============================================================================
