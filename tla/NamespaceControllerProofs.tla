---------------------- MODULE NamespaceControllerProofs ----------------------
(***************************************************************************)
(* Proofs about NamespaceController: the types, what the listener of the   *)
(* tracker learns (ReplayIsTracked, TrackedIsListed), and that the tracker *)
(* follows the labels (SettledMatches).                                    *)
(***************************************************************************)
EXTENDS NamespaceController, SequenceTheorems, TLAPS

-----------------------------------------------------------------------------
(* The types.                                                               *)

\* A reconcile under way is about a namespace; an idle one is about none.
AboutNamespace == run.pc = "idle" <=> run.ns = None

TypeInv == TypeOK /\ AboutNamespace

\* What a notification does to the channels.
LEMMA NotifyTyped ==
  ASSUME TrackerTypeOK, NEW e \in Events, notifyListeners(e)
  PROVE  /\ chan' \in [Listeners -> Seq(Events)]
         /\ \A l \in Listeners : Len(chan'[l]) <= ChanCap
         /\ dropped' \subseteq Listeners
<1> USE DEF TrackerTypeOK
<1>1. ASSUME NEW l \in Listeners
      PROVE  chan'[l] \in Seq(Events) /\ Len(chan'[l]) <= ChanCap
  <2>1. chan'[l] = IF Full(l) THEN chan[l] ELSE Append(chan[l], e)
    BY DEF notifyListeners
  <2>2. CASE Full(l)
    BY <2>1, <2>2
  <2>3. CASE ~Full(l)
    <3>1. Len(chan[l]) \in Nat
      OBVIOUS
    <3>2. Len(chan[l]) < ChanCap
      BY <2>3, <3>1, ChanCapAssumption DEF Full
    <3>3. Len(Append(chan[l], e)) = Len(chan[l]) + 1
      OBVIOUS
    <3>4. QED
      BY <2>1, <2>3, <3>1, <3>2, <3>3, ChanCapAssumption
  <2>4. QED
    BY <2>2, <2>3
<1>2. chan' = [l \in Listeners |-> chan'[l]]
  BY DEF notifyListeners
<1>3. QED
  BY <1>1, <1>2 DEF notifyListeners

LEMMA AddTyped ==
  ASSUME TrackerTypeOK, NEW n \in Namespaces, AddNamespace(n)
  PROVE  TrackerTypeOK'
<1>1. [ns |-> n, change |-> "added"] \in Events
  BY DEF Events, Changes
<1>2. CASE n \in tracked
  BY <1>2 DEF AddNamespace, trackerVars, TrackerTypeOK
<1>3. CASE n \notin tracked
  <2>1. tracked' \subseteq Namespaces
    BY <1>3 DEF AddNamespace, TrackerTypeOK
  <2>2. notifyListeners([ns |-> n, change |-> "added"])
    BY <1>3 DEF AddNamespace
  <2>3. QED
    BY <1>1, <2>1, <2>2, NotifyTyped DEF TrackerTypeOK
<1>4. QED
  BY <1>2, <1>3

LEMMA RemoveTyped ==
  ASSUME TrackerTypeOK, NEW n \in Namespaces, RemoveNamespace(n)
  PROVE  TrackerTypeOK'
<1>1. [ns |-> n, change |-> "removed"] \in Events
  BY DEF Events, Changes
<1>2. CASE n \notin tracked
  BY <1>2 DEF RemoveNamespace, trackerVars, TrackerTypeOK
<1>3. CASE n \in tracked
  <2>1. tracked' \subseteq Namespaces
    BY <1>3 DEF RemoveNamespace, TrackerTypeOK
  <2>2. notifyListeners([ns |-> n, change |-> "removed"])
    BY <1>3 DEF RemoveNamespace
  <2>3. QED
    BY <1>1, <2>1, <2>2, NotifyTyped DEF TrackerTypeOK
<1>4. QED
  BY <1>2, <1>3

LEMMA InitTyped == Init => TypeInv
<1> SUFFICES ASSUME Init PROVE TypeInv
  OBVIOUS
<1>1. TrackerTypeOK
  BY ChanCapAssumption DEF Init, NewTracker, TrackerTypeOK
<1>2. watch \in [Namespaces -> Seq(Versions)]
  <2>1. ASSUME NEW n \in Namespaces PROVE Listed(n) \in Seq(Versions)
    BY DEF Init, Listed
  <2>2. QED
    BY <2>1 DEF Init
<1>3. Idle \in [pc : {"idle", "get", "track"}, ns : Namespaces \cup {None}, found : Versions]
  BY DEF Idle, Versions
<1>4. ops \in 0 .. MaxOps /\ faults \in 0 .. MaxFaults /\ crashes \in 0 .. MaxCrashes
  BY LimitAssumption DEF Init
<1>5. QED
  BY <1>1, <1>2, <1>3, <1>4, NamespaceAssumption
     DEF Init, TypeInv, TypeOK, AboutNamespace, Idle, Versions

\* The versions that are left after the k-th has been brought.
LEMMA RestOfSeq ==
  ASSUME NEW S, NEW s \in Seq(S), NEW k \in 1 .. Len(s)
  PROVE  /\ SubSeq(s, k + 1, Len(s)) \in Seq(S)
         /\ Len(SubSeq(s, k + 1, Len(s))) = Len(s) - k
         /\ \A i \in 1 .. Len(s) - k : SubSeq(s, k + 1, Len(s))[i] = s[k + i]
<1>1. \A i \in k + 1 .. Len(s) : s[i] \in S
  BY ElementOfSeq
<1>2. Len(s) \in Nat /\ k + 1 \in Int
  OBVIOUS
<1>3. QED
  BY <1>1, <1>2, SubSeqProperties

LEMMA WatchTyped ==
  ASSUME TypeInv, NEW n \in Namespaces, Watch(n)
  PROVE  TypeInv'
<1> USE DEF TypeInv, TypeOK
<1>1. PICK k \in 1 .. Len(watch[n]) :
        /\ store' = [store EXCEPT ![n] = watch[n][k]]
        /\ watch' = [watch EXCEPT ![n] = SubSeq(@, k + 1, Len(@))]
        /\ notices' = IF store[n] = Gone /\ watch[n][k] = Gone THEN notices
                      ELSE [notices EXCEPT ![n] = Append(@, <<store[n], watch[n][k]>>)]
  BY DEF Watch
<1>2. watch[n] \in Seq(Versions) /\ watch[n][k] \in Versions /\ store[n] \in Versions
  BY ElementOfSeq
<1>3. SubSeq(watch[n], k + 1, Len(watch[n])) \in Seq(Versions)
  BY <1>2, RestOfSeq
<1>4. Append(notices[n], <<store[n], watch[n][k]>>) \in Seq(Versions \X Versions)
  BY <1>2
<1>5. QED
  BY <1>1, <1>2, <1>3, <1>4 DEF Watch, trackerVars, clusterVars, loopVars, TrackerTypeOK, AboutNamespace

LEMMA HandleTyped ==
  ASSUME TypeInv, NEW n \in Namespaces, Handle(n)
  PROVE  TypeInv'
<1> USE DEF TypeInv, TypeOK
<1>1. Tail(notices[n]) \in Seq(Versions \X Versions)
  BY HeadTailProperties DEF Handle
<1>2. QED
  BY <1>1 DEF Handle, trackerVars, clusterVars, loopVars, TrackerTypeOK, AboutNamespace

LEMMA DequeueTyped ==
  ASSUME TypeInv, NEW n \in Namespaces, Dequeue(n)
  PROVE  TypeInv'
BY NamespaceAssumption
   DEF TypeInv, TypeOK, Dequeue, Idle, Versions, trackerVars, clusterVars, watchVars, loopVars,
       TrackerTypeOK, AboutNamespace

LEMMA GetTyped ==
  ASSUME TypeInv, Get
  PROVE  TypeInv'
<1> USE DEF TypeInv, TypeOK, AboutNamespace
<1>1. run.ns \in Namespaces
  BY DEF Get
<1>2. store[run.ns] \in Versions
  BY <1>1
<1>3. CASE run' = [run EXCEPT !.pc = "track", !.found = store[run.ns]] /\ UNCHANGED <<queued, faults>>
  BY <1>1, <1>2, <1>3, NamespaceAssumption
     DEF Get, trackerVars, clusterVars, watchVars, loopVars, TrackerTypeOK
<1>4. CASE Fault /\ run' = Idle /\ queued' = queued \cup {run.ns}
  <2>1. faults' \in 0 .. MaxFaults
    BY <1>4, LimitAssumption DEF Fault
  <2>2. QED
    BY <1>1, <1>4, <2>1 DEF Get, Idle, Versions, trackerVars, clusterVars, watchVars, loopVars, TrackerTypeOK
<1>5. QED
  BY <1>3, <1>4 DEF Get

LEMMA TrackTyped ==
  ASSUME TypeInv, Track
  PROVE  TypeInv'
<1> USE DEF TypeInv, TypeOK, AboutNamespace
<1>1. run.ns \in Namespaces
  BY DEF Track
<1>2. TrackerTypeOK'
  BY <1>1, AddTyped, RemoveTyped DEF Track
<1>3. QED
  BY <1>2 DEF Track, Idle, Versions, clusterVars, watchVars

LEMMA ReceiveTyped ==
  ASSUME TypeInv, Receive
  PROVE  TypeInv'
<1> USE DEF TypeInv, TypeOK
<1>1. Watcher \in Listeners /\ chan[Watcher] \in Seq(Events) /\ chan[Watcher] # <<>>
  BY ListenerAssumption DEF TrackerTypeOK, Receive, HasEvent
<1>2. Head(chan[Watcher]) \in Events /\ Tail(chan[Watcher]) \in Seq(Events)
      /\ Len(Tail(chan[Watcher])) = Len(chan[Watcher]) - 1
  BY <1>1, HeadTailProperties
<1>3. TrackerTypeOK'
  BY <1>1, <1>2, ChanCapAssumption DEF Receive, TakeEvent, TrackerTypeOK
<1>4. NextEvent(Watcher).ns \in Namespaces
  BY <1>2 DEF NextEvent, Events
<1>5. QED
  BY <1>3, <1>4 DEF Receive, clusterVars, watchVars, AboutNamespace

LEMMA ListObjectsTyped ==
  ASSUME TypeInv, ListObjects
  PROVE  TypeInv'
<1> USE DEF TypeInv, TypeOK
<1>1. faults' \in 0 .. MaxFaults
  BY LimitAssumption DEF ListObjects, Fault
<1>2. QED
  BY <1>1 DEF ListObjects, trackerVars, clusterVars, watchVars, TrackerTypeOK, AboutNamespace

LEMMA UserWriteTyped ==
  ASSUME TypeInv, NEW n \in Namespaces, UserWrite(n)
  PROVE  TypeInv'
<1> USE DEF TypeInv, TypeOK
<1>1. PICK new \in Versions :
        /\ label' = [label EXCEPT ![n] = new]
        /\ watch' = [watch EXCEPT ![n] = Append(@, new)]
  BY DEF UserWrite
<1>2. ops' \in 0 .. MaxOps
  BY LimitAssumption DEF UserWrite
<1>3. QED
  BY <1>1, <1>2 DEF UserWrite, trackerVars, loopVars, TrackerTypeOK, AboutNamespace

LEMMA CrashTyped ==
  ASSUME TypeInv, Crash
  PROVE  TypeInv'
<1> USE DEF TypeInv, TypeOK
<1>1. TrackerTypeOK'
  BY ChanCapAssumption DEF Crash, TrackerTypeOK
<1>2. watch' \in [Namespaces -> Seq(Versions)]
  BY DEF Crash, Listed
<1>3. crashes' \in 0 .. MaxCrashes
  BY LimitAssumption DEF Crash
<1>4. QED
  BY <1>1, <1>2, <1>3 DEF Crash, Idle, Versions, clusterVars, AboutNamespace

LEMMA NextTyped == TypeInv /\ [Next]_vars => TypeInv'
<1> SUFFICES ASSUME TypeInv, [Next]_vars PROVE TypeInv'
  OBVIOUS
<1>1. CASE UNCHANGED vars
  BY <1>1 DEF vars, trackerVars, clusterVars, watchVars, loopVars, TypeInv, TypeOK, TrackerTypeOK,
              AboutNamespace
<1>2. CASE Next
  BY <1>2, WatchTyped, HandleTyped, DequeueTyped, UserWriteTyped, GetTyped, TrackTyped,
     ReceiveTyped, ListObjectsTyped, CrashTyped DEF Next, Reconcile, EventLoop
<1>3. QED
  BY <1>1, <1>2

\* The state keeps the types of NamespaceController: what the worker, the event
\* loop and the informer hold are namespaces and versions of them, and no
\* channel ever holds more than its capacity, for any set of namespaces and any
\* capacity.
THEOREM TypeCorrect == Spec => []TypeOK
<1>1. TypeInv => TypeOK
  BY DEF TypeInv
<1>2. QED
  BY <1>1, InitTyped, NextTyped, PTL DEF Spec

-----------------------------------------------------------------------------
(* SettledMatches. The tracker follows the store, and the store the labels, *)
(* each with something on its way whenever the one lags behind the other.   *)

\* The last version of n the informer has, or will have.
Latest(n) == IF watch[n] = <<>> THEN store[n] ELSE watch[n][Len(watch[n])]

\* The event handler is going to queue n.
Noticed(n) == \E i \in 1 .. Len(notices[n]) : EventFilter(notices[n][i][1], notices[n][i][2])

\* The store is going to be read for n.
Due(n) == n \in queued \/ (run.pc = "get" /\ run.ns = n) \/ Noticed(n)

\* Whether n will be tracked after the reconcile that has read the store.
WillTrack(n) == IF run.pc = "track" /\ run.ns = n THEN run.found = "match" ELSE n \in tracked

WatchIsComplete == \A n \in Namespaces : Latest(n) = label[n]
StoreIsFollowed == \A n \in Namespaces : ~Due(n) => (WillTrack(n) <=> store[n] = "match")

Followed == WatchIsComplete /\ StoreIsFollowed

\* Only these two actions touch what WatchIsComplete is about, a crash aside.
LEMMA WatchCompletes ==
  ASSUME TypeInv, WatchIsComplete, NEW n \in Namespaces, Watch(n)
  PROVE  WatchIsComplete'
<1> USE DEF WatchIsComplete, Latest, TypeInv, TypeOK
<1>1. PICK k \in 1 .. Len(watch[n]) :
        /\ store' = [store EXCEPT ![n] = watch[n][k]]
        /\ watch' = [watch EXCEPT ![n] = SubSeq(@, k + 1, Len(@))]
  BY DEF Watch
<1> DEFINE rest == SubSeq(watch[n], k + 1, Len(watch[n]))
<1>2. /\ rest \in Seq(Versions)
      /\ Len(rest) = Len(watch[n]) - k
      /\ \A i \in 1 .. Len(watch[n]) - k : rest[i] = watch[n][k + i]
  <2>1. watch[n] \in Seq(Versions)
    OBVIOUS
  <2>2. QED
    BY ONLY <2>1, RestOfSeq
<1>3. watch[n] # <<>> /\ label[n] = watch[n][Len(watch[n])] /\ Len(watch[n]) \in Nat
  BY <1>1
<1>4. watch'[n] = rest /\ store'[n] = watch[n][k]
  BY <1>1
<1>5. ASSUME NEW m \in Namespaces PROVE Latest(m)' = label'[m]
  <2>1. CASE m # n
    BY <1>1, <2>1 DEF Watch, clusterVars
  <2>2. CASE m = n /\ k = Len(watch[n])
    <3>1. rest = <<>>
      BY <1>2, <2>2, EmptySeq
    <3>2. QED
      BY <1>3, <1>4, <2>2, <3>1 DEF Watch, clusterVars
  <2>3. CASE m = n /\ k < Len(watch[n])
    <3>1. Len(rest) \in 1 .. Len(watch[n]) - k /\ k + Len(rest) = Len(watch[n])
      BY <1>2, <1>3, <2>3
    <3>2. rest[Len(rest)] = watch[n][Len(watch[n])]
      BY <1>2, <3>1
    <3>3. rest # <<>>
      <4>1. Len(rest) # Len(<<>>)
        BY <3>1
      <4>2. QED
        BY <4>1, Zenon
    <3>4. QED
      BY <1>3, <1>4, <2>3, <3>2, <3>3 DEF Watch, clusterVars
  <2>4. QED
    BY <1>3, <2>1, <2>2, <2>3
<1>6. QED
  BY <1>5

LEMMA UserWriteCompletes ==
  ASSUME TypeInv, WatchIsComplete, NEW n \in Namespaces, UserWrite(n)
  PROVE  WatchIsComplete'
<1> USE DEF WatchIsComplete, Latest, TypeInv, TypeOK
<1>1. PICK new \in Versions :
        /\ label' = [label EXCEPT ![n] = new]
        /\ watch' = [watch EXCEPT ![n] = Append(@, new)]
  BY DEF UserWrite
<1>2. /\ Len(Append(watch[n], new)) = Len(watch[n]) + 1
      /\ Append(watch[n], new)[Len(watch[n]) + 1] = new
      /\ Append(watch[n], new) # <<>>
  <2>1. watch[n] \in Seq(Versions)
    OBVIOUS
  <2>2. QED
    BY ONLY <2>1, new \in Versions, AppendProperties
<1>3. store' = store
  BY DEF UserWrite
<1>4. QED
  BY <1>1, <1>2, <1>3

\* A new version is followed: it changes nothing, or its notice passes the filter.
LEMMA WatchFollowed ==
  ASSUME TypeInv, StoreIsFollowed, NEW n \in Namespaces, Watch(n)
  PROVE  StoreIsFollowed'
<1> USE DEF TypeInv, TypeOK
<1>1. PICK k \in 1 .. Len(watch[n]) :
        /\ store' = [store EXCEPT ![n] = watch[n][k]]
        /\ notices' = IF store[n] = Gone /\ watch[n][k] = Gone THEN notices
                      ELSE [notices EXCEPT ![n] = Append(@, <<store[n], watch[n][k]>>)]
  BY DEF Watch
<1> DEFINE new    == watch[n][k]
           notice == <<store[n], new>>
<1>2. UNCHANGED <<tracked, queued, run>>
  BY DEF Watch, trackerVars
<1>3. new \in Versions /\ store[n] \in Versions
  BY ElementOfSeq
<1>4. ASSUME NEW m \in Namespaces, Noticed(m) PROVE Noticed(m)'
  BY <1>1, <1>3, <1>4 DEF Noticed
<1>5. ASSUME store[n] # new PROVE Noticed(n)'
  <2>1. notices'[n] = Append(notices[n], notice)
    BY <1>1, <1>5
  <2>2. /\ Len(notices'[n]) = Len(notices[n]) + 1
        /\ notices'[n][Len(notices[n]) + 1] = notice
        /\ Len(notices[n]) \in Nat
    BY <2>1
  <2>3. EventFilter(notice[1], notice[2])
    BY <1>5 DEF EventFilter
  <2>4. QED
    BY <2>2, <2>3 DEF Noticed
<1>6. ASSUME NEW m \in Namespaces, ~Due(m)' PROVE ~Due(m) /\ store'[m] = store[m]
  BY <1>1, <1>2, <1>4, <1>5, <1>6 DEF Due
<1>7. QED
  BY <1>2, <1>6 DEF StoreIsFollowed, WillTrack

\* A notice the filter refuses leaves the other notices there are.
LEMMA HandleFollowed ==
  ASSUME TypeInv, StoreIsFollowed, NEW n \in Namespaces, Handle(n)
  PROVE  StoreIsFollowed'
<1> USE DEF TypeInv, TypeOK
<1> DEFINE head == Head(notices[n])
<1>1. notices[n] \in Seq(Versions \X Versions) /\ notices[n] # <<>>
  BY DEF Handle
<1>2. /\ notices' = [notices EXCEPT ![n] = Tail(@)]
      /\ queued' = IF EventFilter(head[1], head[2]) THEN queued \cup {n} ELSE queued
      /\ UNCHANGED <<tracked, store, run>>
  BY DEF Handle, trackerVars
<1>3. ASSUME NEW m \in Namespaces, Noticed(m) PROVE Noticed(m)' \/ m \in queued'
  <2>1. CASE m # n
    BY <1>2, <1>3, <2>1 DEF Noticed
  <2>2. CASE m = n
    <3>1. PICK i \in 1 .. Len(notices[n]) : EventFilter(notices[n][i][1], notices[n][i][2])
      BY <1>3, <2>2 DEF Noticed
    <3>2. CASE i = 1
      BY <1>1, <1>2, <2>2, <3>1, <3>2
    <3>3. CASE i > 1
      <4>1. i - 1 \in 1 .. Len(Tail(notices[n])) /\ Tail(notices[n])[i - 1] = notices[n][i]
        BY <1>1, <3>3, HeadTailProperties
      <4>2. notices'[n] = Tail(notices[n])
        BY <1>2
      <4>3. QED
        BY <2>2, <3>1, <4>1, <4>2 DEF Noticed
    <3>4. QED
      BY <3>2, <3>3
  <2>3. QED
    BY <2>1, <2>2
<1>4. ASSUME NEW m \in Namespaces, ~Due(m)' PROVE ~Due(m)
  BY <1>2, <1>3, <1>4 DEF Due
<1>5. QED
  BY <1>2, <1>4 DEF StoreIsFollowed, WillTrack

\* The steps of a reconcile hand the obligation on: from the queue to the read,
\* from the read to the tracker, and from a failed read back to the queue.
LEMMA DequeueFollowed ==
  ASSUME TypeInv, StoreIsFollowed, NEW n \in Namespaces, Dequeue(n)
  PROVE  StoreIsFollowed'
<1>1. run' = [Idle EXCEPT !.pc = "get", !.ns = n] /\ queued' = queued \ {n} /\ run.pc = "idle"
  BY DEF Dequeue
<1>2. run'.pc = "get" /\ run'.ns = n
  BY <1>1 DEF Idle
<1>3. UNCHANGED <<tracked, store, notices>>
  BY DEF Dequeue, trackerVars, watchVars
<1>4. QED
  BY <1>1, <1>2, <1>3 DEF StoreIsFollowed, WillTrack, Due, Noticed

LEMMA GetFollowed ==
  ASSUME TypeInv, StoreIsFollowed, Get
  PROVE  StoreIsFollowed'
<1>1. UNCHANGED <<tracked, store, notices>>
  BY DEF Get, trackerVars, watchVars
<1>2. run.pc = "get" /\ run.ns \in Namespaces
  BY NamespaceAssumption DEF Get, TypeInv, TypeOK, AboutNamespace
<1>3. CASE run' = [run EXCEPT !.pc = "track", !.found = store[run.ns]] /\ UNCHANGED <<queued, faults>>
  <2>1. run'.pc = "track" /\ run'.ns = run.ns /\ run'.found = store[run.ns]
    BY <1>3 DEF TypeInv, TypeOK
  <2>2. QED
    BY <1>1, <1>2, <1>3, <2>1 DEF StoreIsFollowed, WillTrack, Due, Noticed
<1>4. CASE run' = Idle /\ queued' = queued \cup {run.ns}
  BY <1>1, <1>2, <1>4 DEF StoreIsFollowed, WillTrack, Due, Noticed, Idle
<1>5. QED
  BY <1>3, <1>4 DEF Get

\* Tracking what a reconcile has found.
LEMMA TrackSets ==
  ASSUME TypeInv, Track
  PROVE  tracked' = IF run.found = "match" THEN tracked \cup {run.ns} ELSE tracked \ {run.ns}
BY DEF Track, AddNamespace, RemoveNamespace, trackerVars

LEMMA TrackFollowed ==
  ASSUME TypeInv, StoreIsFollowed, Track
  PROVE  StoreIsFollowed'
<1>1. UNCHANGED <<store, notices, queued>> /\ run.pc = "track" /\ run' = Idle
  BY DEF Track, watchVars
<1>2. QED
  BY <1>1, TrackSets DEF StoreIsFollowed, WillTrack, Due, Noticed, Idle

LEMMA CrashFollowed ==
  ASSUME TypeInv, Crash
  PROVE  Followed'
<1>1. ASSUME NEW n \in Namespaces PROVE Latest(n)' = label'[n]
  <2>1. watch'[n] = Listed(n) /\ store'[n] = Gone /\ label'[n] = label[n]
    BY DEF Crash, clusterVars
  <2>2. QED
    BY <2>1 DEF Latest, Listed
<1>2. ASSUME NEW n \in Namespaces PROVE ~(n \in tracked') /\ ~(store'[n] = "match") /\ run'.pc = "idle"
  BY NamespaceAssumption DEF Crash, Idle, Labels
<1>3. QED
  BY <1>1, <1>2 DEF Followed, WatchIsComplete, StoreIsFollowed, WillTrack

LEMMA InitFollowed == Init => Followed
<1> SUFFICES ASSUME Init PROVE Followed
  OBVIOUS
<1>1. ASSUME NEW n \in Namespaces PROVE Latest(n) = label[n]
  BY DEF Init, Latest, Listed
<1>2. ASSUME NEW n \in Namespaces PROVE ~(n \in tracked) /\ ~(store[n] = "match") /\ run.pc = "idle"
  BY NamespaceAssumption DEF Init, NewTracker, Idle, Labels
<1>3. QED
  BY <1>1, <1>2 DEF Followed, WatchIsComplete, StoreIsFollowed, WillTrack

LEMMA NextFollowed == TypeInv /\ Followed /\ [Next]_vars => Followed'
<1> SUFFICES ASSUME TypeInv, Followed, [Next]_vars PROVE Followed'
  OBVIOUS
<1> USE DEF Followed
<1>1. ASSUME UNCHANGED <<label, watch, store>> PROVE WatchIsComplete'
  BY <1>1 DEF WatchIsComplete, Latest
<1>2. ASSUME UNCHANGED <<tracked, store, notices, queued, run>> PROVE StoreIsFollowed'
  BY <1>2 DEF StoreIsFollowed, WillTrack, Due, Noticed
<1>3. ASSUME NEW n \in Namespaces, Watch(n) PROVE Followed'
  BY <1>3, WatchCompletes, WatchFollowed
<1>4. ASSUME NEW n \in Namespaces, Handle(n) PROVE Followed'
  BY <1>1, <1>4, HandleFollowed DEF Handle, clusterVars
<1>5. ASSUME NEW n \in Namespaces, Dequeue(n) PROVE Followed'
  BY <1>1, <1>5, DequeueFollowed DEF Dequeue, clusterVars, watchVars
<1>6. ASSUME NEW n \in Namespaces, UserWrite(n) PROVE Followed'
  BY <1>2, <1>6, UserWriteCompletes DEF UserWrite, trackerVars
<1>7. CASE Get
  BY <1>1, <1>7, GetFollowed DEF Get, clusterVars, watchVars
<1>8. CASE Track
  BY <1>1, <1>8, TrackFollowed DEF Track, clusterVars, watchVars
<1>9. CASE Receive
  BY <1>1, <1>2, <1>9 DEF Receive, TakeEvent, clusterVars, watchVars
<1>10. CASE ListObjects
  BY <1>1, <1>2, <1>10 DEF ListObjects, trackerVars, clusterVars, watchVars
<1>11. CASE Crash
  BY <1>11, CrashFollowed
<1>12. CASE UNCHANGED vars
  BY <1>1, <1>2, <1>12 DEF vars, trackerVars, clusterVars, watchVars
<1>13. QED
  BY <1>3, <1>4, <1>5, <1>6, <1>7, <1>8, <1>9, <1>10, <1>11, <1>12 DEF Next, Reconcile, EventLoop

LEMMA FollowedSettles == TypeInv /\ Followed => SettledMatches
<1> SUFFICES ASSUME TypeInv, Followed, NEW n \in Namespaces, Settled(n)
             PROVE  n \in tracked <=> label[n] = "match"
  BY DEF SettledMatches
<1>1. ~Due(n)
  BY DEF Settled, Due, Noticed
<1>2. n \in tracked <=> store[n] = "match"
  BY <1>1 DEF Settled, Followed, StoreIsFollowed, WillTrack
<1>3. store[n] = label[n]
  BY DEF Settled, Followed, WatchIsComplete, Latest
<1>4. QED
  BY <1>2, <1>3

\* Whenever nothing about a namespace is under way between the API server, the
\* informer, the queue and the worker, the tracker holds it if and only if its
\* label matches: for any number of namespaces and any order of relabellings,
\* deletions, broken watches, failed reads and restarts.
THEOREM TrackerFollows == Spec => []SettledMatches
<1>1. Init => TypeInv /\ Followed
  BY InitTyped, InitFollowed
<1>2. TypeInv /\ Followed /\ [Next]_vars => (TypeInv /\ Followed)'
  BY NextTyped, NextFollowed
<1>3. QED
  BY <1>1, <1>2, FollowedSettles, PTL DEF Spec

-----------------------------------------------------------------------------
(* ReplayIsTracked. The events in a channel, as a listener replays them.    *)

AboutIn(s, n) == { i \in 1 .. Len(s) : s[i].ns = n }

\* Whether a listener that goes by v holds n once it has received s.
ReplayIn(s, v, n) ==
  IF AboutIn(s, n) = {} THEN n \in v
  ELSE \E i \in AboutIn(s, n) : /\ \A j \in AboutIn(s, n) : j <= i
                                /\ s[i].change = "added"

LEMMA ReplayOfChannel ==
  ASSUME NEW n PROVE Replayed(n) <=> ReplayIn(chan[Watcher], view, n)
BY DEF Replayed, About, ReplayIn, AboutIn

\* A new event decides about its namespace, and about no other.
LEMMA ReplayAppend ==
  ASSUME NEW s \in Seq(Events), NEW e \in Events, NEW v, NEW n
  PROVE  ReplayIn(Append(s, e), v, n) <=>
           IF e.ns = n THEN e.change = "added" ELSE ReplayIn(s, v, n)
<1> DEFINE t == Append(s, e)
<1>1. /\ Len(s) \in Nat
      /\ Len(t) = Len(s) + 1
      /\ t[Len(s) + 1] = e
      /\ \A i \in 1 .. Len(s) : t[i] = s[i]
  BY AppendProperties
<1> HIDE DEF t
<1>2. CASE e.ns = n
  <2>1. Len(s) + 1 \in AboutIn(t, n) /\ \A j \in AboutIn(t, n) : j <= Len(s) + 1
    BY <1>1, <1>2 DEF AboutIn
  <2>2. ASSUME NEW i \in AboutIn(t, n), \A j \in AboutIn(t, n) : j <= i
        PROVE  i = Len(s) + 1
    <3>1. i \in 1 .. Len(s) + 1 /\ Len(s) + 1 <= i
      BY <1>1, <2>1, <2>2 DEF AboutIn
    <3>2. QED
      BY <1>1, <3>1
  <2>3. ReplayIn(t, v, n) <=> t[Len(s) + 1].change = "added"
    BY <2>1, <2>2 DEF ReplayIn
  <2>4. QED
    BY <1>1, <1>2, <2>3 DEF t
<1>3. CASE e.ns # n
  <2>1. AboutIn(t, n) = AboutIn(s, n)
    BY <1>1, <1>3 DEF AboutIn
  <2>2. \A i \in AboutIn(s, n) : t[i] = s[i]
    BY <1>1 DEF AboutIn
  <2>3. QED
    BY <1>3, <2>1, <2>2 DEF ReplayIn, t
<1>4. QED
  BY <1>2, <1>3

\* Receiving the first event moves it from the channel into the view.
LEMMA ReplayTail ==
  ASSUME NEW s \in Seq(Events), s # <<>>, NEW v, NEW w, NEW n,
         w = IF Head(s).change = "added" THEN v \cup {Head(s).ns} ELSE v \ {Head(s).ns}
  PROVE  ReplayIn(Tail(s), w, n) <=> ReplayIn(s, v, n)
<1> DEFINE t == Tail(s)
<1>1. /\ Len(s) \in Nat \ {0}
      /\ Len(t) = Len(s) - 1
      /\ \A i \in 1 .. Len(t) : t[i] = s[i + 1]
      /\ Head(s) = s[1]
  BY HeadTailProperties, EmptySeq
<1>2. SUFFICES ReplayIn(t, w, n) <=> ReplayIn(s, v, n)
  OBVIOUS
<1> HIDE DEF t
<1>3. \A i : i \in AboutIn(t, n) <=> (i \in Nat \ {0} /\ i + 1 \in AboutIn(s, n))
  BY <1>1 DEF AboutIn
<1>4. CASE AboutIn(t, n) = {}
  <2>1. \A j \in AboutIn(s, n) : j = 1
    <3>1. SUFFICES ASSUME NEW j \in AboutIn(s, n), j # 1 PROVE FALSE
      OBVIOUS
    <3>2. j - 1 \in Nat \ {0} /\ (j - 1) + 1 = j
      BY <1>1, <3>1 DEF AboutIn
    <3>3. QED
      BY <1>3, <1>4, <3>2
  <2>2. 1 \in AboutIn(s, n) <=> Head(s).ns = n
    BY <1>1 DEF AboutIn
  <2>3. QED
    BY <1>1, <1>4, <2>1, <2>2 DEF ReplayIn
<1>5. CASE AboutIn(t, n) # {}
  <2>1. AboutIn(s, n) # {}
    BY <1>3, <1>5
  <2>2. ASSUME NEW i \in AboutIn(t, n), \A j \in AboutIn(t, n) : j <= i
        PROVE  /\ i + 1 \in AboutIn(s, n)
               /\ \A j \in AboutIn(s, n) : j <= i + 1
               /\ s[i + 1] = t[i]
    <3>1. i \in 1 .. Len(t) /\ i + 1 \in AboutIn(s, n)
      BY <1>3 DEF AboutIn
    <3>2. ASSUME NEW j \in AboutIn(s, n) PROVE j <= i + 1
      <4>1. j \in Nat \ {0} /\ i \in Nat
        BY <1>1, <3>1 DEF AboutIn
      <4>2. CASE j = 1
        BY <4>1, <4>2
      <4>3. CASE j # 1
        <5>1. j - 1 \in Nat \ {0} /\ (j - 1) + 1 = j
          BY <4>1, <4>3
        <5>2. j - 1 <= i
          BY <1>3, <2>2, <5>1
        <5>3. QED
          BY <4>1, <5>2
      <4>4. QED
        BY <4>2, <4>3
    <3>3. QED
      BY <1>1, <3>1, <3>2
  <2>3. ASSUME NEW k \in AboutIn(s, n), \A j \in AboutIn(s, n) : j <= k
        PROVE  /\ k - 1 \in AboutIn(t, n)
               /\ \A j \in AboutIn(t, n) : j <= k - 1
               /\ s[k] = t[k - 1]
    <3>1. PICK i \in AboutIn(t, n) : TRUE
      BY <1>5
    <3>2. i \in Nat \ {0} /\ i + 1 <= k /\ k \in Nat
      <4>1. i \in Nat \ {0} /\ i + 1 <= k
        BY <1>3, <2>3
      <4>2. k \in Nat
        BY <1>1 DEF AboutIn
      <4>3. QED
        BY <4>1, <4>2
    <3>3. k - 1 \in Nat \ {0} /\ (k - 1) + 1 = k
      BY <3>2
    <3>4. k - 1 \in AboutIn(t, n)
      BY <1>3, <3>3
    <3>5. ASSUME NEW j \in AboutIn(t, n) PROVE j <= k - 1
      <4>1. j \in Nat /\ j + 1 <= k
        BY <1>3, <2>3
      <4>2. QED
        BY <3>2, <4>1
    <3>6. s[k] = t[k - 1]
      BY <1>1, <3>3, <3>4 DEF AboutIn
    <3>7. QED
      BY <3>4, <3>5, <3>6
  <2>4. ReplayIn(t, w, n) => ReplayIn(s, v, n)
    BY <1>5, <2>1, <2>2 DEF ReplayIn
  <2>5. ReplayIn(s, v, n) => ReplayIn(t, w, n)
    BY <1>5, <2>1, <2>3 DEF ReplayIn
  <2>6. QED
    BY <2>4, <2>5
<1>6. QED
  BY <1>4, <1>5

\* What a reconcile does to the channel: nothing if the tracker agrees already;
\* else an event about the namespace, unless the channel is full.
LEMMA TrackNotifies ==
  ASSUME TypeInv, Track, dropped' = {}
  PROVE  /\ dropped = {}
         /\ \/ UNCHANGED <<tracked, chan>>
            \/ /\ run.ns \notin tracked
               /\ tracked' = tracked \cup {run.ns}
               /\ chan'[Watcher] = Append(chan[Watcher], [ns |-> run.ns, change |-> "added"])
            \/ /\ run.ns \in tracked
               /\ tracked' = tracked \ {run.ns}
               /\ chan'[Watcher] = Append(chan[Watcher], [ns |-> run.ns, change |-> "removed"])
<1>1. ASSUME NEW e, notifyListeners(e)
      PROVE  dropped = {} /\ chan'[Watcher] = Append(chan[Watcher], e)
  BY <1>1, ListenerAssumption DEF notifyListeners
<1>2. CASE run.found = "match"
  BY <1>1, <1>2 DEF Track, AddNamespace, trackerVars
<1>3. CASE run.found # "match"
  BY <1>1, <1>3 DEF Track, RemoveNamespace, trackerVars
<1>4. QED
  BY <1>2, <1>3

LEMMA TrackReplayed ==
  ASSUME TypeInv, ReplayIsTracked, Track
  PROVE  ReplayIsTracked'
<1> SUFFICES ASSUME dropped' = {}, NEW n \in Namespaces
             PROVE  Replayed(n)' <=> n \in tracked'
  BY DEF ReplayIsTracked
<1>1. run.ns \in Namespaces /\ chan[Watcher] \in Seq(Events)
  BY ListenerAssumption DEF Track, TypeInv, TypeOK, AboutNamespace, TrackerTypeOK
<1>2. view' = view
  BY DEF Track
<1>3. ReplayIn(chan[Watcher], view, n) <=> n \in tracked
  BY TrackNotifies, ReplayOfChannel DEF ReplayIsTracked
<1>4. Replayed(n)' <=> ReplayIn(chan'[Watcher], view, n)
  BY <1>2 DEF Replayed, About, ReplayIn, AboutIn
<1>5. CASE UNCHANGED <<tracked, chan>>
  BY <1>3, <1>4, <1>5
<1>6. ASSUME tracked' = tracked \cup {run.ns},
             chan'[Watcher] = Append(chan[Watcher], [ns |-> run.ns, change |-> "added"])
      PROVE  Replayed(n)' <=> n \in tracked'
  <2>1. [ns |-> run.ns, change |-> "added"] \in Events
    BY <1>1 DEF Events, Changes
  <2>2. ReplayIn(chan'[Watcher], view, n) <=>
          IF run.ns = n THEN TRUE ELSE ReplayIn(chan[Watcher], view, n)
    BY <1>1, <1>6, <2>1, ReplayAppend
  <2>3. QED
    BY <1>3, <1>4, <1>6, <2>2
<1>7. ASSUME tracked' = tracked \ {run.ns},
             chan'[Watcher] = Append(chan[Watcher], [ns |-> run.ns, change |-> "removed"])
      PROVE  Replayed(n)' <=> n \in tracked'
  <2>1. [ns |-> run.ns, change |-> "removed"] \in Events
    BY <1>1 DEF Events, Changes
  <2>2. ReplayIn(chan'[Watcher], view, n) <=>
          IF run.ns = n THEN FALSE ELSE ReplayIn(chan[Watcher], view, n)
    BY <1>1, <1>7, <2>1, ReplayAppend
  <2>3. QED
    BY <1>3, <1>4, <1>7, <2>2
<1>8. QED
  BY <1>5, <1>6, <1>7, TrackNotifies

LEMMA ReceiveReplayed ==
  ASSUME TypeInv, ReplayIsTracked, Receive
  PROVE  ReplayIsTracked'
<1> SUFFICES ASSUME dropped' = {}, NEW n \in Namespaces
             PROVE  Replayed(n)' <=> n \in tracked'
  BY DEF ReplayIsTracked
<1>1. chan[Watcher] \in Seq(Events) /\ chan[Watcher] # <<>>
  BY ListenerAssumption DEF Receive, HasEvent, TypeInv, TypeOK, TrackerTypeOK
<1>2. /\ chan'[Watcher] = Tail(chan[Watcher])
      /\ tracked' = tracked
      /\ dropped' = dropped
      /\ view' = IF Head(chan[Watcher]).change = "added"
                 THEN view \cup {Head(chan[Watcher]).ns} ELSE view \ {Head(chan[Watcher]).ns}
  BY ListenerAssumption DEF Receive, TakeEvent, NextEvent, TypeInv, TypeOK, TrackerTypeOK
<1>3. Replayed(n)' <=> ReplayIn(chan'[Watcher], view', n)
  BY DEF Replayed, About, ReplayIn, AboutIn
<1>4. ReplayIn(chan'[Watcher], view', n) <=> ReplayIn(chan[Watcher], view, n)
  BY <1>1, <1>2, ReplayTail
<1>5. QED
  BY <1>2, <1>3, <1>4, ReplayOfChannel DEF ReplayIsTracked

LEMMA NextReplayed == TypeInv /\ ReplayIsTracked /\ [Next]_vars => ReplayIsTracked'
<1> SUFFICES ASSUME TypeInv, ReplayIsTracked, [Next]_vars PROVE ReplayIsTracked'
  OBVIOUS
<1>1. CASE UNCHANGED <<trackerVars, view>>
  BY <1>1 DEF trackerVars, ReplayIsTracked, Replayed, About
<1>2. CASE Crash
  <2>1. ASSUME NEW n \in Namespaces PROVE ~Replayed(n)' /\ n \notin tracked'
    BY <1>2, ListenerAssumption DEF Crash, Replayed, About
  <2>2. QED
    BY <2>1 DEF ReplayIsTracked
<1>3. CASE UNCHANGED vars
  BY <1>1, <1>3 DEF vars, loopVars
<1>4. ASSUME NEW n \in Namespaces, Watch(n) \/ Handle(n) \/ Dequeue(n) \/ UserWrite(n)
      PROVE  UNCHANGED <<trackerVars, view>>
  BY <1>4 DEF Watch, Handle, Dequeue, UserWrite, loopVars
<1>5. Get \/ ListObjects => UNCHANGED <<trackerVars, view>>
  BY DEF Get, ListObjects, loopVars
<1>6. QED
  BY <1>1, <1>2, <1>3, <1>4, <1>5, TrackReplayed, ReceiveReplayed DEF Next, Reconcile, EventLoop

\* What a listener believes once it has received what is in its channel is what
\* the tracker holds, unless an event found the channel full: for any capacity,
\* any number of namespaces, and at every moment of any run, restarts included.
THEOREM ListenerLearns == Spec => []ReplayIsTracked
<1>1. Init => ReplayIsTracked
  <2>1. ASSUME Init, NEW n \in Namespaces PROVE ~Replayed(n) /\ n \notin tracked
    BY <2>1, ListenerAssumption DEF Init, NewTracker, Replayed, About
  <2>2. QED
    BY <2>1 DEF ReplayIsTracked
<1>2. TypeInv /\ ReplayIsTracked /\ [Next]_vars => (TypeInv /\ ReplayIsTracked)'
  BY NextTyped, NextReplayed
<1>3. QED
  BY <1>1, <1>2, InitTyped, PTL DEF Spec

-----------------------------------------------------------------------------
(* TrackedIsListed. An addition is in the channel, or being listed, or done.*)

Announced(n) == \E i \in 1 .. Len(chan[Watcher]) :
                   chan[Watcher][i] = [ns |-> n, change |-> "added"]

\* The list of n has been tried since n was added.
Tried(n) == n \in listed \cup unlisted

AdditionsListed ==
  dropped = {} => \A n \in tracked : Tried(n) \/ listing = n \/ Announced(n)

LEMMA TrackAnnounces ==
  ASSUME TypeInv, AdditionsListed, Track
  PROVE  AdditionsListed'
<1> SUFFICES ASSUME dropped' = {}, NEW n \in tracked'
             PROVE  Tried(n)' \/ listing' = n \/ Announced(n)'
  BY DEF AdditionsListed
<1>1. run.ns \in Namespaces /\ chan[Watcher] \in Seq(Events)
  BY ListenerAssumption DEF Track, TypeInv, TypeOK, AboutNamespace, TrackerTypeOK
<1>2. /\ listing' = listing
      /\ n \in tracked => (Tried(n)' <=> Tried(n))
  BY DEF Track, Tried
<1>3. ASSUME NEW e \in Events, chan'[Watcher] = Append(chan[Watcher], e)
      PROVE  /\ Announced(n) => Announced(n)'
             /\ e = [ns |-> n, change |-> "added"] => Announced(n)'
  BY <1>1, <1>3, AppendProperties DEF Announced
<1>4. [ns |-> run.ns, change |-> "added"] \in Events /\ [ns |-> run.ns, change |-> "removed"] \in Events
  BY <1>1 DEF Events, Changes
<1>5. Announced(n) => Announced(n)' \/ n \notin tracked
  BY <1>3, <1>4, TrackNotifies DEF Announced
<1>6. CASE n \in tracked
  BY <1>2, <1>5, <1>6, TrackNotifies DEF AdditionsListed
<1>7. CASE n \notin tracked
  <2>1. n = run.ns /\ chan'[Watcher] = Append(chan[Watcher], [ns |-> run.ns, change |-> "added"])
    BY <1>7, TrackNotifies
  <2>2. QED
    BY <1>3, <1>4, <2>1
<1>8. QED
  BY <1>6, <1>7

LEMMA ReceiveAnnounces ==
  ASSUME TypeInv, AdditionsListed, Receive
  PROVE  AdditionsListed'
<1> SUFFICES ASSUME dropped' = {}, NEW n \in tracked'
             PROVE  Tried(n)' \/ listing' = n \/ Announced(n)'
  BY DEF AdditionsListed
<1>1. chan[Watcher] \in Seq(Events) /\ chan[Watcher] # <<>>
  BY ListenerAssumption DEF Receive, HasEvent, TypeInv, TypeOK, TrackerTypeOK
<1>2. /\ UNCHANGED <<tracked, dropped>>
      /\ Tried(n)' <=> Tried(n)
      /\ listing = None
      /\ chan'[Watcher] = Tail(chan[Watcher])
      /\ Head(chan[Watcher]).change = "added" => listing' = Head(chan[Watcher]).ns
  BY ListenerAssumption DEF Receive, TakeEvent, NextEvent, Tried, TypeInv, TypeOK, TrackerTypeOK
<1>3. Tried(n) \/ Announced(n)
  BY <1>2, NamespaceAssumption DEF AdditionsListed, TypeInv, TypeOK, TrackerTypeOK
<1>4. CASE Tried(n)
  BY <1>2, <1>4
<1>5. CASE Announced(n)
  <2>1. PICK i \in 1 .. Len(chan[Watcher]) : chan[Watcher][i] = [ns |-> n, change |-> "added"]
    BY <1>5 DEF Announced
  <2>2. CASE i = 1
    BY <1>1, <1>2, <2>1, <2>2
  <2>3. CASE i > 1
    <3>1. i - 1 \in 1 .. Len(Tail(chan[Watcher])) /\ Tail(chan[Watcher])[i - 1] = chan[Watcher][i]
      BY <1>1, <2>3, HeadTailProperties
    <3>2. QED
      BY <1>2, <2>1, <3>1 DEF Announced
  <2>4. QED
    BY <2>2, <2>3
<1>6. QED
  BY <1>3, <1>4, <1>5

LEMMA ListObjectsLists ==
  ASSUME TypeInv, AdditionsListed, ListObjects
  PROVE  AdditionsListed'
<1> SUFFICES ASSUME dropped' = {}, NEW n \in tracked'
             PROVE  Tried(n)' \/ listing' = n \/ Announced(n)'
  BY DEF AdditionsListed
<1>1. UNCHANGED <<tracked, chan, dropped>>
  BY DEF ListObjects, trackerVars
<1>2. Tried(n) \/ listing = n => Tried(n)'
  BY DEF ListObjects, Tried
<1>3. QED
  BY <1>1, <1>2 DEF AdditionsListed, Announced

LEMMA NextLists == TypeInv /\ AdditionsListed /\ [Next]_vars => AdditionsListed'
<1> SUFFICES ASSUME TypeInv, AdditionsListed, [Next]_vars PROVE AdditionsListed'
  OBVIOUS
<1>1. CASE UNCHANGED <<trackerVars, loopVars>>
  BY <1>1 DEF trackerVars, loopVars, AdditionsListed, Announced, Tried
<1>2. CASE Crash
  BY <1>2 DEF Crash, AdditionsListed
<1>3. CASE UNCHANGED vars
  BY <1>1, <1>3 DEF vars
<1>4. ASSUME NEW n \in Namespaces, Watch(n) \/ Handle(n) \/ Dequeue(n) \/ UserWrite(n)
      PROVE  UNCHANGED <<trackerVars, loopVars>>
  BY <1>4 DEF Watch, Handle, Dequeue, UserWrite
<1>5. Get => UNCHANGED <<trackerVars, loopVars>>
  BY DEF Get
<1>6. QED
  BY <1>1, <1>2, <1>3, <1>4, <1>5, TrackAnnounces, ReceiveAnnounces, ListObjectsLists
     DEF Next, Reconcile, EventLoop

\* Once the event loop has handled every event, it has tried to list the objects
\* of every tracked namespace since the namespace was added last, if it missed no
\* event: no addition is lost between the tracker, the channel and the list,
\* whatever is added and removed, and whatever calls fail, meanwhile.
THEOREM AdditionsReachTheList == Spec => []TrackedIsListed
<1>1. Init => AdditionsListed
  BY DEF Init, NewTracker, AdditionsListed
<1>2. TypeInv /\ AdditionsListed /\ [Next]_vars => (TypeInv /\ AdditionsListed)'
  BY NextTyped, NextLists
<1>3. TypeInv /\ AdditionsListed => TrackedIsListed
  BY NamespaceAssumption
     DEF AdditionsListed, TrackedIsListed, Tried, CaughtUp, Announced, TypeInv, TypeOK, TrackerTypeOK
<1>4. QED
  BY <1>1, <1>2, <1>3, InitTyped, PTL DEF Spec
=============================================================================
