------------------------- MODULE GossipClusterProofs -------------------------
(***************************************************************************)
(* Invariance proofs for GossipCluster, for any set of nodes, any number   *)
(* of samples, crashes and messages.  The safety properties rest on one    *)
(* fact about conflict resolution: on clocks whose only key is the subject *)
(* of the state, MergeNodeState keeps one of its two arguments unchanged,  *)
(* and takes the remote one only if it is newer (MergedPicks).             *)
(***************************************************************************)
EXTENDS GossipCluster, VectorClockProofs

-----------------------------------------------------------------------------
(***************************************************************************)
(* Types.  TypeSets says with sets what TypeOK says with predicates that   *)
(* TLC can evaluate.                                                       *)
(***************************************************************************)
Optional == NodeState \cup {NoState}

Entry == [from : Node, to : Node, ns : NodeState]

TypeSets ==
  /\ up \in [Node -> BOOLEAN]
  /\ view \in [Node -> [Node -> Optional]]
  /\ members \in [Node -> SUBSET Node]
  /\ pc \in [Node -> PublishStep]
  /\ sample \in [Node -> Optional]
  /\ queued \in [Node -> Optional]
  /\ db \in [Node -> Optional]
  /\ wall \in [Node -> Nat]
  /\ net \in SUBSET Entry
  /\ crashes \in Nat
  /\ published \in [Node -> SUBSET NodeState]

\* The two ways to say that a value is a node state agree.
LEMMA NodeStateChar ==
  ASSUME NEW x
  PROVE  x \in NodeState <=> IsNodeState(x)
<1>1. x.clock \in Clock <=> IsClock(x.clock)
  BY ClockChar
<1> QED
  BY <1>1 DEF NodeState, IsNodeState

\* The same for an entry that may be absent.
LEMMA OptionalChar ==
  ASSUME NEW x
  PROVE  x \in Optional <=> IsOptional(x)
  BY NodeStateChar DEF Optional, IsOptional

\* The type invariant, stated with sets the provers know about.
LEMMA TypeSetsChar == TypeOK <=> TypeSets
<1>1. (/\ view = [o \in Node |-> [s \in Node |-> view[o][s]]]
       /\ \A o, s \in Node : IsOptional(view[o][s]))
      <=> view \in [Node -> [Node -> Optional]]
  BY OptionalChar
<1>2. (/\ sample = [n \in Node |-> sample[n]]
       /\ \A n \in Node : IsOptional(sample[n]))
      <=> sample \in [Node -> Optional]
  BY OptionalChar
<1>3. (/\ queued = [n \in Node |-> queued[n]]
       /\ \A n \in Node : IsOptional(queued[n]))
      <=> queued \in [Node -> Optional]
  BY OptionalChar
<1>4. (/\ db = [n \in Node |-> db[n]]
       /\ \A n \in Node : IsOptional(db[n]))
      <=> db \in [Node -> Optional]
  BY OptionalChar
<1>5. (\A m \in net : m = [from |-> m.from, to |-> m.to, ns |-> m.ns]
                      /\ m.from \in Node /\ m.to \in Node /\ IsNodeState(m.ns))
      <=> net \in SUBSET Entry
  BY NodeStateChar DEF Entry
<1>6. (/\ published = [n \in Node |-> published[n]]
       /\ \A n \in Node : \A p \in published[n] : IsNodeState(p))
      <=> published \in [Node -> SUBSET NodeState]
  BY NodeStateChar
<1> QED
  BY <1>1, <1>2, <1>3, <1>4, <1>5, <1>6 DEF TypeOK, TypeSets

-----------------------------------------------------------------------------
(***************************************************************************)
(* Conflict resolution on clocks with the subject's key only.              *)
(***************************************************************************)

\* A clock with one key is its version: it is ordered like a number, and
\* merging an older or equal one into it changes nothing.
LEMMA SingleKey ==
  ASSUME NEW s \in Node, NEW a \in Clock, NEW b \in Clock,
         DOMAIN a = {s}, DOMAIN b = {s}
  PROVE  /\ Precedes(a, b) <=> a[s] <= b[s]
         /\ a = b <=> a[s] = b[s]
         /\ a[s] \in Nat
         /\ b[s] <= a[s] => Merge(a, b) = a
<1>1. a \in [{s} -> Nat] /\ b \in [{s} -> Nat]
  BY DEF Clock
<1> QED
  BY <1>1 DEF Precedes, Merge

\* resolveConflict returns the remote state only if it is newer.
LEMMA RemoteWinsNewer ==
  ASSUME NEW s \in Node, NEW local \in NodeState, NEW remote \in NodeState,
         DOMAIN local.clock = {s}, DOMAIN remote.clock = {s},
         RemoteWins(local, remote)
  PROVE  /\ Newer(s, remote, local)
         /\ Merge(remote.clock, local.clock) = remote.clock
<1> DEFINE r == remote.clock
           l == local.clock
<1>1. r \in Clock /\ l \in Clock
  BY DEF NodeState
<1>2. ComparesCausally(r, l)
  BY <1>1, CompareDecidesOrder
<1>3. /\ Precedes(r, l) <=> r[s] <= l[s]
      /\ r = l <=> r[s] = l[s]
      /\ r[s] \in Nat
      /\ l[s] <= r[s] => Merge(r, l) = r
  BY <1>1, SingleKey
<1>4. /\ Precedes(l, r) <=> l[s] <= r[s]
      /\ l[s] \in Nat
  BY <1>1, SingleKey
<1> HIDE DEF r, l
<1>5. CASE Compare(r, l) = 1
  <2>1. Precedes(l, r) /\ r # l
    BY <1>2, <1>5 DEF ComparesCausally
  <2>2. r[s] > l[s]
    BY <2>1, <1>3, <1>4
  <2> QED
    BY <2>2, <1>3, <1>4 DEF Newer, r, l
<1>6. CASE Compare(r, l) = 0 /\ remote.lastUpdated > local.lastUpdated
  <2>1. Compare(r, l) # 1 /\ Compare(r, l) # -1
    BY <1>6
  <2>2. ~(Precedes(l, r) /\ r # l) /\ ~(Precedes(r, l) /\ r # l)
    BY <1>2, <2>1 DEF ComparesCausally
  <2>3. r[s] = l[s]
    BY <2>2, <1>3, <1>4
  <2> QED
    BY <2>3, <1>3, <1>4, <1>6 DEF Newer, r, l
<1> QED
  BY <1>5, <1>6 DEF RemoteWins, r, l

\* MergeNodeState leaves one of the two states as it is.
LEMMA MergedPicks ==
  ASSUME NEW s \in Node, NEW local \in Optional, NEW remote \in NodeState,
         DOMAIN remote.clock = {s},
         local # NoState => DOMAIN local.clock = {s}
  PROVE  \/ Merged(local, remote) = local /\ local # NoState
         \/ /\ Merged(local, remote) = remote
            /\ local = NoState \/ Newer(s, remote, local)
<1>1. CASE local = NoState
  BY <1>1 DEF Merged
<1>2. CASE local # NoState /\ ~RemoteWins(local, remote)
  BY <1>2 DEF Merged
<1>3. CASE local # NoState /\ RemoteWins(local, remote)
  <2>1. local \in NodeState
    BY <1>3 DEF Optional
  <2>2. /\ Newer(s, remote, local)
        /\ Merge(remote.clock, local.clock) = remote.clock
    BY <1>3, <2>1, RemoteWinsNewer
  <2>3. [remote EXCEPT !.clock = Merge(remote.clock, local.clock)] = remote
    BY <2>2 DEF NodeState
  <2> QED
    BY <1>3, <2>2, <2>3 DEF Merged
<1> QED
  BY <1>1, <1>2, <1>3

-----------------------------------------------------------------------------
(***************************************************************************)
(* The clock a node publishes has one key, its own: collectAndPublish only *)
(* ever merges the node's own earlier clock, what SQLite gives back has no *)
(* key at all, and no received clock gets in, unlike models.go:53-57 and   *)
(* the README say (ReceivedClocksMerged).  So two versions of a node are   *)
(* never concurrent, and resolveConflict's fallback to LastUpdated only    *)
(* ever decides between equal clocks.                                      *)
(***************************************************************************)
ScalarClocks ==
  \A n \in Node :
     /\ \A p \in published[n] : p.nodeID = n /\ DOMAIN p.clock = {n}
     /\ pc[n] # "idle" =>
          sample[n] # NoState /\ sample[n].nodeID = n /\ DOMAIN sample[n].clock = {n}
     /\ pc[n] \in {"updated", "queued"} => sample[n] \in published[n]
     /\ db[n] # NoState => DOMAIN db[n].clock = {}

(***************************************************************************)
(* The inductive invariant.  Provenance alone is not inductive: that a     *)
(* merged clock is a published one needs ScalarClocks, and that what a     *)
(* process queues was published needs to know what collectAndPublish holds *)
(* between its steps.                                                      *)
(***************************************************************************)
IInv == TypeSets /\ ScalarClocks /\ Provenance

\* A state that comes from a published one has the subject's key only.
LEMMA PublishedKey ==
  ASSUME IInv, NEW s \in Node, NEW x, FromPublished(s, x)
  PROVE  x.nodeID = s /\ DOMAIN x.clock = {s}
  BY DEF IInv, ScalarClocks, FromPublished

\* The entry that a merge leaves in o's map about the message's subject.
LEMMA MergedEntry ==
  ASSUME IInv, NEW m \in net
  PROVE  LET s == m.ns.nodeID
             local == view[m.to][s]
         IN  /\ m.to \in Node /\ s \in Node
             /\ m.ns \in NodeState
             /\ local \in Optional
             /\ FromPublished(s, m.ns)
             /\ \/ Merged(local, m.ns) = local /\ local # NoState
                \/ /\ Merged(local, m.ns) = m.ns
                   /\ local = NoState \/ Newer(s, m.ns, local)
<1> DEFINE s == m.ns.nodeID
           local == view[m.to][s]
<1>1. m.to \in Node /\ m.ns \in NodeState /\ s \in Node
  BY DEF IInv, TypeSets, Entry, NodeState
<1>2. local \in Optional
  BY <1>1 DEF IInv, TypeSets
<1>3. FromPublished(s, m.ns)
  BY DEF IInv, Provenance
<1>4. DOMAIN m.ns.clock = {s}
  BY <1>1, <1>3, PublishedKey
<1>5. local # NoState => FromPublished(s, local)
  BY <1>1 DEF IInv, Provenance
<1>6. local # NoState => DOMAIN local.clock = {s}
  BY <1>1, <1>5, PublishedKey
<1> HIDE DEF s, local
<1>7. \/ Merged(local, m.ns) = local /\ local # NoState
      \/ /\ Merged(local, m.ns) = m.ns
         /\ local = NoState \/ Newer(s, m.ns, local)
  BY <1>1, <1>2, <1>4, <1>6, MergedPicks
<1> QED
  BY <1>1, <1>2, <1>3, <1>7 DEF s, local

\* The sample that collectAndPublish builds is a node state about n whose
\* clock has the key of n only.
LEMMA SampleState ==
  ASSUME IInv, NEW n \in Node, NEW t \in Nat
  PROVE  LET clock == Increment(Merge(EmptyClock, RecoveredClock(n)), n)
             ns == [nodeID |-> n, status |-> "active", lastUpdated |-> t, clock |-> clock]
         IN  ns \in NodeState /\ DOMAIN clock = {n}
<1> DEFINE rc == RecoveredClock(n)
           clock == Increment(Merge(EmptyClock, rc), n)
<1>1. rc \in Clock /\ DOMAIN rc \subseteq {n}
  <2>1. CASE view[n][n] # NoState
    <3>1. view[n][n] \in NodeState
      BY <2>1 DEF IInv, TypeSets, Optional
    <3>2. FromPublished(n, view[n][n])
      BY <2>1 DEF IInv, Provenance
    <3>3. DOMAIN view[n][n].clock = {n}
      BY <3>2, PublishedKey
    <3> QED
      BY <2>1, <3>1, <3>3 DEF RecoveredClock, NodeState
  <2>2. CASE view[n][n] = NoState /\ db[n] # NoState
    <3>1. db[n] \in NodeState
      BY <2>2 DEF IInv, TypeSets, Optional
    <3>2. DOMAIN db[n].clock = {}
      BY <2>2 DEF IInv, ScalarClocks
    <3> QED
      BY <2>2, <3>1, <3>2 DEF RecoveredClock, NodeState
  <2>3. CASE view[n][n] = NoState /\ db[n] = NoState
    BY <2>3, EmptyClockClock DEF RecoveredClock, EmptyClock
  <2> QED
    BY <2>1, <2>2, <2>3
<1>2. Merge(EmptyClock, rc) \in Clock /\ DOMAIN Merge(EmptyClock, rc) \subseteq {n}
  BY <1>1, EmptyClockClock, MergeClock DEF Merge, EmptyClock
<1>3. clock \in Clock
  BY <1>2, IncrementClock
<1>4. DOMAIN clock = {n}
  BY <1>2 DEF Increment
<1> HIDE DEF clock
<1>5. [nodeID |-> n, status |-> "active", lastUpdated |-> t, clock |-> clock] \in NodeState
  BY <1>3 DEF NodeState, Status
<1> QED
  BY <1>4, <1>5 DEF clock

\* The initial state satisfies the invariant.
LEMMA InitIInv == Init => IInv
<1> SUFFICES ASSUME Init PROVE IInv
  OBVIOUS
<1>1. TypeSets
  BY DEF Init, TypeSets, Optional, PublishStep
<1>2. ScalarClocks
  BY DEF Init, ScalarClocks
<1>3. Provenance
  BY DEF Init, Provenance
<1> QED
  BY <1>1, <1>2, <1>3 DEF IInv

\* Every step preserves the invariant.
LEMMA NextIInv == IInv /\ [Next]_vars => IInv'
<1> SUFFICES ASSUME IInv, [Next]_vars PROVE IInv'
  OBVIOUS
<1> USE DEF procVars, pubVars
<1>1. ASSUME NEW n \in Node, Collect(n) PROVE IInv'
  <2> DEFINE ns == [nodeID |-> n, status |-> "active", lastUpdated |-> wall[n] + 1,
                    clock |-> Increment(Merge(EmptyClock, RecoveredClock(n)), n)]
  <2>1. wall[n] + 1 \in Nat
    BY DEF IInv, TypeSets
  <2>2. ns \in NodeState /\ ns.nodeID = n /\ DOMAIN ns.clock = {n}
    BY <2>1, SampleState
  <2>3. sample' = [sample EXCEPT ![n] = ns]
    BY <1>1 DEF Collect
  <2> HIDE DEF ns
  <2>4. TypeSets'
    BY <1>1, <2>1, <2>2, <2>3 DEF Collect, IInv, TypeSets, Optional, PublishStep
  <2>5. ns # NoState
    BY <2>2, NoStateAssumption
  <2>6. ScalarClocks'
    BY <1>1, <2>2, <2>3, <2>5 DEF Collect, IInv, TypeSets, ScalarClocks
  <2>7. Provenance'
    BY <1>1 DEF Collect, IInv, Provenance, FromPublished
  <2> QED
    BY <2>4, <2>6, <2>7 DEF IInv
<1>2. ASSUME NEW n \in Node, UpdateLocalNode(n) PROVE IInv'
  <2>1. sample[n] \in NodeState /\ sample[n].nodeID = n /\ DOMAIN sample[n].clock = {n}
    BY <1>2 DEF UpdateLocalNode, IInv, TypeSets, ScalarClocks, Optional
  <2>2. TypeSets'
    BY <1>2, <2>1 DEF UpdateLocalNode, IInv, TypeSets, Optional, PublishStep
  <2>3. ScalarClocks'
    BY <1>2, <2>1 DEF UpdateLocalNode, IInv, TypeSets, ScalarClocks
  <2>4. /\ published' \in [Node -> SUBSET NodeState]
        /\ \A s \in Node : published[s] \subseteq published'[s]
        /\ sample[n] \in published'[n]
    BY <1>2, <2>2 DEF UpdateLocalNode, IInv, TypeSets
  <2>5. \A o, s \in Node : view'[o][s] = IF o = n /\ s = n THEN sample[n] ELSE view[o][s]
    BY <1>2 DEF UpdateLocalNode, IInv, TypeSets
  <2>6. \A o, s \in Node : view'[o][s] # NoState => FromPublished(s, view[o][s])' 
    BY <2>1, <2>4, <2>5 DEF IInv, Provenance, FromPublished
  <2>7. \A k \in Node : queued'[k] # NoState => FromPublished(k, queued[k])'
    BY <1>2, <2>4 DEF UpdateLocalNode, IInv, Provenance, FromPublished
  <2>8. \A m \in net' : FromPublished(m.ns.nodeID, m.ns)'
    <3> TAKE m \in net'
    <3>1. m \in net /\ m.ns.nodeID \in Node
      BY <1>2 DEF UpdateLocalNode, IInv, TypeSets, Entry, NodeState
    <3> QED
      BY <3>1, <2>4 DEF IInv, Provenance, FromPublished
  <2> QED
    BY <2>2, <2>3, <2>6, <2>7, <2>8 DEF IInv, Provenance
<1>3. ASSUME NEW n \in Node, BroadcastLocalState(n) PROVE IInv'
  <2>1. sample[n] \in NodeState /\ sample[n].nodeID = n /\ sample[n] \in published[n]
    BY <1>3 DEF BroadcastLocalState, IInv, TypeSets, ScalarClocks, Optional
  <2>2. TypeSets'
    BY <1>3, <2>1 DEF BroadcastLocalState, IInv, TypeSets, Optional, PublishStep
  <2>3. ScalarClocks'
    BY <1>3 DEF BroadcastLocalState, IInv, TypeSets, ScalarClocks
  <2>4. Provenance'
    BY <1>3, <2>1 DEF BroadcastLocalState, IInv, TypeSets, Provenance, FromPublished
  <2> QED
    BY <2>2, <2>3, <2>4 DEF IInv
<1>4. ASSUME NEW n \in Node, SaveNodeState(n) PROVE IInv'
  <2>1. Stored(sample[n]) \in NodeState /\ DOMAIN Stored(sample[n]).clock = {}
    <3>1. sample[n] \in NodeState
      BY <1>4 DEF SaveNodeState, IInv, TypeSets, ScalarClocks, Optional
    <3> QED
      BY <3>1, EmptyClockClock DEF Stored, NodeState, EmptyClock
  <2>2. TypeSets'
    BY <1>4, <2>1 DEF SaveNodeState, IInv, TypeSets, Optional, PublishStep
  <2>3. ScalarClocks'
    BY <1>4, <2>1 DEF SaveNodeState, IInv, TypeSets, ScalarClocks
  <2>4. Provenance'
    BY <1>4 DEF SaveNodeState, IInv, Provenance, FromPublished
  <2> QED
    BY <2>2, <2>3, <2>4 DEF IInv
<1>5. ASSUME NEW n \in Node, NEW o \in Node, GossipBroadcast(n, o) PROVE IInv'
  <2> DEFINE m == [from |-> n, to |-> o, ns |-> queued[n]]
  <2>1. queued[n] \in NodeState /\ FromPublished(n, queued[n]) /\ queued[n].nodeID = n
    BY <1>5 DEF GossipBroadcast, IInv, TypeSets, Provenance, Optional, FromPublished
  <2>2. net' \subseteq net \cup {m}
    BY <1>5 DEF GossipBroadcast, Send
  <2>3. m \in Entry /\ m.ns = queued[n]
    BY <2>1 DEF Entry
  <2> HIDE DEF m
  <2>4. TypeSets'
    BY <1>5, <2>2, <2>3 DEF GossipBroadcast, IInv, TypeSets, Optional
  <2>5. ScalarClocks'
    BY <1>5 DEF GossipBroadcast, IInv, ScalarClocks
  <2>6. \A e \in net' : FromPublished(e.ns.nodeID, e.ns)
    BY <2>1, <2>2, <2>3 DEF IInv, Provenance
  <2>7. Provenance'
    BY <1>5, <2>6 DEF GossipBroadcast, IInv, TypeSets, Provenance, FromPublished
  <2> QED
    BY <2>4, <2>5, <2>7 DEF IInv
<1>6. ASSUME NEW o \in Node, NEW s \in Node,
             UNCHANGED <<view, pubVars, up, crashes>>,
             members' \in [Node -> SUBSET Node],
             net' \subseteq net \cup SyncEntries(o, s) \cup SyncEntries(s, o)
      PROVE  IInv'
  <2>1. \A a, b \in Node : \A e \in SyncEntries(a, b) :
           e \in Entry /\ FromPublished(e.ns.nodeID, e.ns)
    <3> TAKE a, b \in Node
    <3> TAKE e \in SyncEntries(a, b)
    <3>1. PICK c \in Node : e.ns = view[a][c] /\ view[a][c] # NoState
      BY DEF SyncEntries, Snapshot
    <3>2. view[a][c] \in NodeState /\ FromPublished(c, view[a][c])
      BY <3>1 DEF IInv, TypeSets, Provenance, Optional
    <3>3. e.ns.nodeID = c
      BY <3>1, <3>2 DEF FromPublished
    <3>4. e = [from |-> a, to |-> b, ns |-> e.ns]
      BY DEF SyncEntries
    <3> QED
      BY <3>1, <3>2, <3>3, <3>4 DEF Entry
  <2>2. \A e \in net' : e \in Entry /\ FromPublished(e.ns.nodeID, e.ns)
    BY <1>6, <2>1 DEF IInv, TypeSets, Provenance
  <2>3. TypeSets'
    BY <1>6, <2>2 DEF IInv, TypeSets
  <2>4. ScalarClocks'
    BY <1>6 DEF IInv, ScalarClocks
  <2>5. Provenance'
    BY <1>6, <2>2 DEF IInv, Provenance, FromPublished
  <2> QED
    BY <2>3, <2>4, <2>5 DEF IInv
<1>7. ASSUME NEW o \in Node, NEW s \in Node, AntiEntropy(o, s) PROVE IInv'
  BY <1>6, <1>7 DEF AntiEntropy, Send, IInv, TypeSets
<1>8. ASSUME NEW o \in Node, NEW s \in Node, PushPull(o, s) PROVE IInv'
  BY <1>6, <1>8 DEF PushPull, Send, IInv, TypeSets
<1>9. ASSUME NEW m \in net, Handle(m) PROVE IInv'
  <2> DEFINE s == m.ns.nodeID
             local == view[m.to][s]
             new == Merged(local, m.ns)
  <2>1. /\ m.to \in Node /\ s \in Node /\ m.ns \in NodeState /\ local \in Optional
        /\ FromPublished(s, m.ns)
        /\ new = m.ns \/ (new = local /\ local # NoState)
    BY MergedEntry
  <2>2. view' = [view EXCEPT ![m.to][s] = new]
    BY <1>9 DEF Handle, MergeNodeState
  <2>3. new \in Optional
    BY <2>1 DEF Optional
  <2>4. new # NoState => FromPublished(s, new)
    BY <2>1 DEF IInv, Provenance
  <2> HIDE DEF s, local, new
  <2>5. \A a, b \in Node : view'[a][b] = IF a = m.to /\ b = s THEN new ELSE view[a][b]
    BY <2>1, <2>2 DEF IInv, TypeSets
  <2>6. TypeSets'
    BY <1>9, <2>1, <2>2, <2>3 DEF Handle, IInv, TypeSets
  <2>7. ScalarClocks'
    BY <1>9 DEF Handle, IInv, ScalarClocks
  <2>8. Provenance'
    BY <1>9, <2>4, <2>5 DEF Handle, IInv, Provenance, FromPublished
  <2> QED
    BY <2>6, <2>7, <2>8 DEF IInv
<1>10. ASSUME NEW m \in net, Lose(m) PROVE IInv'
  BY <1>10 DEF Lose, IInv, TypeSets, ScalarClocks, Provenance, FromPublished
<1>11. ASSUME NEW o \in Node, NEW s \in Node, Join(o, s) PROVE IInv'
  BY <1>6, <1>11 DEF Join, Send, IInv, TypeSets
<1>12. ASSUME NEW o \in Node, NEW s \in Node, ToldGone(o, s), crashes' \in Nat PROVE IInv'
  <2> DEFINE new == MarkedInactive(view[o][s])
  <2>1. new \in Optional
    BY DEF MarkedInactive, IInv, TypeSets, Optional, NodeState, Status
  <2>2. new # NoState => FromPublished(s, new)
    <3>1. CASE view[o][s] = NoState
      BY <3>1 DEF MarkedInactive
    <3>2. CASE view[o][s] # NoState
      <4>1. view[o][s] \in NodeState /\ FromPublished(s, view[o][s])
        BY <3>2 DEF IInv, TypeSets, Provenance, Optional
      <4>2. new = [view[o][s] EXCEPT !.status = "inactive"]
        BY <3>2 DEF MarkedInactive
      <4>3. /\ new.nodeID = view[o][s].nodeID
            /\ new.lastUpdated = view[o][s].lastUpdated
            /\ new.clock = view[o][s].clock
        BY <4>1, <4>2 DEF NodeState
      <4> QED
        BY <4>1, <4>3 DEF FromPublished
    <3> QED
      BY <3>1, <3>2
  <2>3. view' = [view EXCEPT ![o][s] = new]
    BY <1>12 DEF ToldGone, MarkNodeInactive
  <2> HIDE DEF new
  <2>4. \A a, b \in Node : view'[a][b] = IF a = o /\ b = s THEN new ELSE view[a][b]
    BY <2>3 DEF IInv, TypeSets
  <2>5. TypeSets'
    BY <1>12, <2>1, <2>3 DEF ToldGone, IInv, TypeSets
  <2>6. ScalarClocks'
    BY <1>12 DEF ToldGone, IInv, ScalarClocks
  <2>7. Provenance'
    BY <1>12, <2>2, <2>4 DEF ToldGone, IInv, Provenance, FromPublished
  <2> QED
    BY <2>5, <2>6, <2>7 DEF IInv
<1>13. ASSUME NEW n \in Node, Ends(n), crashes' \in Nat PROVE IInv'
  <2>1. TypeSets'
    BY <1>13 DEF Ends, IInv, TypeSets, Optional, PublishStep
  <2>2. ScalarClocks'
    BY <1>13 DEF Ends, IInv, TypeSets, ScalarClocks
  <2>3. \A a, b \in Node : view'[a][b] # NoState => view'[a][b] = view[a][b]
    BY <1>13 DEF Ends, IInv, TypeSets
  <2>4. \A k \in Node : queued'[k] # NoState => queued'[k] = queued[k]
    BY <1>13 DEF Ends, IInv, TypeSets
  <2>5. net' \subseteq net /\ published' = published
    BY <1>13 DEF Ends
  <2>6. Provenance'
    BY <2>3, <2>4, <2>5 DEF IInv, Provenance, FromPublished
  <2> QED
    BY <2>1, <2>2, <2>6 DEF IInv
<1>14. ASSUME NEW n \in Node, Restart(n) PROVE IInv'
  BY <1>14 DEF Restart, IInv, TypeSets, ScalarClocks, Provenance, FromPublished
<1>15. ASSUME NEW o \in Node, NEW s \in Node, NotifyLeave(o, s) PROVE IInv'
  BY <1>12, <1>15 DEF NotifyLeave, IInv, TypeSets
<1>16. ASSUME NEW n \in Node, Leave(n) PROVE IInv'
  BY <1>12, <1>16 DEF Leave, IInv, TypeSets
<1>17. ASSUME NEW n \in Node, Crash(n) PROVE IInv'
  BY <1>13, <1>17 DEF Crash, IInv, TypeSets
<1>18. ASSUME NEW n \in Node, Exit(n) PROVE IInv'
  BY <1>13, <1>18 DEF Exit, IInv, TypeSets
<1>19. CASE UNCHANGED vars
  BY <1>19 DEF vars, IInv, TypeSets, ScalarClocks, Provenance, FromPublished
<1> QED
  BY <1>1, <1>2, <1>3, <1>4, <1>5, <1>7, <1>8, <1>9, <1>10, <1>11, <1>14, <1>15,
     <1>16, <1>17, <1>18, <1>19 DEF Next

\* The invariant holds in every reachable state of the cluster.
LEMMA SpecIInv == Spec => []IInv
<1> QED
  BY InitIInv, NextIInv, PTL DEF Spec

\* The maps, queues, tables and messages of the cluster stay well typed.
THEOREM TypeCorrect == Spec => []TypeOK
<1>1. IInv => TypeOK
  BY TypeSetsChar DEF IInv
<1> QED
  BY <1>1, SpecIInv, PTL

\* No clock ever has a key besides that of the node it versions, whatever is
\* received, lost or restarted: the vector clocks of the docs are counters.
THEOREM ClocksStayScalar == Spec => []ScalarClocks
<1>1. IInv => ScalarClocks
  BY DEF IInv
<1> QED
  BY <1>1, SpecIInv, PTL

\* Every state held, queued or in flight was published by its subject, with
\* the clock it was published with.
THEOREM StatesArePublished == Spec => []Provenance
<1>1. IInv => Provenance
  BY DEF IInv
<1> QED
  BY <1>1, SpecIInv, PTL

-----------------------------------------------------------------------------
(***************************************************************************)
(* What a step may do to an entry about another node.                      *)
(***************************************************************************)
LEMMA EntryStep ==
  ASSUME IInv, [Next]_vars, NEW o \in Node, NEW s \in Node, o # s
  PROVE  LET old == view[o][s]
             new == view'[o][s]
         IN  \/ new = old
             \/ new = MarkedInactive(old)
             \/ old = NoState
             \/ new = NoState /\ ~up'[o]
             \/ new \in NodeState /\ Newer(s, new, old)
<1> USE DEF procVars, pubVars
<1>1. CASE UNCHANGED view
  BY <1>1
<1>2. ASSUME NEW n \in Node, UpdateLocalNode(n) PROVE view'[o][s] = view[o][s]
  BY <1>2 DEF UpdateLocalNode, IInv, TypeSets
<1>3. ASSUME NEW m \in net, Handle(m)
      PROVE  \/ view'[o][s] = view[o][s]
             \/ view[o][s] = NoState
             \/ view'[o][s] \in NodeState /\ Newer(s, view'[o][s], view[o][s])
  <2> DEFINE p == m.to
             q == m.ns.nodeID
  <2>1. /\ p \in Node /\ q \in Node /\ m.ns \in NodeState
        /\ \/ Merged(view[p][q], m.ns) = view[p][q]
           \/ /\ Merged(view[p][q], m.ns) = m.ns
              /\ view[p][q] = NoState \/ Newer(q, m.ns, view[p][q])
    BY MergedEntry
  <2>2. view' = [view EXCEPT ![p][q] = Merged(view[p][q], m.ns)]
    BY <1>3 DEF Handle, MergeNodeState
  <2> HIDE DEF p, q
  <2>3. CASE o = p /\ s = q
    <3>1. view'[o][s] = Merged(view[p][q], m.ns)
      BY <2>1, <2>2, <2>3 DEF IInv, TypeSets
    <3> QED
      BY <2>1, <2>3, <3>1
  <2>4. CASE ~(o = p /\ s = q)
    BY <2>1, <2>2, <2>4 DEF IInv, TypeSets
  <2> QED
    BY <2>3, <2>4
<1>4. ASSUME NEW a \in Node, NEW b \in Node, ToldGone(a, b)
      PROVE  view'[o][s] = view[o][s] \/ view'[o][s] = MarkedInactive(view[o][s])
  BY <1>4 DEF ToldGone, MarkNodeInactive, IInv, TypeSets
<1>5. ASSUME NEW n \in Node, Ends(n)
      PROVE  view'[o][s] = view[o][s] \/ (view'[o][s] = NoState /\ ~up'[o])
  BY <1>5 DEF Ends, IInv, TypeSets
<1> QED
  BY <1>1, <1>2, <1>3, <1>4, <1>5
  DEF Next, vars, Collect, BroadcastLocalState, SaveNodeState, GossipBroadcast,
      AntiEntropy, PushPull, Lose, Join, NotifyLeave, Leave, Crash, Exit, Restart

\* MarkNodeInactive keeps the version of the entry.
LEMMA MarkedVersion ==
  ASSUME NEW x \in NodeState
  PROVE  /\ MarkedInactive(x) \in NodeState
         /\ MarkedInactive(x) # NoState
         /\ MarkedInactive(x).status = "inactive"
         /\ SameVersion(MarkedInactive(x), x)
<1>1. x # NoState
  BY NoStateAssumption
<1>2. MarkedInactive(x) = [x EXCEPT !.status = "inactive"]
  BY <1>1 DEF MarkedInactive
<1>3. /\ MarkedInactive(x) \in NodeState
      /\ MarkedInactive(x).status = "inactive"
      /\ MarkedInactive(x).lastUpdated = x.lastUpdated
      /\ MarkedInactive(x).clock = x.clock
  BY <1>2 DEF NodeState, Status
<1>4. MarkedInactive(x) # NoState
  BY <1>3, NoStateAssumption
<1> QED
  BY <1>1, <1>3, <1>4 DEF SameVersion

\* What a running process knows of another node only moves to newer versions.
THEOREM ViewsMoveForward == Spec => ViewMonotone
<1>1. ASSUME IInv, [Next]_vars PROVE ViewStep
  <2> SUFFICES ASSUME NEW o \in Node, NEW s \in Node,
                      o # s, up'[o], view[o][s] # NoState
               PROVE  /\ view'[o][s] # NoState
                      /\ \/ SameVersion(view'[o][s], view[o][s])
                         \/ Newer(s, view'[o][s], view[o][s])
    BY DEF ViewStep
  <2>1. view[o][s] \in NodeState
    BY <1>1 DEF IInv, TypeSets, Optional
  <2>2. \/ view'[o][s] = view[o][s]
        \/ view'[o][s] = MarkedInactive(view[o][s])
        \/ view'[o][s] \in NodeState /\ Newer(s, view'[o][s], view[o][s])
    BY <1>1, EntryStep
  <2>3. CASE view'[o][s] = view[o][s]
    BY <2>3 DEF SameVersion
  <2>4. CASE view'[o][s] = MarkedInactive(view[o][s])
    BY <2>1, <2>4, MarkedVersion
  <2>5. CASE view'[o][s] \in NodeState /\ Newer(s, view'[o][s], view[o][s])
    BY <2>5, NoStateAssumption
  <2> QED
    BY <2>2, <2>3, <2>4, <2>5
<1> QED
  BY <1>1, SpecIInv, PTL DEF Spec, ViewMonotone

\* Only a newer version makes an entry that was marked inactive active again.
THEOREM ResurrectionIsFresh == Spec => NoStaleResurrection
<1>1. ASSUME IInv, [Next]_vars PROVE ResurrectStep
  <2> SUFFICES ASSUME NEW o \in Node, NEW s \in Node, o # s,
                      view[o][s] # NoState, view'[o][s] # NoState,
                      view[o][s].status = "inactive", view'[o][s].status = "active"
               PROVE  Newer(s, view'[o][s], view[o][s])
    BY DEF ResurrectStep
  <2>1. view[o][s] \in NodeState
    BY <1>1 DEF IInv, TypeSets, Optional
  <2>2. view'[o][s] # MarkedInactive(view[o][s])
    BY <2>1, MarkedVersion
  <2> QED
    BY <1>1, <2>2, EntryStep
<1> QED
  BY <1>1, SpecIInv, PTL DEF Spec, NoStaleResurrection
=============================================================================
