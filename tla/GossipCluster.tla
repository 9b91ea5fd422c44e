---------------------------- MODULE GossipCluster ----------------------------
(***************************************************************************)
(* The replication of node states between GogGrid processes: the publish   *)
(* loop of cmd/GogGrid/main.go, the StateManager map each process keeps    *)
(* (pkg/state/state.go), the broadcasts, anti-entropy messages and         *)
(* push/pull exchanges of pkg/gossip/gossip.go, and what a process loses   *)
(* and keeps when it stops and starts again.                               *)
(*                                                                         *)
(* Every critical section of StateManager.mu is one atomic step.  A        *)
(* ClusterSync message is a set of entries that are merged one after the   *)
(* other under separate lock acquisitions, so the network holds entries:   *)
(* one [from, to, ns] per node state in flight.  hashicorp/memberlist is   *)
(* external: it may report a live peer as gone, delay or lose any message, *)
(* and deliver a broadcast more than once (by sending it again).           *)
(***************************************************************************)
EXTENDS NodeStates, FiniteSets

CONSTANTS
  MaxPublish,     \* bound: how many samples each node collects
  Stopping,       \* bound: the nodes whose process crashes or leaves
  MaxCrash,       \* bound: how many times processes crash or leave in all
  MaxInFlight     \* bound: nothing is sent while this many entries are in flight

ASSUME BoundsAssumption ==
  /\ MaxPublish \in [Node -> Nat]
  /\ Stopping \subseteq Node
  /\ MaxCrash \in Nat
  /\ MaxInFlight \in Nat

VARIABLES
  up,         \* up[n]: the process of n is running
  view,       \* view[o][s]: o's clusterState.Nodes[s], or NoState
  members,    \* members[o]: the names memberlist lists at o, o itself until it leaves
  pc,         \* where n's monitorLoop goroutine is in collectAndPublish
  sample,     \* the ns that goroutine holds
  queued,     \* the broadcast queue of n: at most its latest own state
  db,         \* the row of n in its own node_states table, or NoState
  wall,       \* samples n has collected; n's wall clock
  net,        \* entries in flight
  crashes,    \* how many times a process has crashed or left
  published   \* history: every state n has put into its own map

vars == <<up, view, members, pc, sample, queued, db, wall, net, crashes, published>>

procVars == <<up, members, crashes>>
pubVars  == <<pc, sample, queued, db, wall, published>>

PublishStep == {"idle", "collected", "updated", "queued"}

-----------------------------------------------------------------------------
Init ==
  /\ up        = [n \in Node |-> TRUE]
  /\ view      = [o \in Node |-> [s \in Node |-> NoState]]
  /\ members   = [n \in Node |-> {n}]
  /\ pc        = [n \in Node |-> "idle"]
  /\ sample    = [n \in Node |-> NoState]
  /\ queued    = [n \in Node |-> NoState]
  /\ db        = [n \in Node |-> NoState]
  /\ wall      = [n \in Node |-> 0]
  /\ net       = {}
  /\ crashes   = 0
  /\ published = [n \in Node |-> {}]

-----------------------------------------------------------------------------
(***************************************************************************)
(* collectAndPublish.  The clock is read in one critical section and the   *)
(* result written in another, so a MergeNodeState may come in between.     *)
(***************************************************************************)

\* memory, then SQLite, then a fresh clock
RecoveredClock(n) ==
  IF view[n][n] # NoState THEN view[n][n].clock
  ELSE IF db[n] # NoState THEN db[n].clock
  ELSE EmptyClock

\* Mutant: the sample keeps the LastUpdated of the entry it continues.
Collect_OldTime(n) ==
  /\ up[n]
  /\ pc[n] = "idle"
  /\ wall[n] < MaxPublish[n]
  /\ wall' = [wall EXCEPT ![n] = @ + 1]
  /\ sample' = [sample EXCEPT ![n] =
       [nodeID |-> n, status |-> "active",
        lastUpdated |-> IF view[n][n] # NoState THEN view[n][n].lastUpdated ELSE wall[n] + 1,
        clock |-> Increment(Merge(EmptyClock, RecoveredClock(n)), n)]]
  /\ pc' = [pc EXCEPT ![n] = "collected"]
  /\ UNCHANGED <<procVars, view, queued, db, net, published>>

Collect(n) ==
  /\ up[n]
  /\ pc[n] = "idle"
  /\ wall[n] < MaxPublish[n]
  /\ wall' = [wall EXCEPT ![n] = @ + 1]
  /\ sample' = [sample EXCEPT ![n] =
       [nodeID |-> n, status |-> "active", lastUpdated |-> wall[n] + 1,
        clock |-> Increment(Merge(EmptyClock, RecoveredClock(n)), n)]]
  /\ pc' = [pc EXCEPT ![n] = "collected"]
  /\ UNCHANGED <<procVars, view, queued, db, net, published>>

\* The own entry is overwritten without any comparison.
UpdateLocalNode(n) ==
  /\ up[n]
  /\ pc[n] = "collected"
  /\ view' = [view EXCEPT ![n][n] = sample[n]]
  /\ published' = [published EXCEPT ![n] = @ \cup {sample[n]}]
  /\ pc' = [pc EXCEPT ![n] = "updated"]
  /\ UNCHANGED <<procVars, sample, queued, db, wall, net>>

\* A process only ever queues its own state and Invalidates compares node
\* ids, so a new broadcast replaces the one still queued.
BroadcastLocalState(n) ==
  /\ up[n]
  /\ pc[n] = "updated"
  /\ queued' = [queued EXCEPT ![n] = sample[n]]
  /\ pc' = [pc EXCEPT ![n] = "queued"]
  /\ UNCHANGED <<procVars, view, sample, db, wall, net, published>>

\* SaveNodeState may fail; the error is logged and the loop goes on.
SaveNodeState(n) ==
  /\ up[n]
  /\ pc[n] = "queued"
  /\ db' \in {db, [db EXCEPT ![n] = Stored(sample[n])]}
  /\ pc' = [pc EXCEPT ![n] = "idle"]
  /\ sample' = [sample EXCEPT ![n] = NoState]
  /\ UNCHANGED <<procVars, view, queued, wall, net, published>>

-----------------------------------------------------------------------------
(***************************************************************************)
(* Sending.                                                                *)
(***************************************************************************)
Send(entries) ==
  /\ Cardinality(net) < MaxInFlight
  /\ net' = net \cup entries

\* getClusterStateJSON: every node state of the map, in one message
Snapshot(o) == {view[o][s] : s \in Node} \ {NoState}

SyncEntries(o, s) == [from : {o}, to : {s}, ns : Snapshot(o)]

\* memberlist takes the queued broadcast along to some member, and drops it
\* from the queue after its last retransmission
GossipBroadcast(n, o) ==
  /\ up[n]
  /\ queued[n] # NoState
  /\ o \in members[n] \ {n}
  /\ IF up[o] THEN Send({[from |-> n, to |-> o, ns |-> queued[n]]})
              ELSE UNCHANGED net
  /\ queued' \in {queued, [queued EXCEPT ![n] = NoState]}
  /\ UNCHANGED <<procVars, view, pc, sample, db, wall, published>>

\* one tick of antiEntropyLoop that picked another member; a tick that finds
\* no other member, picks the own name or cannot encode changes nothing
AntiEntropy(o, s) ==
  /\ up[o] /\ up[s]
  /\ s \in members[o] \ {o}
  /\ Send(SyncEntries(o, s))
  /\ UNCHANGED <<procVars, view, pubVars>>

\* memberlist's own periodic exchange of LocalState, in both directions
PushPull(o, s) ==
  /\ up[o] /\ up[s]
  /\ s \in members[o] \ {o}
  /\ Send(SyncEntries(o, s) \cup SyncEntries(s, o))
  /\ UNCHANGED <<procVars, view, pubVars>>

-----------------------------------------------------------------------------
(***************************************************************************)
(* Receiving.                                                              *)
(***************************************************************************)

MergeNodeState(o, ns) ==
  view' = [view EXCEPT ![o][ns.nodeID] = Merged(@, ns)]

\* handleMessage or handleMergeRemoteState reaches one entry
Handle(m) ==
  /\ m \in net
  /\ up[m.to]
  /\ MergeNodeState(m.to, m.ns)
  /\ net' = net \ {m}
  /\ UNCHANGED <<procVars, pubVars>>

Lose(m) ==
  /\ m \in net
  /\ net' = net \ {m}
  /\ UNCHANGED <<procVars, view, pubVars>>

-----------------------------------------------------------------------------
(***************************************************************************)
(* Membership.                                                             *)
(***************************************************************************)

\* A join by seed or discovery is a push/pull exchange.  A process that has
\* left is nobody's member any more.  NotifyJoin only logs.
Join(o, s) ==
  /\ o # s
  /\ up[o] /\ up[s]
  /\ o \in members[o] /\ s \in members[s]
  /\ s \notin members[o] \/ o \notin members[s]
  /\ members' = [members EXCEPT ![o] = @ \cup {s}, ![s] = @ \cup {o}]
  /\ Send(SyncEntries(o, s) \cup SyncEntries(s, o))
  /\ UNCHANGED <<up, crashes, view, pubVars>>

MarkNodeInactive(o, s) ==
  view' = [view EXCEPT ![o][s] = MarkedInactive(@)]

\* goggridEventDelegate.NotifyLeave for s at o
ToldGone(o, s) ==
  /\ up[o]
  /\ s \in members[o]
  /\ members' = [members EXCEPT ![o] = @ \ {s}]
  /\ MarkNodeInactive(o, s)
  /\ UNCHANGED <<up, net, pubVars>>

\* memberlist has decided at o that s left or failed, rightly or wrongly
NotifyLeave(o, s) ==
  /\ o # s
  /\ ToldGone(o, s)
  /\ UNCHANGED crashes

\* list.Leave in GossipManager.Stop tells the process itself first.  Until it
\* exits it goes on sending and merging, and a publish that has begun, or a
\* tick that wins over ctx.Done, overwrites the mark.
Leave(n) ==
  /\ n \in Stopping /\ crashes < MaxCrash
  /\ crashes' = crashes + 1
  /\ ToldGone(n, n)

-----------------------------------------------------------------------------
\* only the database survives the process
Ends(n) ==
  /\ up[n]
  /\ up' = [up EXCEPT ![n] = FALSE]
  /\ view' = [view EXCEPT ![n] = [s \in Node |-> NoState]]
  /\ members' = [members EXCEPT ![n] = {n}]
  /\ pc' = [pc EXCEPT ![n] = "idle"]
  /\ sample' = [sample EXCEPT ![n] = NoState]
  /\ queued' = [queued EXCEPT ![n] = NoState]
  /\ net' = {m \in net : m.to # n}
  /\ UNCHANGED <<db, wall, published>>

\* a kill or a crash at any point of the publish loop
Crash(n) ==
  /\ n \in Stopping /\ crashes < MaxCrash
  /\ crashes' = crashes + 1
  /\ Ends(n)

\* main returns after Stop
Exit(n) ==
  /\ n \notin members[n]
  /\ UNCHANGED crashes
  /\ Ends(n)

\* main: the map starts empty; nothing reads node_states into it
Restart(n) ==
  /\ ~up[n]
  /\ up' = [up EXCEPT ![n] = TRUE]
  /\ UNCHANGED <<view, members, crashes, net, pubVars>>

-----------------------------------------------------------------------------
Publish(n) ==
  Collect(n) \/ UpdateLocalNode(n) \/ BroadcastLocalState(n) \/ SaveNodeState(n)

Next ==
  \/ \E n \in Node : Collect(n)
  \/ \E n \in Node : UpdateLocalNode(n)
  \/ \E n \in Node : BroadcastLocalState(n)
  \/ \E n \in Node : SaveNodeState(n)
  \/ \E n, o \in Node : GossipBroadcast(n, o)
  \/ \E o, s \in Node : AntiEntropy(o, s)
  \/ \E o, s \in Node : PushPull(o, s)
  \/ \E m \in net : Handle(m)
  \/ \E m \in net : Lose(m)
  \/ \E o, s \in Node : Join(o, s)
  \/ \E o, s \in Node : NotifyLeave(o, s)
  \/ \E n \in Node : Leave(n)
  \/ \E n \in Node : Crash(n)
  \/ \E n \in Node : Exit(n)
  \/ \E n \in Node : Restart(n)

Spec == Init /\ [][Next]_vars

(***************************************************************************)
(* Fairness.  The publish loop is a ticker loop.  A random member is       *)
(* picked every SyncInterval, so every pair of members is picked again and *)
(* again; a connection that keeps being retried delivers now and then      *)
(* (strong fairness per sender, receiver and subject); discovery, where it *)
(* has started (Found in Discovery), keeps trying to join; memberlist      *)
(* eventually notices a process that is down; a process that leaves exits, *)
(* because its waits have timers.  Nothing forces a process to stop or to  *)
(* start again, a message to get lost or a live peer to be suspected.      *)
(***************************************************************************)
HandleFrom(o, p, s) ==
  \E m \in net : m.from = o /\ m.to = p /\ m.ns.nodeID = s /\ Handle(m)

Fairness ==
  /\ \A n \in Node : WF_vars(Publish(n)) /\ WF_vars(Exit(n))
  /\ \A o \in Node : \A p \in Node \ {o} :
       /\ SF_vars(AntiEntropy(o, p))
       /\ SF_vars(Join(o, p))
       /\ WF_vars(~up[p] /\ NotifyLeave(o, p))
       /\ \A s \in Node : SF_vars(HandleFrom(o, p, s))

FairSpec == Spec /\ Fairness

-----------------------------------------------------------------------------
(***************************************************************************)
(* Properties.                                                             *)
(***************************************************************************)
IsOptional(x) == x = NoState \/ IsNodeState(x)

TypeOK ==
  /\ up \in [Node -> BOOLEAN]
  /\ view = [o \in Node |-> [s \in Node |-> view[o][s]]]
  /\ \A o, s \in Node : IsOptional(view[o][s])
  /\ members \in [Node -> SUBSET Node]
  /\ pc \in [Node -> PublishStep]
  /\ sample = [n \in Node |-> sample[n]] /\ \A n \in Node : IsOptional(sample[n])
  /\ queued = [n \in Node |-> queued[n]] /\ \A n \in Node : IsOptional(queued[n])
  /\ db = [n \in Node |-> db[n]] /\ \A n \in Node : IsOptional(db[n])
  /\ wall \in [Node -> Nat]
  /\ \A m \in net : m = [from |-> m.from, to |-> m.to, ns |-> m.ns]
                    /\ m.from \in Node /\ m.to \in Node /\ IsNodeState(m.ns)
  /\ crashes \in Nat
  /\ published = [n \in Node |-> published[n]]
  /\ \A n \in Node : \A p \in published[n] : IsNodeState(p)

\* x is some published state of s, up to the status an observer may have
\* changed.
FromPublished(s, x) ==
  \E p \in published[s] :
     x.nodeID = s /\ x.lastUpdated = p.lastUpdated /\ x.clock = p.clock

(***************************************************************************)
(* Every state of s that any process holds, has queued or is about to      *)
(* merge is one that s itself published, with the clock it was published   *)
(* with: merging clocks and resolving conflicts never pairs the sample of  *)
(* one publish with the clock of another, also after s restarted and       *)
(* counts from 1 again (MergeNodeState, resolveConflict,                   *)
(* VectorClock.Merge).                                                     *)
(***************************************************************************)
Provenance ==
  /\ \A o, s \in Node : view[o][s] # NoState => FromPublished(s, view[o][s])
  /\ \A n \in Node : queued[n] # NoState => FromPublished(n, queued[n])
  /\ \A m \in net : FromPublished(m.ns.nodeID, m.ns)

\* The order in which versions of one node replace each other: its own clock
\* entry first, LastUpdated between equal entries.
Newer(s, x, y) ==
  \/ x.clock[s] > y.clock[s]
  \/ x.clock[s] = y.clock[s] /\ x.lastUpdated > y.lastUpdated

SameVersion(x, y) ==
  \/ x = NoState /\ y = NoState
  \/ /\ x # NoState /\ y # NoState
     /\ x.lastUpdated = y.lastUpdated /\ x.clock = y.clock

(***************************************************************************)
(* While a process runs, what it knows of another node is only ever        *)
(* replaced by a newer version, whatever order, repetition or delay the    *)
(* messages arrive in (MergeNodeState).                                    *)
(***************************************************************************)
ViewStep ==
  \A o, s \in Node :
     o # s /\ up[o] /\ up'[o] /\ view[o][s] # NoState =>
        /\ view'[o][s] # NoState
        /\ \/ SameVersion(view'[o][s], view[o][s])
           \/ Newer(s, view'[o][s], view[o][s])

ViewMonotone == [][ViewStep]_vars

(***************************************************************************)
(* A node marked inactive by MarkNodeInactive is shown active again only   *)
(* on a newer version of its state: neither duplicates nor anti-entropy    *)
(* from a peer that missed the failure undo the mark.                      *)
(***************************************************************************)
ResurrectStep ==
  \A o, s \in Node :
     /\ o # s /\ view[o][s] # NoState /\ view'[o][s] # NoState
     /\ view[o][s].status = "inactive" /\ view'[o][s].status = "active"
     => Newer(s, view'[o][s], view[o][s])

NoStaleResurrection == [][ResurrectStep]_vars

(***************************************************************************)
(* The cluster implements NodeRegister: the entry of a map is a register,  *)
(* its version the subject's own clock entry and LastUpdated.              *)
(***************************************************************************)
VersionOf(s, x) == [number |-> x.clock[s], time |-> x.lastUpdated]

RegisterOf(s, x) ==
  IF x = NoState THEN {} ELSE {[version |-> VersionOf(s, x), flag |-> x.status]}

runningBar  == {n \in Node : up[n]}
historyBar  == [s \in Node |-> {VersionOf(s, p) : p \in published[s]}]
registerBar == [o \in Node |-> [s \in Node |-> RegisterOf(s, view[o][s])]]

Register == INSTANCE NodeRegister WITH
  running <- runningBar, history <- historyBar, register <- registerBar

(***************************************************************************)
(* Whatever is lost, repeated, delayed, merged concurrently or restarted,  *)
(* every step of the cluster is a step of NodeRegister or changes none of  *)
(* its registers (collectAndPublish, MergeNodeState, MarkNodeInactive).    *)
(***************************************************************************)
ImplementsRegister == Register!Spec

(***************************************************************************)
(* Anti-entropy makes the running processes agree for good on the version  *)
(* of every node, once no more samples are taken: also when a restarted    *)
(* node reused clock values of its earlier run (resolveConflict's          *)
(* LastUpdated fallback).                                                  *)
(***************************************************************************)
Agreement ==
  \A o, p, s \in Node : up[o] /\ up[p] => SameVersion(view[o][s], view[p][s])

Convergence == <>[]Agreement

(***************************************************************************)
(* The last sample of a node, if no state the node ever published beats it *)
(* in this run or an earlier one, reaches every running process, unless    *)
(* its process stops (BroadcastLocalState, antiEntropyLoop and             *)
(* resolveConflict together).  An earlier sample is followed by it.        *)
(***************************************************************************)
NewestOwn(s, t) ==
  /\ up[s]
  /\ view[s][s] # NoState /\ view[s][s].lastUpdated = t
  /\ \A p \in published[s] : ~Newer(s, p, view[s][s])

ReachedAll(s, t) ==
  \A o \in Node : up[o] => view[o][s] # NoState /\ view[o][s].lastUpdated >= t

SampleSpreads ==
  \A s \in Node : \A t \in {MaxPublish[s]} \ {0} :
     NewestOwn(s, t) ~> (~up[s] \/ ReachedAll(s, t))

-----------------------------------------------------------------------------
(***************************************************************************)
(* What comments and docs of the repository say, and the code does not do. *)
(***************************************************************************)

(***************************************************************************)
(* "Recover and increment Clock: memory, SQLite, fresh clock"              *)
(* (cmd/GogGrid/main.go:208): a sample taken after a restart, when the     *)
(* node's row is still in SQLite, continues the clock of the state that    *)
(* row was saved from.                                                     *)
(***************************************************************************)
ClockRecovered ==
  \A n \in Node :
     pc[n] = "collected" /\ view[n][n] = NoState /\ db[n] # NoState =>
        \A p \in published[n] :
           p.lastUpdated = db[n].lastUpdated => sample[n].clock[n] > p.clock[n]

(***************************************************************************)
(* "Each node's entry is incremented on every local state publish and      *)
(* merged on every received update" (pkg/models/models.go:55), and the     *)
(* README shows the clock { "node1": 42, "node2": 37 } for both nodes      *)
(* (src/README.md:225): a sample is published with the versions of the     *)
(* other nodes that its node has received.                                 *)
(***************************************************************************)
MergeStep ==
  \A n \in Node : pc[n] = "idle" /\ pc'[n] = "collected" =>
     \A s \in Node : view[n][s] # NoState =>
        /\ s \in DOMAIN sample'[n].clock
        /\ sample'[n].clock[s] >= view[n][s].clock[s]

ReceivedClocksMerged == [][MergeStep]_vars
=============================================================================
