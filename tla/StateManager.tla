---------------------------- MODULE StateManager -----------------------------
(***************************************************************************)
(* The StateManager of one process (pkg/state/state.go) under any order of *)
(* calls: gossip callbacks merging states and marking nodes inactive, the  *)
(* publish loop overwriting the local entry, and the history records that  *)
(* MergeNodeState and MarkNodeInactive write after they have released      *)
(* sm.mu, into a table that outlives the process, that history sync fills  *)
(* from peers and that the cleanup empties.  Unlike in GossipCluster       *)
(* nothing is assumed of the clocks that arrive: they may have several     *)
(* keys and be concurrent.                                                 *)
(*                                                                         *)
(* Each critical section of sm.mu is one step, and so is the insert of a   *)
(* record.  The event that broadcast sends under the lock is part of       *)
(* module WSHub, the pages of a history sync are part of HistorySync.      *)
(***************************************************************************)
EXTENDS NodeStates, FiniteSets

CONSTANTS
  Local,       \* the local node id
  Sample,      \* the node states that exist; any may arrive at any time, again and again
  Removable,   \* the nodes for which RemoveNode may be called
  PeerRow,     \* the history rows that a peer may send
  MaxInFlight, \* bound: callbacks between their unlock and their insert
  MaxRows      \* bound: the rows of the table

EventType == {"node_join", "metric_update", "node_leave"}

\* the unique key (node_id, timestamp, event_type) stands for the record
IsRow(r) == r \in [node : Node, time : Nat, type : EventType]

(***************************************************************************)
(* A LastUpdated is taken once, by collectAndPublish (main.go:218): two    *)
(* copies of a node's state with the same LastUpdated are the same sample. *)
(***************************************************************************)
ASSUME SampleAssumption ==
  /\ Local \in Node
  /\ MaxInFlight \in Nat /\ MaxRows \in Nat
  /\ Removable \subseteq Node
  /\ \A r \in PeerRow : IsRow(r)
  /\ \A x \in Sample : IsNodeState(x)
  /\ \A x, y \in Sample :
       x.nodeID = y.nodeID /\ x.lastUpdated = y.lastUpdated => x.clock = y.clock

VARIABLES
  nodes,      \* clusterState.Nodes: a node state or NoState for each id
  recording,  \* the rows goroutines are about to insert, after their unlock
  table,      \* the rows of history_records
  own         \* history: those of these rows that are of a change of a node
              \* since it became known

vars == <<nodes, recording, table, own>>

\* the record of an event that leaves ns: stamped with the LastUpdated of ns
Row(ns, type) == [node |-> ns.nodeID, time |-> ns.lastUpdated, type |-> type]

Init ==
  /\ nodes = [s \in Node |-> NoState]
  /\ recording = {}
  /\ table = {}
  /\ own = {}

\* the call of recordEvent is reached with sm.mu released
RecordLater(ns, type) ==
  /\ Cardinality(recording) < MaxInFlight
  /\ recording' = recording \cup {Row(ns, type)}
  /\ own' = own \cup {Row(ns, type)}
  /\ UNCHANGED table

-----------------------------------------------------------------------------
UpdateLocalNode(ns) ==
  /\ ns.nodeID = Local
  /\ nodes' = [nodes EXCEPT ![Local] = ns]
  /\ UNCHANGED <<recording, table, own>>

MergeNodeState(remote) ==
  LET local == nodes[remote.nodeID]
  IN  /\ nodes' = [nodes EXCEPT ![remote.nodeID] = Merged(@, remote)]
      /\ IF local = NoState THEN RecordLater(remote, "node_join")
         ELSE IF RemoteWins(local, remote) THEN RecordLater(remote, "metric_update")
         ELSE UNCHANGED <<recording, table, own>>

MarkNodeInactive(s) ==
  /\ nodes[s] # NoState
  /\ nodes' = [nodes EXCEPT ![s] = MarkedInactive(@)]
  /\ RecordLater(nodes[s], "node_leave")

\* No code calls it outside the tests.  The history stays.
RemoveNode(s) ==
  /\ s \in Removable
  /\ nodes[s] # NoState
  /\ nodes' = [nodes EXCEPT ![s] = NoState]
  /\ own' = {r \in own : r.node # s}
  /\ UNCHANGED <<recording, table>>

\* SaveHistoryRecord inserts the row, meets one with its key (ON CONFLICT DO
\* NOTHING), or fails, which is logged and not retried
RecordEvent(r) ==
  /\ r \in recording
  /\ recording' = recording \ {r}
  /\ \/ table' = table \cup {r} /\ Cardinality(table') <= MaxRows
     \/ UNCHANGED table
  /\ own' = own \cap (table' \cup recording')
  /\ UNCHANGED nodes

\* a row of a page pulled from a peer that is not here yet
ImportHistoryRecords(r) ==
  /\ r \notin table
  /\ Cardinality(table) < MaxRows
  /\ table' = table \cup {r}
  /\ UNCHANGED <<nodes, recording, own>>

\* the retention ends somewhere between the samples
CleanOldRecords(cutoff) ==
  /\ \E r \in table : r.time < cutoff
  /\ table' = {r \in table : r.time >= cutoff}
  /\ own' = own \cap (table' \cup recording)
  /\ UNCHANGED <<nodes, recording>>

\* The process ends anywhere and another one opens the same database.  main
\* gives NewStateManager the storage, but no state is read back from it.
Restart ==
  /\ nodes' = [s \in Node |-> NoState]
  /\ recording' = {}
  /\ own' = {}
  /\ UNCHANGED table

Next ==
  \/ \E ns \in Sample : UpdateLocalNode(ns)
  \/ \E ns \in Sample : MergeNodeState(ns)
  \/ \E s \in Node : MarkNodeInactive(s)
  \/ \E s \in Node : RemoveNode(s)
  \/ \E r \in recording : RecordEvent(r)
  \/ \E r \in PeerRow : ImportHistoryRecords(r)
  \/ \E x \in Sample : CleanOldRecords(x.lastUpdated)
  \/ Restart

Spec == Init /\ [][Next]_vars

-----------------------------------------------------------------------------
(***************************************************************************)
(* Properties.                                                             *)
(***************************************************************************)
TypeOK ==
  /\ nodes = [s \in Node |-> nodes[s]]
  /\ \A s \in Node : nodes[s] # NoState => IsNodeState(nodes[s]) /\ nodes[s].nodeID = s
  /\ \A r \in recording \cup table \cup own : IsRow(r)

(***************************************************************************)
(* VectorClock.Compare decides the happened-before order between an entry  *)
(* and whatever may be merged into it, keys present on one side only       *)
(* included; 0 means concurrent or equal.                                  *)
(***************************************************************************)
CompareIsCausal ==
  \A s \in Node : nodes[s] # NoState =>
     \A x \in Sample : ComparesCausally(x.clock, nodes[s].clock)

(***************************************************************************)
(* VectorClock.Merge gives the least upper bound of the clock of an entry  *)
(* and any other: it forgets no version and invents none.                  *)
(***************************************************************************)
MergeIsJoin ==
  \A s \in Node : nodes[s] # NoState =>
     \A x, y \in Sample : MergesToJoin(x.clock, nodes[s].clock, y.clock)

(***************************************************************************)
(* While a node is known, the clock of its entry only grows, although      *)
(* resolveConflict may keep or replace the entry on LastUpdated alone      *)
(* (MergeNodeState, Clock.Merge).  The versions of a state that is refused *)
(* are not taken over.  The local entry is exempt: UpdateLocalNode         *)
(* compares nothing.                                                       *)
(***************************************************************************)
GrowStep ==
  \A s \in Node \ {Local} :
     nodes[s] # NoState /\ nodes'[s] # NoState => Precedes(nodes[s].clock, nodes'[s].clock)

ClockGrows == [][GrowStep]_vars

\* the row that the change of an entry from old to new should leave behind
ChangeRows(old, new) ==
  IF new = NoState \/ new = old THEN {}
  ELSE IF old = NoState THEN {Row(new, "node_join")}
  ELSE IF new = MarkedInactive(old) THEN {Row(new, "node_leave")}
  ELSE {Row(new, "metric_update")}

\* ON CONFLICT DO NOTHING skips an insert of r: a row with its key is there, or
\* may be there first
Taken(r) == r \in table \cup recording

(***************************************************************************)
(* However states are repeated and reordered and whatever the cleanup      *)
(* deletes, the record of a change is never skipped in favour of that of   *)
(* another change since the node became known: in that time a node goes    *)
(* from active to inactive at most once per sample.  It is skipped only if *)
(* its row is from before a restart or a RemoveNode, or from a peer        *)
(* (MergeNodeState, MarkNodeInactive, recordEvent, SaveHistoryRecord).     *)
(***************************************************************************)
RecordableStep ==
  \A s \in Node \ {Local} : \A r \in ChangeRows(nodes[s], nodes'[s]) :
     Taken(r) => r \notin own

NoChangeSwallowed == [][RecordableStep]_vars
=============================================================================
