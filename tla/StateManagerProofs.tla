------------------------- MODULE StateManagerProofs --------------------------
(***************************************************************************)
(* The StateManager for any set of nodes, any set of samples and any       *)
(* number of callbacks in flight.                                          *)
(***************************************************************************)
EXTENDS StateManager, VectorClockProofs

\* what a sample is, without the hull that TLC needs
LEMMA NodeStateFields ==
  ASSUME NEW x, IsNodeState(x)
  PROVE  /\ x \in NodeState /\ x.nodeID \in Node /\ x.status \in Status
         /\ x.lastUpdated \in Nat /\ x.clock \in Clock /\ x # NoState
         /\ x = [nodeID |-> x.nodeID, status |-> x.status,
                 lastUpdated |-> x.lastUpdated, clock |-> x.clock]
<1>1. x.clock \in Clock
  BY ClockChar DEF IsNodeState
<1>2. x \in [nodeID : Node, status : Status, lastUpdated : Nat, clock : {x.clock}]
  BY DEF IsNodeState
<1>3. x \in NodeState
  BY <1>1, <1>2 DEF NodeState
<1> QED
  BY <1>1, <1>2, <1>3, NoStateAssumption

\* Fields that fit make a node state.
LEMMA MakeNodeState ==
  ASSUME NEW n \in Node, NEW st \in Status, NEW t \in Nat, NEW c \in Clock
  PROVE  IsNodeState([nodeID |-> n, status |-> st, lastUpdated |-> t, clock |-> c])
  BY ClockChar DEF IsNodeState

\* resolveConflict in terms of the order on clocks: a state that precedes the
\* entry wins only when it carries the same clock and a later LastUpdated.
LEMMA WinsByTime ==
  ASSUME NEW l, NEW x, IsNodeState(l), IsNodeState(x), RemoteWins(l, x),
         Precedes(x.clock, l.clock)
  PROVE  x.clock = l.clock /\ x.lastUpdated > l.lastUpdated
<1>1. l.clock \in Clock /\ x.clock \in Clock
  BY NodeStateFields
<1>2. ComparesCausally(x.clock, l.clock)
  BY <1>1, CompareDecidesOrder
<1>3. Precedes(l.clock, x.clock) => x.clock = l.clock
  BY <1>1, PrecedesAntisymmetric
<1> QED
  BY <1>2, <1>3 DEF RemoteWins, ComparesCausally

\* What a merge leaves when the remote state wins.
LEMMA WinnerFields ==
  ASSUME NEW l, NEW x, IsNodeState(l), IsNodeState(x), RemoteWins(l, x)
  PROVE  /\ IsNodeState(Merged(l, x))
         /\ Merged(l, x).nodeID = x.nodeID
         /\ Merged(l, x).lastUpdated = x.lastUpdated
         /\ Merged(l, x).status = x.status
         /\ Precedes(x.clock, Merged(l, x).clock)
         /\ Precedes(l.clock, Merged(l, x).clock)
         /\ Merged(l, x) # MarkedInactive(l)
<1>1. /\ l.clock \in Clock /\ x.clock \in Clock /\ l # NoState
      /\ x.nodeID \in Node /\ x.status \in Status
      /\ x.lastUpdated \in Nat /\ l.lastUpdated \in Nat
      /\ x = [nodeID |-> x.nodeID, status |-> x.status,
              lastUpdated |-> x.lastUpdated, clock |-> x.clock]
      /\ l = [nodeID |-> l.nodeID, status |-> l.status,
              lastUpdated |-> l.lastUpdated, clock |-> l.clock]
  BY NodeStateFields
<1> DEFINE c == Merge(x.clock, l.clock)
           y == [nodeID |-> x.nodeID, status |-> x.status,
                 lastUpdated |-> x.lastUpdated, clock |-> c]
<1>2. Merged(l, x) = y
  BY <1>1 DEF Merged
<1>3. c \in Clock
  BY <1>1, MergeClock
<1>4. Precedes(x.clock, c) /\ Precedes(l.clock, c)
  BY <1>1, MergeIsLeastUpperBound DEF MergesToJoin
<1>5. y # MarkedInactive(l)
  <2>1. SUFFICES ASSUME y = MarkedInactive(l) PROVE FALSE
    OBVIOUS
  <2>2. MarkedInactive(l).clock = l.clock /\ MarkedInactive(l).lastUpdated = l.lastUpdated
    BY <1>1 DEF MarkedInactive
  <2>3. c = l.clock /\ x.lastUpdated = l.lastUpdated
    BY <2>1, <2>2
  <2>4. Precedes(x.clock, l.clock)
    BY <2>3, <1>4
  <2> QED
    BY <2>3, <2>4, <1>1, WinsByTime
<1> HIDE DEF c
<1>6. IsNodeState(y)
  BY <1>1, <1>3, MakeNodeState
<1> QED
  BY <1>2, <1>4, <1>5, <1>6 DEF y

-----------------------------------------------------------------------------
(***************************************************************************)
(* The inductive invariant.  A row is recorded of a sample whose clock the *)
(* entry has absorbed, and an entry with exactly that clock is not older   *)
(* than the row; so a state that wins against the entry has no row yet.    *)
(***************************************************************************)

\* some sample of s taken at time t precedes the clock c
Absorbed(s, t, c) ==
  \E x \in Sample : x.nodeID = s /\ x.lastUpdated = t /\ Precedes(x.clock, c)

\* some sample of s taken at time t precedes the entry e, and is no later
\* than e when it has the same clock
Covered(s, t, e) ==
  \E x \in Sample :
     /\ x.nodeID = s /\ x.lastUpdated = t
     /\ Precedes(x.clock, e.clock)
     /\ x.clock = e.clock => t <= e.lastUpdated

EntryTraced(s) == nodes[s] # NoState => Absorbed(s, nodes[s].lastUpdated, nodes[s].clock)

RowCovered(r) ==
  /\ nodes[r.node] # NoState
  /\ Covered(r.node, r.time, nodes[r.node])
  /\ r.type = "node_leave" /\ r.time = nodes[r.node].lastUpdated
       => nodes[r.node].status = "inactive"

Traced ==
  /\ \A s \in Node \ {Local} : EntryTraced(s)
  /\ \A r \in own : r.node # Local => RowCovered(r)

SInv == TypeOK /\ Traced

\* A type of history row.
LEMMA RowType ==
  ASSUME NEW x, IsNodeState(x), NEW ty \in EventType
  PROVE  IsRow(Row(x, ty)) /\ Row(x, ty).node = x.nodeID
         /\ Row(x, ty).time = x.lastUpdated /\ Row(x, ty).type = ty
  BY NodeStateFields DEF IsRow, Row

\* MarkNodeInactive changes the status and nothing else.
LEMMA MarkedFields ==
  ASSUME NEW x, IsNodeState(x)
  PROVE  /\ IsNodeState(MarkedInactive(x))
         /\ MarkedInactive(x).nodeID = x.nodeID
         /\ MarkedInactive(x).lastUpdated = x.lastUpdated
         /\ MarkedInactive(x).clock = x.clock
         /\ MarkedInactive(x).status = "inactive"
<1>1. /\ x # NoState /\ x.nodeID \in Node /\ x.lastUpdated \in Nat /\ x.clock \in Clock
      /\ x = [nodeID |-> x.nodeID, status |-> x.status,
              lastUpdated |-> x.lastUpdated, clock |-> x.clock]
  BY NodeStateFields
<1>2. MarkedInactive(x) = [nodeID |-> x.nodeID, status |-> "inactive",
                           lastUpdated |-> x.lastUpdated, clock |-> x.clock]
  BY <1>1 DEF MarkedInactive
<1>3. "inactive" \in Status
  BY DEF Status
<1>4. IsNodeState([nodeID |-> x.nodeID, status |-> "inactive",
                   lastUpdated |-> x.lastUpdated, clock |-> x.clock])
  BY <1>1, <1>3, MakeNodeState
<1> QED
  BY <1>2, <1>4

\* Precedes is transitive and reflexive.
LEMMA PrecedesOrder ==
  ASSUME NEW a \in Clock, NEW b \in Clock, NEW c \in Clock
  PROVE  /\ Precedes(a, a)
         /\ Precedes(a, b) /\ Precedes(b, c) => Precedes(a, c)
  BY DEF Precedes, Clock

\* A winning state leaves every row of its node covered.
LEMMA WinKeepsCovered ==
  ASSUME NEW l, NEW x \in Sample, NEW t \in Nat,
         IsNodeState(l), l.nodeID = x.nodeID, RemoteWins(l, x),
         Covered(x.nodeID, t, l)
  PROVE  Covered(x.nodeID, t, Merged(l, x)) /\ t # x.lastUpdated
<1>s. IsNodeState(x)
  BY SampleAssumption
<1>1. PICK z \in Sample :
         /\ z.nodeID = x.nodeID /\ z.lastUpdated = t
         /\ Precedes(z.clock, l.clock)
         /\ z.clock = l.clock => t <= l.lastUpdated
  BY DEF Covered
<1>2. IsNodeState(z)
  BY SampleAssumption
<1>3. /\ z.clock \in Clock /\ l.clock \in Clock /\ x.clock \in Clock
      /\ l.lastUpdated \in Nat /\ x.lastUpdated \in Nat
  BY <1>2, <1>s, NodeStateFields
<1> DEFINE w == Merged(l, x)
<1>4. /\ w.lastUpdated = x.lastUpdated /\ IsNodeState(w)
      /\ Precedes(x.clock, w.clock) /\ Precedes(l.clock, w.clock)
  BY <1>s, WinnerFields
<1>5. w.clock \in Clock
  BY <1>4, NodeStateFields
<1> HIDE DEF w
<1>6. Precedes(z.clock, w.clock)
  BY <1>1, <1>3, <1>4, <1>5, PrecedesOrder
<1>7. ASSUME z.clock = w.clock PROVE t <= w.lastUpdated
  <2>1. l.clock = w.clock
    BY <1>1, <1>3, <1>4, <1>5, <1>7, PrecedesAntisymmetric
  <2>2. x.lastUpdated > l.lastUpdated
    BY <2>1, <1>4, <1>s, WinsByTime
  <2> QED
    BY <2>1, <2>2, <1>1, <1>3, <1>4, <1>7
<1>8. ASSUME t = x.lastUpdated PROVE FALSE
  <2>1. z.clock = x.clock
    BY <1>1, <1>8, SampleAssumption
  <2>2. x.clock = l.clock /\ x.lastUpdated > l.lastUpdated
    BY <2>1, <1>1, <1>s, WinsByTime
  <2> QED
    BY <2>1, <2>2, <1>1, <1>3, <1>8
<1> QED
  BY <1>1, <1>6, <1>7, <1>8 DEF Covered, w

-----------------------------------------------------------------------------
\* The rows about s that a step adds are among new.
NewRows(s, new) == \A r \in own' : r.node = s => r \in own \/ r \in new

\* The four ways in which a step can change the entry of s.
Joins(s, x)   == /\ nodes[s] = NoState /\ nodes'[s] = x
                 /\ NewRows(s, {Row(x, "node_join")})
Wins(s, x)    == /\ nodes[s] # NoState /\ RemoteWins(nodes[s], x)
                 /\ nodes'[s] = Merged(nodes[s], x)
                 /\ NewRows(s, {Row(x, "metric_update")})
Leaves(s)     == /\ nodes[s] # NoState /\ nodes'[s] = MarkedInactive(nodes[s])
                 /\ NewRows(s, {Row(nodes[s], "node_leave")})
Disappears(s) == nodes'[s] = NoState /\ \A r \in own' : r.node # s

\* Every step of the StateManager is, for one node other than the local one,
\* one of these or leaves its entry and its rows alone.
LEMMA StepCases ==
  ASSUME TypeOK, [Next]_vars, NEW s \in Node \ {Local}
  PROVE  \/ nodes'[s] = nodes[s] /\ NewRows(s, {})
         \/ \E x \in Sample : x.nodeID = s /\ (Joins(s, x) \/ Wins(s, x))
         \/ Leaves(s)
         \/ Disappears(s)
<1>t. /\ nodes = [k \in Node |-> nodes[k]]
      /\ \A k \in Node : nodes[k] # NoState => nodes[k].nodeID = k
  BY DEF TypeOK
<1>l. Local \in Node /\ \A x \in Sample : x.nodeID \in Node
  BY SampleAssumption, NodeStateFields
<1>1. ASSUME NEW x \in Sample, UpdateLocalNode(x)
      PROVE  nodes'[s] = nodes[s] /\ NewRows(s, {})
  BY <1>1, <1>t DEF UpdateLocalNode, NewRows
<1>2. ASSUME NEW x \in Sample, MergeNodeState(x)
      PROVE  \/ nodes'[s] = nodes[s] /\ NewRows(s, {})
             \/ x.nodeID = s /\ (Joins(s, x) \/ Wins(s, x))
  <2>1. nodes' = [nodes EXCEPT ![x.nodeID] = Merged(nodes[x.nodeID], x)]
    BY <1>2 DEF MergeNodeState
  <2>2. CASE x.nodeID # s
    <3>1. nodes'[s] = nodes[s]
      BY <2>1, <2>2, <1>t, <1>l
    <3>2. NewRows(s, {})
      BY <1>2, <2>2 DEF MergeNodeState, RecordLater, Row, NewRows
    <3> QED
      BY <3>1, <3>2
  <2>3. CASE x.nodeID = s /\ nodes[s] = NoState
    <3>1. nodes'[s] = x
      BY <2>1, <2>3, <1>t DEF Merged
    <3>2. NewRows(s, {Row(x, "node_join")})
      BY <1>2, <2>3 DEF MergeNodeState, RecordLater, NewRows
    <3> QED
      BY <3>1, <3>2, <2>3 DEF Joins
  <2>4. CASE x.nodeID = s /\ nodes[s] # NoState /\ RemoteWins(nodes[s], x)
    <3>1. nodes'[s] = Merged(nodes[s], x)
      BY <2>1, <2>4, <1>t
    <3>2. NewRows(s, {Row(x, "metric_update")})
      BY <1>2, <2>4 DEF MergeNodeState, RecordLater, NewRows
    <3> QED
      BY <3>1, <3>2, <2>4 DEF Wins
  <2>5. CASE x.nodeID = s /\ nodes[s] # NoState /\ ~RemoteWins(nodes[s], x)
    <3>1. nodes'[s] = nodes[s]
      BY <2>1, <2>5, <1>t DEF Merged
    <3>2. NewRows(s, {})
      BY <1>2, <2>5 DEF MergeNodeState, NewRows
    <3> QED
      BY <3>1, <3>2
  <2> QED
    BY <2>2, <2>3, <2>4, <2>5
<1>3. ASSUME NEW k \in Node, MarkNodeInactive(k)
      PROVE  (nodes'[s] = nodes[s] /\ NewRows(s, {})) \/ Leaves(s)
  <2>1. /\ nodes' = [nodes EXCEPT ![k] = MarkedInactive(nodes[k])]
        /\ nodes[k] # NoState
        /\ own' = own \cup {Row(nodes[k], "node_leave")}
    BY <1>3 DEF MarkNodeInactive, RecordLater
  <2>2. Row(nodes[k], "node_leave").node = k
    BY <2>1, <1>t DEF Row
  <2>3. CASE k = s
    BY <2>1, <2>3, <1>t DEF Leaves, NewRows
  <2>4. CASE k # s
    BY <2>1, <2>2, <2>4, <1>t DEF NewRows
  <2> QED
    BY <2>3, <2>4
<1>4. ASSUME NEW k \in Node, RemoveNode(k)
      PROVE  (nodes'[s] = nodes[s] /\ NewRows(s, {})) \/ Disappears(s)
  BY <1>4, <1>t DEF RemoveNode, NewRows, Disappears
<1>5. CASE nodes' = nodes /\ own' \subseteq own
  BY <1>5 DEF NewRows
<1>6. ASSUME NEW r \in recording, RecordEvent(r) PROVE nodes' = nodes /\ own' \subseteq own
  BY <1>6 DEF RecordEvent
<1>7. ASSUME NEW r \in PeerRow, ImportHistoryRecords(r)
      PROVE  nodes' = nodes /\ own' \subseteq own
  BY <1>7 DEF ImportHistoryRecords
<1>8. ASSUME NEW x \in Sample, CleanOldRecords(x.lastUpdated)
      PROVE  nodes' = nodes /\ own' \subseteq own
  BY <1>8 DEF CleanOldRecords
<1>9. CASE Restart
  BY <1>9 DEF Restart, Disappears
<1>10. CASE UNCHANGED vars
  BY <1>10, <1>5 DEF vars
<1> QED
  BY <1>1, <1>2, <1>3, <1>4, <1>5, <1>6, <1>7, <1>8, <1>9, <1>10 DEF Next

\* Every step preserves the types.
LEMMA NextTypeOK == TypeOK /\ [Next]_vars => TypeOK'
<1> SUFFICES ASSUME TypeOK, [Next]_vars PROVE TypeOK'
  OBVIOUS
<1>t. /\ nodes = [k \in Node |-> nodes[k]]
      /\ \A k \in Node : nodes[k] # NoState => IsNodeState(nodes[k]) /\ nodes[k].nodeID = k
      /\ \A r \in recording \cup table \cup own : IsRow(r)
  BY DEF TypeOK
<1>l. Local \in Node /\ \A x \in Sample : IsNodeState(x) /\ x.nodeID \in Node /\ x # NoState
  BY SampleAssumption, NodeStateFields
<1>e. {"node_join", "metric_update", "node_leave"} \subseteq EventType
  BY DEF EventType
<1>1. ASSUME NEW x \in Sample, UpdateLocalNode(x) PROVE TypeOK'
  <2>1. nodes' = [nodes EXCEPT ![Local] = x] /\ x.nodeID = Local
        /\ UNCHANGED <<recording, table, own>>
    BY <1>1 DEF UpdateLocalNode
  <2> QED
    BY <2>1, <1>t, <1>l DEF TypeOK
<1>2. ASSUME NEW x \in Sample, MergeNodeState(x) PROVE TypeOK'
  <2> DEFINE l == nodes[x.nodeID]
  <2>1. nodes' = [nodes EXCEPT ![x.nodeID] = Merged(l, x)]
    BY <1>2 DEF MergeNodeState
  <2>2. IsNodeState(Merged(l, x)) /\ Merged(l, x).nodeID = x.nodeID
    <3>1. CASE l = NoState
      BY <3>1, <1>l DEF Merged
    <3>2. CASE l # NoState /\ RemoteWins(l, x)
      BY <3>2, <1>l, <1>t, WinnerFields
    <3>3. CASE l # NoState /\ ~RemoteWins(l, x)
      BY <3>3, <1>l, <1>t DEF Merged
    <3> QED
      BY <3>1, <3>2, <3>3
  <2>3. /\ IsRow(Row(x, "node_join")) /\ IsRow(Row(x, "metric_update"))
    BY <1>l, <1>e, RowType
  <2>4. \A r \in recording' \cup table' \cup own' : IsRow(r)
    BY <1>2, <2>3, <1>t DEF MergeNodeState, RecordLater
  <2> HIDE DEF l
  <2> QED
    BY <2>1, <2>2, <2>4, <1>t, <1>l DEF TypeOK
<1>3. ASSUME NEW k \in Node, MarkNodeInactive(k) PROVE TypeOK'
  <2>1. nodes[k] # NoState /\ nodes' = [nodes EXCEPT ![k] = MarkedInactive(nodes[k])]
        /\ recording' = recording \cup {Row(nodes[k], "node_leave")}
        /\ own' = own \cup {Row(nodes[k], "node_leave")} /\ table' = table
    BY <1>3 DEF MarkNodeInactive, RecordLater
  <2>2. IsNodeState(MarkedInactive(nodes[k])) /\ MarkedInactive(nodes[k]).nodeID = k
    BY <2>1, <1>t, MarkedFields
  <2>3. IsRow(Row(nodes[k], "node_leave"))
    BY <2>1, <1>t, <1>e, RowType
  <2> QED
    BY <2>1, <2>2, <2>3, <1>t DEF TypeOK
<1>4. ASSUME NEW k \in Node, RemoveNode(k) PROVE TypeOK'
  BY <1>4, <1>t DEF RemoveNode, TypeOK
<1>5. ASSUME NEW r \in recording, RecordEvent(r) PROVE TypeOK'
  BY <1>5, <1>t DEF RecordEvent, TypeOK
<1>6. ASSUME NEW r \in PeerRow, ImportHistoryRecords(r) PROVE TypeOK'
  BY <1>6, <1>t, SampleAssumption DEF ImportHistoryRecords, TypeOK
<1>7. ASSUME NEW x \in Sample, CleanOldRecords(x.lastUpdated) PROVE TypeOK'
  BY <1>7, <1>t DEF CleanOldRecords, TypeOK
<1>8. CASE Restart
  BY <1>8, <1>t DEF Restart, TypeOK
<1>9. CASE UNCHANGED vars
  BY <1>9, <1>t DEF vars, TypeOK
<1> QED
  BY <1>1, <1>2, <1>3, <1>4, <1>5, <1>6, <1>7, <1>8, <1>9 DEF Next

\* Every step keeps entries and rows traced to samples.
LEMMA NextTraced == SInv /\ [Next]_vars => Traced'
<1> SUFFICES ASSUME SInv, [Next]_vars PROVE Traced'
  OBVIOUS
<1>t. /\ TypeOK /\ TypeOK'
      /\ \A k \in Node : nodes[k] # NoState => IsNodeState(nodes[k]) /\ nodes[k].nodeID = k
      /\ \A r \in own : IsRow(r)
      /\ \A r \in own' : IsRow(r)
  BY NextTypeOK DEF SInv, TypeOK
<1>l. \A x \in Sample : IsNodeState(x) /\ x.clock \in Clock /\ x # NoState
                          /\ x.lastUpdated \in Nat
  BY SampleAssumption, NodeStateFields
<1>1. ASSUME NEW s \in Node \ {Local}
      PROVE  EntryTraced(s)' /\ \A r \in own' : r.node = s => RowCovered(r)'
  <2>0. EntryTraced(s) /\ \A r \in own : r.node = s => RowCovered(r)
    BY DEF SInv, Traced
  <2>1. CASE nodes'[s] = nodes[s] /\ NewRows(s, {})
    BY <2>0, <2>1 DEF EntryTraced, RowCovered, NewRows, Absorbed, Covered
  <2>2. ASSUME NEW x \in Sample, x.nodeID = s, Joins(s, x)
        PROVE  EntryTraced(s)' /\ \A r \in own' : r.node = s => RowCovered(r)'
    <3>1. Precedes(x.clock, x.clock)
      BY <1>l, PrecedesOrder
    <3>2. \A r \in own' : r.node = s => r = Row(x, "node_join")
      BY <2>0, <2>2 DEF Joins, NewRows, RowCovered
    <3>3. /\ Row(x, "node_join").time = x.lastUpdated
          /\ Row(x, "node_join").type = "node_join"
          /\ Row(x, "node_join").node = s
      BY <2>2 DEF Row
    <3>4. Absorbed(s, x.lastUpdated, x.clock) /\ Covered(s, x.lastUpdated, x)
      BY <3>1, <2>2, <1>l DEF Absorbed, Covered
    <3>5. nodes'[s] = x /\ x # NoState
      BY <2>2, <1>l DEF Joins
    <3> QED
      BY <3>2, <3>3, <3>4, <3>5 DEF EntryTraced, RowCovered, Absorbed, Covered
  <2>3. ASSUME NEW x \in Sample, x.nodeID = s, Wins(s, x)
        PROVE  EntryTraced(s)' /\ \A r \in own' : r.node = s => RowCovered(r)'
    <3> DEFINE l == nodes[s]
               w == Merged(l, x)
    <3>1. IsNodeState(l) /\ l.nodeID = s /\ RemoteWins(l, x) /\ nodes'[s] = w
      BY <2>3, <1>t DEF Wins
    <3>2. /\ IsNodeState(w) /\ w.lastUpdated = x.lastUpdated
          /\ Precedes(x.clock, w.clock) /\ w # NoState
      BY <3>1, <1>l, WinnerFields, NodeStateFields
    <3>3. Absorbed(s, x.lastUpdated, w.clock) /\ Covered(s, x.lastUpdated, w)
      BY <3>2, <2>3, <1>l DEF Absorbed, Covered
    <3>4. ASSUME NEW r \in own, r.node = s
          PROVE  Covered(s, r.time, w) /\ r.time # x.lastUpdated
      <4>1. Covered(s, r.time, l) /\ r.time \in Nat
        BY <2>0, <3>4, <1>t DEF RowCovered, IsRow
      <4> QED
        BY <4>1, <3>1, <2>3, WinKeepsCovered
    <3>5. /\ Row(x, "metric_update").time = x.lastUpdated
          /\ Row(x, "metric_update").type = "metric_update"
      BY DEF Row
    <3>6. \A r \in own' : r.node = s => r \in own \/ r = Row(x, "metric_update")
      BY <2>3 DEF Wins, NewRows
    <3> HIDE DEF l, w
    <3>7. EntryTraced(s)'
      BY <3>1, <3>2, <3>3 DEF EntryTraced, Absorbed
    <3>8. ASSUME NEW r \in own', r.node = s
          PROVE  RowCovered(r)'
      <4>1. Covered(s, r.time, w) /\ (r.type = "node_leave" => r.time # x.lastUpdated)
        BY <3>3, <3>4, <3>5, <3>6, <3>8
      <4> QED
        BY <4>1, <3>1, <3>2, <3>8 DEF RowCovered, Covered
    <3> QED
      BY <3>7, <3>8
  <2>4. CASE Leaves(s)
    <3> DEFINE l == nodes[s]
               w == MarkedInactive(l)
    <3>1. IsNodeState(l) /\ l.nodeID = s /\ nodes'[s] = w /\ l # NoState
      BY <2>4, <1>t DEF Leaves
    <3>2. /\ IsNodeState(w) /\ w.lastUpdated = l.lastUpdated /\ w.clock = l.clock
          /\ w.status = "inactive" /\ w # NoState
      BY <3>1, MarkedFields, NodeStateFields
    <3>3. Absorbed(s, w.lastUpdated, w.clock)
      BY <2>0, <3>1, <3>2 DEF EntryTraced
    <3>4. Covered(s, w.lastUpdated, w)
      BY <3>1, <3>2, <3>3, NodeStateFields DEF Absorbed, Covered
    <3>5. Row(l, "node_leave").time = w.lastUpdated
      BY <3>2 DEF Row
    <3>6. \A r \in own' : r.node = s => r \in own \/ r = Row(l, "node_leave")
      BY <2>4 DEF Leaves, NewRows
    <3>7. \A r \in own : r.node = s => Covered(s, r.time, w)
      BY <2>0, <3>2 DEF RowCovered, Covered
    <3> HIDE DEF l, w
    <3>8. EntryTraced(s)'
      BY <3>1, <3>2, <3>3 DEF EntryTraced, Absorbed
    <3>9. ASSUME NEW r \in own', r.node = s
          PROVE  RowCovered(r)'
      <4>1. Covered(s, r.time, w)
        BY <3>4, <3>5, <3>6, <3>7, <3>9
      <4> QED
        BY <4>1, <3>1, <3>2, <3>9 DEF RowCovered, Covered
    <3> QED
      BY <3>8, <3>9
  <2>5. CASE Disappears(s)
    BY <2>5 DEF Disappears, EntryTraced
  <2> QED
    BY <2>1, <2>2, <2>3, <2>4, <2>5, <1>t, StepCases
<1>2. ASSUME NEW r \in own', r.node # Local PROVE RowCovered(r)'
  <2>1. r.node \in Node \ {Local}
    BY <1>2, <1>t DEF IsRow
  <2> QED
    BY <2>1, <1>1, <1>2
<1> QED
  BY <1>1, <1>2 DEF Traced

LEMMA SpecSInv == Spec => []SInv
<1>1. Init => SInv
  BY DEF Init, SInv, TypeOK, Traced, EntryTraced
<1>2. SInv /\ [Next]_vars => SInv'
  BY NextTypeOK, NextTraced DEF SInv
<1> QED
  BY <1>1, <1>2, PTL DEF Spec

-----------------------------------------------------------------------------
\* The map only ever holds node states under their own id, and the rows that
\* are written are rows of the history table.
THEOREM StateTypeCorrect == Spec => []TypeOK
<1>1. SInv => TypeOK
  BY DEF SInv
<1> QED
  BY <1>1, SpecSInv, PTL

\* Compare decides the happened-before order between an entry and any sample
\* that may be merged into it.
THEOREM EntriesCompareCausally == Spec => []CompareIsCausal
<1>1. SInv => CompareIsCausal
  <2> SUFFICES ASSUME SInv, NEW s \in Node, nodes[s] # NoState, NEW x \in Sample
               PROVE  ComparesCausally(x.clock, nodes[s].clock)
    BY DEF CompareIsCausal
  <2>1. x.clock \in Clock /\ nodes[s].clock \in Clock
    BY SampleAssumption, NodeStateFields DEF SInv, TypeOK
  <2> QED
    BY <2>1, CompareDecidesOrder
<1> QED
  BY <1>1, SpecSInv, PTL

\* Merge gives the least upper bound of the clocks of an entry and a sample.
THEOREM EntriesMergeToJoin == Spec => []MergeIsJoin
<1>1. SInv => MergeIsJoin
  <2> SUFFICES ASSUME SInv, NEW s \in Node, nodes[s] # NoState,
                      NEW x \in Sample, NEW y \in Sample
               PROVE  MergesToJoin(x.clock, nodes[s].clock, y.clock)
    BY DEF MergeIsJoin
  <2>1. x.clock \in Clock /\ y.clock \in Clock /\ nodes[s].clock \in Clock
    BY SampleAssumption, NodeStateFields DEF SInv, TypeOK
  <2> QED
    BY <2>1, MergeIsLeastUpperBound
<1> QED
  BY <1>1, SpecSInv, PTL

\* No entry but the local one forgets a version while its node is known.
THEOREM EntriesForgetNothing == Spec => ClockGrows
<1>1. SInv /\ [Next]_vars => [GrowStep]_vars
  <2> SUFFICES ASSUME SInv, [Next]_vars, NEW s \in Node \ {Local},
                      nodes[s] # NoState, nodes'[s] # NoState
               PROVE  Precedes(nodes[s].clock, nodes'[s].clock)
    BY DEF GrowStep
  <2>1. TypeOK /\ IsNodeState(nodes[s])
    BY DEF SInv, TypeOK
  <2>2. Precedes(nodes[s].clock, nodes[s].clock)
    BY <2>1, NodeStateFields, PrecedesOrder
  <2>3. ASSUME NEW x \in Sample, Wins(s, x) PROVE Precedes(nodes[s].clock, nodes'[s].clock)
    BY <2>1, <2>3, SampleAssumption, WinnerFields DEF Wins
  <2>4. CASE Leaves(s)
    BY <2>1, <2>2, <2>4, MarkedFields DEF Leaves
  <2> QED
    BY <2>1, <2>2, <2>3, <2>4, StepCases DEF Joins, Disappears
<1> QED
  BY <1>1, SpecSInv, PTL DEF Spec, ClockGrows

\* The record of a change is skipped only in favour of a row from before a
\* restart or a RemoveNode, or from a peer: of the changes since the node became
\* known no two share a row.
THEOREM ChangesAreRecorded == Spec => NoChangeSwallowed
<1>1. SInv /\ [Next]_vars => [RecordableStep]_vars
  <2> SUFFICES ASSUME SInv, [Next]_vars, NEW s \in Node \ {Local},
                      NEW r \in ChangeRows(nodes[s], nodes'[s]), r \in own
               PROVE  FALSE
    BY DEF RecordableStep
  <2>t. /\ TypeOK /\ (nodes[s] # NoState => IsNodeState(nodes[s]) /\ nodes[s].nodeID = s)
        /\ IsRow(r) /\ r.time \in Nat
    BY DEF SInv, TypeOK, IsRow
  <2>n. nodes'[s] # NoState /\ nodes'[s] # nodes[s]
    BY DEF ChangeRows
  <2>c. r.node = s => RowCovered(r)
    BY DEF SInv, Traced
  <2>1. ASSUME NEW x \in Sample, x.nodeID = s, Joins(s, x) PROVE FALSE
    <3>1. r = Row(x, "node_join") /\ r.node = s
      BY <2>1, <2>n DEF Joins, ChangeRows, Row
    <3> QED
      BY <3>1, <2>1, <2>c DEF RowCovered, Joins
  <2>2. ASSUME NEW x \in Sample, x.nodeID = s, Wins(s, x) PROVE FALSE
    <3>1. IsNodeState(x)
      BY SampleAssumption
    <3>2. /\ nodes'[s].nodeID = s /\ nodes'[s].lastUpdated = x.lastUpdated
          /\ nodes'[s] # MarkedInactive(nodes[s])
      BY <2>2, <2>t, <3>1, WinnerFields DEF Wins
    <3>3. r.node = s /\ r.time = x.lastUpdated
      BY <2>2, <2>n, <3>2 DEF Wins, ChangeRows, Row
    <3>4. Covered(s, r.time, nodes[s])
      BY <3>3, <2>c DEF RowCovered
    <3> QED
      BY <3>3, <3>4, <2>2, <2>t, WinKeepsCovered DEF Wins
  <2>3. CASE Leaves(s)
    <3>1. /\ MarkedInactive(nodes[s]).lastUpdated = nodes[s].lastUpdated
          /\ MarkedInactive(nodes[s]).nodeID = s
      BY <2>3, <2>t, MarkedFields DEF Leaves
    <3>2. r.node = s /\ r.time = nodes[s].lastUpdated /\ r.type = "node_leave"
      BY <2>3, <2>n, <3>1 DEF Leaves, ChangeRows, Row
    <3>3. nodes[s].status = "inactive"
      BY <3>2, <2>c DEF RowCovered
    <3>4. MarkedInactive(nodes[s]) = nodes[s]
      BY <3>3, <2>3, <2>t, NodeStateFields DEF MarkedInactive, Leaves
    <3> QED
      BY <3>4, <2>3, <2>n DEF Leaves
  <2> QED
    BY <2>t, <2>n, <2>1, <2>2, <2>3, StepCases DEF Disappears
<1> QED
  BY <1>1, SpecSInv, PTL DEF Spec, NoChangeSwallowed
=============================================================================
