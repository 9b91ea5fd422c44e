----------------------------- MODULE NodeStates ------------------------------
(***************************************************************************)
(* What the cluster state of one process maps a node id to, and the        *)
(* conflict resolution of pkg/state/state.go on it.  A NodeState keeps the *)
(* fields the control depends on.  The metrics of a sample, its addresses  *)
(* and LastSeen are all written together with LastUpdated by one call of   *)
(* collectAndPublish, so lastUpdated stands for the whole sample.          *)
(***************************************************************************)
EXTENDS VectorClock

CONSTANT NoState    \* "the map has no entry for this id"

Status == {"active", "inactive"}

NodeState == [nodeID : Node, status : Status, lastUpdated : Nat, clock : Clock]

\* x \in NodeState, in a form TLC evaluates
IsNodeState(x) ==
  /\ x \in [nodeID : Node, status : Status, lastUpdated : Nat, clock : {x.clock}]
  /\ IsClock(x.clock)

ASSUME NoStateAssumption == NoState \notin NodeState

\* Mutant: the time comparison lets the remote side win a tie.
RemoteWins_TieToRemote(local, remote) ==
  \/ Compare(remote.clock, local.clock) = 1
  \/ /\ Compare(remote.clock, local.clock) = 0
     /\ remote.lastUpdated >= local.lastUpdated

\* Mutant: concurrent or equal clocks always keep the local state.
RemoteWins_NoLWW(local, remote) == Compare(remote.clock, local.clock) = 1

\* Mutant: the arguments of Compare are swapped.
RemoteWins_Swapped(local, remote) ==
  \/ Compare(local.clock, remote.clock) = 1
  \/ /\ Compare(local.clock, remote.clock) = 0
     /\ remote.lastUpdated > local.lastUpdated

\* resolveConflict returns remote: it happened after local, or neither
\* happened after the other and its LastUpdated is strictly later.
RemoteWins(local, remote) ==
  \/ Compare(remote.clock, local.clock) = 1
  \/ /\ Compare(remote.clock, local.clock) = 0
     /\ remote.lastUpdated > local.lastUpdated

\* Mutant: the clocks are merged into the local state instead of the winner.
Merged_IntoLocal(local, remote) ==
  IF local = NoState THEN remote
  ELSE IF RemoteWins(local, remote)
       THEN [local EXCEPT !.clock = Merge(@, remote.clock)]
       ELSE local

\* Mutant: the winner does not take over the loser's clock.
Merged_NoMerge(local, remote) ==
  IF local = NoState \/ RemoteWins(local, remote) THEN remote ELSE local

\* The entry MergeNodeState leaves in the map: a new node's state as it came,
\* otherwise the winner, which takes over the entries of the loser's clock
\* only when the winner is the remote state.
Merged(local, remote) ==
  IF local = NoState THEN remote
  ELSE IF RemoteWins(local, remote)
       THEN [remote EXCEPT !.clock = Merge(@, local.clock)]
       ELSE local

\* Mutant: the copy is a fresh NodeState whose Status is never filled in.
MarkedInactive_NoStatus(local) ==
  IF local = NoState THEN NoState ELSE [local EXCEPT !.status = ""]

\* The entry MarkNodeInactive leaves: neither the clock nor LastUpdated moves.
MarkedInactive(local) ==
  IF local = NoState THEN NoState ELSE [local EXCEPT !.status = "inactive"]

\* SaveNodeState followed by GetNodeState: the Clock column does not exist
\* (gorm:"-"), so what comes back from SQLite has no clock.
Stored(ns) == [ns EXCEPT !.clock = EmptyClock]
=============================================================================
