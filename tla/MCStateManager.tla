--------------------------- MODULE MCStateManager ----------------------------
(***************************************************************************)
(* A small instance of StateManager: one sample of the local node n1, and  *)
(* samples of n2 that are causally ordered, concurrent, and, from a second *)
(* run of n2, equal in their clock to an earlier one.                      *)
(***************************************************************************)
EXTENDS StateManager, TLC

CONSTANTS n1, n2

MCSample ==
  [nodeID : {n2}, status : Status, lastUpdated : {1}, clock : {n2 :> 1}]
    \cup [nodeID : {n2}, status : {"active"}, lastUpdated : {2}, clock : {n2 :> 2}]
    \cup [nodeID : {n2}, status : {"active"}, lastUpdated : {3}, clock : {n1 :> 1}]
    \cup [nodeID : {n2}, status : {"active"}, lastUpdated : {4}, clock : {n2 :> 1}]
    \cup [nodeID : {n1}, status : {"active"}, lastUpdated : {1}, clock : {n1 :> 1}]

\* rows of n2 that a peer recorded of the same samples
MCPeerRow ==
  [node : {n2}, time : {1}, type : {"node_leave"}]
    \cup [node : {n2}, time : {2}, type : {"metric_update"}]
=============================================================================
