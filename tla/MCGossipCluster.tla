--------------------------- MODULE MCGossipCluster ---------------------------
(* Small instances of GossipCluster for TLC. *)
EXTENDS GossipCluster, TLC

CONSTANTS n1, n2, n3

\* only n1 takes samples
MCOnePublisher == [n \in Node |-> IF n = n1 THEN 2 ELSE 0]

\* n1 takes samples; with a third one its clock after a restart may be behind
\* one it published before
MCThreeSamples == [n \in Node |-> IF n = n1 THEN 3 ELSE 0]

\* both of two processes take a sample, and n1 another one
MCTwoPublishers == [n \in Node |-> IF n = n1 THEN 2 ELSE 1]

\* the processes that take no samples are interchangeable
MCObservers == Permutations(Node \ {n1})
=============================================================================
