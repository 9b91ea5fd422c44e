----------------------------- MODULE MCDiscovery -----------------------------
(***************************************************************************)
(* For TLC: two processes of one cluster, one of which has the other as a  *)
(* seed, and one of another cluster.                                       *)
(***************************************************************************)
EXTENDS Discovery

CONSTANTS a1, a2, b1

MCClusterName == [n \in Node |-> IF n = b1 THEN "b" ELSE "a"]

MCSeeds == [n \in Node |-> IF n = a2 THEN {a1} ELSE {}]

\* discovery may start or fail everywhere
MCOutcome == [n \in Node |-> {"on", "deaf"}]
=============================================================================
