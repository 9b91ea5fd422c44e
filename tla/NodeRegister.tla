---------------------------- MODULE NodeRegister -----------------------------
(***************************************************************************)
(* What the replication of node states promises to whoever reads the map   *)
(* of one process (GetNode, GetClusterState, the REST API): for each node  *)
(* a register that holds a version the node itself published.  A register  *)
(* is overwritten by its own node's next version, moves to a later         *)
(* version, may be flagged inactive without a change of version, and is    *)
(* lost only when the process of the reader stops.  How versions travel    *)
(* does not appear here.  GossipCluster implements this specification.     *)
(***************************************************************************)
EXTENDS Integers

CONSTANT Node

VARIABLES
  running,    \* the processes that run
  history,    \* history[s]: the versions s has published
  register    \* register[o][s]: what o knows of s: nothing, or one version

vars == <<running, history, register>>

Flag == {"active", "inactive"}

\* Versions are ordered by their number, and by time when a restarted node
\* has used a number again.
Later(v, w) == v.number > w.number \/ (v.number = w.number /\ v.time > w.time)

Init ==
  /\ running = Node
  /\ history = [s \in Node |-> {}]
  /\ register = [o \in Node |-> [s \in Node |-> {}]]

\* s publishes a version no earlier one of its versions is as recent as
Publish(s) ==
  /\ s \in running
  /\ \E v \in history'[s] :
       /\ \A w \in history[s] : w.time < v.time
       /\ history' = [history EXCEPT ![s] = @ \cup {v}]
       /\ register' = [register EXCEPT ![s][s] = {[version |-> v, flag |-> "active"]}]
  /\ UNCHANGED running

\* o learns of a version of s, together with what others think of s
Learn(o, s) ==
  /\ o \in running
  /\ \E v \in history[s], f \in Flag :
       /\ \A r \in register[o][s] : Later(v, r.version)
       /\ register' = [register EXCEPT ![o][s] = {[version |-> v, flag |-> f]}]
  /\ UNCHANGED <<running, history>>

\* s has failed, or is leaving: then s itself may say so too
Suspect(o, s) ==
  /\ o \in running
  /\ register' = [register EXCEPT ![o][s] = {[r EXCEPT !.flag = "inactive"] : r \in @}]
  /\ UNCHANGED <<running, history>>

Stop(o) ==
  /\ o \in running
  /\ running' = running \ {o}
  /\ register' = [register EXCEPT ![o] = [s \in Node |-> {}]]
  /\ UNCHANGED history

Start(o) ==
  /\ o \notin running
  /\ running' = running \cup {o}
  /\ UNCHANGED <<history, register>>

Next ==
  \/ \E s \in Node : Publish(s)
  \/ \E o, s \in Node : Learn(o, s)
  \/ \E o, s \in Node : Suspect(o, s)
  \/ \E o \in Node : Stop(o)
  \/ \E o \in Node : Start(o)

Spec == Init /\ [][Next]_vars
=============================================================================
