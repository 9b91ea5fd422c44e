------------------------------ MODULE Discovery ------------------------------
(***************************************************************************)
(* How processes come to be members of each other: the seeds that          *)
(* GossipManager.Start joins, and auto-discovery on one network, where     *)
(* every process announces its gossip address and its cluster name and     *)
(* tries to join whoever it hears of (pkg/gossip/gossip.go, discovery.go,  *)
(* discovery_udp.go, discovery_mdns.go).                                   *)
(*                                                                         *)
(* A node stands for its gossip address.  UDP broadcasts and mDNS entries  *)
(* carry the same two fields to the same tryJoin, one after the other, so  *)
(* one inbox per process stands for the UDP socket or for entriesCh.  Time *)
(* is kept as the age of the entries of seenAddrs, in units in which the   *)
(* cooldown is a small number.  memberlist is external: a join fails or    *)
(* succeeds, members exchange their lists, and one may be reported gone.   *)
(* The configuration of an address does not change: a process is started   *)
(* again with the same cluster name and the same seeds.                    *)
(***************************************************************************)
EXTENDS Integers

CONSTANTS
  Node,         \* the processes, and their gossip addresses
  ClusterName,  \* ClusterName[n]: cfg.Cluster.Name of n
  Seeds,        \* Seeds[n]: cfg.Cluster.Seeds of n
  Outcome,      \* Outcome[n]: what may become of n when it starts discovery
  Cooldown,     \* discoveryBase.cooldown (30s)
  Forget,       \* the age at which isNew cleans an entry up (5 * cooldown)
  Nobody        \* no address

ASSUME DiscoveryAssumption ==
  /\ Seeds \in [Node -> SUBSET Node]
  /\ Outcome \in [Node -> SUBSET {"on", "deaf"}]
  /\ Cooldown \in Nat /\ Forget \in Nat /\ Forget >= Cooldown
  /\ Nobody \notin Node

VARIABLES
  proc,         \* proc[n]: "off", "starting" (memberlist runs, Start does not return
                \* yet), "on" (with discovery), "deaf" (without), "stopping"
  age,          \* age[o][a]: how long ago o recorded a in seenAddrs, up to Never
  inbox,        \* inbox[o]: the sender of the announcement o can read next
  joining,      \* joining[o]: the address o's listener passed to memberlist.Join
  members       \* members[o]: the addresses memberlist lists at o

vars == <<proc, age, inbox, joining, members>>

\* The address is not in the map, or the clean-up that every isNew starts with
\* removes it.
Never == Forget + 1

SameCluster(o, s) == ClusterName[o] = ClusterName[s]

-----------------------------------------------------------------------------
Init ==
  /\ proc = [n \in Node |-> "off"]
  /\ age = [o \in Node |-> [a \in Node |-> Never]]
  /\ inbox = [o \in Node |-> Nobody]
  /\ joining = [o \in Node |-> Nobody]
  /\ members = [o \in Node |-> {o}]

\* memberlist at o and at a have exchanged their lists
Exchange(o, a) ==
  LET both == members[o] \cup members[a] \cup {o, a}
  IN  members' = [members EXCEPT ![o] = both, ![a] = both]

\* memberlist.Create, then Start
Start(n) ==
  /\ proc[n] = "off"
  /\ proc' = [proc EXCEPT ![n] = "starting"]
  /\ UNCHANGED <<age, inbox, joining, members>>

\* list.Join of the seeds reaches one of them; those it does not reach are
\* logged and not tried again.  Nobody compares cluster names.
JoinSeed(n, s) ==
  /\ proc[n] = "starting"
  /\ s \in Seeds[n] \ {n}
  /\ proc[s] # "off"
  /\ Exchange(n, s)
  /\ UNCHANGED <<proc, age, inbox, joining>>

(***************************************************************************)
(* The discovery of the configured type starts its loops, or there is      *)
(* none: it is switched off, its port is taken (by memberlist itself, if   *)
(* the gossip port is the same), the local address is 0.0.0.0, or the mDNS *)
(* server fails.  Start logs the error, sets discovery to nil and returns  *)
(* nil; nobody tries again.                                                *)
(***************************************************************************)
StartDiscovery(n) ==
  /\ proc[n] = "starting"
  /\ \E result \in Outcome[n] : proc' = [proc EXCEPT ![n] = result]
  /\ UNCHANGED <<age, inbox, joining, members>>

Tick ==
  /\ age' = [o \in Node |-> [a \in Node |->
               IF age[o][a] < Never THEN age[o][a] + 1 ELSE Never]]
  /\ age' # age
  /\ UNCHANGED <<proc, inbox, joining, members>>

\* A tick of broadcastLoop, or an answer to the queries of browseLoop.  The
\* datagram reaches any processes that have room for it, the sender as well.
Announce(n, receivers) ==
  /\ proc[n] = "on"
  /\ receivers # {}
  /\ \A o \in receivers : proc[o] = "on" /\ inbox[o] = Nobody
  /\ inbox' = [o \in Node |-> IF o \in receivers THEN n ELSE inbox[o]]
  /\ UNCHANGED <<proc, age, joining, members>>

\* isNew for address a at o: absent from seenAddrs, or older than the cooldown
Expired(o, a) == age[o][a] > Cooldown

\* Mutant: an announcement renews the entry also when it is not new.
Recorded_Always(o, a) == [age EXCEPT ![o][a] = 0]

\* isNew records the time of an address that is new, before it is joined
Recorded(o, a) == [age EXCEPT ![o][a] = IF Expired(o, a) THEN 0 ELSE @]

\* Mutant: the name of the remote cluster is not compared.
TryJoin_AnyCluster(o, a) ==
  /\ age' = Recorded(o, a)
  /\ joining' = [joining EXCEPT ![o] = IF Expired(o, a) THEN a ELSE @]

TryJoin(o, a) ==
  IF SameCluster(o, a)
  THEN /\ age' = Recorded(o, a)
       /\ joining' = [joining EXCEPT ![o] = IF Expired(o, a) THEN a ELSE @]
  ELSE UNCHANGED <<age, joining>>

\* Mutant: a process does not recognise its own announcement.
HandleEntry_OwnToo(o, a) == TryJoin(o, a)

\* the own announcement is skipped
HandleEntry(o, a) ==
  IF a = o THEN UNCHANGED <<age, joining>> ELSE TryJoin(o, a)

\* listenLoop handles one datagram after the other.  Stop does not wait for
\* it, so the one it has read is handled to the end.
Listen(o) ==
  /\ proc[o] \in {"on", "stopping"}
  /\ inbox[o] # Nobody
  /\ joining[o] = Nobody
  /\ HandleEntry(o, inbox[o])
  /\ inbox' = [inbox EXCEPT ![o] = Nobody]
  /\ UNCHANGED <<proc, members>>

\* memberlist.Join returns without an error: both lists have been exchanged
JoinSucceeds(o) ==
  /\ joining[o] # Nobody
  /\ proc[joining[o]] # "off"
  /\ Exchange(o, joining[o])
  /\ joining' = [joining EXCEPT ![o] = Nobody]
  /\ UNCHANGED <<proc, age, inbox>>

\* the error is logged; the address stays in seenAddrs
JoinFails(o) ==
  /\ joining[o] # Nobody
  /\ joining' = [joining EXCEPT ![o] = Nobody]
  /\ UNCHANGED <<proc, age, inbox, members>>

\* memberlist's periodic push/pull with a member that is running
PushPull(o, s) ==
  /\ proc[o] # "off" /\ proc[s] # "off"
  /\ s \in members[o] \ {o}
  /\ Exchange(o, s)
  /\ UNCHANGED <<proc, age, inbox, joining>>

\* memberlist at o gives up on s
MemberGone(o, s) ==
  /\ proc[o] # "off"
  /\ s \in members[o] \ {o}
  /\ members' = [members EXCEPT ![o] = @ \ {s}]
  /\ UNCHANGED <<proc, age, inbox, joining>>

\* GossipManager.Stop: that of the discovery, if there is one, cancels the
\* loops and does not wait for them
Stop(n) ==
  /\ proc[n] \in {"on", "deaf"}
  /\ proc' = [proc EXCEPT ![n] = "stopping"]
  /\ UNCHANGED <<age, inbox, joining, members>>

\* the process ends; a killed one does so without Stop
Exit(n) ==
  /\ proc[n] # "off"
  /\ proc' = [proc EXCEPT ![n] = "off"]
  /\ age' = [age EXCEPT ![n] = [a \in Node |-> Never]]
  /\ inbox' = [inbox EXCEPT ![n] = Nobody]
  /\ joining' = [joining EXCEPT ![n] = Nobody]
  /\ members' = [members EXCEPT ![n] = {n}]

Next ==
  \/ \E n \in Node : Start(n)
  \/ \E n, s \in Node : JoinSeed(n, s)
  \/ \E n \in Node : StartDiscovery(n)
  \/ Tick
  \/ \E n \in Node : \E receivers \in SUBSET Node : Announce(n, receivers)
  \/ \E o \in Node : Listen(o)
  \/ \E o \in Node : JoinSucceeds(o)
  \/ \E o \in Node : JoinFails(o)
  \/ \E o, s \in Node : PushPull(o, s)
  \/ \E o, s \in Node : MemberGone(o, s)
  \/ \E n \in Node : Stop(n)
  \/ \E n \in Node : Exit(n)

Spec == Init /\ [][Next]_vars

(***************************************************************************)
(* Fairness.  Time passes, a process that announces itself every interval  *)
(* is heard now and then by each other one that listens, whoever listens   *)
(* reads on, and of the joins of an address that are tried again and again *)
(* some succeed if it is running.  Nothing makes a process start, stop or  *)
(* have discovery; joins, exchanges and announcements may fail for ever    *)
(* otherwise.                                                              *)
(***************************************************************************)
\* an announcement of n that reaches o: a datagram that gets through, or a
\* query of browseLoop at o that n answers
Heard(n, o) == \E receivers \in SUBSET Node : o \in receivers /\ Announce(n, receivers)

Fairness ==
  /\ WF_vars(Tick)
  /\ \A o \in Node :
       /\ WF_vars(Listen(o))
       /\ WF_vars(JoinSucceeds(o) \/ JoinFails(o))
       /\ \A s \in Node \ {o} : SameCluster(o, s) =>
            /\ SF_vars(Heard(s, o))
            /\ SF_vars(joining[o] = s /\ JoinSucceeds(o))

FairSpec == Spec /\ Fairness

-----------------------------------------------------------------------------
(***************************************************************************)
(* Properties.                                                             *)
(***************************************************************************)

\* In particular a process never joins itself.
TypeOK ==
  /\ proc \in [Node -> {"off", "starting", "on", "deaf", "stopping"}]
  /\ age \in [Node -> [Node -> 0..Never]]
  /\ inbox \in [Node -> Node \cup {Nobody}]
  /\ joining \in [Node -> Node \cup {Nobody}]
  /\ \A o \in Node : joining[o] # o
  /\ members \in [Node -> SUBSET Node]

\* the configuration itself connects o and s
Linked(o, s) == SameCluster(o, s) \/ s \in Seeds[o] \/ o \in Seeds[s]

\* no process of S is linked to one outside
Closed(S) == \A o \in S : \A s \in Node : Linked(o, s) => s \in S

\* what is reached from o over names and seeds
Realm == [o \in Node |-> {s \in Node : \A S \in SUBSET Node : o \in S /\ Closed(S) => s \in S}]

(***************************************************************************)
(* Processes on one network become members of each other only along        *)
(* cluster names and seeds: discovery never joins another cluster, and     *)
(* lists that are exchanged, also by third processes, carry members of     *)
(* another cluster only where some process has a seed in it.  In           *)
(* particular clusters without seeds into each other stay apart            *)
(* (GossipManager.Start, tryJoin).                                         *)
(***************************************************************************)
OneCluster ==
  /\ \A o \in Node : members[o] \subseteq Realm[o]
  /\ \A o \in Node : joining[o] # Nobody => SameCluster(o, joining[o])

(***************************************************************************)
(* Two processes of one cluster whose discovery has started find each      *)
(* other, however often joins failed, announcements got lost, or           *)
(* memberlist gave up on a member: an address that was recorded as seen    *)
(* before its join failed is tried again after the cooldown (isNew,        *)
(* tryJoin).                                                               *)
(***************************************************************************)
Found ==
  \A o \in Node : \A s \in Node \ {o} :
     SameCluster(o, s) =>
       (proc[o] = "on" /\ proc[s] = "on")
          ~> (s \in members[o] \/ proc[o] # "on" \/ proc[s] # "on")
=============================================================================
