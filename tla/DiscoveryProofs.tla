--------------------------- MODULE DiscoveryProofs ---------------------------
(***************************************************************************)
(* Members come only along cluster names and seeds, for any number of      *)
(* processes, clusters and seeds, any cooldown and any losses.             *)
(***************************************************************************)
EXTENDS Discovery, TLAPS

Inv == TypeOK /\ OneCluster

-----------------------------------------------------------------------------
(***************************************************************************)
(* The realms partition the processes.                                     *)
(***************************************************************************)

\* Being linked does not depend on who is named first.
LEMMA LinkedSymmetric ==
  ASSUME NEW o \in Node, NEW s \in Node, Linked(o, s)
  PROVE  Linked(s, o)
  BY DEF Linked, SameCluster

\* The realm of o is the least closed set that contains o.
LEMMA RealmLeast ==
  ASSUME NEW o \in Node
  PROVE  /\ Realm[o] \subseteq Node /\ o \in Realm[o] /\ Closed(Realm[o])
         /\ \A S \in SUBSET Node : o \in S /\ Closed(S) => Realm[o] \subseteq S
  <1>1. Realm[o] = {s \in Node : \A S \in SUBSET Node : o \in S /\ Closed(S) => s \in S}
    BY DEF Realm
  <1>2. ASSUME NEW x \in Realm[o], NEW s \in Node, Linked(x, s)
        PROVE  s \in Realm[o]
    <2>1. ASSUME NEW S \in SUBSET Node, o \in S, Closed(S) PROVE s \in S
      <3>1. x \in S
        BY <1>1, <1>2, <2>1
      <3> QED
        BY <3>1, <2>1, <1>2 DEF Closed
    <2> QED
      BY <2>1, <1>1
  <1>3. Closed(Realm[o])
    BY <1>2 DEF Closed
  <1> QED
    BY <1>1, <1>3

\* A process reached from o has the same realm as o.
LEMMA RealmShared ==
  ASSUME NEW o \in Node, NEW s \in Realm[o]
  PROVE  s \in Node /\ Realm[s] = Realm[o]
  <1>1. s \in Node
    BY RealmLeast
  <1>2. \A x, y \in Node : y \in Realm[x] => Realm[y] \subseteq Realm[x]
    BY RealmLeast
  <1>3. o \in Realm[s]
    <2> SUFFICES ASSUME o \notin Realm[s] PROVE FALSE
      OBVIOUS
    <2> DEFINE S == Node \ Realm[s]
    <2>1. ASSUME NEW x \in S, NEW t \in Node, Linked(x, t) PROVE t \in S
      <3>1. Linked(t, x)
        BY <2>1, LinkedSymmetric
      <3>2. Closed(Realm[s])
        BY <1>1, RealmLeast
      <3> QED
        BY <3>1, <3>2, <2>1 DEF Closed
    <2>2. Closed(S)
      BY <2>1 DEF Closed
    <2>3. S \in SUBSET Node /\ o \in S
      OBVIOUS
    <2>4. s \in S
      <3> HIDE DEF S
      <3> QED
        BY <2>2, <2>3, RealmLeast
    <2> QED
      BY <2>4, <1>1, RealmLeast
  <1> QED
    BY <1>1, <1>2, <1>3

-----------------------------------------------------------------------------
\* The initial state satisfies the invariant.
LEMMA InitInv == Init => Inv
  <1> SUFFICES ASSUME Init PROVE Inv
    OBVIOUS
  <1>1. Never \in 0..Never
    BY DiscoveryAssumption DEF Never
  <1>2. TypeOK
    BY <1>1, DiscoveryAssumption DEF Init, TypeOK
  <1>3. OneCluster
    BY RealmLeast DEF Init, OneCluster
  <1> QED
    BY <1>2, <1>3 DEF Inv

\* A datagram that is handled starts a join only of another process of the
\* same cluster.
LEMMA ListenInv ==
  ASSUME Inv, NEW o \in Node, Listen(o)
  PROVE  Inv'
  <1> DEFINE a == inbox[o]
  <1>1. a \in Node /\ a # Nobody
    BY DiscoveryAssumption DEF Inv, TypeOK, Listen
  <1>2. 0 \in 0..Never
    BY DiscoveryAssumption DEF Never
  <1>3. CASE UNCHANGED <<age, joining>>
    BY <1>3, DiscoveryAssumption DEF Inv, TypeOK, OneCluster, Listen
  <1>4. CASE a # o /\ SameCluster(o, a)
    <2>1. /\ age' = Recorded(o, a)
          /\ joining' = [joining EXCEPT ![o] = IF Expired(o, a) THEN a ELSE @]
      BY <1>4 DEF Listen, HandleEntry, TryJoin
    <2>2. age' \in [Node -> [Node -> 0..Never]]
      BY <2>1, <1>1, <1>2 DEF Recorded, Inv, TypeOK
    <2>3. TypeOK'
      BY <2>1, <2>2, <1>1, <1>4 DEF Inv, TypeOK, Listen
    <2>4. OneCluster'
      BY <2>1, <1>1, <1>4 DEF Inv, TypeOK, OneCluster, Listen, SameCluster
    <2> QED
      BY <2>3, <2>4 DEF Inv
  <1> QED
    BY <1>3, <1>4 DEF Listen, HandleEntry, TryJoin

\* The two lists that an exchange merges belong to one realm.
LEMMA ExchangeInv ==
  ASSUME Inv, NEW o \in Node, NEW a \in Realm[o], Exchange(o, a)
  PROVE  /\ members' \in [Node -> SUBSET Node]
         /\ \A p \in Node : members'[p] \subseteq Realm[p]
  <1> DEFINE both == members[o] \cup members[a] \cup {o, a}
  <1>1. a \in Node /\ Realm[a] = Realm[o]
    BY RealmShared
  <1>2. members' = [members EXCEPT ![o] = both, ![a] = both]
    BY DEF Exchange
  <1>3. members \in [Node -> SUBSET Node] /\ \A p \in Node : members[p] \subseteq Realm[p]
    BY DEF Inv, TypeOK, OneCluster
  <1>4. both \subseteq Realm[o] /\ both \subseteq Node
    BY <1>1, <1>3, RealmLeast
  <1> HIDE DEF both
  <1> QED
    BY <1>1, <1>2, <1>3, <1>4

\* A join that succeeds is one of the same cluster.
LEMMA JoinInv ==
  ASSUME Inv, NEW o \in Node, JoinSucceeds(o)
  PROVE  Inv'
  <1> DEFINE j == joining[o]
  <1>1. j \in Node /\ SameCluster(o, j) /\ Exchange(o, j)
    BY DEF Inv, TypeOK, OneCluster, JoinSucceeds
  <1>2. j \in Realm[o]
    BY <1>1, RealmLeast DEF Closed, Linked
  <1>3. /\ members' \in [Node -> SUBSET Node]
        /\ \A p \in Node : members'[p] \subseteq Realm[p]
    BY <1>1, <1>2, ExchangeInv
  <1>4. TypeOK'
    BY <1>3, DiscoveryAssumption DEF Inv, TypeOK, JoinSucceeds
  <1>5. OneCluster'
    BY <1>3 DEF Inv, TypeOK, OneCluster, JoinSucceeds, SameCluster
  <1> QED
    BY <1>4, <1>5 DEF Inv

\* Every step preserves the invariant.
LEMMA NextInv == Inv /\ [Next]_vars => Inv'
  <1> SUFFICES ASSUME Inv, [Next]_vars PROVE Inv'
    OBVIOUS
  <1>1. CASE Tick
    <2>1. age' \in [Node -> [Node -> 0..Never]]
      BY <1>1, DiscoveryAssumption DEF Inv, TypeOK, Tick, Never
    <2> QED
      BY <1>1, <2>1 DEF Inv, TypeOK, OneCluster, Tick, SameCluster
  <1>2. ASSUME NEW n \in Node, NEW receivers \in SUBSET Node, Announce(n, receivers)
        PROVE  Inv'
    BY <1>2 DEF Inv, TypeOK, OneCluster, Announce, SameCluster
  <1>3. ASSUME NEW o \in Node, Listen(o) PROVE Inv'
    BY <1>3, ListenInv
  <1>4. ASSUME NEW o \in Node, JoinSucceeds(o) PROVE Inv'
    BY <1>4, JoinInv
  <1>5. ASSUME NEW o \in Node, JoinFails(o) PROVE Inv'
    BY <1>5, DiscoveryAssumption DEF Inv, TypeOK, OneCluster, JoinFails, SameCluster
  <1>6. ASSUME NEW o \in Node, NEW s \in Node, MemberGone(o, s) PROVE Inv'
    BY <1>6 DEF Inv, TypeOK, OneCluster, MemberGone, SameCluster
  <1>7. ASSUME NEW n \in Node, Stop(n) PROVE Inv'
    BY <1>7 DEF Inv, TypeOK, OneCluster, Stop, SameCluster
  <1>8. ASSUME NEW n \in Node, Exit(n) PROVE Inv'
    <2>1. Never \in 0..Never
      BY DiscoveryAssumption DEF Never
    <2>2. TypeOK'
      BY <1>8, <2>1, DiscoveryAssumption DEF Inv, TypeOK, Exit
    <2>3. OneCluster'
      BY <1>8, RealmLeast, DiscoveryAssumption DEF Inv, TypeOK, OneCluster, Exit, SameCluster
    <2> QED
      BY <2>2, <2>3 DEF Inv
  <1>9. ASSUME NEW n \in Node, Start(n) PROVE Inv'
    BY <1>9 DEF Inv, TypeOK, OneCluster, Start, SameCluster
  <1>10. ASSUME NEW n \in Node, StartDiscovery(n) PROVE Inv'
    <2>1. \A r \in Outcome[n] : r \in {"on", "deaf"}
      BY DiscoveryAssumption
    <2>2. proc' \in [Node -> {"off", "starting", "on", "deaf", "stopping"}]
      BY <1>10, <2>1 DEF Inv, TypeOK, StartDiscovery
    <2> QED
      BY <1>10, <2>2 DEF Inv, TypeOK, OneCluster, StartDiscovery, SameCluster
  <1>11. ASSUME NEW n \in Node, NEW s \in Node, JoinSeed(n, s) PROVE Inv'
    <2>1. s \in Realm[n]
      BY <1>11, RealmLeast DEF Closed, Linked, JoinSeed
    <2>2. /\ members' \in [Node -> SUBSET Node]
          /\ \A p \in Node : members'[p] \subseteq Realm[p]
      BY <1>11, <2>1, ExchangeInv DEF JoinSeed
    <2> QED
      BY <1>11, <2>2 DEF Inv, TypeOK, OneCluster, JoinSeed, SameCluster
  <1>12. ASSUME NEW o \in Node, NEW s \in Node, PushPull(o, s) PROVE Inv'
    <2>1. s \in Realm[o]
      BY <1>12 DEF Inv, OneCluster, PushPull
    <2>2. /\ members' \in [Node -> SUBSET Node]
          /\ \A p \in Node : members'[p] \subseteq Realm[p]
      BY <1>12, <2>1, ExchangeInv DEF PushPull
    <2> QED
      BY <1>12, <2>2 DEF Inv, TypeOK, OneCluster, PushPull, SameCluster
  <1>13. CASE UNCHANGED vars
    BY <1>13 DEF Inv, TypeOK, OneCluster, vars, SameCluster
  <1> QED
    BY <1>1, <1>2, <1>3, <1>4, <1>5, <1>6, <1>7, <1>8, <1>9, <1>10, <1>11, <1>12, <1>13
       DEF Next

\* No sequence of announcements, seed joins, exchanges and restarts makes a
\* process a member of a node that cluster names and seeds do not connect it
\* to, nor the target of a discovery join of another cluster.  An address has
\* one cluster name throughout.
THEOREM ClustersStayApart == Spec => []OneCluster
  <1>1. Inv => OneCluster
    BY DEF Inv
  <1> QED
    BY <1>1, InitInv, NextInv, PTL DEF Spec

\* Where no seed leads into another cluster, nobody becomes a member of one.
LEMMA RealmIsCluster ==
  ASSUME \A n \in Node : \A s \in Seeds[n] : SameCluster(n, s)
  PROVE  \A o \in Node : Realm[o] = {s \in Node : SameCluster(o, s)}
  <1> SUFFICES ASSUME NEW o \in Node PROVE Realm[o] = {s \in Node : SameCluster(o, s)}
    OBVIOUS
  <1> DEFINE S == {s \in Node : SameCluster(o, s)}
  <1>1. Closed(S)
    BY DEF Closed, Linked, SameCluster
  <1>2. o \in S /\ S \in SUBSET Node
    BY DEF SameCluster
  <1>3. Realm[o] \subseteq S
    <2> HIDE DEF S
    <2> QED
      BY <1>1, <1>2, RealmLeast
  <1>4. S \subseteq Realm[o]
    BY RealmLeast DEF Closed, Linked
  <1> QED
    BY <1>3, <1>4

\* Seeds within the own cluster keep the clusters on one network apart: the
\* member lists of GossipManager hold processes of the own cluster only.
THEOREM NamedClustersStayApart ==
  ASSUME \A n \in Node : \A s \in Seeds[n] : SameCluster(n, s)
  PROVE  Spec => [](\A o \in Node : \A s \in members[o] : SameCluster(o, s))
  <1>1. OneCluster => \A o \in Node : \A s \in members[o] : SameCluster(o, s)
    BY RealmIsCluster DEF OneCluster
  <1> QED
    BY <1>1, ClustersStayApart, PTL

\* The state of discovery stays well typed, and no process joins itself.
THEOREM DiscoveryTypeCorrect == Spec => []TypeOK
  <1>1. Inv => TypeOK
    BY DEF Inv
  <1> QED
    BY <1>1, InitInv, NextInv, PTL DEF Spec
=============================================================================
