-------------------------- MODULE NodeRegisterProofs -------------------------
(***************************************************************************)
(* GossipCluster implements NodeRegister, for any set of nodes and any     *)
(* bounds: the initial states map to initial states, and every step of the *)
(* cluster maps to a step of the registers or to a stutter.  Beyond IInv   *)
(* the mapping needs to know that a sample is later than everything its    *)
(* node has published before.                                              *)
(***************************************************************************)
EXTENDS GossipClusterProofs

(***************************************************************************)
(* LastUpdated never runs ahead of the node's wall clock, and a sample     *)
(* that is about to be put into the map is active and the latest of all.   *)
(***************************************************************************)
FreshSample ==
  \A n \in Node :
     /\ \A p \in published[n] : p.lastUpdated <= wall[n]
     /\ pc[n] = "collected" =>
          /\ sample[n].lastUpdated = wall[n] /\ sample[n].status = "active"
          /\ \A p \in published[n] : p.lastUpdated < wall[n]

RInv == IInv /\ FreshSample

\* Every step preserves the freshness of samples.
LEMMA NextFresh == RInv /\ [Next]_vars => FreshSample'
<1> SUFFICES ASSUME RInv, [Next]_vars PROVE FreshSample'
  OBVIOUS
<1> USE DEF procVars, pubVars
<1>t. /\ pc \in [Node -> PublishStep] /\ wall \in [Node -> Nat]
      /\ sample \in [Node -> Optional] /\ published \in [Node -> SUBSET NodeState]
  BY DEF RInv, IInv, TypeSets
<1>l. \A k \in Node : \A p \in published[k] : p.lastUpdated \in Nat
  BY <1>t DEF NodeState
<1>1. ASSUME NEW n \in Node, Collect(n) PROVE FreshSample'
  <2>1. /\ wall' = [wall EXCEPT ![n] = wall[n] + 1]
        /\ published' = published
        /\ pc' = [pc EXCEPT ![n] = "collected"]
        /\ \A k \in Node \ {n} : sample'[k] = sample[k]
        /\ sample'[n].lastUpdated = wall[n] + 1 /\ sample'[n].status = "active"
    BY <1>1, <1>t DEF Collect
  <2> QED
    BY <2>1, <1>t, <1>l DEF RInv, FreshSample
<1>2. ASSUME NEW n \in Node, UpdateLocalNode(n) PROVE FreshSample'
  <2>1. /\ wall' = wall /\ sample' = sample
        /\ pc' = [pc EXCEPT ![n] = "updated"]
        /\ published' = [published EXCEPT ![n] = published[n] \cup {sample[n]}]
        /\ sample[n].lastUpdated = wall[n]
    BY <1>2 DEF UpdateLocalNode, RInv, FreshSample
  <2> QED
    BY <2>1, <1>t DEF RInv, FreshSample
<1>3. ASSUME NEW n \in Node, BroadcastLocalState(n) PROVE FreshSample'
  BY <1>3, <1>t DEF BroadcastLocalState, RInv, FreshSample
<1>4. ASSUME NEW n \in Node, SaveNodeState(n) PROVE FreshSample'
  BY <1>4, <1>t DEF SaveNodeState, RInv, FreshSample
<1>5. ASSUME NEW n \in Node, Ends(n) PROVE FreshSample'
  BY <1>5, <1>t DEF Ends, RInv, FreshSample
<1>6. CASE UNCHANGED <<published, wall, pc, sample>>
  BY <1>6 DEF RInv, FreshSample
<1> QED
  BY <1>1, <1>2, <1>3, <1>4, <1>5, <1>6
  DEF Next, vars, GossipBroadcast, AntiEntropy, PushPull, Handle, Lose, Join,
      NotifyLeave, Leave, ToldGone, Crash, Exit, Restart

\* The invariant behind the refinement holds in every reachable state.
LEMMA SpecRInv == Spec => []RInv
<1>1. Init => RInv
  BY InitIInv DEF Init, RInv, FreshSample
<1>2. RInv /\ [Next]_vars => RInv'
  BY NextIInv, NextFresh DEF RInv
<1> QED
  BY <1>1, <1>2, PTL DEF Spec

-----------------------------------------------------------------------------
(***************************************************************************)
(* One entry of one map is one register.                                   *)
(***************************************************************************)
LEMMA RegisterUpdate ==
  ASSUME RInv, NEW o \in Node, NEW s \in Node, NEW e,
         view' = [view EXCEPT ![o][s] = e]
  PROVE  registerBar' = [registerBar EXCEPT ![o][s] = RegisterOf(s, e)]
<1>1. view \in [Node -> [Node -> Optional]]
  BY DEF RInv, IInv, TypeSets
<1>2. \A a, b \in Node : view'[a][b] = IF a = o /\ b = s THEN e ELSE view[a][b]
  BY <1>1
<1>3. registerBar' = [a \in Node |-> [b \in Node |-> RegisterOf(b, view'[a][b])]]
  BY DEF registerBar, RegisterOf, VersionOf
<1> DEFINE new(a, b) == IF a = o /\ b = s THEN RegisterOf(s, e) ELSE registerBar[a][b]
<1>4. registerBar' = [a \in Node |-> [b \in Node |-> new(a, b)]]
  BY <1>2, <1>3 DEF registerBar
<1>5. [registerBar EXCEPT ![o][s] = RegisterOf(s, e)]
        = [a \in Node |-> IF a = o THEN [registerBar[o] EXCEPT ![s] = RegisterOf(s, e)]
                                   ELSE registerBar[a]]
  BY DEF registerBar
<1>6. /\ [registerBar[o] EXCEPT ![s] = RegisterOf(s, e)] = [b \in Node |-> new(o, b)]
      /\ \A a \in Node \ {o} : registerBar[a] = [b \in Node |-> new(a, b)]
  BY DEF registerBar
<1> HIDE DEF new
<1> QED
  BY <1>4, <1>5, <1>6

\* The register of a node state holds its version.
LEMMA RegisterPresent ==
  ASSUME NEW s \in Node, NEW x \in NodeState
  PROVE  RegisterOf(s, x) = {[version |-> VersionOf(s, x), flag |-> x.status]}
  BY NoStateAssumption DEF RegisterOf

-----------------------------------------------------------------------------
(***************************************************************************)
(* The actions that change a register.                                     *)
(***************************************************************************)

\* collectAndPublish puts its sample into the own map: a publication.
LEMMA UpdatePublishes ==
  ASSUME RInv, NEW n \in Node, UpdateLocalNode(n)
  PROVE  Register!Publish(n)
<1> DEFINE v == VersionOf(n, sample[n])
<1>1. /\ sample[n] \in NodeState /\ sample[n].status = "active"
      /\ sample[n].lastUpdated = wall[n]
      /\ \A p \in published[n] : p.lastUpdated < wall[n]
  BY DEF UpdateLocalNode, RInv, IInv, TypeSets, ScalarClocks, FreshSample, Optional
<1>2. n \in runningBar /\ runningBar' = runningBar
  BY DEF UpdateLocalNode, procVars, runningBar
<1>3. view' = [view EXCEPT ![n][n] = sample[n]]
  BY DEF UpdateLocalNode
<1>4. registerBar' = [registerBar EXCEPT ![n][n] = {[version |-> v, flag |-> "active"]}]
  <2>1. registerBar' = [registerBar EXCEPT ![n][n] = RegisterOf(n, sample[n])]
    BY <1>3, RegisterUpdate
  <2> QED
    BY <1>1, <2>1, RegisterPresent
<1>5. published' = [published EXCEPT ![n] = published[n] \cup {sample[n]}]
  BY DEF UpdateLocalNode
<1>6. historyBar' = [historyBar EXCEPT ![n] = historyBar[n] \cup {v}]
  BY <1>5 DEF historyBar, VersionOf, RInv, IInv, TypeSets
<1>7. \A w \in historyBar[n] : w.time < v.time
  BY <1>1 DEF historyBar, VersionOf
<1>8. v \in historyBar'[n]
  BY <1>6 DEF historyBar
<1> HIDE DEF v
<1> QED
  BY <1>2, <1>4, <1>6, <1>7, <1>8 DEF Register!Publish

\* A received state is taken as a later version, or changes nothing.
LEMMA HandleLearns ==
  ASSUME RInv, NEW m \in net, Handle(m)
  PROVE  Register!Learn(m.to, m.ns.nodeID) \/ UNCHANGED Register!vars
<1> DEFINE o == m.to
           s == m.ns.nodeID
           local == view[o][s]
           v == VersionOf(s, m.ns)
<1>1. /\ o \in Node /\ s \in Node /\ m.ns \in NodeState /\ local \in Optional
      /\ FromPublished(s, m.ns)
      /\ \/ Merged(local, m.ns) = local
         \/ /\ Merged(local, m.ns) = m.ns
            /\ local = NoState \/ Newer(s, m.ns, local)
  BY MergedEntry DEF RInv
<1>2. view' = [view EXCEPT ![o][s] = Merged(local, m.ns)]
  BY DEF Handle, MergeNodeState
<1>3. runningBar' = runningBar /\ historyBar' = historyBar
  BY DEF Handle, procVars, pubVars, runningBar, historyBar, VersionOf
<1>4. o \in runningBar
  BY <1>1 DEF Handle, runningBar
<1> HIDE DEF o, s, local
<1>5. CASE Merged(local, m.ns) = local
  <2>1. view' = view
    BY <1>1, <1>2, <1>5 DEF local, RInv, IInv, TypeSets
  <2> QED
    BY <2>1, <1>3 DEF Register!vars, registerBar, RegisterOf, VersionOf
<1>6. CASE /\ Merged(local, m.ns) = m.ns
           /\ local = NoState \/ Newer(s, m.ns, local)
  <2>0. view' = [view EXCEPT ![o][s] = m.ns]
    BY <1>2, <1>6
  <2>1. registerBar' =
          [registerBar EXCEPT ![o][s] = {[version |-> v, flag |-> m.ns.status]}]
    BY <1>1, <2>0, RegisterUpdate, RegisterPresent
  <2>2. v \in historyBar[s]
    BY <1>1 DEF FromPublished, historyBar, VersionOf
  <2>3. m.ns.status \in Register!Flag
    BY <1>1 DEF NodeState, Status, Register!Flag
  <2>4. registerBar[o][s] = RegisterOf(s, local)
    BY <1>1 DEF registerBar, local
  <2>5. \A r \in registerBar[o][s] : Register!Later(v, r.version)
    BY <1>6, <2>4 DEF RegisterOf, VersionOf, Newer, Register!Later
  <2> HIDE DEF v
  <2>6. Register!Learn(o, s)
    BY <1>3, <1>4, <2>1, <2>2, <2>3, <2>5 DEF Register!Learn
  <2> QED
    BY <2>6 DEF o, s
<1> QED
  BY <1>1, <1>5, <1>6

\* MarkNodeInactive flags the register and keeps its version.
LEMMA LeaveSuspects ==
  ASSUME RInv, NEW o \in Node, NEW s \in Node, ToldGone(o, s)
  PROVE  Register!Suspect(o, s)
<1>1. o \in runningBar /\ runningBar' = runningBar /\ historyBar' = historyBar
  BY DEF ToldGone, pubVars, runningBar, historyBar, VersionOf
<1>2. view' = [view EXCEPT ![o][s] = MarkedInactive(view[o][s])]
  BY DEF ToldGone, MarkNodeInactive
<1>3. registerBar' = [registerBar EXCEPT ![o][s] = RegisterOf(s, MarkedInactive(view[o][s]))]
  BY <1>2, RegisterUpdate
<1>4. view[o][s] \in Optional /\ registerBar[o][s] = RegisterOf(s, view[o][s])
  BY DEF RInv, IInv, TypeSets, registerBar
<1>5. RegisterOf(s, MarkedInactive(view[o][s]))
        = {[r EXCEPT !.flag = "inactive"] : r \in registerBar[o][s]}
  <2>1. CASE view[o][s] = NoState
    BY <1>4, <2>1 DEF MarkedInactive, RegisterOf
  <2>2. CASE view[o][s] \in NodeState
    <3> DEFINE x == view[o][s]
    <3>1. /\ MarkedInactive(x) \in NodeState /\ MarkedInactive(x).status = "inactive"
          /\ x # NoState /\ SameVersion(MarkedInactive(x), x) /\ MarkedInactive(x) # NoState
      BY <2>2, MarkedVersion, NoStateAssumption
    <3>2. VersionOf(s, MarkedInactive(x)) = VersionOf(s, x)
      BY <3>1 DEF SameVersion, VersionOf
    <3>3. RegisterOf(s, MarkedInactive(x)) = {[version |-> VersionOf(s, x), flag |-> "inactive"]}
      BY <3>1, <3>2, RegisterPresent
    <3>4. registerBar[o][s] = {[version |-> VersionOf(s, x), flag |-> x.status]}
      BY <1>4, <2>2, RegisterPresent
    <3> HIDE DEF x
    <3> QED
      BY <3>3, <3>4 DEF x
  <2> QED
    BY <1>4, <2>1, <2>2 DEF Optional
<1> QED
  BY <1>1, <1>3, <1>5 DEF Register!Suspect

\* A process that stops loses its registers and nothing else.
LEMMA EndStops ==
  ASSUME RInv, NEW n \in Node, Ends(n)
  PROVE  Register!Stop(n)
<1>1. /\ up \in [Node -> BOOLEAN] /\ view \in [Node -> [Node -> Optional]]
  BY DEF RInv, IInv, TypeSets
<1>2. n \in runningBar /\ runningBar' = runningBar \ {n}
  BY <1>1 DEF Ends, runningBar
<1>3. historyBar' = historyBar
  BY DEF Ends, historyBar, VersionOf
<1>4. \A a, b \in Node : view'[a][b] = IF a = n THEN NoState ELSE view[a][b]
  BY <1>1 DEF Ends
<1>5. registerBar' = [a \in Node |-> [b \in Node |-> RegisterOf(b, view'[a][b])]]
  BY DEF registerBar, RegisterOf, VersionOf
<1>6. registerBar' = [a \in Node |->
         IF a = n THEN [b \in Node |-> {}] ELSE registerBar[a]]
  BY <1>4, <1>5 DEF registerBar, RegisterOf
<1>7. [registerBar EXCEPT ![n] = [b \in Node |-> {}]]
        = [a \in Node |-> IF a = n THEN [b \in Node |-> {}] ELSE registerBar[a]]
  BY DEF registerBar
<1> QED
  BY <1>2, <1>3, <1>6, <1>7 DEF Register!Stop

\* Every step of the cluster is a step of the registers or a stutter.
LEMMA StepRefines ==
  ASSUME RInv, [Next]_vars
  PROVE  [Register!Next]_(Register!vars)
<1> USE DEF procVars, pubVars
<1>1. ASSUME UNCHANGED <<up, view, published>> PROVE UNCHANGED Register!vars
  BY <1>1 DEF Register!vars, runningBar, historyBar, registerBar, RegisterOf, VersionOf
<1>2. ASSUME NEW n \in Node, UpdateLocalNode(n) PROVE Register!Next
  BY <1>2, UpdatePublishes DEF Register!Next
<1>3. ASSUME NEW m \in net, Handle(m) PROVE Register!Next \/ UNCHANGED Register!vars
  <2>1. m.to \in Node /\ m.ns.nodeID \in Node
    BY MergedEntry DEF RInv
  <2> QED
    BY <1>3, <2>1, HandleLearns DEF Register!Next
<1>4. ASSUME NEW o \in Node, NEW s \in Node, ToldGone(o, s) PROVE Register!Next
  BY <1>4, LeaveSuspects DEF Register!Next
<1>5. ASSUME NEW n \in Node, Ends(n) PROVE Register!Next
  BY <1>5, EndStops DEF Register!Next
<1>6. ASSUME NEW n \in Node, Restart(n) PROVE Register!Next
  <2>1. up' = [up EXCEPT ![n] = TRUE] /\ ~up[n] /\ view' = view /\ published' = published
    BY <1>6 DEF Restart
  <2>2. n \notin runningBar /\ runningBar' = runningBar \cup {n}
    BY <2>1 DEF runningBar, RInv, IInv, TypeSets
  <2>3. historyBar' = historyBar /\ registerBar' = registerBar
    BY <2>1 DEF historyBar, registerBar, RegisterOf, VersionOf
  <2> QED
    BY <2>2, <2>3 DEF Register!Next, Register!Start
<1>7. \/ UNCHANGED <<up, view, published>>
      \/ \E n \in Node : UpdateLocalNode(n) \/ Ends(n) \/ Restart(n)
      \/ \E m \in net : Handle(m)
      \/ \E o, s \in Node : ToldGone(o, s)
  BY DEF Next, vars, Collect, BroadcastLocalState, SaveNodeState, GossipBroadcast,
         AntiEntropy, PushPull, Lose, Join, NotifyLeave, Leave, Crash, Exit
<1> QED
  BY <1>1, <1>2, <1>3, <1>4, <1>5, <1>6, <1>7

(***************************************************************************)
(* The gossip layer implements one register per process and node: a reader *)
(* only ever sees published versions, in their order, whatever happens to  *)
(* messages and processes.                                                 *)
(***************************************************************************)
THEOREM ClusterImplementsRegister == Spec => ImplementsRegister
<1>1. Init => Register!Init
  BY DEF Init, Register!Init, runningBar, historyBar, registerBar, RegisterOf
<1>2. RInv /\ [Next]_vars => [Register!Next]_(Register!vars)
  BY StepRefines
<1> QED
  BY <1>1, <1>2, SpecRInv, PTL DEF Spec, ImplementsRegister, Register!Spec
=============================================================================
