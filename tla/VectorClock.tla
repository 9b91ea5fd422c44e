----------------------------- MODULE VectorClock -----------------------------
(***************************************************************************)
(* The vector clocks of pkg/models/models.go: Go maps from node id to      *)
(* int64.  A clock is a function whose domain is the set of keys present   *)
(* in the map; a nil map behaves like the empty one in every use the code  *)
(* makes of it, so both are EmptyClock.  Counters start at 0 and grow by   *)
(* one per publish (every 5s), so the int64 bound is not reachable and     *)
(* versions are natural numbers.                                           *)
(***************************************************************************)
EXTENDS Integers

CONSTANT Node       \* the node ids (host names) of the cluster

Clock == UNION {[keys -> Nat] : keys \in SUBSET Node}

\* c \in Clock, in a form TLC evaluates
IsClock(c) == DOMAIN c \subseteq Node /\ c \in [DOMAIN c -> Nat]

EmptyClock == [n \in {} |-> 0]

Increment(vc, n) ==
  [m \in DOMAIN vc \cup {n} |->
     IF m # n THEN vc[m]
     ELSE IF n \in DOMAIN vc THEN vc[n] + 1 ELSE 1]

(***************************************************************************)
(* A key missing on one side makes the other side greater, whatever its    *)
(* value: the two loops of Compare treat absence as smaller than 0.        *)
(***************************************************************************)
LocalGreater(vc, other) ==
  \E n \in DOMAIN vc : n \notin DOMAIN other \/ vc[n] > other[n]

\* Mutant: the second loop is dropped, so keys only the other side has count
\* for nothing.
RemoteGreater_OneLoop(vc, other) ==
  \E n \in DOMAIN vc \cap DOMAIN other : vc[n] < other[n]

RemoteGreater(vc, other) ==
  \/ \E n \in DOMAIN vc \cap DOMAIN other : vc[n] < other[n]
  \/ \E n \in DOMAIN other : n \notin DOMAIN vc

\* 1: vc happened after other, -1: before, 0: concurrent or equal.
Compare(vc, other) ==
  CASE LocalGreater(vc, other) /\ ~RemoteGreater(vc, other) -> 1
    [] RemoteGreater(vc, other) /\ ~LocalGreater(vc, other) -> -1
    [] OTHER -> 0

\* Mutant: keys the receiver does not have yet are not copied.
Merge_KnownKeysOnly(vc, other) ==
  [n \in DOMAIN vc |->
     IF n \in DOMAIN other /\ other[n] > vc[n] THEN other[n] ELSE vc[n]]

\* Entrywise maximum over the union of the keys.
Merge(vc, other) ==
  [n \in DOMAIN vc \cup DOMAIN other |->
     IF n \in DOMAIN other /\ (n \notin DOMAIN vc \/ other[n] > vc[n])
     THEN other[n] ELSE vc[n]]

(***************************************************************************)
(* Reference definitions: the pointwise order that Compare and Merge       *)
(* should implement, with an absent key below every present one.           *)
(***************************************************************************)
Precedes(a, b) ==
  /\ DOMAIN a \subseteq DOMAIN b
  /\ \A n \in DOMAIN a : a[n] <= b[n]

\* Compare answers 1 or -1 exactly on the clocks that are strictly ordered.
ComparesCausally(a, b) ==
  /\ Compare(a, b) = 1 <=> Precedes(b, a) /\ a # b
  /\ Compare(a, b) = -1 <=> Precedes(a, b) /\ a # b

\* Merge gives the least clock that both arguments precede; c is any clock.
MergesToJoin(a, b, c) ==
  /\ Precedes(a, Merge(a, b))
  /\ Precedes(b, Merge(a, b))
  /\ Precedes(a, c) /\ Precedes(b, c) => Precedes(Merge(a, b), c)
=============================================================================
