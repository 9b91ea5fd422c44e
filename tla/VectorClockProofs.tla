-------------------------- MODULE VectorClockProofs --------------------------
(***************************************************************************)
(* Compare and Merge of pkg/models/models.go implement the pointwise order *)
(* on clocks over any set of nodes.                                        *)
(***************************************************************************)
EXTENDS VectorClock, TLAPS

\* Two clocks that precede each other are the same map.
LEMMA PrecedesAntisymmetric ==
  ASSUME NEW a \in Clock, NEW b \in Clock, Precedes(a, b), Precedes(b, a)
  PROVE  a = b
  BY DEF Precedes, Clock

\* The two flags of Compare's loops are the negations of the two directions
\* of the order.
LEMMA GreaterFlags ==
  ASSUME NEW a \in Clock, NEW b \in Clock
  PROVE  /\ LocalGreater(a, b) <=> ~Precedes(a, b)
         /\ RemoteGreater(a, b) <=> ~Precedes(b, a)
  BY DEF LocalGreater, RemoteGreater, Precedes, Clock

\* VectorClock.Compare decides happened-before for any two clocks.
THEOREM CompareDecidesOrder ==
  ASSUME NEW a \in Clock, NEW b \in Clock
  PROVE  ComparesCausally(a, b)
<1>1. /\ LocalGreater(a, b) <=> ~Precedes(a, b)
      /\ RemoteGreater(a, b) <=> ~Precedes(b, a)
  BY GreaterFlags
<1>2. Precedes(a, a) /\ Precedes(b, b)
  BY DEF Precedes, Clock
<1>3. Precedes(a, b) /\ Precedes(b, a) => a = b
  BY PrecedesAntisymmetric
<1> QED
  BY <1>1, <1>2, <1>3 DEF ComparesCausally, Compare

\* The two ways to say that a value is a clock agree.
LEMMA ClockChar ==
  ASSUME NEW c
  PROVE  c \in Clock <=> IsClock(c)
<1>1. ASSUME c \in Clock PROVE IsClock(c)
  BY <1>1 DEF Clock, IsClock
<1>2. ASSUME IsClock(c) PROVE c \in Clock
  <2>1. DOMAIN c \in SUBSET Node /\ c \in [DOMAIN c -> Nat]
    BY <1>2 DEF IsClock
  <2>2. [DOMAIN c -> Nat] \in {[keys -> Nat] : keys \in SUBSET Node}
    BY <2>1
  <2> QED
    BY <2>1, <2>2, Zenon DEF Clock
<1> QED
  BY <1>1, <1>2

\* VectorClock.Merge of two clocks is a clock.
LEMMA MergeClock ==
  ASSUME NEW a \in Clock, NEW b \in Clock
  PROVE  Merge(a, b) \in Clock
<1>1. IsClock(a) /\ IsClock(b)
  BY ClockChar
<1>2. IsClock(Merge(a, b))
  BY <1>1 DEF IsClock, Merge
<1> QED
  BY <1>2, ClockChar

\* VectorClock.Increment of a clock is a clock.
LEMMA IncrementClock ==
  ASSUME NEW a \in Clock, NEW n \in Node
  PROVE  Increment(a, n) \in Clock
<1>1. IsClock(a)
  BY ClockChar
<1>2. IsClock(Increment(a, n))
  BY <1>1 DEF IsClock, Increment
<1> QED
  BY <1>2, ClockChar

\* A fresh map is a clock.
LEMMA EmptyClockClock == EmptyClock \in Clock
<1>1. IsClock(EmptyClock)
  BY DEF IsClock, EmptyClock
<1> QED
  BY <1>1, ClockChar

\* VectorClock.Merge gives the least upper bound of any two clocks.
THEOREM MergeIsLeastUpperBound ==
  ASSUME NEW a \in Clock, NEW b \in Clock, NEW c \in Clock
  PROVE  MergesToJoin(a, b, c)
<1>1. Precedes(a, Merge(a, b))
  BY DEF Precedes, Merge, Clock
<1>2. Precedes(b, Merge(a, b))
  BY DEF Precedes, Merge, Clock
<1>3. ASSUME Precedes(a, c), Precedes(b, c)
      PROVE  Precedes(Merge(a, b), c)
  BY <1>3 DEF Precedes, Merge, Clock
<1> QED
  BY <1>1, <1>2, <1>3 DEF MergesToJoin
=============================================================================
