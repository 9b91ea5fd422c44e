----------------------------- MODULE WSHubProofs -----------------------------
(***************************************************************************)
(* The way of an event to the WebSocket clients, for any number of clients *)
(* and any capacities: the hub does not touch a closed channel, and a      *)
(* client gets the events in their order and without a gap.                *)
(***************************************************************************)
EXTENDS WSHub, SequenceTheorems, TLAPS

-----------------------------------------------------------------------------
(***************************************************************************)
(* Types and channels.                                                     *)
(***************************************************************************)

(***************************************************************************)
(* The hub hands a message out only to registered clients whose channel is *)
(* open; a client it has found too slow is not handed it again.  Nothing   *)
(* has been sent to a client that is not registered yet, and nothing is    *)
(* forwarded before Run.                                                   *)
(***************************************************************************)
HubInv ==
  /\ hub = "new" => fwd = "new"
  /\ todo \subseteq clients /\ stale \subseteq clients /\ todo \cap stale = {}
  /\ hub # "deliver" => todo = {} /\ stale = {}
  /\ hub = "deliver" => msg \in Event
  /\ \A c \in Client :
       conn[c] \in {"none", "upgraded"} =>
          c \notin clients /\ ~closed[c] /\ send[c] = <<>> /\ got[c] = {}
  /\ RegisteredIsOpen

\* The initial state satisfies the invariant.
LEMMA InitHub == Init => TypeOK /\ HubInv
  <1> SUFFICES ASSUME Init PROVE TypeOK /\ HubInv
    OBVIOUS
  <1>1. /\ <<>> \in Seq(Event) /\ Len(<<>>) = 0
        /\ SubBuf \in Nat /\ HubBuf \in Nat /\ SendBuf \in Nat /\ MaxEvent \in Nat
    BY BufferAssumption
  <1>2. TypeOK
    <2>1. /\ sub \in Seq(Event) /\ Len(sub) <= SubBuf
          /\ bcast \in Seq(Event) /\ Len(bcast) <= HubBuf
      BY <1>1 DEF Init
    <2>2. send \in [Client -> Seq(Event)] /\ \A c \in Client : Len(send[c]) <= SendBuf
      BY <1>1 DEF Init
    <2>3. 0 \in 0..MaxEvent
      BY <1>1
    <2> QED
      BY <2>1, <2>2, <2>3 DEF Init, TypeOK, None
  <1>3. HubInv
    BY DEF Init, HubInv, RegisteredIsOpen
  <1> QED
    BY <1>2, <1>3

\* Every step preserves it.
LEMMA NextHub == TypeOK /\ HubInv /\ [Next]_vars => TypeOK' /\ HubInv'
  <1> SUFFICES ASSUME TypeOK, HubInv, [Next]_vars PROVE TypeOK' /\ HubInv'
    OBVIOUS
  <1> USE DEF fwdVars, hubVars, clientVars
  <1>a. /\ SubBuf \in Nat /\ HubBuf \in Nat /\ SendBuf \in Nat /\ MaxEvent \in Nat
        /\ MaxEvent # 0
    BY BufferAssumption
  <1>b. ASSUME UNCHANGED <<hub, msg, todo, stale, clients, conn, send, got, closed>>,
               fwd' = fwd \/ fwd = "running"
        PROVE  HubInv'
    BY <1>b DEF HubInv, RegisteredIsOpen
  <1>1. CASE Broadcast
    <2> DEFINE e == IF seq < MaxEvent THEN seq + 1 ELSE MaxEvent
    <2>1. e \in Event /\ e \in 0..MaxEvent
      BY <1>a DEF TypeOK, Event
    <2>2. \/ sub' = sub /\ dropped' = dropped \cup {e}
          \/ sub' = Append(sub, e) /\ Len(sub) < SubBuf /\ dropped' = dropped
      BY <1>1 DEF Broadcast
    <2> HIDE DEF e
    <2>3. sub' \in Seq(Event) /\ Len(sub') <= SubBuf /\ dropped' \subseteq Event
      <3>1. sub \in Seq(Event) /\ Len(sub) <= SubBuf /\ dropped \subseteq Event
        BY DEF TypeOK
      <3>2. Append(sub, e) \in Seq(Event) /\ Len(Append(sub, e)) = Len(sub) + 1 /\ Len(sub) \in Nat
        BY <2>1, <3>1
      <3>3. dropped' \subseteq Event
        BY <2>1, <2>2, <3>1
      <3>4. CASE sub' = sub
        BY <3>1, <3>3, <3>4
      <3>5. CASE sub' = Append(sub, e) /\ Len(sub) < SubBuf
        BY <3>2, <3>3, <3>5, <1>a
      <3> QED
        BY <2>2, <3>4, <3>5
    <2>4. seq' \in 0..MaxEvent
      BY <1>1, <2>1 DEF Broadcast, e
    <2> QED
      BY <1>1, <2>3, <2>4, <1>b DEF Broadcast, TypeOK
  <1>2. CASE Run
    <2>1. HubInv'
      BY <1>2 DEF Run, HubInv, RegisteredIsOpen
    <2> QED
      BY <1>2, <2>1 DEF Run, TypeOK
  <1>3. CASE ForwardTake
    <2>1. Head(sub) \in 0..MaxEvent /\ Tail(sub) \in Seq(Event) /\ Len(Tail(sub)) <= SubBuf
      BY <1>3, <1>a DEF ForwardTake, TypeOK, Event
    <2> QED
      BY <1>3, <2>1, <1>b DEF ForwardTake, TypeOK
  <1>4. CASE ForwardSend
    <2>1. held \in Event
      BY <1>4 DEF ForwardSend, TypeOK, Event, None
    <2>2. bcast' \in Seq(Event) /\ Len(bcast') <= HubBuf
      BY <1>4, <2>1, <1>a DEF ForwardSend, TypeOK
    <2> QED
      BY <1>4, <2>2, <1>a, <1>b DEF ForwardSend, TypeOK, None
  <1>5. CASE ForwardStop
    BY <1>5, <1>a, <1>b DEF ForwardStop, TypeOK, None
  <1>6. CASE ForwardEnd
    BY <1>6, <1>b DEF ForwardEnd, TypeOK
  <1>7. CASE HubTake
    <2>1. Head(bcast) \in Event /\ Tail(bcast) \in Seq(Event) /\ Len(Tail(bcast)) <= HubBuf
      BY <1>7, <1>a DEF HubTake, TypeOK
    <2>2. Head(bcast) \in 0..MaxEvent
      BY <2>1 DEF Event
    <2>3. TypeOK'
      BY <1>7, <2>1, <2>2 DEF HubTake, TypeOK
    <2>4. HubInv'
      BY <1>7, <2>1 DEF HubTake, HubInv, RegisteredIsOpen
    <2> QED
      BY <2>3, <2>4
  <1>8. CASE DeliverEnd
    <2>1. TypeOK'
      BY <1>8, <1>a DEF DeliverEnd, TypeOK, None
    <2>2. HubInv'
      BY <1>8 DEF DeliverEnd, HubInv, RegisteredIsOpen
    <2> QED
      BY <2>1, <2>2
  <1>9. CASE HubStop
    <2>1. HubInv'
      BY <1>9 DEF HubStop, HubInv, RegisteredIsOpen
    <2> QED
      BY <1>9, <2>1 DEF HubStop, TypeOK
  <1>10. CASE Stop
    BY <1>10, <1>b DEF Stop, TypeOK
  <1>11. ASSUME NEW c \in Client, Deliver(c) PROVE TypeOK' /\ HubInv'
    <2>1. msg \in Event /\ c \in clients /\ c \notin stale /\ ~closed[c]
      BY <1>11 DEF Deliver, HubInv, RegisteredIsOpen
    <2>2. CASE Len(send[c]) < SendBuf
      <3>1. send' = [send EXCEPT ![c] = Append(@, msg)] /\ UNCHANGED <<closed, stale>>
        BY <1>11, <2>2 DEF Deliver
      <3>2. send' \in [Client -> Seq(Event)] /\ \A d \in Client : Len(send'[d]) <= SendBuf
        BY <2>1, <2>2, <3>1, <1>a DEF TypeOK
      <3>3. TypeOK'
        BY <1>11, <3>1, <3>2 DEF Deliver, TypeOK
      <3>4. HubInv'
        BY <1>11, <2>1, <3>1 DEF Deliver, HubInv, RegisteredIsOpen, TypeOK
      <3> QED
        BY <3>3, <3>4
    <2>3. CASE ~(Len(send[c]) < SendBuf)
      <3>1. /\ closed' = [closed EXCEPT ![c] = TRUE] /\ stale' = stale \cup {c}
            /\ UNCHANGED send
        BY <1>11, <2>3 DEF Deliver
      <3>2. TypeOK'
        BY <1>11, <3>1 DEF Deliver, TypeOK
      <3>3. HubInv'
        BY <1>11, <2>1, <3>1 DEF Deliver, HubInv, RegisteredIsOpen, TypeOK
      <3> QED
        BY <3>2, <3>3
    <2> QED
      BY <2>2, <2>3
  <1>12. ASSUME NEW c \in Client, Upgrade(c) PROVE TypeOK' /\ HubInv'
    <2>1. HubInv'
      BY <1>12 DEF Upgrade, HubInv, RegisteredIsOpen, TypeOK
    <2> QED
      BY <1>12, <2>1 DEF Upgrade, TypeOK
  <1>13. ASSUME NEW c \in Client, Register(c) PROVE TypeOK' /\ HubInv'
    <2>1. HubInv'
      BY <1>13 DEF Register, HubInv, RegisteredIsOpen, TypeOK
    <2> QED
      BY <1>13, <2>1 DEF Register, TypeOK
  <1>14. ASSUME NEW c \in Client, Disconnect(c) PROVE TypeOK' /\ HubInv'
    <2>1. HubInv'
      BY <1>14 DEF Disconnect, HubInv, RegisteredIsOpen, TypeOK
    <2> QED
      BY <1>14, <2>1 DEF Disconnect, TypeOK
  <1>15. ASSUME NEW c \in Client, Unregister(c) PROVE TypeOK' /\ HubInv'
    <2>1. HubInv'
      BY <1>15 DEF Unregister, HubInv, RegisteredIsOpen, TypeOK
    <2> QED
      BY <1>15, <2>1 DEF Unregister, TypeOK
  <1>16. ASSUME NEW c \in Client, GiveUpUnregister(c) PROVE TypeOK' /\ HubInv'
    <2>1. HubInv'
      BY <1>16 DEF GiveUpUnregister, HubInv, RegisteredIsOpen, TypeOK
    <2> QED
      BY <1>16, <2>1 DEF GiveUpUnregister, TypeOK
  <1>17. ASSUME NEW c \in Client, WriteMessage(c) PROVE TypeOK' /\ HubInv'
    <2>1. send[c] \in Seq(Event) /\ send[c] # <<>> /\ Len(send[c]) <= SendBuf
      BY <1>17 DEF WriteMessage, TypeOK
    <2>2. Head(send[c]) \in Event /\ Tail(send[c]) \in Seq(Event) /\ Len(Tail(send[c])) <= SendBuf
      BY <2>1, <1>a
    <2>3. TypeOK'
      BY <1>17, <2>2 DEF WriteMessage, TypeOK
    <2>4. HubInv'
      BY <1>17 DEF WriteMessage, HubInv, RegisteredIsOpen, TypeOK
    <2> QED
      BY <2>3, <2>4
  <1>18. ASSUME NEW c \in Client, WriterEnd(c) PROVE TypeOK' /\ HubInv'
    <2>1. HubInv'
      BY <1>18 DEF WriterEnd, HubInv, RegisteredIsOpen, TypeOK
    <2> QED
      BY <1>18, <2>1 DEF WriterEnd, TypeOK
  <1>19. CASE UNCHANGED vars
    BY <1>19, <1>b DEF vars, TypeOK
  <1> QED
    BY <1>1, <1>2, <1>3, <1>4, <1>5, <1>6, <1>7, <1>8, <1>9, <1>10, <1>11, <1>12, <1>13,
       <1>14, <1>15, <1>16, <1>17, <1>18, <1>19 DEF Next

\* The inductive invariant holds of every behaviour.
LEMMA HubAlways == Spec => [](TypeOK /\ HubInv)
  BY InitHub, NextHub, PTL DEF Spec

\* No channel ever holds more than its capacity, and every variable stays of
\* its type.
THEOREM HubTypeCorrect == Spec => []TypeOK
  BY HubAlways, PTL

\* The hub never sends on a channel it has closed and never closes one
\* again, whatever the clients and their pumps do meanwhile.
THEOREM NoSendOnClosed == Spec => []RegisteredIsOpen
  <1>1. HubInv => RegisteredIsOpen
    BY DEF HubInv
  <1> QED
    BY <1>1, HubAlways, PTL

-----------------------------------------------------------------------------
(***************************************************************************)
(* Order.                                                                  *)
(***************************************************************************)
Sorted(s) == \A i, j \in DOMAIN s : i < j => Before(s[i], s[j])

AllBefore(A, B) == \A e \in A, f \in B : Before(e, f)

\* What Append does to a sorted sequence.
LEMMA SortedAppend ==
  ASSUME NEW s \in Seq(Event), NEW e \in Event
  PROVE  /\ Range(Append(s, e)) = Range(s) \cup {e}
         /\ Sorted(s) /\ AllBefore(Range(s), {e}) => Sorted(Append(s, e))
  <1> DEFINE t == Append(s, e)
             n == Len(s)
  <1>1. n \in Nat /\ DOMAIN s = 1..n /\ DOMAIN t = 1..(n + 1)
    BY AppendProperties, LenProperties
  <1>2. (\A i \in 1..n : t[i] = s[i]) /\ t[n + 1] = e
    BY AppendProperties
  <1>3. Range(t) = Range(s) \cup {e}
    <2> HIDE DEF t, n
    <2>1. Range(t) = {t[i] : i \in 1..(n + 1)} /\ Range(s) = {s[i] : i \in 1..n}
      BY <1>1 DEF Range
    <2>2. 1..(n + 1) = 1..n \cup {n + 1}
      BY <1>1
    <2> QED
      BY <2>1, <2>2, <1>2
  <1>4. ASSUME Sorted(s), AllBefore(Range(s), {e}), NEW i \in 1..(n + 1), NEW j \in 1..(n + 1), i < j
        PROVE  Before(t[i], t[j])
    <2>1. i \in 1..n /\ t[i] = s[i]
      BY <1>1, <1>2, <1>4
    <2>2. CASE j \in 1..n
      BY <2>1, <2>2, <1>1, <1>2, <1>4 DEF Sorted
    <2>3. CASE j = n + 1
      <3>1. s[i] \in Range(s)
        BY <2>1, <1>1 DEF Range
      <3> QED
        BY <2>1, <2>3, <3>1, <1>2, <1>4 DEF AllBefore
    <2> QED
      BY <2>2, <2>3, <1>1
  <1> QED
    BY <1>1, <1>3, <1>4 DEF Sorted

\* The head of a sorted sequence comes before its tail, which is sorted.
LEMMA SortedTail ==
  ASSUME NEW s \in Seq(Event), s # <<>>
  PROVE  /\ Range(s) = {Head(s)} \cup Range(Tail(s))
         /\ Sorted(s) => Sorted(Tail(s)) /\ AllBefore({Head(s)}, Range(Tail(s)))
  <1> DEFINE t == Tail(s)
             n == Len(s)
  <1>1. n \in Nat /\ n # 0 /\ DOMAIN s = 1..n /\ DOMAIN t = 1..(n - 1) /\ s[1] = Head(s)
    BY HeadTailProperties, LenProperties
  <1>2. \A i \in 1..(n - 1) : t[i] = s[i + 1]
    BY HeadTailProperties
  <1>3. Range(s) = {Head(s)} \cup Range(t)
    <2> HIDE DEF t, n
    <2>1. Range(t) = {t[i] : i \in 1..(n - 1)} /\ Range(s) = {s[i] : i \in 1..n}
      BY <1>1 DEF Range
    <2>2. \A x \in Range(s) : x = Head(s) \/ x \in Range(t)
      <3> TAKE x \in Range(s)
      <3>1. PICK i \in 1..n : x = s[i]
        BY <2>1
      <3>2. CASE i = 1
        BY <3>1, <3>2, <1>1
      <3>3. CASE i # 1
        <4>1. i - 1 \in 1..(n - 1) /\ t[i - 1] = s[i]
          BY <3>3, <1>1, <1>2
        <4> QED
          BY <4>1, <3>1, <2>1
      <3> QED
        BY <3>2, <3>3
    <2>3. \A x \in Range(t) : x \in Range(s)
      <3> TAKE x \in Range(t)
      <3>1. PICK i \in 1..(n - 1) : x = t[i]
        BY <2>1
      <3>2. i + 1 \in 1..n /\ t[i] = s[i + 1]
        BY <1>1, <1>2
      <3> QED
        BY <3>1, <3>2, <2>1
    <2>4. Head(s) \in Range(s)
      BY <2>1, <1>1
    <2> QED
      BY <2>2, <2>3, <2>4
  <1>4. ASSUME Sorted(s) PROVE Sorted(t)
    <2> SUFFICES ASSUME NEW i \in 1..(n - 1), NEW j \in 1..(n - 1), i < j
                 PROVE  Before(t[i], t[j])
      BY <1>1 DEF Sorted
    <2>1. i + 1 \in DOMAIN s /\ j + 1 \in DOMAIN s /\ i + 1 < j + 1
      BY <1>1
    <2> QED
      BY <2>1, <1>2, <1>4 DEF Sorted
  <1>5. ASSUME Sorted(s) PROVE AllBefore({Head(s)}, Range(t))
    <2> SUFFICES ASSUME NEW i \in 1..(n - 1) PROVE Before(s[1], t[i])
      BY <1>1 DEF AllBefore, Range
    <2>1. 1 \in DOMAIN s /\ i + 1 \in DOMAIN s /\ 1 < i + 1
      BY <1>1
    <2> QED
      BY <2>1, <1>2, <1>5 DEF Sorted
  <1> QED
    BY <1>3, <1>4, <1>5

\* Two sorted sequences, one before the other, make a sorted sequence.
LEMMA SortedConcat ==
  ASSUME NEW s \in Seq(Event), NEW t \in Seq(Event), Sorted(s), Sorted(t),
         AllBefore(Range(s), Range(t))
  PROVE  /\ s \o t \in Seq(Event) /\ Sorted(s \o t)
         /\ Range(s \o t) = Range(s) \cup Range(t)
  <1> DEFINE u == s \o t
             m == Len(s)
             n == Len(t)
  <1>1. /\ m \in Nat /\ n \in Nat /\ u \in Seq(Event)
        /\ DOMAIN s = 1..m /\ DOMAIN t = 1..n /\ DOMAIN u = 1..(m + n)
    BY ConcatProperties, LenProperties
  <1>2. \A i \in 1..(m + n) : u[i] = IF i <= m THEN s[i] ELSE t[i - m]
    BY ConcatProperties
  <1>3. Range(u) = Range(s) \cup Range(t)
    BY RangeConcatenation
  <1>4. ASSUME NEW i \in 1..(m + n), NEW j \in 1..(m + n), i < j PROVE Before(u[i], u[j])
    <2>1. CASE j <= m
      <3>1. i \in DOMAIN s /\ j \in DOMAIN s /\ u[i] = s[i] /\ u[j] = s[j]
        BY <2>1, <1>1, <1>2, <1>4
      <3> QED
        BY <3>1, <1>4 DEF Sorted
    <2>2. CASE i <= m /\ j > m
      <3>1. i \in DOMAIN s /\ j - m \in DOMAIN t /\ u[i] = s[i] /\ u[j] = t[j - m]
        BY <2>2, <1>1, <1>2
      <3> QED
        BY <3>1 DEF AllBefore, Range
    <2>3. CASE i > m
      <3>1. /\ i - m \in DOMAIN t /\ j - m \in DOMAIN t /\ i - m < j - m
            /\ u[i] = t[i - m] /\ u[j] = t[j - m]
        BY <2>3, <1>1, <1>2, <1>4
      <3> QED
        BY <3>1 DEF Sorted
    <2> QED
      BY <2>1, <2>2, <2>3, <1>1
  <1> QED
    BY <1>1, <1>3, <1>4 DEF Sorted

\* the message Run is about to hand to c
Wait(c) == IF c \in todo THEN {msg} ELSE {}

\* the event the forwarding goroutine holds
Holding == IF held # None THEN {held} ELSE {}

\* what the hub has not taken yet
Pipe == Range(bcast) \cup Holding \cup Range(sub)

(***************************************************************************)
(* InOrder, place by place instead of as one sequence, and for every       *)
(* client: also one that is not registered yet, which will be in front of  *)
(* this pipe one day.  No event is newer than seq, so the next one comes   *)
(* after all of them, and the hub has taken none that comes after one it   *)
(* will take.                                                              *)
(***************************************************************************)
ClientOrder(c) ==
  /\ Sorted(send[c])
  /\ AllBefore(Range(send[c]), Wait(c) \cup Pipe)
  /\ AllBefore(Wait(c), Pipe)
  /\ AllBefore(got[c], Range(send[c]) \cup Wait(c) \cup Pipe)
  /\ \A x \in Range(send[c]) \cup got[c] \cup Wait(c) : x <= seq

PipeOrder ==
  /\ Sorted(bcast) /\ Sorted(sub)
  /\ AllBefore(Range(bcast), Holding \cup Range(sub))
  /\ AllBefore(Holding, Range(sub))
  /\ taken <= seq /\ \A x \in Pipe : taken <= x /\ x <= seq

OrderInv == PipeOrder /\ \A c \in Client : ClientOrder(c)

\* The initial state satisfies the invariant.
LEMMA InitOrder == Init => OrderInv
  <1> SUFFICES ASSUME Init PROVE OrderInv
    OBVIOUS
  <1>1. Range(<<>>) = {} /\ Sorted(<<>>)
    BY DEF Range, Sorted
  <1>2. Pipe = {} /\ Holding = {} /\ \A c \in Client : Wait(c) = {}
    BY <1>1 DEF Init, Pipe, Holding, Wait
  <1>3. PipeOrder
    BY <1>1, <1>2 DEF Init, PipeOrder, AllBefore, None
  <1>4. ASSUME NEW c \in Client PROVE ClientOrder(c)
    BY <1>1, <1>2 DEF Init, ClientOrder, AllBefore
  <1> QED
    BY <1>3, <1>4 DEF OrderInv

\* What is in the places of the way, by type.
LEMMA PlaceTypes ==
  ASSUME TypeOK, HubInv
  PROVE  /\ Range(bcast) \subseteq Event /\ Range(sub) \subseteq Event
         /\ Holding \subseteq Event /\ Pipe \subseteq Event
         /\ \A c \in Client : /\ send[c] \in Seq(Event) /\ Range(send[c]) \subseteq Event
                              /\ got[c] \subseteq Event /\ Wait(c) \subseteq Event
  <1>1. Range(bcast) \subseteq Event /\ Range(sub) \subseteq Event
    BY RangeOfSeq DEF TypeOK
  <1>2. Holding \subseteq Event
    BY DEF TypeOK, Holding, Event, None
  <1>3. ASSUME NEW c \in Client
        PROVE  /\ send[c] \in Seq(Event) /\ Range(send[c]) \subseteq Event
               /\ got[c] \subseteq Event /\ Wait(c) \subseteq Event
    <2>1. send[c] \in Seq(Event) /\ got[c] \subseteq Event
      BY DEF TypeOK
    <2>2. Range(send[c]) \subseteq Event
      BY <2>1, RangeOfSeq
    <2>3. Wait(c) \subseteq Event
      BY DEF HubInv, Wait
    <2> QED
      BY <2>1, <2>2, <2>3
  <1> QED
    BY <1>1, <1>2, <1>3 DEF Pipe

\* A step in front of the hub that leaves the events in their places, in
\* the same order, or takes some away.
LEMMA PipeShrinks ==
  ASSUME OrderInv, PipeOrder', Pipe' \subseteq Pipe, UNCHANGED <<send, got, todo, msg, seq>>
  PROVE  OrderInv'
  <1> SUFFICES ASSUME NEW c \in Client PROVE ClientOrder(c)'
    BY DEF OrderInv
  <1>1. Wait(c)' = Wait(c)
    BY DEF Wait
  <1> QED
    BY <1>1 DEF OrderInv, ClientOrder, AllBefore

\* The event of a change comes after all events there are.
LEMMA BroadcastOrder == TypeOK /\ HubInv /\ OrderInv /\ Broadcast => OrderInv'
  <1> SUFFICES ASSUME TypeOK, HubInv, OrderInv, Broadcast PROVE OrderInv'
    OBVIOUS
  <1> USE DEF fwdVars, hubVars, clientVars
  <1> DEFINE e == IF seq < MaxEvent THEN seq + 1 ELSE MaxEvent
  <1>1. seq \in Nat /\ MaxEvent \in Nat /\ seq <= MaxEvent /\ MaxEvent # 0
    BY BufferAssumption DEF TypeOK
  <1>2. e \in Event /\ seq <= e /\ \A x \in Event : x <= seq => Before(x, e) /\ x <= e
    BY <1>1 DEF Event, Before
  <1>3. seq' = e /\ UNCHANGED <<bcast, held, taken, send, got, todo, msg>>
    BY <1>1 DEF Broadcast
  <1>4. sub' = sub \/ sub' = Append(sub, e)
    BY DEF Broadcast
  <1> HIDE DEF e
  <1>5. sub \in Seq(Event)
    BY DEF TypeOK
  <1>6. Range(sub') \subseteq Range(sub) \cup {e}
    BY <1>2, <1>4, <1>5, SortedAppend
  <1>7. Holding' = Holding /\ Range(bcast)' = Range(bcast) /\ \A c \in Client : Wait(c)' = Wait(c)
    BY <1>3 DEF Holding, Wait
  <1>8. Pipe' \subseteq Pipe \cup {e}
    BY <1>6, <1>7 DEF Pipe
  <1>9. AllBefore(Pipe, {e})
    BY <1>2, PlaceTypes DEF OrderInv, PipeOrder, AllBefore
  <1>10. PipeOrder'
    <2>1. Sorted(sub')
      <3>1. AllBefore(Range(sub), {e})
        BY <1>9 DEF AllBefore, Pipe
      <3> QED
        BY <3>1, <1>2, <1>4, <1>5, SortedAppend DEF OrderInv, PipeOrder
    <2>2. AllBefore(Range(bcast), Holding \cup Range(sub'))
      BY <1>6, <1>9 DEF OrderInv, PipeOrder, AllBefore, Pipe
    <2>3. AllBefore(Holding, Range(sub'))
      BY <1>6, <1>9 DEF OrderInv, PipeOrder, AllBefore, Pipe
    <2>4. taken <= e
      <3>1. taken \in Int /\ e \in Int
        BY <1>2 DEF TypeOK, Event
      <3>2. taken <= seq
        BY DEF OrderInv, PipeOrder
      <3> QED
        BY <3>1, <3>2, <1>1, <1>2
    <2>5. \A x \in Pipe' : taken <= x /\ x <= e
      <3>1. ASSUME NEW x \in Pipe PROVE taken <= x /\ x <= e
        BY <1>2, PlaceTypes DEF OrderInv, PipeOrder
      <3> QED
        BY <2>4, <3>1, <1>2, <1>8 DEF Event
    <2> QED
      BY <2>1, <2>2, <2>3, <2>4, <2>5, <1>3, <1>7 DEF OrderInv, PipeOrder
  <1>11. ASSUME NEW c \in Client PROVE ClientOrder(c)'
    <2>1. AllBefore(Range(send[c]) \cup got[c] \cup Wait(c), {e})
      BY <1>2, PlaceTypes DEF OrderInv, ClientOrder, AllBefore
    <2>2. \A x \in Range(send[c]) \cup got[c] \cup Wait(c) : x <= e
      BY <1>2, PlaceTypes DEF OrderInv, ClientOrder
    <2>3. Wait(c)' = Wait(c) /\ Range(send[c])' = Range(send[c])
      BY <1>3, <1>7
    <2>4. AllBefore(Range(send[c]), Wait(c) \cup Pipe')
      BY <2>1, <1>8 DEF OrderInv, ClientOrder, AllBefore
    <2>5. AllBefore(Wait(c), Pipe')
      BY <2>1, <1>8 DEF OrderInv, ClientOrder, AllBefore
    <2>6. AllBefore(got[c], Range(send[c]) \cup Wait(c) \cup Pipe')
      BY <2>1, <1>8 DEF OrderInv, ClientOrder, AllBefore
    <2> QED
      BY <2>2, <2>3, <2>4, <2>5, <2>6, <1>3 DEF OrderInv, ClientOrder
  <1> QED
    BY <1>10, <1>11 DEF OrderInv

\* Every step preserves the order.
LEMMA NextOrder == TypeOK /\ HubInv /\ OrderInv /\ [Next]_vars => OrderInv'
  <1> SUFFICES ASSUME TypeOK, HubInv, OrderInv, [Next]_vars PROVE OrderInv'
    OBVIOUS
  <1> USE DEF fwdVars, hubVars, clientVars
  <1>a. sub \in Seq(Event) /\ bcast \in Seq(Event)
    BY DEF TypeOK
  <1>b. ASSUME UNCHANGED <<seq, sub, held, bcast, taken, send, got, todo, msg>>
        PROVE  OrderInv'
    <2>1. PipeOrder' /\ Pipe' = Pipe
      BY <1>b DEF OrderInv, PipeOrder, Pipe, Holding
    <2> QED
      BY <2>1, <1>b, PipeShrinks
  <1>1. CASE Broadcast
    BY <1>1, BroadcastOrder
  <1>2. CASE Run
    BY <1>2, <1>b DEF Run
  <1>3. CASE ForwardTake
    <2>1. /\ held = None /\ sub # <<>> /\ held' = Head(sub) /\ sub' = Tail(sub)
          /\ UNCHANGED <<seq, bcast, taken, send, got, todo, msg>>
      BY <1>3 DEF ForwardTake
    <2>2. /\ Range(sub) = {Head(sub)} \cup Range(Tail(sub)) /\ Sorted(Tail(sub))
          /\ AllBefore({Head(sub)}, Range(Tail(sub)))
      BY <2>1, <1>a, SortedTail DEF OrderInv, PipeOrder
    <2>3. Holding = {} /\ Holding' \subseteq {Head(sub)}
      BY <2>1 DEF Holding
    <2>4. Pipe' \subseteq Pipe
      BY <2>1, <2>2, <2>3 DEF Pipe
    <2>5. Holding' \cup Range(sub') \subseteq Holding \cup Range(sub)
      BY <2>1, <2>2, <2>3
    <2>6. AllBefore(Holding', Range(sub'))
      BY <2>1, <2>2, <2>3 DEF AllBefore
    <2>7. AllBefore(Range(bcast), Holding' \cup Range(sub'))
      BY <2>5 DEF OrderInv, PipeOrder, AllBefore
    <2>8. PipeOrder'
      BY <2>1, <2>2, <2>4, <2>6, <2>7 DEF OrderInv, PipeOrder
    <2> QED
      BY <2>1, <2>4, <2>8, PipeShrinks
  <1>4. CASE ForwardSend
    <2>1. /\ held # None /\ held' = None /\ bcast' = Append(bcast, held)
          /\ UNCHANGED <<seq, sub, taken, send, got, todo, msg>>
      BY <1>4 DEF ForwardSend
    <2>2. held \in Event /\ Holding = {held} /\ Holding' = {}
      BY <2>1 DEF TypeOK, Holding, Event, None
    <2>3. AllBefore(Range(bcast), {held}) /\ Sorted(bcast)
      BY <2>2 DEF OrderInv, PipeOrder, AllBefore
    <2>4. Range(bcast') = Range(bcast) \cup {held} /\ Sorted(bcast')
      BY <2>1, <2>2, <2>3, <1>a, SortedAppend
    <2>5. Pipe' = Pipe
      BY <2>1, <2>2, <2>4 DEF Pipe
    <2>6. AllBefore(Range(bcast'), Holding' \cup Range(sub'))
      BY <2>1, <2>2, <2>4 DEF OrderInv, PipeOrder, AllBefore
    <2>7. PipeOrder'
      BY <2>1, <2>2, <2>4, <2>5, <2>6 DEF OrderInv, PipeOrder, AllBefore
    <2> QED
      BY <2>1, <2>5, <2>7, PipeShrinks
  <1>5. CASE ForwardStop
    <2>1. held' = None /\ UNCHANGED <<seq, sub, bcast, taken, send, got, todo, msg>>
      BY <1>5 DEF ForwardStop
    <2>2. Holding' = {}
      BY <2>1 DEF Holding
    <2>3. Pipe' \subseteq Pipe
      BY <2>1, <2>2 DEF Pipe
    <2>4. PipeOrder'
      BY <2>1, <2>2, <2>3 DEF OrderInv, PipeOrder, AllBefore
    <2> QED
      BY <2>1, <2>3, <2>4, PipeShrinks
  <1>6. CASE ForwardEnd
    BY <1>6, <1>b DEF ForwardEnd
  <1>7. CASE HubTake
    <2> DEFINE h == Head(bcast)
    <2>1. /\ bcast # <<>> /\ msg' = h /\ taken' = h /\ bcast' = Tail(bcast)
          /\ UNCHANGED <<seq, sub, held, send, got>>
      BY <1>7 DEF HubTake
    <2>2. /\ Range(bcast) = {h} \cup Range(Tail(bcast)) /\ Sorted(Tail(bcast))
          /\ AllBefore({h}, Range(Tail(bcast)))
      BY <2>1, <1>a, SortedTail DEF OrderInv, PipeOrder
    <2>3. Holding' = Holding
      BY <2>1 DEF Holding
    <2>4. Pipe' \subseteq Pipe /\ h \in Pipe
      BY <2>1, <2>2, <2>3 DEF Pipe
    <2>5. AllBefore({h}, Pipe')
      BY <2>1, <2>2, <2>3 DEF OrderInv, PipeOrder, AllBefore, Pipe
    <2>6. \A x \in Pipe' : h <= x
      <3>1. h \in Event /\ \A x \in Pipe' : x \in Event
        BY <2>4, PlaceTypes
      <3> QED
        BY <3>1, <2>5 DEF AllBefore, Before, Event
    <2>7. PipeOrder'
      BY <2>1, <2>2, <2>3, <2>4, <2>6 DEF OrderInv, PipeOrder, AllBefore
    <2>8. ASSUME NEW c \in Client PROVE ClientOrder(c)'
      <3>1. Wait(c)' \subseteq {h}
        BY <2>1 DEF Wait
      <3>2. Range(send[c])' = Range(send[c]) /\ got'[c] = got[c] /\ send'[c] = send[c]
        BY <2>1
      <3>3. Wait(c)' \cup Pipe' \subseteq Pipe
        BY <3>1, <2>4
      <3>4. /\ AllBefore(Range(send[c]), Wait(c)' \cup Pipe')
            /\ AllBefore(got[c], Range(send[c]) \cup Wait(c)' \cup Pipe')
        BY <3>3 DEF OrderInv, ClientOrder, AllBefore
      <3>5. AllBefore(Wait(c)', Pipe')
        BY <3>1, <2>5 DEF AllBefore
      <3>6. \A x \in Range(send[c]) \cup got[c] \cup Wait(c)' : x <= seq
        BY <3>3 DEF OrderInv, ClientOrder, PipeOrder
      <3> QED
        BY <3>2, <3>4, <3>5, <3>6, <2>1 DEF OrderInv, ClientOrder
    <2> QED
      BY <2>7, <2>8 DEF OrderInv
  <1>8. CASE DeliverEnd
    <2>1. todo = {} /\ UNCHANGED <<seq, sub, held, bcast, taken, send, got, todo>>
      BY <1>8 DEF DeliverEnd
    <2>2. PipeOrder' /\ Pipe' = Pipe /\ \A c \in Client : Wait(c)' = Wait(c)
      BY <2>1 DEF OrderInv, PipeOrder, Pipe, Holding, Wait
    <2> QED
      BY <2>1, <2>2 DEF OrderInv, ClientOrder
  <1>9. CASE HubStop
    BY <1>9, <1>b DEF HubStop
  <1>10. CASE Stop
    BY <1>10, <1>b DEF Stop
  <1>11. ASSUME NEW d \in Client, Deliver(d) PROVE OrderInv'
    <2>1. /\ d \in todo /\ todo' = todo \ {d} /\ msg' = msg
          /\ UNCHANGED <<seq, sub, held, bcast, taken, got>>
          /\ send' = send \/ send' = [send EXCEPT ![d] = Append(@, msg)]
      BY <1>11 DEF Deliver
    <2>2. PipeOrder' /\ Pipe' = Pipe
      BY <2>1 DEF OrderInv, PipeOrder, Pipe, Holding
    <2>3. ASSUME NEW c \in Client, c # d PROVE ClientOrder(c)'
      <3>1. Wait(c)' = Wait(c) /\ send'[c] = send[c]
        BY <2>1, <2>3 DEF Wait, TypeOK
      <3> QED
        BY <3>1, <2>1, <2>2 DEF OrderInv, ClientOrder
    <2>4. ClientOrder(d)'
      <3>1. Wait(d) = {msg} /\ Wait(d)' = {} /\ msg \in Event /\ send[d] \in Seq(Event)
        BY <1>11, <2>1 DEF Wait, HubInv, TypeOK, Deliver
      <3>2. Sorted(send[d]) /\ AllBefore(Range(send[d]), {msg})
        BY <3>1 DEF OrderInv, ClientOrder, AllBefore
      <3>3. /\ Range(Append(send[d], msg)) = Range(send[d]) \cup {msg}
            /\ Sorted(Append(send[d], msg))
        BY <3>1, <3>2, SortedAppend
      <3>4. \/ send'[d] = send[d]
            \/ send'[d] = Append(send[d], msg)
        BY <2>1 DEF TypeOK
      <3>5. Sorted(send'[d]) /\ Range(send'[d]) \subseteq Range(send[d]) \cup Wait(d)
        BY <3>1, <3>2, <3>3, <3>4
      <3>6. /\ AllBefore(Range(send'[d]), Wait(d)' \cup Pipe')
            /\ AllBefore(Wait(d)', Pipe')
            /\ AllBefore(got[d], Range(send'[d]) \cup Wait(d)' \cup Pipe')
        BY <3>1, <3>5, <2>2 DEF OrderInv, ClientOrder, AllBefore
      <3>7. \A x \in Range(send'[d]) \cup got[d] \cup Wait(d)' : x <= seq
        BY <3>1, <3>5 DEF OrderInv, ClientOrder
      <3> QED
        BY <3>5, <3>6, <3>7, <2>1 DEF ClientOrder
    <2> QED
      BY <2>2, <2>3, <2>4 DEF OrderInv
  <1>12. ASSUME NEW c \in Client, Upgrade(c) PROVE OrderInv'
    BY <1>12, <1>b DEF Upgrade
  <1>13. ASSUME NEW c \in Client, Register(c) PROVE OrderInv'
    BY <1>13, <1>b DEF Register
  <1>14. ASSUME NEW c \in Client, Disconnect(c) PROVE OrderInv'
    BY <1>14, <1>b DEF Disconnect
  <1>15. ASSUME NEW c \in Client, Unregister(c) PROVE OrderInv'
    BY <1>15, <1>b DEF Unregister
  <1>16. ASSUME NEW c \in Client, GiveUpUnregister(c) PROVE OrderInv'
    BY <1>16, <1>b DEF GiveUpUnregister
  <1>17. ASSUME NEW d \in Client, WriteMessage(d) PROVE OrderInv'
    <2> DEFINE h == Head(send[d])
    <2>1. /\ send[d] # <<>> /\ send' = [send EXCEPT ![d] = Tail(@)]
          /\ got' = [got EXCEPT ![d] = @ \cup {h}]
          /\ UNCHANGED <<seq, sub, held, bcast, taken, todo, msg>>
      BY <1>17 DEF WriteMessage
    <2>2. PipeOrder' /\ Pipe' = Pipe /\ \A c \in Client : Wait(c)' = Wait(c)
      BY <2>1 DEF OrderInv, PipeOrder, Pipe, Holding, Wait
    <2>3. ASSUME NEW c \in Client, c # d PROVE ClientOrder(c)'
      <3>1. send'[c] = send[c] /\ got'[c] = got[c]
        BY <2>1, <2>3 DEF TypeOK
      <3> QED
        BY <3>1, <2>1, <2>2 DEF OrderInv, ClientOrder
    <2>4. ClientOrder(d)'
      <3>1. send[d] \in Seq(Event) /\ send'[d] = Tail(send[d]) /\ got'[d] = got[d] \cup {h}
        BY <2>1 DEF TypeOK
      <3>2. /\ Range(send[d]) = {h} \cup Range(send'[d]) /\ Sorted(send'[d])
            /\ AllBefore({h}, Range(send'[d]))
        BY <3>1, <2>1, SortedTail DEF OrderInv, ClientOrder
      <3> HIDE DEF h
      <3>3. /\ AllBefore(Range(send'[d]), Wait(d) \cup Pipe)
            /\ AllBefore(got'[d], Range(send'[d]) \cup Wait(d) \cup Pipe)
        BY <3>1, <3>2 DEF OrderInv, ClientOrder, AllBefore
      <3>4. \A x \in Range(send'[d]) \cup got'[d] \cup Wait(d) : x <= seq
        BY <3>1, <3>2 DEF OrderInv, ClientOrder
      <3> QED
        BY <3>2, <3>3, <3>4, <2>1, <2>2 DEF OrderInv, ClientOrder
    <2> QED
      BY <2>2, <2>3, <2>4 DEF OrderInv
  <1>18. ASSUME NEW c \in Client, WriterEnd(c) PROVE OrderInv'
    BY <1>18, <1>b DEF WriterEnd
  <1>19. CASE UNCHANGED vars
    BY <1>19, <1>b DEF vars
  <1> QED
    BY <1>1, <1>2, <1>3, <1>4, <1>5, <1>6, <1>7, <1>8, <1>9, <1>10, <1>11, <1>12, <1>13,
       <1>14, <1>15, <1>16, <1>17, <1>18, <1>19 DEF Next

\* Put together, the places of the way are the sequence of InOrder.
LEMMA OrderImplies == TypeOK /\ HubInv /\ OrderInv => InOrder
  <1> SUFFICES ASSUME TypeOK, HubInv, OrderInv, NEW c \in Client
               PROVE  /\ Sorted(Upcoming(c))
                      /\ \A e \in got[c] : \A i \in DOMAIN Upcoming(c) : Before(e, Upcoming(c)[i])
    BY DEF InOrder, Sorted, TypeOK
  <1> DEFINE w == IF c \in todo THEN <<msg>> ELSE <<>>
             g == IF held # None THEN <<held>> ELSE <<>>
             s1 == send[c] \o w
             s2 == s1 \o bcast
             s3 == s2 \o g
             s4 == s3 \o sub
  <1>1. /\ send[c] \in Seq(Event) /\ Sorted(send[c])
        /\ bcast \in Seq(Event) /\ Sorted(bcast) /\ sub \in Seq(Event) /\ Sorted(sub)
    BY DEF TypeOK, OrderInv, ClientOrder, PipeOrder
  <1>2. \A x \in Event : <<x>> \in Seq(Event) /\ Range(<<x>>) = {x} /\ Sorted(<<x>>)
    BY DEF Range, Sorted
  <1>3. <<>> \in Seq(Event) /\ Range(<<>>) = {} /\ Sorted(<<>>)
    BY DEF Range, Sorted
  <1>4. w \in Seq(Event) /\ Sorted(w) /\ Range(w) = Wait(c)
    <2>1. c \in todo => msg \in Event
      BY DEF HubInv
    <2> QED
      BY <2>1, <1>2, <1>3 DEF Wait
  <1>5. g \in Seq(Event) /\ Sorted(g) /\ Range(g) = Holding
    <2>1. held # None => held \in Event
      BY DEF TypeOK, None, Event
    <2> QED
      BY <2>1, <1>2, <1>3 DEF Holding
  <1> HIDE DEF w, g
  <1>6. s1 \in Seq(Event) /\ Sorted(s1) /\ Range(s1) = Range(send[c]) \cup Wait(c)
    <2>1. AllBefore(Range(send[c]), Range(w))
      BY <1>4 DEF OrderInv, ClientOrder, AllBefore
    <2> QED
      BY <2>1, <1>1, <1>4, SortedConcat
  <1> HIDE DEF s1
  <1>7. s2 \in Seq(Event) /\ Sorted(s2) /\ Range(s2) = Range(send[c]) \cup Wait(c) \cup Range(bcast)
    <2>1. AllBefore(Range(s1), Range(bcast))
      BY <1>6 DEF OrderInv, ClientOrder, AllBefore, Pipe
    <2> QED
      BY <2>1, <1>1, <1>6, SortedConcat
  <1> HIDE DEF s2
  <1>8. /\ s3 \in Seq(Event) /\ Sorted(s3)
        /\ Range(s3) = Range(send[c]) \cup Wait(c) \cup Range(bcast) \cup Holding
    <2>1. AllBefore(Range(s2), Range(g))
      BY <1>5, <1>7 DEF OrderInv, ClientOrder, PipeOrder, AllBefore, Pipe
    <2> QED
      BY <2>1, <1>5, <1>7, SortedConcat
  <1> HIDE DEF s3
  <1>9. s4 \in Seq(Event) /\ Sorted(s4) /\ Range(s4) = Range(send[c]) \cup Wait(c) \cup Pipe
    <2>1. AllBefore(Range(s3), Range(sub))
      BY <1>8 DEF OrderInv, ClientOrder, PipeOrder, AllBefore, Pipe
    <2>2. s4 \in Seq(Event) /\ Sorted(s4) /\ Range(s4) = Range(s3) \cup Range(sub)
      BY <2>1, <1>1, <1>8, SortedConcat
    <2> QED
      BY <2>2, <1>8 DEF Pipe
  <1>10. Upcoming(c) = s4
    BY DEF Upcoming, s3, s2, s1, w, g
  <1> HIDE DEF s4
  <1>11. \A e \in got[c] : \A i \in DOMAIN s4 : Before(e, s4[i])
    <2>1. \A i \in DOMAIN s4 : s4[i] \in Range(s4)
      BY DEF Range
    <2> QED
      BY <2>1, <1>9 DEF OrderInv, ClientOrder, AllBefore
  <1> QED
    BY <1>9, <1>10, <1>11

\* The inductive invariant holds of every behaviour.
LEMMA OrderAlways == Spec => [](TypeOK /\ HubInv /\ OrderInv)
  BY HubAlways, InitOrder, NextOrder, PTL DEF Spec

\* A client gets the events in the order of the changes, each once, through
\* the subscriber channel, hub.broadcast and its own channel.
THEOREM DeliveredInOrder == Spec => []InOrder
  BY OrderAlways, OrderImplies, PTL

-----------------------------------------------------------------------------
(***************************************************************************)
(* Gaps.                                                                   *)
(***************************************************************************)

(***************************************************************************)
(* Where an event is that the hub has not taken: dropped by a full         *)
(* subscriber channel, on its way, or behind everything on its way after   *)
(* the forwarding goroutine has ended and thrown away what it held.        *)
(***************************************************************************)
Accounted(e) ==
  \/ e = MaxEvent
  \/ e \in dropped \cup Pipe
  \/ fwd = "ended" /\ \A x \in Range(bcast) : x < e

\* where a client finds an event that the hub has taken
Reached(c, e) ==
  \/ e = MaxEvent
  \/ e \in dropped \cup got[c] \cup Range(send[c]) \cup Wait(c)

GapInv ==
  /\ \A e \in (taken + 1)..seq : Accounted(e)
  /\ \A c \in clients \ stale :
       writer[c] = "writing" => \A e \in (since[c] + 1)..taken : Reached(c, e)

\* The initial state satisfies the invariant.
LEMMA InitGap == Init => GapInv
  BY DEF Init, GapInv, None

\* Every step preserves it.
LEMMA NextGap == TypeOK /\ HubInv /\ OrderInv /\ GapInv /\ [Next]_vars => GapInv'
  <1> SUFFICES ASSUME TypeOK, HubInv, OrderInv, GapInv, [Next]_vars PROVE GapInv'
    OBVIOUS
  <1> USE DEF fwdVars, hubVars, clientVars
  <1>a. /\ sub \in Seq(Event) /\ bcast \in Seq(Event)
        /\ seq \in Nat /\ taken \in Nat /\ \A c \in Client : since[c] \in Nat
    BY DEF TypeOK
  <1>b. ASSUME UNCHANGED <<seq, sub, held, bcast, taken, dropped>>, fwd' = fwd \/ fwd # "ended"
        PROVE  \A e \in (taken' + 1)..seq' : Accounted(e)'
    BY <1>b DEF GapInv, Accounted, Pipe, Holding
  <1>c. ASSUME UNCHANGED <<clients, stale, writer, since, taken, got, send, todo, msg>>,
               dropped \subseteq dropped'
        PROVE  \A c \in clients' \ stale' :
                 writer'[c] = "writing" => \A e \in (since'[c] + 1)..taken' : Reached(c, e)'
    BY <1>c DEF GapInv, Reached, Wait
  <1>1. CASE Broadcast
    <2> DEFINE n == IF seq < MaxEvent THEN seq + 1 ELSE MaxEvent
    <2>1. /\ seq' = n /\ UNCHANGED <<bcast, held, fwd, taken>>
          /\ \/ sub' = sub /\ dropped' = dropped \cup {n}
             \/ sub' = Append(sub, n) /\ dropped' = dropped
      BY <1>1 DEF Broadcast
    <2>2. n \in Event /\ \A e \in (taken + 1)..n : e = n \/ e \in (taken + 1)..seq
      BY <1>a, BufferAssumption DEF TypeOK, Event
    <2> HIDE DEF n
    <2>3. Range(sub) \cup dropped \cup {n} = Range(sub') \cup dropped'
      BY <2>1, <2>2, <1>a, SortedAppend
    <2>4. Holding' = Holding
      BY <2>1 DEF Holding
    <2>5. dropped \cup Pipe \cup {n} = dropped' \cup Pipe'
      BY <2>1, <2>3, <2>4 DEF Pipe
    <2>6. \A e \in (taken' + 1)..seq' : Accounted(e)'
      BY <2>1, <2>2, <2>5 DEF GapInv, Accounted
    <2>7. dropped \subseteq dropped'
      BY <2>1
    <2> QED
      BY <1>1, <2>6, <2>7, <1>c DEF Broadcast, GapInv
  <1>2. CASE Run
    <2>1. fwd' = "running"
      BY <1>2 DEF Run
    <2>2. ASSUME fwd = "ended" PROVE FALSE
      BY <1>2, <2>2 DEF Run, HubInv
    <2> QED
      BY <1>2, <2>1, <2>2, <1>b, <1>c DEF Run, GapInv
  <1>3. CASE ForwardTake
    <2>1. /\ held = None /\ sub # <<>> /\ held' = Head(sub) /\ sub' = Tail(sub)
          /\ UNCHANGED <<seq, bcast, taken, fwd, dropped>>
      BY <1>3 DEF ForwardTake
    <2>2. Range(sub) = {Head(sub)} \cup Range(Tail(sub))
      BY <2>1, <1>a, SortedTail
    <2>3. Holding = {} /\ Holding' = {Head(sub)}
      <3>1. Head(sub) \in Event
        BY <2>1, <1>a
      <3> QED
        BY <2>1, <3>1 DEF Holding, None, Event
    <2>4. Pipe' = Pipe
      BY <2>1, <2>2, <2>3 DEF Pipe
    <2>5. \A e \in (taken' + 1)..seq' : Accounted(e)'
      BY <2>1, <2>4 DEF GapInv, Accounted
    <2> QED
      BY <1>3, <2>5, <1>c DEF ForwardTake, GapInv
  <1>4. CASE ForwardSend
    <2>1. /\ held # None /\ held' = None /\ bcast' = Append(bcast, held) /\ fwd = "running"
          /\ UNCHANGED <<seq, sub, taken, fwd, dropped>>
      BY <1>4 DEF ForwardSend
    <2>2. held \in Event /\ Holding = {held} /\ Holding' = {}
      BY <2>1 DEF TypeOK, Holding, Event, None
    <2>3. Range(bcast') = Range(bcast) \cup {held}
      BY <2>1, <2>2, <1>a, SortedAppend
    <2>4. Pipe' = Pipe
      BY <2>1, <2>2, <2>3 DEF Pipe
    <2>5. \A e \in (taken' + 1)..seq' : Accounted(e)'
      BY <2>1, <2>4 DEF GapInv, Accounted
    <2> QED
      BY <1>4, <2>5, <1>c DEF ForwardSend, GapInv
  <1>5. CASE ForwardStop
    <2>1. /\ held' = None /\ fwd = "running" /\ fwd' = "ended"
          /\ UNCHANGED <<seq, sub, bcast, taken, dropped>>
      BY <1>5 DEF ForwardStop
    <2>2. Pipe' = Range(bcast) \cup Range(sub)
      BY <2>1 DEF Pipe, Holding
    <2>3. ASSUME NEW e \in (taken + 1)..seq PROVE Accounted(e)'
      <3>1. e = MaxEvent \/ e \in dropped \cup Pipe
        BY <2>1 DEF GapInv, Accounted
      <3>2. ASSUME e \in Holding, e # MaxEvent PROVE \A x \in Range(bcast) : x < e
        BY <3>2 DEF OrderInv, PipeOrder, AllBefore, Before
      <3> QED
        BY <3>1, <3>2, <2>1, <2>2 DEF Accounted, Pipe
    <2> QED
      BY <1>5, <2>1, <2>3, <1>c DEF ForwardStop, GapInv
  <1>6. CASE ForwardEnd
    <2>1. fwd # "ended"
      BY <1>6 DEF ForwardEnd
    <2> QED
      BY <1>6, <2>1, <1>b, <1>c DEF ForwardEnd, GapInv
  <1>7. CASE HubTake
    <2> DEFINE h == Head(bcast)
    <2>1. /\ bcast # <<>> /\ msg' = h /\ taken' = h /\ bcast' = Tail(bcast) /\ todo' = clients
          /\ hub = "select" /\ stale' = {}
          /\ UNCHANGED <<seq, sub, held, send, got, fwd, dropped, clients, writer, since>>
      BY <1>7 DEF HubTake
    <2>2. /\ Range(bcast) = {h} \cup Range(Tail(bcast))
          /\ AllBefore({h}, Range(Tail(bcast)))
      BY <2>1, <1>a, SortedTail DEF OrderInv, PipeOrder
    <2>3. Holding' = Holding
      BY <2>1 DEF Holding
    <2>4. Pipe = {h} \cup Pipe' /\ h \in Pipe /\ h \in Range(bcast)
      BY <2>1, <2>2, <2>3 DEF Pipe
    <2>5. h \in Nat /\ taken <= h
      <3>1. h \in Event
        BY <2>4, PlaceTypes
      <3> QED
        BY <3>1, <2>4 DEF OrderInv, PipeOrder, Event
    <2>6. \A x \in Pipe : h <= x
      <3>1. \A x \in Pipe : x \in Event
        BY PlaceTypes
      <3>2. AllBefore({h}, Holding \cup Range(sub))
        BY <2>4 DEF OrderInv, PipeOrder, AllBefore
      <3>3. AllBefore({h}, Pipe')
        BY <3>2, <2>1, <2>2, <2>3 DEF Pipe, AllBefore
      <3> QED
        BY <3>1, <3>3, <2>4, <2>5 DEF AllBefore, Before, Event
    <2> HIDE DEF h
    <2>7. ASSUME NEW e \in (h + 1)..seq PROVE Accounted(e)'
      <3>1. e \in (taken + 1)..seq /\ e # h
        BY <2>5, <1>a
      <3>2. Accounted(e)
        BY <3>1 DEF GapInv
      <3> QED
        BY <3>1, <3>2, <2>1, <2>2, <2>4 DEF Accounted
    <2>8. ASSUME NEW c \in clients, writer[c] = "writing", NEW e \in (since[c] + 1)..h
          PROVE  Reached(c, e)'
      <3>1. c \in Client /\ stale = {} /\ Wait(c) = {} /\ Wait(c)' = {h}
        BY <2>1 DEF HubInv, TypeOK, Wait
      <3>2. CASE e <= taken
        <4>1. Reached(c, e)
          BY <3>1, <3>2, <2>8, <1>a, <2>5 DEF GapInv
        <4> QED
          BY <4>1, <3>1, <2>1 DEF Reached
      <3>3. CASE e = h
        BY <3>1, <3>3 DEF Reached
      <3>4. CASE taken < e /\ e < h
        <4>1. e \in (taken + 1)..seq
          <5>1. h <= seq
            BY <2>4 DEF OrderInv, PipeOrder
          <5> QED
            BY <3>1, <3>4, <5>1, <1>a, <2>5
        <4>2. Accounted(e)
          BY <4>1 DEF GapInv
        <4>3. e \notin Pipe /\ ~(h < e)
          BY <3>1, <3>4, <2>5, <2>6, <1>a
        <4>4. e = MaxEvent \/ e \in dropped
          BY <4>2, <4>3, <2>4 DEF Accounted
        <4> QED
          BY <4>4, <2>1 DEF Reached
      <3> QED
        BY <3>1, <3>2, <3>3, <3>4, <1>a, <2>5
    <2> QED
      BY <2>1, <2>7, <2>8 DEF GapInv
  <1>8. CASE DeliverEnd
    <2>1. /\ todo = {} /\ clients' = clients \ stale /\ stale' = {}
          /\ UNCHANGED <<seq, sub, held, bcast, taken, fwd, dropped, send, got, todo, writer, since>>
      BY <1>8 DEF DeliverEnd
    <2>2. \A c \in Client : Wait(c)' = Wait(c)
      BY <2>1 DEF Wait
    <2>3. \A c \in clients' \ stale' :
            writer'[c] = "writing" => \A e \in (since'[c] + 1)..taken' : Reached(c, e)'
      BY <2>1, <2>2 DEF GapInv, Reached, TypeOK
    <2> QED
      BY <2>1, <2>3, <1>b DEF GapInv
  <1>9. CASE HubStop
    BY <1>9, <1>b, <1>c DEF HubStop, GapInv
  <1>10. CASE Stop
    BY <1>10, <1>b, <1>c DEF Stop, GapInv
  <1>11. ASSUME NEW d \in Client, Deliver(d) PROVE GapInv'
    <2>1. /\ d \in todo /\ todo' = todo \ {d} /\ msg' = msg /\ hub = "deliver"
          /\ UNCHANGED <<seq, sub, held, bcast, taken, fwd, got, dropped, clients, writer, since>>
          /\ \/ send' = [send EXCEPT ![d] = Append(@, msg)] /\ stale' = stale
             \/ send' = send /\ stale' = stale \cup {d}
      BY <1>11 DEF Deliver
    <2>2. ASSUME NEW c \in clients \ stale', writer[c] = "writing",
                 NEW e \in (since[c] + 1)..taken
          PROVE  Reached(c, e)'
      <3>1. c \in Client /\ c \notin stale
        BY <2>1 DEF TypeOK
      <3>2. Reached(c, e)
        BY <3>1, <2>2 DEF GapInv
      <3>3. CASE c # d
        <4>1. Wait(c)' = Wait(c) /\ send'[c] = send[c]
          BY <2>1, <3>1, <3>3 DEF Wait, TypeOK
        <4> QED
          BY <4>1, <3>2, <2>1 DEF Reached
      <3>4. CASE c = d
        <4>1. send'[c] = Append(send[c], msg) /\ msg \in Event /\ send[c] \in Seq(Event)
          BY <2>1, <2>2, <3>4 DEF TypeOK, HubInv
        <4>2. Range(send'[c]) = Range(send[c]) \cup {msg}
          BY <4>1, SortedAppend
        <4>3. Wait(c) = {msg}
          BY <2>1, <3>4 DEF Wait
        <4> QED
          BY <4>2, <4>3, <3>2, <2>1 DEF Reached
      <3> QED
        BY <3>3, <3>4
    <2> QED
      BY <2>1, <2>2, <1>b DEF GapInv
  <1>12. ASSUME NEW c \in Client, Upgrade(c) PROVE GapInv'
    BY <1>12, <1>b, <1>c DEF Upgrade, GapInv
  <1>13. ASSUME NEW d \in Client, Register(d) PROVE GapInv'
    <2>1. /\ clients' = clients \cup {d} /\ since' = [since EXCEPT ![d] = taken]
          /\ writer' = [writer EXCEPT ![d] = "writing"]
          /\ UNCHANGED <<seq, sub, held, bcast, taken, fwd, got, dropped, send, todo, msg, stale>>
      BY <1>13 DEF Register
    <2>2. ASSUME NEW c \in clients' \ stale', writer'[c] = "writing",
                 NEW e \in (since'[c] + 1)..taken
          PROVE  Reached(c, e)'
      <3>1. CASE c = d
        <4>1. since'[c] = taken
          BY <2>1, <3>1 DEF TypeOK
        <4> QED
          BY <4>1, <1>a
      <3>2. CASE c # d
        <4>1. c \in clients \ stale /\ c \in Client /\ since'[c] = since[c] /\ writer'[c] = writer[c]
          BY <2>1, <3>2 DEF TypeOK
        <4>2. Reached(c, e)
          BY <4>1, <2>2 DEF GapInv
        <4> QED
          BY <4>2, <2>1 DEF Reached, Wait
      <3> QED
        BY <3>1, <3>2
    <2> QED
      BY <2>1, <2>2, <1>b DEF GapInv
  <1>14. ASSUME NEW c \in Client, Disconnect(c) PROVE GapInv'
    BY <1>14, <1>b, <1>c DEF Disconnect, GapInv
  <1>15. ASSUME NEW d \in Client, Unregister(d) PROVE GapInv'
    <2>1. /\ clients' \subseteq clients
          /\ UNCHANGED <<seq, sub, held, bcast, taken, fwd, got, dropped, send, todo, msg, stale,
                         writer, since>>
      BY <1>15 DEF Unregister
    <2> QED
      BY <2>1, <1>b DEF GapInv, Reached, Wait
  <1>16. ASSUME NEW c \in Client, GiveUpUnregister(c) PROVE GapInv'
    BY <1>16, <1>b, <1>c DEF GiveUpUnregister, GapInv
  <1>17. ASSUME NEW d \in Client, WriteMessage(d) PROVE GapInv'
    <2>1. /\ send[d] # <<>> /\ send' = [send EXCEPT ![d] = Tail(@)]
          /\ got' = [got EXCEPT ![d] = @ \cup {Head(send[d])}]
          /\ UNCHANGED <<seq, sub, held, bcast, taken, fwd, dropped, todo, msg, clients, stale,
                         writer, since>>
      BY <1>17 DEF WriteMessage
    <2>2. ASSUME NEW c \in clients \ stale, writer[c] = "writing",
                 NEW e \in (since[c] + 1)..taken
          PROVE  Reached(c, e)'
      <3>1. c \in Client /\ Wait(c)' = Wait(c) /\ Reached(c, e)
        BY <2>1, <2>2 DEF TypeOK, Wait, GapInv
      <3>2. CASE c # d
        <4>1. send'[c] = send[c] /\ got'[c] = got[c]
          BY <2>1, <3>1, <3>2 DEF TypeOK
        <4> QED
          BY <4>1, <3>1, <2>1 DEF Reached
      <3>3. CASE c = d
        <4>1. /\ send'[c] = Tail(send[c]) /\ got'[c] = got[c] \cup {Head(send[c])}
              /\ send[c] \in Seq(Event) /\ send[c] # <<>>
          BY <2>1, <3>3 DEF TypeOK
        <4>2. Range(send[c]) \cup got[c] = Range(send'[c]) \cup got'[c]
          BY <4>1, SortedTail
        <4> QED
          BY <4>2, <3>1, <2>1 DEF Reached
      <3> QED
        BY <3>2, <3>3
    <2> QED
      BY <2>1, <2>2, <1>b DEF GapInv
  <1>18. ASSUME NEW d \in Client, WriterEnd(d) PROVE GapInv'
    <2>1. /\ writer' = [writer EXCEPT ![d] = "ended"]
          /\ UNCHANGED <<seq, sub, held, bcast, taken, fwd, got, dropped, send, todo, msg, stale,
                         clients, since>>
      BY <1>18 DEF WriterEnd
    <2>2. \A c \in Client : writer'[c] = "writing" => writer[c] = "writing"
      BY <2>1 DEF TypeOK
    <2> QED
      BY <2>1, <2>2, <1>b DEF GapInv, Reached, Wait, TypeOK
  <1>19. CASE UNCHANGED vars
    BY <1>19, <1>b, <1>c DEF vars, GapInv
  <1> QED
    BY <1>1, <1>2, <1>3, <1>4, <1>5, <1>6, <1>7, <1>8, <1>9, <1>10, <1>11, <1>12, <1>13,
       <1>14, <1>15, <1>16, <1>17, <1>18, <1>19 DEF Next

\* The invariant holds of every behaviour.
LEMMA GapAlways == Spec => [](TypeOK /\ HubInv /\ OrderInv /\ GapInv)
  BY OrderAlways, InitGap, NextGap, PTL DEF Spec

\* A registered client whose writer runs has got, or will get, every event
\* that the hub has taken since it was registered, unless the subscriber
\* channel of the whole hub dropped it.
THEOREM NoSilentSkip == Spec => []NoGap
  <1>1. TypeOK /\ GapInv => NoGap
    <2> SUFFICES ASSUME TypeOK, GapInv, NEW c \in clients \ stale, writer[c] = "writing",
                        NEW e \in (since[c] + 1)..taken
                 PROVE  \/ e = MaxEvent
                        \/ e \in dropped \cup got[c]
                        \/ \E i \in DOMAIN send[c] : send[c][i] = e
                        \/ e = msg /\ c \in todo
      BY DEF NoGap
    <2>1. Reached(c, e)
      BY DEF GapInv
    <2>2. e \in Range(send[c]) => \E i \in DOMAIN send[c] : send[c][i] = e
      BY DEF Range
    <2>3. e \in Wait(c) => e = msg /\ c \in todo
      BY DEF Wait
    <2> QED
      BY <2>1, <2>2, <2>3 DEF Reached
  <1> QED
    BY <1>1, GapAlways, PTL

-----------------------------------------------------------------------------
(***************************************************************************)
(* The stream.                                                             *)
(***************************************************************************)

\* a number that is not shared is on its way only if it was not dropped
Carried(x) == x # MaxEvent => x \notin dropped

PipeStream ==
  /\ hub = "deliver" => msg = taken
  /\ \A x \in dropped : x <= seq
  /\ \A x \in Pipe : Before(taken, x) /\ Carried(x)

\* what c has been sent and has not been written has no gap before it
Gapless(c) ==
  \A x \in Range(send[c]) :
     (since[c] + 1)..(x - 1) \subseteq dropped \cup got[c] \cup Range(send[c])

ClientStream(c) ==
  /\ conn[c] \in {"none", "upgraded"} => writer[c] = "none"
  /\ since[c] <= taken
  /\ \A x \in Wait(c) \cup Range(send[c]) : Before(since[c], x) /\ Carried(x)
  /\ writer[c] = "writing" => Gapless(c)

(***************************************************************************)
(* GapInv says nothing of a client that has been cut off.  Its channel may *)
(* still hold messages that its writer writes, and those are what the      *)
(* stream of the client ends with.                                         *)
(***************************************************************************)
StreamInv == PipeStream /\ \A c \in Client : ClientStream(c)

\* The initial state satisfies the invariant.
LEMMA InitStream == Init => StreamInv
  <1> SUFFICES ASSUME Init PROVE StreamInv
    OBVIOUS
  <1>1. Range(<<>>) = {}
    BY DEF Range
  <1>2. Pipe = {} /\ \A c \in Client : Wait(c) = {} /\ Range(send[c]) = {}
    BY <1>1 DEF Init, Pipe, Holding, Wait
  <1>3. PipeStream
    BY <1>2 DEF Init, PipeStream
  <1>4. ASSUME NEW c \in Client PROVE ClientStream(c)
    BY <1>2 DEF Init, ClientStream, None
  <1> QED
    BY <1>3, <1>4 DEF StreamInv

\* The forwarding goroutine moves events on and may throw one away.
LEMMA ForwardKeeps ==
  ASSUME TypeOK, ForwardTake \/ ForwardSend \/ ForwardStop \/ ForwardEnd
  PROVE  Pipe' \subseteq Pipe
  <1> USE DEF fwdVars, hubVars, clientVars
  <1>a. sub \in Seq(Event) /\ bcast \in Seq(Event)
    BY DEF TypeOK
  <1>1. CASE ForwardTake
    <2>1. /\ held = None /\ sub # <<>> /\ held' = Head(sub) /\ sub' = Tail(sub) /\ bcast' = bcast
      BY <1>1 DEF ForwardTake
    <2>2. Range(sub) = {Head(sub)} \cup Range(Tail(sub))
      BY <2>1, <1>a, SortedTail
    <2>3. Holding' \subseteq {Head(sub)}
      BY <2>1 DEF Holding
    <2> QED
      BY <2>1, <2>2, <2>3 DEF Pipe
  <1>2. CASE ForwardSend
    <2>1. held # None /\ held' = None /\ bcast' = Append(bcast, held) /\ sub' = sub
      BY <1>2 DEF ForwardSend
    <2>2. held \in Event /\ Holding = {held} /\ Holding' = {}
      BY <2>1 DEF TypeOK, Holding, Event, None
    <2>3. Range(bcast') = Range(bcast) \cup {held}
      BY <2>1, <2>2, <1>a, SortedAppend
    <2> QED
      BY <2>1, <2>2, <2>3 DEF Pipe
  <1>3. CASE ForwardStop
    BY <1>3 DEF ForwardStop, Pipe, Holding
  <1>4. CASE ForwardEnd
    BY <1>4 DEF ForwardEnd, Pipe, Holding
  <1> QED
    BY <1>1, <1>2, <1>3, <1>4

\* A change that is dropped is on nobody's way.
LEMMA BroadcastStream ==
  ASSUME TypeOK, HubInv, OrderInv, StreamInv, Broadcast
  PROVE  StreamInv'
  <1> USE DEF fwdVars, hubVars, clientVars
  <1> DEFINE n == IF seq < MaxEvent THEN seq + 1 ELSE MaxEvent
  <1>1. seq \in Nat /\ MaxEvent \in Nat /\ seq <= MaxEvent /\ MaxEvent # 0
        /\ taken \in Nat /\ taken <= seq /\ dropped \subseteq Event
    BY BufferAssumption DEF TypeOK, OrderInv, PipeOrder
  <1>2. /\ n \in Event /\ seq <= n /\ n <= MaxEvent
        /\ n # MaxEvent => seq < n
        /\ Before(taken, n)
    BY <1>1 DEF Event, Before
  <1>3. /\ seq' = n /\ UNCHANGED <<bcast, held, hub, taken, send, got, todo, msg, since, conn, writer>>
        /\ \/ sub' = sub /\ dropped' = dropped \cup {n}
           \/ sub' = Append(sub, n) /\ dropped' = dropped
    BY <1>1 DEF Broadcast
  <1> HIDE DEF n
  <1>4. ASSUME NEW x \in Event, x <= seq, Carried(x) PROVE Carried(x)'
    BY <1>1, <1>2, <1>3, <1>4 DEF Carried, Event
  <1>5. /\ \A x \in Pipe : x \in Event /\ x <= seq
        /\ \A c \in Client : \A x \in Wait(c) \cup Range(send[c]) : x \in Event /\ x <= seq
    BY PlaceTypes DEF OrderInv, PipeOrder, ClientOrder
  <1>6. PipeStream'
    <2>a. n \in Int /\ \A x \in dropped : x \in Int /\ x <= seq
      BY <1>1, <1>2 DEF StreamInv, PipeStream, Event
    <2>1. \A x \in dropped' : x <= n
      <3>1. \A x \in dropped : x <= n
        BY <2>a, <1>1, <1>2
      <3> QED
        BY <3>1, <2>a, <1>3
    <2>2. sub \in Seq(Event)
      BY DEF TypeOK
    <2>3. \/ Pipe' = Pipe
          \/ Pipe' \subseteq Pipe \cup {n} /\ dropped' = dropped
      <3>1. Holding' = Holding
        BY <1>3 DEF Holding
      <3>2. CASE sub' = sub
        BY <3>1, <3>2, <1>3 DEF Pipe
      <3>3. CASE sub' = Append(sub, n) /\ dropped' = dropped
        <4>1. Range(sub') = Range(sub) \cup {n}
          BY <3>3, <2>2, <1>2, SortedAppend
        <4> QED
          BY <4>1, <3>1, <3>3, <1>3 DEF Pipe
      <3> QED
        BY <3>2, <3>3, <1>3
    <2>4. ASSUME NEW x \in Pipe PROVE Before(taken, x) /\ Carried(x)'
      BY <1>4, <1>5 DEF StreamInv, PipeStream
    <2>5. n # MaxEvent => n \notin dropped
      BY <2>a, <1>1, <1>2
    <2>6. \A x \in Pipe' : Before(taken, x) /\ Carried(x)'
      <3>1. ASSUME NEW x \in Pipe', x = n, dropped' = dropped PROVE Before(taken, x) /\ Carried(x)'
        BY <3>1, <2>5, <1>2 DEF Carried
      <3> QED
        BY <3>1, <2>3, <2>4
    <2>7. hub' = "deliver" => msg' = taken'
      BY <1>3 DEF StreamInv, PipeStream
    <2>8. \A x \in Pipe' : Before(taken', x) /\ Carried(x)'
      BY <2>6, <1>3
    <2> QED
      BY <2>1, <2>7, <2>8, <1>3 DEF PipeStream, Before
  <1>7. ASSUME NEW c \in Client PROVE ClientStream(c)'
    <2>1. Wait(c)' = Wait(c)
      BY <1>3 DEF Wait
    <2>2. \A x \in Wait(c) \cup Range(send[c]) : Before(since[c], x) /\ Carried(x)'
      BY <1>4, <1>5 DEF StreamInv, ClientStream
    <2>3. Gapless(c) => Gapless(c)'
      BY <1>3 DEF Gapless
    <2> QED
      BY <2>1, <2>2, <2>3, <1>3 DEF StreamInv, ClientStream, Before
  <1> QED
    BY <1>6, <1>7 DEF StreamInv

\* Every step preserves the invariant.
LEMMA NextStream ==
  TypeOK /\ HubInv /\ OrderInv /\ GapInv /\ StreamInv /\ [Next]_vars => StreamInv'
  <1> SUFFICES ASSUME TypeOK, HubInv, OrderInv, GapInv, StreamInv, [Next]_vars PROVE StreamInv'
    OBVIOUS
  <1> USE DEF fwdVars, hubVars, clientVars
  <1>a. /\ sub \in Seq(Event) /\ bcast \in Seq(Event) /\ seq \in Nat /\ taken \in Nat
        /\ \A c \in Client : since[c] \in Nat
        /\ MaxEvent \in Nat
    BY BufferAssumption DEF TypeOK
  <1>p. ASSUME UNCHANGED <<hub, msg, taken, dropped, seq>>, Pipe' \subseteq Pipe
        PROVE  PipeStream'
    BY <1>p DEF StreamInv, PipeStream, Before, Carried
  <1>q. ASSUME UNCHANGED <<bcast, held, sub>> PROVE Pipe' \subseteq Pipe
    BY <1>q DEF Pipe, Holding
  <1>c. ASSUME UNCHANGED <<since, taken, dropped, send, got, todo, msg>>, NEW c \in Client,
               conn'[c] \in {"none", "upgraded"} => conn[c] \in {"none", "upgraded"},
               writer'[c] # writer[c] => writer'[c] = "ended" /\ conn'[c] = "closed"
        PROVE  ClientStream(c)'
    BY <1>c DEF StreamInv, ClientStream, Gapless, Wait, Before, Carried
  <1>1. CASE Broadcast
    BY <1>1, BroadcastStream
  <1>2. CASE Run
    BY <1>2, <1>c, <1>q DEF Run, StreamInv, PipeStream, Before, Carried
  <1>3. CASE ForwardTake \/ ForwardSend \/ ForwardStop \/ ForwardEnd
    <2>1. UNCHANGED <<seq, hub, msg, taken, dropped, since, send, got, todo, conn, writer>>
      BY <1>3 DEF ForwardTake, ForwardSend, ForwardStop, ForwardEnd
    <2> QED
      BY <1>3, <2>1, <1>p, <1>c, ForwardKeeps DEF StreamInv
  <1>4. CASE HubTake
    <2> DEFINE h == Head(bcast)
    <2>1. /\ bcast # <<>> /\ msg' = h /\ taken' = h /\ bcast' = Tail(bcast) /\ todo' = clients
          /\ hub = "select"
          /\ UNCHANGED <<seq, sub, held, send, got, dropped, writer, since, conn>>
      BY <1>4 DEF HubTake
    <2>2. Range(bcast) = {h} \cup Range(Tail(bcast)) /\ AllBefore({h}, Range(Tail(bcast)))
      BY <2>1, <1>a, SortedTail DEF OrderInv, PipeOrder
    <2>3. Holding' = Holding
      BY <2>1 DEF Holding
    <2>4. Pipe = {h} \cup Pipe' /\ h \in Pipe /\ h \in Range(bcast)
      BY <2>1, <2>2, <2>3 DEF Pipe
    <2>5. AllBefore({h}, Holding \cup Range(sub))
      BY <2>4 DEF OrderInv, PipeOrder, AllBefore
    <2>6. AllBefore({h}, Pipe')
      BY <2>5, <2>1, <2>2, <2>3 DEF Pipe, AllBefore
    <2>7. h \in Nat /\ Before(taken, h) /\ Carried(h)
      <3>1. h \in Event
        BY <2>4, PlaceTypes
      <3> QED
        BY <3>1, <2>4 DEF StreamInv, PipeStream, Event
    <2> HIDE DEF h
    <2>8. PipeStream'
      <3>1. \A x \in Pipe' : Before(h, x) /\ Carried(x)
        BY <2>4, <2>6 DEF AllBefore, StreamInv, PipeStream
      <3> QED
        BY <3>1, <2>1 DEF StreamInv, PipeStream, Before, Carried
    <2>9. ASSUME NEW c \in Client PROVE ClientStream(c)'
      <3>1. since[c] \in Nat /\ since[c] <= taken
        BY <1>a DEF StreamInv, ClientStream
      <3>2. since[c] <= h /\ Before(since[c], h)
        BY <3>1, <2>7, <1>a DEF Before
      <3>3. Wait(c)' \subseteq {h}
        BY <2>1 DEF Wait
      <3>4. \A x \in Wait(c)' \cup Range(send[c]) : Before(since[c], x) /\ Carried(x)
        BY <3>2, <3>3, <2>7 DEF StreamInv, ClientStream
      <3>5. Gapless(c) => Gapless(c)'
        BY <2>1 DEF Gapless
      <3> QED
        BY <3>2, <3>4, <3>5, <2>1 DEF StreamInv, ClientStream, Before, Carried
    <2> QED
      BY <2>8, <2>9 DEF StreamInv
  <1>5. CASE DeliverEnd
    <2>1. /\ hub' = "select" /\ todo = {} /\ todo' = {}
          /\ UNCHANGED <<seq, sub, held, bcast, taken, dropped, send, got, writer, since, conn>>
      BY <1>5 DEF DeliverEnd
    <2>2. PipeStream'
      BY <2>1, <1>q DEF StreamInv, PipeStream, Before, Carried
    <2>3. ASSUME NEW c \in Client PROVE ClientStream(c)'
      BY <2>1 DEF StreamInv, ClientStream, Gapless, Wait, Before, Carried
    <2> QED
      BY <2>2, <2>3 DEF StreamInv
  <1>6. CASE HubStop
    BY <1>6, <1>c, <1>q DEF HubStop, StreamInv, PipeStream, Before, Carried
  <1>7. CASE Stop
    BY <1>7, <1>p, <1>q, <1>c DEF Stop, StreamInv
  <1>8. ASSUME NEW d \in Client, Deliver(d) PROVE StreamInv'
    <2>1. /\ d \in todo /\ todo' = todo \ {d} /\ hub = "deliver" /\ d \in clients /\ d \notin stale
          /\ UNCHANGED <<seq, sub, held, bcast, hub, msg, taken, got, dropped, writer, since, conn>>
          /\ send' \in {send, [send EXCEPT ![d] = Append(@, msg)]}
      BY <1>8 DEF Deliver, HubInv
    <2>2. PipeStream'
      BY <2>1, <1>p, <1>q
    <2>3. ASSUME NEW c \in Client, send'[c] = send[c] PROVE ClientStream(c)'
      <3>1. Wait(c)' \subseteq Wait(c)
        BY <2>1 DEF Wait
      <3>2. Gapless(c) => Gapless(c)'
        BY <2>1, <2>3 DEF Gapless
      <3> QED
        BY <3>1, <3>2, <2>1, <2>3 DEF StreamInv, ClientStream, Before, Carried
    <2>4. ASSUME send'[d] = Append(send[d], msg) PROVE ClientStream(d)'
      <3>1. /\ msg \in Event /\ msg = taken /\ send[d] \in Seq(Event)
            /\ Wait(d) = {msg} /\ Wait(d)' = {}
        BY <2>1 DEF TypeOK, HubInv, Wait, StreamInv, PipeStream
      <3>2. Range(send'[d]) = Range(send[d]) \cup {msg}
        BY <2>4, <3>1, SortedAppend
      <3>3. \A x \in Range(send'[d]) : Before(since[d], x) /\ Carried(x)
        BY <3>1, <3>2 DEF StreamInv, ClientStream
      <3>4. ASSUME writer[d] = "writing", NEW x \in Range(send'[d]), NEW e \in (since[d] + 1)..(x - 1)
            PROVE  e \in dropped \cup got[d] \cup Range(send'[d])
        <4>1. CASE x \in Range(send[d])
          BY <4>1, <3>2, <3>4 DEF StreamInv, ClientStream, Gapless
        <4>2. CASE x = msg
          <5>1. e \in (since[d] + 1)..taken /\ e # msg /\ e # MaxEvent
            BY <4>2, <3>1, <1>a DEF Event
          <5>2. Reached(d, e)
            BY <5>1, <3>4, <2>1 DEF GapInv
          <5> QED
            BY <5>1, <5>2, <3>1, <3>2 DEF Reached
        <4> QED
          BY <4>1, <4>2, <3>2
      <3>5. writer'[d] = "writing" => Gapless(d)'
        BY <3>4, <2>1 DEF Gapless
      <3> QED
        BY <3>1, <3>3, <3>5, <2>1 DEF StreamInv, ClientStream, Before, Carried
    <2>5. ASSUME NEW c \in Client
          PROVE  send'[c] = send[c] \/ (c = d /\ send'[d] = Append(send[d], msg))
      BY <2>1 DEF TypeOK
    <2> QED
      BY <2>2, <2>3, <2>4, <2>5 DEF StreamInv
  <1>9. ASSUME NEW d \in Client, Upgrade(d) PROVE StreamInv'
    <2>1. \A c \in Client : conn'[c] \in {"none", "upgraded"} => conn[c] \in {"none", "upgraded"}
      BY <1>9 DEF Upgrade, TypeOK
    <2> QED
      BY <1>9, <2>1, <1>p, <1>q, <1>c DEF Upgrade, StreamInv
  <1>10. ASSUME NEW d \in Client, Register(d) PROVE StreamInv'
    <2>1. /\ since' = [since EXCEPT ![d] = taken] /\ conn' = [conn EXCEPT ![d] = "open"]
          /\ writer' = [writer EXCEPT ![d] = "writing"] /\ conn[d] = "upgraded" /\ hub = "select"
          /\ UNCHANGED <<seq, sub, held, bcast, hub, taken, got, dropped, send, todo, msg>>
      BY <1>10 DEF Register
    <2>2. PipeStream'
      BY <2>1, <1>p, <1>q
    <2>3. ASSUME NEW c \in Client, c # d PROVE ClientStream(c)'
      <3>1. since'[c] = since[c] /\ conn'[c] = conn[c] /\ writer'[c] = writer[c]
        BY <2>1, <2>3 DEF TypeOK
      <3> QED
        BY <3>1, <2>1 DEF StreamInv, ClientStream, Gapless, Wait, Before, Carried
    <2>4. ClientStream(d)'
      <3>1. send[d] = <<>> /\ todo = {}
        BY <2>1 DEF HubInv
      <3>2. Range(send[d])' = {} /\ Wait(d)' = {}
        BY <3>1, <2>1 DEF Range, Wait
      <3>3. since'[d] = taken /\ conn'[d] = "open" /\ taken' = taken
        BY <2>1 DEF TypeOK
      <3> QED
        BY <3>2, <3>3, <1>a DEF ClientStream, Gapless
    <2> QED
      BY <2>2, <2>3, <2>4 DEF StreamInv
  <1>11. ASSUME NEW d \in Client, Disconnect(d) PROVE StreamInv'
    <2>1. \A c \in Client : conn'[c] \in {"none", "upgraded"} => conn[c] \in {"none", "upgraded"}
      BY <1>11 DEF Disconnect, TypeOK
    <2> QED
      BY <1>11, <2>1, <1>p, <1>q, <1>c DEF Disconnect, StreamInv
  <1>12. ASSUME NEW d \in Client, Unregister(d) \/ GiveUpUnregister(d) PROVE StreamInv'
    <2>1. \A c \in Client : conn'[c] \in {"none", "upgraded"} => conn[c] \in {"none", "upgraded"}
      BY <1>12 DEF Unregister, GiveUpUnregister, TypeOK
    <2> QED
      BY <1>12, <2>1, <1>p, <1>q, <1>c DEF Unregister, GiveUpUnregister, StreamInv
  <1>13. ASSUME NEW d \in Client, WriteMessage(d) PROVE StreamInv'
    <2>1. /\ send[d] # <<>> /\ send' = [send EXCEPT ![d] = Tail(@)]
          /\ got' = [got EXCEPT ![d] = @ \cup {Head(send[d])}]
          /\ UNCHANGED <<seq, sub, held, bcast, hub, taken, dropped, todo, msg, writer, since, conn>>
      BY <1>13 DEF WriteMessage
    <2>2. PipeStream'
      BY <2>1, <1>p, <1>q
    <2>3. ASSUME NEW c \in Client PROVE ClientStream(c)'
      <3>1. Wait(c)' = Wait(c)
        BY <2>1 DEF Wait
      <3>2. /\ Range(send'[c]) \subseteq Range(send[c])
            /\ Range(send[c]) \cup got[c] = Range(send'[c]) \cup got'[c]
        <4>1. CASE c # d
          BY <2>1, <4>1 DEF TypeOK
        <4>2. CASE c = d
          <5>1. /\ send'[c] = Tail(send[c]) /\ got'[c] = got[c] \cup {Head(send[c])}
                /\ send[c] \in Seq(Event) /\ send[c] # <<>>
            BY <2>1, <4>2 DEF TypeOK
          <5> QED
            BY <5>1, SortedTail
        <4> QED
          BY <4>1, <4>2
      <3>3. Gapless(c) => Gapless(c)'
        BY <3>2, <2>1 DEF Gapless
      <3> QED
        BY <3>1, <3>2, <3>3, <2>1 DEF StreamInv, ClientStream, Before, Carried
    <2> QED
      BY <2>2, <2>3 DEF StreamInv
  <1>14. ASSUME NEW d \in Client, WriterEnd(d) PROVE StreamInv'
    <2>1. \A c \in Client :
            /\ conn'[c] \in {"none", "upgraded"} => conn[c] \in {"none", "upgraded"}
            /\ writer'[c] # writer[c] => writer'[c] = "ended" /\ conn'[c] = "closed"
      BY <1>14 DEF WriterEnd, TypeOK
    <2> QED
      BY <1>14, <2>1, <1>p, <1>q, <1>c DEF WriterEnd, StreamInv
  <1>15. CASE UNCHANGED vars
    BY <1>15, <1>p, <1>q, <1>c DEF vars, StreamInv
  <1> QED
    BY <1>1, <1>2, <1>3, <1>4, <1>5, <1>6, <1>7, <1>8, <1>9, <1>10, <1>11, <1>12, <1>13,
       <1>14, <1>15 DEF Next

\* The invariant behind the refinement holds of every behaviour.
LEMMA StreamAlways == Spec => [](TypeOK /\ HubInv /\ OrderInv /\ GapInv /\ StreamInv)
  BY GapAlways, InitStream, NextStream, PTL DEF Spec

\* Every step of the hub and its clients is a step of the stream or does not
\* show.
LEMMA StepStreams ==
  ASSUME TypeOK, HubInv, OrderInv, StreamInv, [Next]_vars
  PROVE  [Stream!Next]_(Stream!vars)
  <1> USE DEF fwdVars, hubVars, clientVars
  <1>a. seq \in Nat /\ taken \in Nat /\ taken <= seq /\ MaxEvent \in Nat
        /\ \A c \in Client : since[c] \in Nat
    BY BufferAssumption DEF TypeOK, OrderInv, PipeOrder
  <1>b. ASSUME UNCHANGED <<seq, dropped, since, conn, got>> PROVE UNCHANGED Stream!vars
    BY <1>b DEF Stream!vars, startBar
  <1>1. CASE Broadcast
    <2>1. /\ seq' = IF seq < MaxEvent THEN seq + 1 ELSE MaxEvent
          /\ dropped' \in {dropped, dropped \cup {seq'}}
          /\ UNCHANGED <<conn, since, got>>
      BY <1>1 DEF Broadcast
    <2>2. startBar' = startBar
      BY <2>1 DEF startBar
    <2> QED
      BY <2>1, <2>2 DEF Stream!Next, Stream!Change
  <1>2. ASSUME NEW c \in Client, Register(c) PROVE Stream!Next
    <2>1. /\ since' = [since EXCEPT ![c] = taken] /\ conn' = [conn EXCEPT ![c] = "open"]
          /\ conn[c] = "upgraded" /\ UNCHANGED <<seq, dropped, got>>
      BY <1>2 DEF Register
    <2>2. startBar[c] = Stream!NotYet
      BY <2>1 DEF startBar, Stream!NotYet
    <2>3. startBar' = [startBar EXCEPT ![c] = taken]
      <3>1. \A d \in Client : /\ since'[d] = IF d = c THEN taken ELSE since[d]
                              /\ conn'[d] = IF d = c THEN "open" ELSE conn[d]
        BY <2>1 DEF TypeOK
      <3> QED
        BY <3>1 DEF startBar
    <2>4. taken \in 0..seq
      BY <1>a
    <2>5. Stream!Join(c)
      BY <2>1, <2>2, <2>3, <2>4 DEF Stream!Join
    <2> QED
      BY <2>5 DEF Stream!Next
  <1>3. ASSUME NEW c \in Client, WriteMessage(c) PROVE Stream!Next
    <2> DEFINE h == Head(send[c])
    <2>1. /\ send[c] # <<>> /\ writer[c] = "writing" /\ conn[c] \in {"open", "broken"}
          /\ got' = [got EXCEPT ![c] = @ \cup {h}]
          /\ UNCHANGED <<seq, dropped, since, conn>>
      BY <1>3 DEF WriteMessage
    <2>2. startBar' = startBar /\ startBar[c] = since[c] /\ startBar[c] # Stream!NotYet
      <3>1. since[c] # -1
        BY <1>a
      <3> QED
        BY <3>1, <2>1 DEF startBar, Stream!NotYet
    <2>3. send[c] \in Seq(Event) /\ got[c] \subseteq Event
      BY DEF TypeOK
    <2>4. /\ Range(send[c]) = {h} \cup Range(Tail(send[c]))
          /\ AllBefore({h}, Range(Tail(send[c])))
      BY <2>1, <2>3, SortedTail DEF OrderInv, ClientOrder
    <2>5. h \in Event /\ h <= seq
      <3>1. h \in Range(send[c])
        BY <2>4
      <3> QED
        BY <3>1, PlaceTypes DEF OrderInv, ClientOrder
    <2>6. Before(since[c], h) /\ Carried(h) /\ \A f \in got[c] : Before(f, h)
      BY <2>4 DEF StreamInv, ClientStream, OrderInv, ClientOrder, AllBefore
    <2> HIDE DEF h
    <2>7. (since[c] + 1)..(h - 1) \subseteq dropped \cup got[c]
      <3> SUFFICES ASSUME NEW e \in (since[c] + 1)..(h - 1) PROVE e \in dropped \cup got[c]
        OBVIOUS
      <3>1. e \in dropped \cup got[c] \cup Range(send[c])
        BY <2>1, <2>4 DEF StreamInv, ClientStream, Gapless
      <3>2. e < h /\ h \in Int /\ e \in Int
        BY <2>5, <1>a DEF Event
      <3>3. e \notin Range(send[c])
        BY <3>2, <2>4 DEF AllBefore, Before
      <3> QED
        BY <3>1, <3>3
    <2>8. h \in 1..seq
      BY <2>5, <1>a DEF Event
    <2>9. h = MaxEvent \/ (since[c] < h /\ h \notin dropped /\ \A f \in got[c] : f < h)
      BY <2>6 DEF Before, Carried
    <2>10. Stream!See(c)
      BY <2>1, <2>2, <2>7, <2>8, <2>9 DEF Stream!See
    <2> QED
      BY <2>10 DEF Stream!Next
  <1>4. ASSUME NEW c \in Client,
               Upgrade(c) \/ Disconnect(c) \/ GiveUpUnregister(c) \/ WriterEnd(c)
        PROVE  UNCHANGED Stream!vars
    <2>1. UNCHANGED <<seq, dropped, since, got>>
      BY <1>4 DEF Upgrade, Disconnect, GiveUpUnregister, WriterEnd
    <2>2. ASSUME NEW d \in Client
          PROVE  conn'[d] \in {"none", "upgraded"} <=> conn[d] \in {"none", "upgraded"}
      <3>1. CASE Upgrade(c)
        BY <3>1 DEF Upgrade, TypeOK
      <3>2. CASE Disconnect(c)
        BY <3>2 DEF Disconnect, TypeOK
      <3>3. CASE WriterEnd(c)
        BY <3>3 DEF WriterEnd, TypeOK, StreamInv, ClientStream
      <3>4. CASE GiveUpUnregister(c)
        BY <3>4 DEF GiveUpUnregister, TypeOK
      <3> QED
        BY <3>1, <3>2, <3>3, <3>4, <1>4
    <2>3. startBar' = startBar
      BY <2>1, <2>2 DEF startBar
    <2> QED
      BY <2>1, <2>3 DEF Stream!vars
  <1>5. ASSUME NEW c \in Client, Deliver(c) \/ Unregister(c)
        PROVE  UNCHANGED Stream!vars
    BY <1>5, <1>b DEF Deliver, Unregister
  <1>6. CASE Run \/ ForwardTake \/ ForwardSend \/ ForwardStop \/ ForwardEnd
    BY <1>6, <1>b DEF Run, ForwardTake, ForwardSend, ForwardStop, ForwardEnd
  <1>7. CASE HubTake \/ DeliverEnd \/ HubStop \/ Stop
    BY <1>7, <1>b DEF HubTake, DeliverEnd, HubStop, Stop
  <1>8. CASE UNCHANGED vars
    BY <1>8, <1>b DEF vars
  <1> QED
    BY <1>1, <1>2, <1>3, <1>4, <1>5, <1>6, <1>7, <1>8 DEF Next

(***************************************************************************)
(* The hub implements the stream: what a client has seen when it leaves,   *)
(* is cut off or the process stops is a beginning of the same stream, for  *)
(* any number of clients and any capacities of the channels.               *)
(***************************************************************************)
THEOREM HubImplementsStream == Spec => ImplementsStream
  <1>1. Init => Stream!Init
    BY DEF Init, Stream!Init, Stream!NotYet, startBar
  <1>2. TypeOK /\ HubInv /\ OrderInv /\ StreamInv /\ [Next]_vars => [Stream!Next]_(Stream!vars)
    BY StepStreams
  <1> QED
    BY <1>1, <1>2, StreamAlways, PTL DEF Spec, ImplementsStream, Stream!Spec
=============================================================================
