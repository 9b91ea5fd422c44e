-------------------------------- MODULE WSHub --------------------------------
(***************************************************************************)
(* The path of a node change event from StateManager.broadcast             *)
(* (pkg/state/state.go) to the WebSocket clients: the subscriber channel   *)
(* of the hub, the goroutine that forwards it, the hub's loop and the read *)
(* and write pumps of each client (pkg/api/websocket.go), with             *)
(* handleWebSocket and Stop of pkg/api/api.go.                             *)
(*                                                                         *)
(* Events are numbered in the order the cluster state changed.  To keep    *)
(* the model finite while changes never end, every change after the last   *)
(* number gets that number again.  A client of the model connects once.    *)
(***************************************************************************)
EXTENDS Integers, Sequences, FiniteSets

CONSTANTS
  Client,
  SubBuf,       \* capacity of a subscriber channel (64)
  HubBuf,       \* capacity of hub.broadcast (256)
  SendBuf,      \* capacity of client.send (256)
  MaxEvent      \* bound: events told apart

ASSUME BufferAssumption ==
  /\ SubBuf \in Nat \ {0} /\ HubBuf \in Nat \ {0} /\ SendBuf \in Nat \ {0}
  /\ MaxEvent \in Nat \ {0}

None == 0       \* no event

VARIABLES
  seq,          \* the last event of the state manager
  subscribed,   \* the hub's channel is in sm.subscribers (and not closed)
  sub,          \* the hub's subscriber channel
  fwd, held,    \* the forwarding goroutine and the event it holds
  bcast,        \* hub.broadcast
  stop,         \* hub.stopCh is closed
  hub,          \* where Run is
  msg, todo, stale,  \* the message Run hands out, to whom, and who was too slow
  clients,      \* hub.clients
  send, closed, \* each client's send channel
  conn, reader, writer,  \* each client's connection and pumps
  dropped,      \* history: events a full subscriber channel dropped
  taken,        \* history: the last event Run took from hub.broadcast
  since,        \* history: taken when the client was registered
  got           \* history: the events written to the client

vars == <<seq, subscribed, sub, fwd, held, bcast, stop, hub, msg, todo, stale, clients,
          send, closed, conn, reader, writer, dropped, taken, since, got>>

fwdVars    == <<fwd, held>>
hubVars    == <<hub, msg, todo, stale, clients, taken>>
clientVars == <<send, closed, conn, reader, writer, since, got>>

Init ==
  /\ seq = 0 /\ subscribed = FALSE /\ sub = <<>>
  /\ fwd = "new" /\ held = None /\ bcast = <<>> /\ stop = FALSE
  /\ hub = "new" /\ msg = None /\ todo = {} /\ stale = {} /\ clients = {}
  /\ send = [c \in Client |-> <<>>] /\ closed = [c \in Client |-> FALSE]
  /\ conn = [c \in Client |-> "none"]
  /\ reader = [c \in Client |-> "none"] /\ writer = [c \in Client |-> "none"]
  /\ dropped = {} /\ taken = None
  /\ since = [c \in Client |-> None] /\ got = [c \in Client |-> {}]

-----------------------------------------------------------------------------
(***************************************************************************)
(* The state manager.                                                      *)
(***************************************************************************)

\* A change of the cluster state broadcasts its event under sm.mu; sendEvent
\* drops it when the channel is full.
Broadcast ==
  LET e == IF seq < MaxEvent THEN seq + 1 ELSE MaxEvent
  IN  /\ seq' = e
      /\ IF subscribed /\ Len(sub) < SubBuf
         THEN sub' = Append(sub, e) /\ UNCHANGED dropped
         ELSE dropped' = dropped \cup {e} /\ UNCHANGED sub
      /\ UNCHANGED <<subscribed, fwdVars, bcast, stop, hubVars, clientVars>>

-----------------------------------------------------------------------------
(***************************************************************************)
(* wsHub.Run and its forwarding goroutine.                                 *)
(***************************************************************************)
Run ==
  /\ hub = "new"
  /\ hub' = "select"
  /\ subscribed' = TRUE
  /\ fwd' = "running"
  /\ UNCHANGED <<seq, sub, held, bcast, stop, msg, todo, stale, clients, taken,
                 clientVars, dropped>>

\* Mutant: the newest event is taken first.
ForwardTake_Newest ==
  /\ fwd = "running" /\ held = None
  /\ sub # <<>>
  /\ held' = sub[Len(sub)]
  /\ sub' = SubSeq(sub, 1, Len(sub) - 1)
  /\ UNCHANGED <<seq, subscribed, fwd, bcast, stop, hubVars, clientVars, dropped>>

\* range takes the next event.  The branch that skips one json.Marshal refuses
\* is left out: it refuses infinities and NaN, which no state of GogGrid holds.
ForwardTake ==
  /\ fwd = "running" /\ held = None
  /\ sub # <<>>
  /\ held' = Head(sub)
  /\ sub' = Tail(sub)
  /\ UNCHANGED <<seq, subscribed, fwd, bcast, stop, hubVars, clientVars, dropped>>

ForwardSend ==
  /\ fwd = "running" /\ held # None
  /\ Len(bcast) < HubBuf
  /\ bcast' = Append(bcast, held)
  /\ held' = None
  /\ UNCHANGED <<seq, subscribed, sub, fwd, stop, hubVars, clientVars, dropped>>

\* Mutant: the forwarding select does not wait for stopCh.
ForwardStop_NoStopCase ==
  /\ FALSE
  /\ UNCHANGED vars

\* the select of the forwarding goroutine may prefer stopCh
ForwardStop ==
  /\ fwd = "running" /\ held # None
  /\ stop
  /\ fwd' = "ended"
  /\ held' = None
  /\ UNCHANGED <<seq, subscribed, sub, bcast, stop, hubVars, clientVars, dropped>>

\* range over a channel that Unsubscribe has closed and that is drained
ForwardEnd ==
  /\ fwd = "running" /\ held = None
  /\ sub = <<>> /\ ~subscribed
  /\ fwd' = "ended"
  /\ UNCHANGED <<seq, subscribed, sub, held, bcast, stop, hubVars, clientVars, dropped>>

HubTake ==
  /\ hub = "select"
  /\ bcast # <<>>
  /\ hub' = "deliver"
  /\ msg' = Head(bcast)
  /\ taken' = Head(bcast)
  /\ bcast' = Tail(bcast)
  /\ todo' = clients
  /\ stale' = {}
  /\ UNCHANGED <<seq, subscribed, sub, fwdVars, stop, clients, clientVars, dropped>>

\* Mutant: a client that is too slow only misses the message.
Deliver_DropOnly(c) ==
  /\ hub = "deliver"
  /\ c \in todo
  /\ todo' = todo \ {c}
  /\ send' = [send EXCEPT ![c] = IF Len(@) < SendBuf THEN Append(@, msg) ELSE @]
  /\ UNCHANGED <<seq, subscribed, sub, fwdVars, bcast, stop, hub, msg, stale, clients,
                 taken, closed, conn, reader, writer, since, got, dropped>>

\* Mutant: a message for a client that is too slow replaces the oldest one.
Deliver_DropOldest(c) ==
  /\ hub = "deliver"
  /\ c \in todo
  /\ todo' = todo \ {c}
  /\ send' = [send EXCEPT ![c] = Append(IF Len(@) < SendBuf THEN @ ELSE Tail(@), msg)]
  /\ UNCHANGED <<seq, subscribed, sub, fwdVars, bcast, stop, hub, msg, stale, clients,
                 taken, closed, conn, reader, writer, since, got, dropped>>

\* Mutant: the hub waits for a client that is too slow.
Deliver_Blocking(c) ==
  /\ hub = "deliver"
  /\ c \in todo
  /\ Len(send[c]) < SendBuf
  /\ todo' = todo \ {c}
  /\ send' = [send EXCEPT ![c] = Append(@, msg)]
  /\ UNCHANGED <<seq, subscribed, sub, fwdVars, bcast, stop, hub, msg, stale, clients,
                 taken, closed, conn, reader, writer, since, got, dropped>>

\* Mutant: one message too many is put into the channel.
Deliver_OffByOne(c) ==
  /\ hub = "deliver"
  /\ c \in todo
  /\ todo' = todo \ {c}
  /\ IF Len(send[c]) <= SendBuf
     THEN send' = [send EXCEPT ![c] = Append(@, msg)] /\ UNCHANGED <<closed, stale>>
     ELSE closed' = [closed EXCEPT ![c] = TRUE] /\ stale' = stale \cup {c} /\ UNCHANGED send
  /\ UNCHANGED <<seq, subscribed, sub, fwdVars, bcast, stop, hub, msg, clients, taken,
                 conn, reader, writer, since, got, dropped>>

Deliver(c) ==
  /\ hub = "deliver"
  /\ c \in todo
  /\ todo' = todo \ {c}
  /\ IF Len(send[c]) < SendBuf
     THEN send' = [send EXCEPT ![c] = Append(@, msg)] /\ UNCHANGED <<closed, stale>>
     ELSE closed' = [closed EXCEPT ![c] = TRUE] /\ stale' = stale \cup {c} /\ UNCHANGED send
  /\ UNCHANGED <<seq, subscribed, sub, fwdVars, bcast, stop, hub, msg, clients, taken,
                 conn, reader, writer, since, got, dropped>>

\* Mutant: the clients whose channel was closed stay registered.
DeliverEnd_KeepStale ==
  /\ hub = "deliver"
  /\ todo = {}
  /\ hub' = "select"
  /\ msg' = None /\ stale' = {}
  /\ UNCHANGED <<seq, subscribed, sub, fwdVars, bcast, stop, todo, clients, taken,
                 clientVars, dropped>>

DeliverEnd ==
  /\ hub = "deliver"
  /\ todo = {}
  /\ hub' = "select"
  /\ clients' = clients \ stale
  /\ msg' = None /\ stale' = {}
  /\ UNCHANGED <<seq, subscribed, sub, fwdVars, bcast, stop, todo, taken, clientVars, dropped>>

\* Run returns; the deferred Unsubscribe removes and closes the channel
HubStop ==
  /\ hub = "select"
  /\ stop
  /\ hub' = "returned"
  /\ subscribed' = FALSE
  /\ UNCHANGED <<seq, sub, fwdVars, bcast, stop, msg, todo, stale, clients, taken,
                 clientVars, dropped>>

Stop ==
  /\ ~stop
  /\ stop' = TRUE
  /\ UNCHANGED <<seq, subscribed, sub, fwdVars, bcast, hubVars, clientVars, dropped>>

-----------------------------------------------------------------------------
(***************************************************************************)
(* A client.                                                               *)
(***************************************************************************)

\* handleWebSocket has upgraded the connection and waits to register it
Upgrade(c) ==
  /\ conn[c] = "none"
  /\ conn' = [conn EXCEPT ![c] = "upgraded"]
  /\ UNCHANGED <<seq, subscribed, sub, fwdVars, bcast, stop, hubVars, send, closed,
                 reader, writer, since, got, dropped>>

\* register is unbuffered: the hub takes the client out of its select
Register(c) ==
  /\ conn[c] = "upgraded"
  /\ hub = "select"
  /\ clients' = clients \cup {c}
  /\ conn' = [conn EXCEPT ![c] = "open"]
  /\ reader' = [reader EXCEPT ![c] = "reading"]
  /\ writer' = [writer EXCEPT ![c] = "writing"]
  /\ since' = [since EXCEPT ![c] = taken]
  /\ UNCHANGED <<seq, subscribed, sub, fwdVars, bcast, stop, hub, msg, todo, stale, taken,
                 send, closed, got, dropped>>

\* The client goes away, sends too much, or no pong comes within the read
\* deadline: reads fail from now on, writes may still succeed.
Disconnect(c) ==
  /\ conn[c] = "open"
  /\ conn' = [conn EXCEPT ![c] = "broken"]
  /\ UNCHANGED <<seq, subscribed, sub, fwdVars, bcast, stop, hubVars, send, closed,
                 reader, writer, since, got, dropped>>

\* ReadMessage fails and the hub is in its select: the client is removed, and
\* the writer is left to drain the channel
Unregister(c) ==
  /\ reader[c] = "reading" /\ conn[c] \in {"broken", "closed"}
  /\ hub = "select"
  /\ reader' = [reader EXCEPT ![c] = "ended"]
  /\ clients' = clients \ {c}
  /\ closed' = [closed EXCEPT ![c] = closed[c] \/ c \in clients]
  /\ UNCHANGED <<seq, subscribed, sub, fwdVars, bcast, stop, hub, msg, todo, stale, taken,
                 send, conn, writer, since, got, dropped>>

\* ... or the hub is not waiting at that moment: the connection is closed,
\* and the client stays registered
GiveUpUnregister(c) ==
  /\ reader[c] = "reading" /\ conn[c] \in {"broken", "closed"}
  /\ reader' = [reader EXCEPT ![c] = "ended"]
  /\ conn' = [conn EXCEPT ![c] = "closed"]
  /\ UNCHANGED <<seq, subscribed, sub, fwdVars, bcast, stop, hubVars, send, closed,
                 writer, since, got, dropped>>

WriteMessage(c) ==
  /\ writer[c] = "writing" /\ conn[c] \in {"open", "broken"}
  /\ send[c] # <<>>
  /\ send' = [send EXCEPT ![c] = Tail(@)]
  /\ got' = [got EXCEPT ![c] = @ \cup {Head(send[c])}]
  /\ UNCHANGED <<seq, subscribed, sub, fwdVars, bcast, stop, hubVars, closed, conn, reader,
                 writer, since, dropped>>

\* a write of a message or of a ping fails, on a closed or broken connection or
\* after the write deadline; or the hub has closed the channel
WriterEnd(c) ==
  /\ writer[c] = "writing"
  /\ writer' = [writer EXCEPT ![c] = "ended"]
  /\ conn' = [conn EXCEPT ![c] = "closed"]
  /\ UNCHANGED <<seq, subscribed, sub, fwdVars, bcast, stop, hubVars, send, closed, reader,
                 since, got, dropped>>

-----------------------------------------------------------------------------
Next ==
  \/ Broadcast
  \/ Run \/ ForwardTake \/ ForwardSend \/ ForwardStop \/ ForwardEnd
  \/ HubTake \/ DeliverEnd \/ HubStop \/ Stop
  \/ \E c \in Client : Deliver(c)
  \/ \E c \in Client : Upgrade(c)
  \/ \E c \in Client : Register(c)
  \/ \E c \in Client : Disconnect(c)
  \/ \E c \in Client : Unregister(c)
  \/ \E c \in Client : GiveUpUnregister(c)
  \/ \E c \in Client : WriteMessage(c)
  \/ \E c \in Client : WriterEnd(c)

Spec == Init /\ [][Next]_vars

(***************************************************************************)
(* Fairness.  The monitor loop keeps changing the cluster state while the  *)
(* process runs, goroutines that can run do, and Go's select picks among   *)
(* the ready cases at random, so the hub's stop case is not passed over    *)
(* for ever.  A client need not read, and a write to a connection that is  *)
(* closed fails.                                                           *)
(***************************************************************************)
Fairness ==
  /\ WF_vars(Broadcast)
  /\ WF_vars(ForwardTake \/ ForwardSend \/ ForwardStop \/ ForwardEnd)
  /\ WF_vars(HubTake \/ DeliverEnd \/ \E c \in Client : Deliver(c))
  /\ SF_vars(HubStop)
  /\ \A c \in Client : WF_vars(conn[c] = "closed" /\ WriterEnd(c))

FairSpec == Spec /\ Fairness

-----------------------------------------------------------------------------
(***************************************************************************)
(* Properties.                                                             *)
(***************************************************************************)
Event == 1..MaxEvent

TypeOK ==
  /\ seq \in 0..MaxEvent /\ subscribed \in BOOLEAN
  /\ sub \in Seq(Event) /\ Len(sub) <= SubBuf
  /\ fwd \in {"new", "running", "ended"} /\ held \in 0..MaxEvent
  /\ bcast \in Seq(Event) /\ Len(bcast) <= HubBuf
  /\ stop \in BOOLEAN
  /\ hub \in {"new", "select", "deliver", "returned"}
  /\ msg \in 0..MaxEvent /\ taken \in 0..MaxEvent
  /\ todo \subseteq Client /\ stale \subseteq Client /\ clients \subseteq Client
  /\ send \in [Client -> Seq(Event)] /\ \A c \in Client : Len(send[c]) <= SendBuf
  /\ closed \in [Client -> BOOLEAN]
  /\ conn \in [Client -> {"none", "upgraded", "open", "broken", "closed"}]
  /\ reader \in [Client -> {"none", "reading", "ended"}]
  /\ writer \in [Client -> {"none", "writing", "ended"}]
  /\ dropped \subseteq Event
  /\ since \in [Client -> 0..MaxEvent] /\ got \in [Client -> SUBSET Event]

(***************************************************************************)
(* The hub never sends on a closed channel and never closes one twice,     *)
(* either of which would panic in a goroutine nobody recovers: between     *)
(* messages every registered client's channel is open, and while one is    *)
(* handed out only the stale clients' are closed.                          *)
(***************************************************************************)
RegisteredIsOpen ==
  /\ \A c \in clients : closed[c] => hub = "deliver" /\ c \in stale
  /\ \A c \in todo : ~closed[c]

Before(e, f) == e < f \/ (e = f /\ e = MaxEvent)

\* what is on its way to c, the next first
Upcoming(c) ==
  send[c] \o (IF c \in todo THEN <<msg>> ELSE <<>>) \o bcast
    \o (IF held # None THEN <<held>> ELSE <<>>) \o sub

(***************************************************************************)
(* A client gets the events in the order the cluster state changed, each   *)
(* once, through three buffers and two goroutines.                         *)
(***************************************************************************)
InOrder ==
  \A c \in clients :
     LET u == Upcoming(c)
     IN  /\ \A i, j \in DOMAIN u : i < j => Before(u[i], u[j])
         /\ \A e \in got[c] : \A i \in DOMAIN u : Before(e, u[i])

(***************************************************************************)
(* A registered client whose writer runs has missed no event that the hub  *)
(* took since it was registered: a slow client is disconnected, it never   *)
(* silently skips.  Events get lost only in front of the hub, when the     *)
(* subscriber channel is full (or json.Marshal refuses the event, which    *)
(* does not happen with GogGrid's states, see ForwardTake).                *)
(***************************************************************************)
NoGap ==
  \A c \in clients \ stale :
     writer[c] = "writing" =>
        \A e \in (since[c] + 1)..taken :
           \/ e = MaxEvent
           \/ e \in dropped \cup got[c]
           \/ \E i \in DOMAIN send[c] : send[c][i] = e
           \/ e = msg /\ c \in todo

startBar ==
  [c \in Client |-> IF conn[c] \in {"none", "upgraded"} THEN -1 ELSE since[c]]

Stream == INSTANCE EventStream WITH
  now <- seq, lost <- dropped, start <- startBar, seen <- got

(***************************************************************************)
(* Whatever is buffered, dropped, stopped or cut off on the way, what a    *)
(* client sees is a beginning of one stream that is the same for everybody *)
(* (sendEvent, wsHub.Run, writePump): a client that was too slow has seen  *)
(* all up to the message at which it was disconnected.                     *)
(***************************************************************************)
ImplementsStream == Stream!Spec

(***************************************************************************)
(* A client whose reader has ended does not stay registered for ever, even *)
(* if readPump found the hub busy and gave up: its send channel fills up   *)
(* and the hub removes it.                                                 *)
(***************************************************************************)
DeadClientRemoved ==
  \A c \in Client : reader[c] = "ended" ~> (c \notin clients \/ stop)

(***************************************************************************)
(* Once the hub is stopped the forwarding goroutine ends, even if          *)
(* hub.broadcast is full and nobody takes from it any more.                *)
(***************************************************************************)
ForwarderEnds == (stop /\ fwd = "running") ~> fwd = "ended"
=============================================================================
