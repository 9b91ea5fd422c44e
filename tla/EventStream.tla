----------------------------- MODULE EventStream -----------------------------
(***************************************************************************)
(* What a WebSocket client is promised: a stream of the changes of the     *)
(* cluster state that begins where it joined.  A change is carried to      *)
(* everybody or lost for everybody, and that is settled when it happens; a *)
(* client sees the changes in their order and skips none that is not lost. *)
(* It may be cut off at any point, and then has seen a beginning of the    *)
(* stream.  There are no channels, goroutines or hub in this.  WSHub       *)
(* implements this specification.                                          *)
(*                                                                         *)
(* Changes are numbered up to MaxEvent, which all later ones share.        *)
(***************************************************************************)
EXTENDS Integers

CONSTANTS Client, MaxEvent

VARIABLES
  now,     \* the last change
  lost,    \* the changes that nobody will see
  start,   \* start[c]: the stream of c begins after this change
  seen     \* seen[c]: the changes c has seen

vars == <<now, lost, start, seen>>

NotYet == -1    \* the client has not joined

Init ==
  /\ now = 0 /\ lost = {}
  /\ start = [c \in Client |-> NotYet]
  /\ seen = [c \in Client |-> {}]

Change ==
  /\ now' = IF now < MaxEvent THEN now + 1 ELSE MaxEvent
  /\ lost' \in {lost, lost \cup {now'}}
  /\ UNCHANGED <<start, seen>>

\* the stream may begin with changes from before the client joined
Join(c) ==
  /\ start[c] = NotYet
  /\ \E e \in 0..now : start' = [start EXCEPT ![c] = e]
  /\ UNCHANGED <<now, lost, seen>>

\* c sees a change: it has seen all there are between it and its start
See(c) ==
  /\ start[c] # NotYet
  /\ \E e \in 1..now :
       /\ e = MaxEvent \/ (start[c] < e /\ e \notin lost /\ \A f \in seen[c] : f < e)
       /\ (start[c] + 1)..(e - 1) \subseteq lost \cup seen[c]
       /\ seen' = [seen EXCEPT ![c] = @ \cup {e}]
  /\ UNCHANGED <<now, lost, start>>

Next ==
  \/ Change
  \/ \E c \in Client : Join(c)
  \/ \E c \in Client : See(c)

Spec == Init /\ [][Next]_vars
=============================================================================
