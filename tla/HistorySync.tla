----------------------------- MODULE HistorySync -----------------------------
(***************************************************************************)
(* The history backfill of a process that joins a cluster:                 *)
(* SyncHistoryOnJoin, its goroutines and its timeout, the pull requests    *)
(* and responses of pkg/gossip/gossip.go, and the history_records tables   *)
(* of the two processes (pkg/storage/storage.go).                          *)
(*                                                                         *)
(* A record is known by its unique key (node_id, timestamp, event_type).   *)
(* Keys are numbered in timestamp order; a table maps every key to the     *)
(* primary key ID of its row, or to 0.  Each statement on a table is one   *)
(* step (one connection), and so is each critical section of syncMu.  The  *)
(* inserted-rows total is only logged and left out.                        *)
(***************************************************************************)
EXTENDS Integers, FiniteSets, Sequences

CONSTANTS
  MaxKey,       \* bound: the records that can exist
  MaxCut,       \* bound: the records that can expire during the sync
  Limit,        \* page size (500)
  MaxPages      \* 100

ASSUME SyncAssumption ==
  MaxKey \in Nat /\ MaxCut \in Nat /\ Limit \in Nat \ {0} /\ MaxPages \in Nat \ {0}

Key == 1..MaxKey

VARIABLES
  peer, peerSeq,      \* the peer's table and the last ID it gave out
  local, localSeq,    \* the joining process's table
  caller, result,     \* where SyncHistoryOnJoin is, and what it returned
  cancelled,          \* ctx.Done is closed
  pending,            \* the request is in pendingSyncs
  offset,             \* ps.offset
  sent,               \* the errors sent on ps.done
  starter,            \* the goroutine that sends the first request has not begun
  ready,              \* goroutines about to run sendHistoryPullRequest
  spawned,            \* how many such goroutines there have been
  failing, closing,   \* calls of failPendingSync: before the lock, after the delete
  requests, responses,\* messages in flight
  handler, page,      \* handleHistoryPullResponse: where it is, and its payload
  syncTime,           \* historySyncTime of the state manager
  base,               \* history: the peer's records when the sync began
  collided,           \* history: records dropped because their ID was taken
  cut                 \* history: the latest cutoff of a CleanOldRecords

vars == <<peer, peerSeq, local, localSeq, caller, result, cancelled, pending, offset,
          sent, starter, ready, spawned, failing, closing, requests, responses,
          handler, page, syncTime, base, collided, cut>>

tables     == <<peer, peerSeq, local, localSeq, collided, cut>>
callerVars == <<caller, result, cancelled, base>>
senderVars == <<starter, ready, spawned, requests>>
failVars   == <<failing, closing, sent>>
handleVars == <<responses, handler, page, syncTime, offset>>

-----------------------------------------------------------------------------
(***************************************************************************)
(* Tables.                                                                 *)
(***************************************************************************)
Rows(t) == {k \in Key : t[k] # 0}

Rank(t, k) == Cardinality({j \in Rows(t) : j < k})

\* a table whose records K were inserted in timestamp order
Filled(K) == [k \in Key |-> IF k \in K THEN Cardinality({j \in K : j <= k}) ELSE 0]

\* GetAllHistorySince: ORDER BY timestamp OFFSET off LIMIT Limit.  Of rows with
\* one timestamp the query may return any first; here they have an order, the
\* same in every query.
PageKeys(t, since, off) ==
  LET from == [k \in Key |-> IF k >= since THEN t[k] ELSE 0]
  IN  {k \in Rows(from) : off <= Rank(from, k) /\ Rank(from, k) < off + Limit}

IDTaken(t, id) == \E k \in Key : t[k] = id

\* GetLatestHistoryTime: 0 for an empty table
Latest(t) ==
  IF Rows(t) = {} THEN 0 ELSE CHOOSE k \in Rows(t) : \A j \in Rows(t) : j <= k

Larger(x, y) == IF x >= y THEN x ELSE y

-----------------------------------------------------------------------------
NoPage == [rows |-> {}, more |-> FALSE, next |-> 0]

Init ==
  /\ \E K \in SUBSET Key : peer = Filled(K) /\ peerSeq = Cardinality(K)
  /\ \E K \in SUBSET Key : local = Filled(K) /\ localSeq = Cardinality(K)
  /\ caller = "idle" /\ result = "none" /\ cancelled = FALSE
  /\ pending = FALSE /\ offset = 0 /\ sent = <<>>
  /\ starter = FALSE /\ ready = {} /\ spawned = 0
  /\ failing = {} /\ closing = {}
  /\ requests = {} /\ responses = {}
  /\ handler = "idle" /\ page = NoPage
  /\ syncTime = 0 /\ base = {} /\ collided = {} /\ cut = 0

-----------------------------------------------------------------------------
(***************************************************************************)
(* SyncHistoryOnJoin.                                                      *)
(***************************************************************************)
Start ==
  /\ caller = "idle"
  /\ caller' = "waiting"
  /\ pending' = TRUE
  /\ starter' = TRUE
  /\ base' = Rows(peer)
  /\ UNCHANGED <<tables, result, cancelled, ready, spawned, requests, failVars, handleVars>>

\* no other member is listed
StartAlone ==
  /\ caller = "idle"
  /\ caller' = "returned"
  /\ result' = "alone"
  /\ UNCHANGED <<tables, cancelled, base, pending, senderVars, failVars, handleVars>>

ReturnDone ==
  /\ caller = "waiting"
  /\ sent # <<>>
  /\ caller' = "returned"
  /\ result' = Head(sent)
  /\ UNCHANGED <<tables, cancelled, base, pending, senderVars, failVars, handleVars>>

ReturnCancelled ==
  /\ caller = "waiting"
  /\ cancelled
  /\ caller' = "returned"
  /\ result' = "cancelled"
  /\ pending' = FALSE
  /\ UNCHANGED <<tables, cancelled, base, senderVars, failVars, handleVars>>

\* Mutant: the timer's case returns without removing the request.
ReturnTimeout_KeepsPending ==
  /\ caller = "waiting"
  /\ caller' = "returned"
  /\ result' = "timeout"
  /\ UNCHANGED <<tables, cancelled, base, pending, senderVars, failVars, handleVars>>

\* Mutant: the select has no timer.
ReturnTimeout_NoTimer ==
  /\ FALSE
  /\ UNCHANGED vars

ReturnTimeout ==
  /\ caller = "waiting"
  /\ caller' = "returned"
  /\ result' = "timeout"
  /\ pending' = FALSE
  /\ UNCHANGED <<tables, cancelled, base, senderVars, failVars, handleVars>>

\* main cancels the context when it shuts down
Cancel ==
  /\ ~cancelled
  /\ cancelled' = TRUE
  /\ UNCHANGED <<tables, caller, result, base, pending, senderVars, failVars, handleVars>>

-----------------------------------------------------------------------------
(***************************************************************************)
(* The goroutines that send requests.                                      *)
(***************************************************************************)

\* the select of the goroutine that SyncHistoryOnJoin starts
Starter ==
  /\ starter
  /\ starter' = FALSE
  /\ IF cancelled
     THEN /\ failing' = failing \cup {[who |-> "starter", id |-> 0, err |-> "cancelled"]}
          /\ UNCHANGED <<ready, spawned>>
     ELSE /\ ready' = ready \cup {spawned}
          /\ spawned' = spawned + 1
          /\ UNCHANGED failing
  /\ UNCHANGED <<tables, callerVars, pending, requests, closing, sent, handleVars>>

\* Mutant: a request whose send reported an error is sent again.
SendHistoryPullRequest_Retry(g) ==
  /\ g \in ready
  /\ \E m \in {{}, {[id |-> g, since |-> syncTime, offset |-> offset]}} :
        requests' = requests \cup m
  /\ ready' \in {ready, ready \ {g}}
  /\ UNCHANGED <<tables, callerVars, pending, starter, spawned, failVars, handleVars>>

\* SendReliable may report an error for a request that got through, and no
\* error for one that did not.
SendHistoryPullRequest(g) ==
  /\ g \in ready
  /\ ready' = ready \ {g}
  /\ \E m \in {{}, {[id |-> g, since |-> syncTime, offset |-> offset]}} :
        requests' = requests \cup m
  /\ \E f \in {{}, {[who |-> "sender", id |-> g, err |-> "send failed"]}} :
        failing' = failing \cup f
  /\ UNCHANGED <<tables, callerVars, pending, starter, spawned, closing, sent, handleVars>>

-----------------------------------------------------------------------------
(***************************************************************************)
(* failPendingSync, by whichever goroutine calls it.                       *)
(***************************************************************************)

\* Mutant: the lookup in pendingSyncs is dropped.
FailPendingSync_NoLookup(f) ==
  /\ f \in failing
  /\ failing' = failing \ {f}
  /\ pending' = FALSE
  /\ closing' = closing \cup {f}
  /\ UNCHANGED <<tables, callerVars, senderVars, sent, handleVars>>

FailPendingSync(f) ==
  /\ f \in failing
  /\ failing' = failing \ {f}
  /\ pending' = FALSE
  /\ closing' = IF pending THEN closing \cup {f} ELSE closing
  /\ UNCHANGED <<tables, callerVars, senderVars, sent, handleVars>>

\* done has room for one error and is closed after it
SendDone(f) ==
  /\ f \in closing
  /\ closing' = closing \ {f}
  /\ sent' = Append(sent, f.err)
  /\ UNCHANGED <<tables, callerVars, pending, senderVars, failing, handleVars>>

-----------------------------------------------------------------------------
(***************************************************************************)
(* The peer answers.                                                       *)
(***************************************************************************)

\* Mutant: a full page counts as the last one.
Response_FullIsLast(r) ==
  LET keys == PageKeys(peer, r.since, r.offset)
  IN  [id |-> r.id, rows |-> {[key |-> k, id |-> peer[k]] : k \in keys},
       more |-> Cardinality(keys) > Limit, next |-> r.offset + Cardinality(keys)]

\* Mutant: NextOffset and TotalCount are swapped.
Response_Swapped(r) ==
  LET keys == PageKeys(peer, r.since, r.offset)
  IN  [id |-> r.id, rows |-> {[key |-> k, id |-> peer[k]] : k \in keys},
       more |-> Cardinality(keys) = Limit, next |-> -1]

Response(r) ==
  LET keys == PageKeys(peer, r.since, r.offset)
  IN  [id |-> r.id, rows |-> {[key |-> k, id |-> peer[k]] : k \in keys},
       more |-> Cardinality(keys) = Limit, next |-> r.offset + Cardinality(keys)]

HandleHistoryPullRequest(r) ==
  /\ r \in requests
  /\ requests' = requests \ {r}
  /\ responses' = responses \cup {Response(r)}
  /\ UNCHANGED <<tables, callerVars, pending, starter, ready, spawned, failVars,
                 handler, page, syncTime, offset>>

\* the peer is gone, its query fails, it does not list the sender as a
\* member, or its answer does not get through: nobody tells the sender
LoseRequest(r) ==
  /\ r \in requests
  /\ requests' = requests \ {r}
  /\ UNCHANGED <<tables, callerVars, pending, starter, ready, spawned, failVars, handleVars>>

-----------------------------------------------------------------------------
(***************************************************************************)
(* handleHistoryPullResponse.                                              *)
(***************************************************************************)
\* the handler of the response to the last request calls failPendingSync
Fail(err) == failing' = failing \cup {[who |-> "handler", id |-> spawned, err |-> err]}

ReceiveResponse(m) ==
  /\ handler = "idle"
  /\ m \in responses
  /\ responses' = responses \ {m}
  /\ IF pending
     THEN handler' = "import" /\ page' = [rows |-> m.rows, more |-> m.more, next |-> m.next]
     ELSE UNCHANGED <<handler, page>>
  /\ UNCHANGED <<tables, callerVars, pending, senderVars, failVars, syncTime, offset>>

\* one Create of ImportHistoryRecords: the row keeps the ID it has at the
\* peer, and ON CONFLICT DO NOTHING covers that ID too
ImportRow ==
  /\ handler = "import"
  /\ \E r \in page.rows :
       /\ \A q \in page.rows : r.key <= q.key
       /\ page' = [page EXCEPT !.rows = @ \ {r}]
       /\ IF local[r.key] # 0 \/ IDTaken(local, r.id)
          THEN /\ collided' = IF local[r.key] # 0 THEN collided ELSE collided \cup {r.key}
               /\ UNCHANGED <<local, localSeq>>
          ELSE /\ local' = [local EXCEPT ![r.key] = r.id]
               /\ localSeq' = Larger(localSeq, r.id)
               /\ UNCHANGED collided
  /\ UNCHANGED <<peer, peerSeq, cut, callerVars, pending, senderVars, failVars,
                 responses, handler, syncTime, offset>>

\* the statement fails; the rows before it stay
ImportError ==
  /\ handler = "import"
  /\ page.rows # {}
  /\ handler' = "idle"
  /\ page' = NoPage
  /\ Fail("import failed")
  /\ UNCHANGED <<tables, callerVars, pending, senderVars, closing, sent,
                 responses, syncTime, offset>>

\* Mutant: the page of a sync that has timed out counts as its last.
ImportEnd_Abandoned ==
  /\ handler = "import"
  /\ page.rows = {}
  /\ handler' = IF page.more /\ pending THEN "more" ELSE "latest"
  /\ offset' = IF page.more /\ pending THEN page.next ELSE offset
  /\ UNCHANGED <<tables, callerVars, pending, senderVars, failVars, responses, page, syncTime>>

ImportEnd ==
  /\ handler = "import"
  /\ page.rows = {}
  /\ IF page.more
     THEN offset' = page.next /\ handler' = "more"
     ELSE handler' = "latest" /\ UNCHANGED offset
  /\ UNCHANGED <<tables, callerVars, pending, senderVars, failVars, responses, page, syncTime>>

NextPage ==
  /\ handler = "more"
  /\ handler' = "idle"
  /\ page' = NoPage
  /\ IF offset \div Limit >= MaxPages
     THEN Fail("exceeded max pages") /\ UNCHANGED <<ready, spawned>>
     ELSE /\ ready' = IF pending THEN ready \cup {spawned} ELSE ready
          /\ spawned' = IF pending THEN spawned + 1 ELSE spawned
          /\ UNCHANGED failing
  /\ UNCHANGED <<tables, callerVars, pending, starter, requests, closing, sent,
                 responses, syncTime, offset>>

\* GetLatestHistoryTime, which may fail; page.next carries its result on
ReadLatest ==
  /\ handler = "latest"
  /\ handler' = "finish"
  /\ \E t \in {0, Latest(local)} : page' = [NoPage EXCEPT !.next = t]
  /\ UNCHANGED <<tables, callerVars, pending, senderVars, failVars, responses, syncTime, offset>>

\* SetHistorySyncTime, then failPendingSync(ps, nil)
Finish ==
  /\ handler = "finish"
  /\ handler' = "idle"
  /\ syncTime' = IF page.next # 0 THEN page.next ELSE syncTime
  /\ page' = NoPage
  /\ Fail("ok")
  /\ UNCHANGED <<tables, callerVars, pending, senderVars, closing, sent, responses, offset>>

-----------------------------------------------------------------------------
(***************************************************************************)
(* Meanwhile both processes record events of their own (recordEvent,       *)
(* collectAndPublish) and clean up old ones.                               *)
(***************************************************************************)
SaveLocal(k) ==
  /\ local[k] = 0 /\ k >= cut
  /\ local' = [local EXCEPT ![k] = localSeq + 1]
  /\ localSeq' = localSeq + 1
  /\ UNCHANGED <<peer, peerSeq, collided, cut>>
  /\ UNCHANGED <<callerVars, pending, senderVars, failVars, handleVars>>

SavePeer(k) ==
  /\ peer[k] = 0 /\ k >= cut
  /\ peer' = [peer EXCEPT ![k] = peerSeq + 1]
  /\ peerSeq' = peerSeq + 1
  /\ UNCHANGED <<local, localSeq, collided, cut>>
  /\ UNCHANGED <<callerVars, pending, senderVars, failVars, handleVars>>

\* CleanOldRecords
Cleaned(t, c) == [k \in Key |-> IF k < c THEN 0 ELSE t[k]]

CleanPeer(c) ==
  /\ cut <= c /\ c <= MaxCut + 1
  /\ Cleaned(peer, c) # peer
  /\ cut' = c
  /\ peer' = Cleaned(peer, c)
  /\ UNCHANGED <<peerSeq, local, localSeq, collided>>
  /\ UNCHANGED <<callerVars, pending, senderVars, failVars, handleVars>>

CleanLocal(c) ==
  /\ cut <= c /\ c <= MaxCut + 1
  /\ Cleaned(local, c) # local
  /\ cut' = c
  /\ local' = Cleaned(local, c)
  /\ UNCHANGED <<peer, peerSeq, localSeq, collided>>
  /\ UNCHANGED <<callerVars, pending, senderVars, failVars, handleVars>>

-----------------------------------------------------------------------------
Next ==
  \/ Start \/ StartAlone \/ ReturnDone \/ ReturnCancelled \/ ReturnTimeout
  \/ Cancel
  \/ Starter
  \/ \E g \in ready : SendHistoryPullRequest(g)
  \/ \E f \in failing : FailPendingSync(f)
  \/ \E f \in closing : SendDone(f)
  \/ \E r \in requests : HandleHistoryPullRequest(r)
  \/ \E r \in requests : LoseRequest(r)
  \/ \E m \in responses : ReceiveResponse(m)
  \/ ImportRow \/ ImportError \/ ImportEnd \/ NextPage \/ ReadLatest \/ Finish
  \/ \E k \in Key : SaveLocal(k)
  \/ \E k \in Key : SavePeer(k)
  \/ \E k \in Key : CleanPeer(k)
  \/ \E k \in Key : CleanLocal(k)

Spec == Init /\ [][Next]_vars

(***************************************************************************)
(* Fairness: goroutines run, statements end and the timer fires.  Nothing  *)
(* is assumed of the peer or of the network.                               *)
(***************************************************************************)
Fairness ==
  /\ WF_vars(ReturnDone \/ ReturnTimeout)
  /\ WF_vars(Starter)
  /\ WF_vars(\E g \in ready : SendHistoryPullRequest(g))
  /\ WF_vars(\E f \in failing : FailPendingSync(f))
  /\ WF_vars(\E f \in closing : SendDone(f))
  /\ WF_vars(\E m \in responses : ReceiveResponse(m))
  /\ WF_vars(ImportRow \/ ImportError \/ ImportEnd \/ NextPage \/ ReadLatest \/ Finish)

FairSpec == Spec /\ Fairness

-----------------------------------------------------------------------------
(***************************************************************************)
(* Properties.                                                             *)
(***************************************************************************)
Outcome == {"ok", "alone", "cancelled", "timeout", "send failed", "import failed",
            "exceeded max pages"}

Call == [who : {"starter", "sender", "handler"}, id : Nat, err : Outcome]

RowSet == SUBSET [key : Key, id : Nat]

TypeOK ==
  /\ peer \in [Key -> Nat] /\ peerSeq \in Nat
  /\ local \in [Key -> Nat] /\ localSeq \in Nat
  /\ caller \in {"idle", "waiting", "returned"}
  /\ result \in Outcome \cup {"none"}
  /\ cancelled \in BOOLEAN /\ pending \in BOOLEAN /\ starter \in BOOLEAN
  /\ offset \in Nat
  /\ sent \in Seq(Outcome)
  /\ ready \subseteq Nat /\ spawned \in Nat
  /\ failing \subseteq Call /\ closing \subseteq Call
  /\ requests \subseteq [id : Nat, since : Nat, offset : Nat]
  /\ \A m \in responses :
       /\ DOMAIN m = {"id", "rows", "more", "next"}
       /\ m.id \in Nat /\ m.rows \in RowSet /\ m.more \in BOOLEAN /\ m.next \in Nat
  /\ handler \in {"idle", "import", "more", "latest", "finish"}
  /\ DOMAIN page = {"rows", "more", "next"}
  /\ page.rows \in RowSet /\ page.more \in BOOLEAN /\ page.next \in Nat
  /\ syncTime \in Nat /\ base \subseteq Key /\ collided \subseteq Key /\ cut \in Nat

\* the goroutines and messages that carry the sync forward
Tokens ==
  Cardinality(ready) + Cardinality(requests) + Cardinality(responses)
    + (IF starter THEN 1 ELSE 0) + (IF handler # "idle" THEN 1 ELSE 0)

(***************************************************************************)
(* One goroutine or message carries the sync forward at any time, also     *)
(* when SendReliable reports an error for a request that was delivered.    *)
(* This is what makes the reads of ps.offset and ps.total outside syncMu   *)
(* (gossip.go:413, 430) race-free, and one handler enough in this model.   *)
(***************************************************************************)
SingleFlight == Tokens <= 1

(***************************************************************************)
(* At most one error is ever sent on done: failPendingSync closes it after *)
(* the send, so a second send would panic.  As long as the request is      *)
(* pending none has been.                                                  *)
(***************************************************************************)
DoneOnce ==
  Len(sent) + Cardinality(closing) + (IF pending THEN 1 ELSE 0) <= 1

(***************************************************************************)
(* A call that has returned leaves nothing behind in pendingSyncs, on any  *)
(* of its paths.                                                           *)
(***************************************************************************)
NotPendingAfterReturn == caller = "returned" => ~pending

(***************************************************************************)
(* A sync that returns nil has brought over every record the peer had when *)
(* it began, whatever both sides recorded meanwhile, if none expired; all  *)
(* but those that ImportHistoryRecords dropped because their ID was taken  *)
(* (collided), see ImportSkipsDuplicates.                                  *)
(***************************************************************************)
Complete ==
  result = "ok" /\ cut = 0 => base \subseteq Rows(local) \cup collided

(***************************************************************************)
(* The sync time, from which the next request would ask for records, is    *)
(* not set before the last page is imported: the records the peer had when *)
(* the sync began are here, unless one expired, and all but those dropped  *)
(* because their ID was taken (collided).  That holds as well when a       *)
(* handler sets it after the timer has fired or the context was cancelled  *)
(* (gossip.go:425).  Such a sync was reported as failed: the time is one   *)
(* of a complete import, not only of a successful sync as state.go:83 says.*)
(***************************************************************************)
SyncTimeEarned ==
  syncTime # 0 /\ cut = 0 => base \subseteq Rows(local) \cup collided

(***************************************************************************)
(* SyncHistoryOnJoin returns and its goroutines end, even if no answer     *)
(* ever comes.                                                             *)
(***************************************************************************)
Settled ==
  /\ caller = "returned" /\ ~starter /\ ready = {} /\ failing = {} /\ closing = {}
  /\ handler = "idle" /\ responses = {}

SyncEnds == caller = "waiting" ~> Settled

-----------------------------------------------------------------------------
(***************************************************************************)
(* What comments of the repository say, and the code does not do.          *)
(***************************************************************************)

(***************************************************************************)
(* "Uses ON CONFLICT DO NOTHING to skip duplicates (same node_id +         *)
(* timestamp + event_type)" (pkg/storage/storage.go:167): a record the     *)
(* table does not have is not skipped.                                     *)
(***************************************************************************)
ImportSkipsDuplicates == collided = {}

(***************************************************************************)
(* "retrieves all history records across all nodes since a given time ...  *)
(* Supports pagination via offset and limit" (pkg/storage/storage.go:134): *)
(* the pages of a sync that returns nil contain every record that was in   *)
(* the peer's table from its beginning to its end.                         *)
(***************************************************************************)
PagesCover ==
  result = "ok" => \A k \in base \ collided : k >= cut => local[k] # 0
=============================================================================
