-------------------------- MODULE HistorySyncProofs --------------------------
(***************************************************************************)
(* The history backfill, for any number of records and any page size: one  *)
(* message or goroutine carries it forward, its channel gets one error,    *)
(* and a sync that ends well has brought over what the peer had.           *)
(***************************************************************************)
EXTENDS HistorySync, FiniteSetTheorems, TLAPS

-----------------------------------------------------------------------------
(***************************************************************************)
(* Pages of a table.                                                       *)
(***************************************************************************)

\* The records of a table are finitely many, and so is any part of them.
LEMMA RowsFinite ==
  ASSUME NEW t, NEW S \in SUBSET Rows(t)
  PROVE  IsFiniteSet(S) /\ Cardinality(S) \in Nat
  <1>1. IsFiniteSet(Key)
    BY FS_Interval, SyncAssumption DEF Key
  <1>2. S \in SUBSET Key
    BY DEF Rows
  <1> QED
    BY <1>1, <1>2, FS_Subset, FS_CardinalityType

\* The rank of a record is a number, smaller than the number of records if
\* the record is in the table.
LEMMA RankType ==
  ASSUME NEW t, NEW k \in Key
  PROVE  /\ Rank(t, k) \in Nat
         /\ k \in Rows(t) => Rank(t, k) < Cardinality(Rows(t))
  <1> DEFINE below == {j \in Rows(t) : j < k}
  <1>1. below \in SUBSET Rows(t)
    OBVIOUS
  <1>2. Rank(t, k) \in Nat
    BY <1>1, RowsFinite DEF Rank
  <1>3. ASSUME k \in Rows(t) PROVE Rank(t, k) < Cardinality(Rows(t))
    <2>1. IsFiniteSet(Rows(t)) /\ Cardinality(Rows(t)) \in Nat
      BY RowsFinite
    <2>2. k \notin below
      BY DEF Key
    <2>3. Cardinality(below) <= Cardinality(Rows(t)) /\ Cardinality(below) # Cardinality(Rows(t))
      BY <2>1, <2>2, <1>1, <1>3, FS_Subset
    <2> QED
      BY <2>1, <2>3, <1>2 DEF Rank
  <1> QED
    BY <1>2, <1>3

\* The later of two records has the larger rank.
LEMMA RankOrder ==
  ASSUME NEW t, NEW j \in Rows(t), NEW k \in Rows(t), j < k
  PROVE  Rank(t, j) < Rank(t, k)
  <1> DEFINE low == {i \in Rows(t) : i < j}
             high == {i \in Rows(t) : i < k}
  <1>1. j \in Int /\ k \in Int /\ \A i \in Rows(t) : i \in Int
    BY SyncAssumption DEF Rows, Key
  <1>2. low \in SUBSET high /\ j \in high /\ j \notin low
    <2>1. \A i \in Rows(t) : i < j => i < k
      BY <1>1
    <2>2. ~(j < j)
      BY <1>1
    <2> QED
      BY <2>1, <2>2
  <1>3. /\ IsFiniteSet(high) /\ Cardinality(high) \in Nat
        /\ Cardinality(low) \in Nat
    BY RowsFinite
  <1>4. Cardinality(low) <= Cardinality(high) /\ Cardinality(low) # Cardinality(high)
    BY <1>2, <1>3, FS_Subset
  <1> QED
    BY <1>3, <1>4 DEF Rank

\* Records that are added only move a record back.
LEMMA RankGrows ==
  ASSUME NEW t, NEW u, Rows(t) \subseteq Rows(u), NEW k \in Key
  PROVE  Rank(t, k) <= Rank(u, k)
  <1> DEFINE low == {j \in Rows(t) : j < k}
             high == {j \in Rows(u) : j < k}
  <1>1. low \in SUBSET high
    OBVIOUS
  <1>2. IsFiniteSet(high)
    BY RowsFinite
  <1> QED
    BY <1>1, <1>2, FS_Subset DEF Rank

\* The ranks of a table's records are 0, 1, 2 and so on, each once.
LEMMA RankBijective ==
  ASSUME NEW t
  PROVE  /\ \A j, k \in Rows(t) : Rank(t, j) = Rank(t, k) => j = k
         /\ \A i \in 0..(Cardinality(Rows(t)) - 1) : \E k \in Rows(t) : Rank(t, k) = i
  <1> DEFINE n == Cardinality(Rows(t))
             f == [k \in Rows(t) |-> Rank(t, k)]
  <1>1. IsFiniteSet(Rows(t)) /\ n \in Nat
    BY RowsFinite
  <1>2. \A k \in Rows(t) : k \in Key /\ k \in Int /\ Rank(t, k) \in 0..(n - 1)
    <2> TAKE k \in Rows(t)
    <2>1. k \in Key /\ k \in Int
      BY SyncAssumption DEF Rows, Key
    <2> QED
      BY <2>1, <1>1, RankType
  <1>3. \A j, k \in Rows(t) : Rank(t, j) = Rank(t, k) => j = k
    <2> SUFFICES ASSUME NEW j \in Rows(t), NEW k \in Rows(t), Rank(t, j) = Rank(t, k)
                 PROVE  j = k
      OBVIOUS
    <2>1. Rank(t, j) \in Int /\ j \in Int /\ k \in Int
      BY <1>1, <1>2
    <2>2. ~(j < k)
      BY <2>1, RankOrder
    <2>3. ~(k < j)
      BY <2>1, RankOrder
    <2> QED
      BY <2>1, <2>2, <2>3
  <1>4. f \in Injection(Rows(t), 0..(n - 1))
    BY <1>2, <1>3 DEF Injection, IsInjective
  <1>5. IsFiniteSet(0..(n - 1)) /\ Cardinality(0..(n - 1)) = n
    <2>1. /\ IsFiniteSet(0..(n - 1))
          /\ Cardinality(0..(n - 1)) = IF 0 > n - 1 THEN 0 ELSE (n - 1) - 0 + 1
      BY <1>1, FS_Interval
    <2> QED
      BY <2>1, <1>1
  <1>6. f \in Surjection(Rows(t), 0..(n - 1))
    BY <1>4, <1>5, FS_Injection
  <1> QED
    BY <1>3, <1>6 DEF Surjection

\* A request for all records: the page from off on is the records whose
\* rank is at least off and less than off + Limit.
LEMMA PageFromStart ==
  ASSUME NEW t \in [Key -> Nat], NEW off \in Nat
  PROVE  PageKeys(t, 0, off) = {k \in Rows(t) : off <= Rank(t, k) /\ Rank(t, k) < off + Limit}
  <1> DEFINE from == [k \in Key |-> IF k >= 0 THEN t[k] ELSE 0]
  <1>1. from = t
    BY SyncAssumption DEF Key
  <1> QED
    BY <1>1 DEF PageKeys

\* The ranks from off to off + Limit - 1 are Limit many.
LEMMA WindowSize ==
  ASSUME NEW off \in Nat
  PROVE  IsFiniteSet(off..(off + Limit - 1)) /\ Cardinality(off..(off + Limit - 1)) = Limit
  BY FS_Interval, SyncAssumption

\* A page has at most Limit records ...
LEMMA PageBound ==
  ASSUME NEW t \in [Key -> Nat], NEW off \in Nat
  PROVE  LET keys == PageKeys(t, 0, off)
         IN  IsFiniteSet(keys) /\ Cardinality(keys) \in Nat /\ Cardinality(keys) <= Limit
  <1> DEFINE keys == PageKeys(t, 0, off)
             ranks == off..(off + Limit - 1)
             f == [k \in keys |-> Rank(t, k)]
  <1>1. keys \in SUBSET Rows(t)
    BY PageFromStart
  <1>2. IsFiniteSet(keys) /\ Cardinality(keys) \in Nat
    BY <1>1, RowsFinite
  <1>3. \A k \in keys : Rank(t, k) \in ranks
    <2> TAKE k \in keys
    <2>1. k \in Key
      BY <1>1 DEF Rows
    <2>2. Rank(t, k) \in Nat
      BY <2>1, RankType
    <2>3. off <= Rank(t, k) /\ Rank(t, k) < off + Limit
      BY PageFromStart
    <2> QED
      BY <2>2, <2>3, SyncAssumption
  <1>4. \A j, k \in keys : Rank(t, j) = Rank(t, k) => j = k
    BY <1>1, RankBijective
  <1>5. f \in Injection(keys, ranks)
    BY <1>3, <1>4 DEF Injection, IsInjective
  <1>6. IsFiniteSet(ranks) /\ Cardinality(ranks) = Limit
    BY WindowSize
  <1>7. Cardinality(keys) <= Cardinality(ranks)
    BY <1>5, <1>6, FS_Injection
  <1> QED
    BY <1>2, <1>6, <1>7

\* ... and it has all of them if a record follows it: a page that is not
\* full is the last one.
LEMMA PageLast ==
  ASSUME NEW t \in [Key -> Nat], NEW off \in Nat,
         Cardinality(PageKeys(t, 0, off)) # Limit,
         NEW k \in Rows(t), off <= Rank(t, k)
  PROVE  k \in PageKeys(t, 0, off)
  <1> DEFINE keys == PageKeys(t, 0, off)
             ranks == off..(off + Limit - 1)
             f == [j \in keys |-> Rank(t, j)]
  <1> SUFFICES ASSUME Rank(t, k) >= off + Limit
               PROVE  FALSE
    <2>1. k \in Key
      BY DEF Rows
    <2>2. Rank(t, k) \in Nat
      BY <2>1, RankType
    <2> QED
      BY <2>2, PageFromStart, SyncAssumption
  <1>1. keys = {j \in Rows(t) : off <= Rank(t, j) /\ Rank(t, j) < off + Limit}
    BY PageFromStart
  <1>2. \A j \in keys : Rank(t, j) \in ranks
    <2> TAKE j \in keys
    <2>1. j \in Key
      BY <1>1 DEF Rows
    <2>2. Rank(t, j) \in Nat
      BY <2>1, RankType
    <2> QED
      BY <2>2, <1>1, SyncAssumption
  <1>3. \A i, j \in keys : Rank(t, i) = Rank(t, j) => i = j
    BY <1>1, RankBijective
  <1>4. f \in Injection(keys, ranks)
    BY <1>2, <1>3 DEF Injection, IsInjective
  <1>5. \A i \in ranks : \E j \in keys : f[j] = i
    <2> TAKE i \in ranks
    <2>1. k \in Key
      BY DEF Rows
    <2>2. /\ Rank(t, k) \in Nat /\ Rank(t, k) < Cardinality(Rows(t))
          /\ Cardinality(Rows(t)) \in Nat
      BY <2>1, RankType, RowsFinite
    <2>3. i \in 0..(Cardinality(Rows(t)) - 1) /\ off <= i /\ i < off + Limit
      BY <2>2, SyncAssumption
    <2>4. PICK j \in Rows(t) : Rank(t, j) = i
      BY <2>3, RankBijective
    <2> QED
      BY <2>3, <2>4, <1>1
  <1>6. f \in Surjection(keys, ranks)
    BY <1>2, <1>5 DEF Surjection
  <1>7. IsFiniteSet(ranks) /\ Cardinality(ranks) = Limit
    BY WindowSize
  <1>8. Cardinality(keys) = Cardinality(ranks)
    BY <1>4, <1>6, <1>7, FS_Injection
  <1> QED
    BY <1>7, <1>8

-----------------------------------------------------------------------------
(***************************************************************************)
(* Types.                                                                  *)
(***************************************************************************)

\* The fields of a page.
LEMMA PageTypes ==
  ASSUME NEW t \in [Key -> Nat], NEW since \in Nat, NEW off \in Nat
  PROVE  /\ PageKeys(t, since, off) \subseteq Key
         /\ Cardinality(PageKeys(t, since, off)) \in Nat
  <1> DEFINE from == [k \in Key |-> IF k >= since THEN t[k] ELSE 0]
  <1>1. PageKeys(t, since, off) \in SUBSET Rows(from)
    BY DEF PageKeys
  <1> QED
    BY <1>1, RowsFinite DEF Rows

\* A table that is filled in timestamp order.
LEMMA FilledType ==
  ASSUME NEW K \in SUBSET Key
  PROVE  Filled(K) \in [Key -> Nat] /\ Cardinality(K) \in Nat
  <1>1. IsFiniteSet(Key)
    BY FS_Interval, SyncAssumption DEF Key
  <1>2. \A S \in SUBSET Key : Cardinality(S) \in Nat
    BY <1>1, FS_Subset, FS_CardinalityType
  <1>3. \A k \in Key : Cardinality({j \in K : j <= k}) \in Nat
    BY <1>2
  <1> QED
    BY <1>2, <1>3 DEF Filled

\* The latest record of a table is a number.
LEMMA LatestType ==
  ASSUME NEW t \in [Key -> Nat]
  PROVE  Latest(t) \in Nat
  <1> SUFFICES ASSUME Rows(t) # {} PROVE Latest(t) \in Nat
    BY DEF Latest
  <1>1. \A k \in Rows(t) : k \in Key /\ k \in Nat
    BY SyncAssumption DEF Rows, Key
  <1>2. PICK k \in Rows(t) : \A j \in Rows(t) : j <= k
    <2> DEFINE n == Cardinality(Rows(t))
    <2>1. n \in Nat /\ n # 0
      BY RowsFinite, FS_EmptySet
    <2>2. PICK k \in Rows(t) : Rank(t, k) = n - 1
      BY <2>1, RankBijective
    <2>3. \A j \in Rows(t) : ~(k < j)
      <3> SUFFICES ASSUME NEW j \in Rows(t), k < j PROVE FALSE
        OBVIOUS
      <3>1. Rank(t, k) < Rank(t, j) /\ Rank(t, j) < n /\ Rank(t, j) \in Nat
        BY <1>1, RankOrder, RankType
      <3> QED
        BY <3>1, <2>1, <2>2
    <2> QED
      BY <2>2, <2>3, <1>1
  <1>3. Latest(t) \in Rows(t)
    BY <1>2 DEF Latest
  <1> QED
    BY <1>1, <1>3

\* The initial state is of the right types.
LEMMA InitType == Init => TypeOK
  <1> SUFFICES ASSUME Init PROVE TypeOK
    OBVIOUS
  <1>1. peer \in [Key -> Nat] /\ peerSeq \in Nat /\ local \in [Key -> Nat] /\ localSeq \in Nat
    BY FilledType DEF Init
  <1>2. DOMAIN NoPage = {"rows", "more", "next"} /\ NoPage.rows \in RowSet
        /\ NoPage.more \in BOOLEAN /\ NoPage.next \in Nat
    BY DEF NoPage, RowSet
  <1>3. sent \in Seq(Outcome)
    BY DEF Init
  <1> QED
    BY <1>1, <1>2, <1>3 DEF Init, TypeOK

\* Every step preserves the types.
LEMMA NextType == TypeOK /\ [Next]_vars => TypeOK'
  <1> SUFFICES ASSUME TypeOK, [Next]_vars PROVE TypeOK'
    OBVIOUS
  <1> USE DEF tables, callerVars, senderVars, failVars, handleVars
  <1>a. DOMAIN NoPage = {"rows", "more", "next"} /\ NoPage.rows \in RowSet
        /\ NoPage.more \in BOOLEAN /\ NoPage.next \in Nat
    BY DEF NoPage, RowSet
  <1>b. ready \subseteq Nat /\ spawned \in Nat /\ spawned + 1 \in Nat
         /\ ready \cup {spawned} \subseteq Nat
    BY DEF TypeOK
  <1>1. CASE Start
    BY <1>1 DEF TypeOK, Start, Rows
  <1>2. CASE StartAlone
    BY <1>2 DEF TypeOK, StartAlone, Outcome
  <1>3. CASE ReturnDone
    BY <1>3 DEF TypeOK, ReturnDone
  <1>4. CASE ReturnCancelled
    BY <1>4 DEF TypeOK, ReturnCancelled, Outcome
  <1>5. CASE ReturnTimeout
    BY <1>5 DEF TypeOK, ReturnTimeout, Outcome
  <1>6. CASE Cancel
    BY <1>6 DEF TypeOK, Cancel
  <1>7. CASE Starter
    <2>1. [who |-> "starter", id |-> 0, err |-> "cancelled"] \in Call
      BY DEF Call, Outcome
    <2>2. ready' \subseteq Nat /\ spawned' \in Nat
      BY <1>7, <1>b DEF Starter
    <2>3. failing' \subseteq Call
      BY <1>7, <2>1 DEF TypeOK, Starter
    <2> QED
      BY <1>7, <2>2, <2>3 DEF TypeOK, Starter
  <1>8. ASSUME NEW g \in ready, SendHistoryPullRequest(g) PROVE TypeOK'
    <2>1. g \in Nat
      BY DEF TypeOK
    <2>2. [who |-> "sender", id |-> g, err |-> "send failed"] \in Call
      BY <2>1 DEF Call, Outcome
    <2>3. [id |-> g, since |-> syncTime, offset |-> offset] \in [id : Nat, since : Nat, offset : Nat]
      BY <2>1 DEF TypeOK
    <2>4. requests' \subseteq [id : Nat, since : Nat, offset : Nat] /\ failing' \subseteq Call
      BY <1>8, <2>2, <2>3 DEF TypeOK, SendHistoryPullRequest
    <2> QED
      BY <1>8, <2>4 DEF TypeOK, SendHistoryPullRequest
  <1>9. ASSUME NEW f \in failing, FailPendingSync(f) PROVE TypeOK'
    BY <1>9 DEF TypeOK, FailPendingSync
  <1>10. ASSUME NEW f \in closing, SendDone(f) PROVE TypeOK'
    <2>1. f.err \in Outcome
      BY DEF TypeOK, Call
    <2> QED
      BY <1>10, <2>1 DEF TypeOK, SendDone
  <1>11. ASSUME NEW r \in requests, HandleHistoryPullRequest(r) PROVE TypeOK'
    <2> DEFINE keys == PageKeys(peer, r.since, r.offset)
               m == Response(r)
    <2>1. r.id \in Nat /\ r.since \in Nat /\ r.offset \in Nat /\ peer \in [Key -> Nat]
      BY DEF TypeOK
    <2>2. keys \subseteq Key /\ Cardinality(keys) \in Nat
      BY <2>1, PageTypes
    <2>3. m.rows = {[key |-> k, id |-> peer[k]] : k \in keys}
      BY DEF Response
    <2>4. m.rows \in RowSet
      BY <2>1, <2>2, <2>3 DEF RowSet
    <2>5. DOMAIN m = {"id", "rows", "more", "next"} /\ m.id \in Nat /\ m.more \in BOOLEAN
      BY <2>1 DEF Response
    <2>6. m.next \in Nat
      BY <2>1, <2>2 DEF Response
    <2> QED
      BY <1>11, <2>4, <2>5, <2>6 DEF TypeOK, HandleHistoryPullRequest
  <1>12. ASSUME NEW r \in requests, LoseRequest(r) PROVE TypeOK'
    BY <1>12 DEF TypeOK, LoseRequest
  <1>13. ASSUME NEW m \in responses, ReceiveResponse(m) PROVE TypeOK'
    BY <1>13 DEF TypeOK, ReceiveResponse
  <1>14. CASE ImportRow
    <2>1. PICK r \in page.rows :
            /\ page' = [page EXCEPT !.rows = @ \ {r}]
            /\ IF local[r.key] # 0 \/ IDTaken(local, r.id)
               THEN /\ collided' = IF local[r.key] # 0 THEN collided ELSE collided \cup {r.key}
                    /\ UNCHANGED <<local, localSeq>>
               ELSE /\ local' = [local EXCEPT ![r.key] = r.id]
                    /\ localSeq' = Larger(localSeq, r.id)
                    /\ UNCHANGED collided
      BY <1>14 DEF ImportRow
    <2>2. r.key \in Key /\ r.id \in Nat
      BY DEF TypeOK, RowSet
    <2>3. /\ DOMAIN page' = {"rows", "more", "next"} /\ page'.rows \in RowSet
          /\ page'.more \in BOOLEAN /\ page'.next \in Nat
      BY <2>1 DEF TypeOK, RowSet
    <2>4. local' \in [Key -> Nat] /\ localSeq' \in Nat /\ collided' \subseteq Key
      BY <2>1, <2>2 DEF TypeOK, Larger
    <2> QED
      BY <1>14, <2>3, <2>4 DEF TypeOK, ImportRow
  <1>15. CASE ImportError
    <2>1. [who |-> "handler", id |-> spawned, err |-> "import failed"] \in Call
      BY DEF TypeOK, Call, Outcome
    <2> QED
      BY <1>15, <1>a, <2>1 DEF TypeOK, ImportError, Fail
  <1>16. CASE ImportEnd
    BY <1>16 DEF TypeOK, ImportEnd
  <1>17. CASE NextPage
    <2>1. [who |-> "handler", id |-> spawned, err |-> "exceeded max pages"] \in Call
      BY DEF TypeOK, Call, Outcome
    <2>2. \/ ready' = ready /\ spawned' = spawned
          \/ ready' = ready \cup {spawned} /\ spawned' = spawned + 1
      BY <1>17 DEF NextPage
    <2>3. ready' \subseteq Nat /\ spawned' \in Nat
      BY <2>2, <1>b
    <2>4. failing' \subseteq Call
      BY <1>17, <2>1 DEF TypeOK, NextPage, Fail
    <2> QED
      BY <1>17, <1>a, <2>3, <2>4 DEF TypeOK, NextPage
  <1>18. CASE ReadLatest
    <2>1. PICK t \in {0, Latest(local)} : page' = [NoPage EXCEPT !.next = t]
      BY <1>18 DEF ReadLatest
    <2>2. t \in Nat
      BY LatestType DEF TypeOK
    <2>3. /\ DOMAIN page' = {"rows", "more", "next"} /\ page'.rows \in RowSet
          /\ page'.more \in BOOLEAN /\ page'.next \in Nat
      BY <2>1, <2>2, <1>a
    <2> QED
      BY <1>18, <2>3 DEF TypeOK, ReadLatest
  <1>19. CASE Finish
    <2>1. [who |-> "handler", id |-> spawned, err |-> "ok"] \in Call
      BY DEF TypeOK, Call, Outcome
    <2> QED
      BY <1>19, <1>a, <2>1 DEF TypeOK, Finish, Fail
  <1>20. ASSUME NEW k \in Key, SaveLocal(k) PROVE TypeOK'
    BY <1>20 DEF TypeOK, SaveLocal
  <1>21. ASSUME NEW k \in Key, SavePeer(k) PROVE TypeOK'
    BY <1>21 DEF TypeOK, SavePeer
  <1>22. ASSUME NEW c \in Key, CleanPeer(c) PROVE TypeOK'
    BY <1>22, SyncAssumption DEF TypeOK, CleanPeer, Cleaned, Key
  <1>23. ASSUME NEW c \in Key, CleanLocal(c) PROVE TypeOK'
    BY <1>23, SyncAssumption DEF TypeOK, CleanLocal, Cleaned, Key
  <1>24. CASE UNCHANGED vars
    BY <1>24 DEF TypeOK, vars
  <1> QED
    BY <1>1, <1>2, <1>3, <1>4, <1>5, <1>6, <1>7, <1>8, <1>9, <1>10, <1>11, <1>12, <1>13,
       <1>14, <1>15, <1>16, <1>17, <1>18, <1>19, <1>20, <1>21, <1>22, <1>23, <1>24 DEF Next

\* Every variable of the sync stays of its type, whatever the peer answers
\* and whenever a record is saved or cleaned up.
THEOREM HistoryTypeCorrect == Spec => []TypeOK
  BY InitType, NextType, PTL DEF Spec

-----------------------------------------------------------------------------
(***************************************************************************)
(* One carrier and one outcome.                                            *)
(***************************************************************************)

\* What there is before SyncHistoryOnJoin has registered its request.
Untouched ==
  /\ ~starter /\ ready = {} /\ requests = {} /\ responses = {} /\ handler = "idle"
  /\ ~pending /\ failing = {} /\ closing = {} /\ sent = <<>>
  /\ offset = 0 /\ syncTime = 0 /\ result = "none"

(***************************************************************************)
(* SingleFlight and DoneOnce are not inductive alone: a second Start would *)
(* add a carrier and make the request pending again, so the invariant says *)
(* that there is nothing before the first, and that a pending request has  *)
(* a caller that waits.  A sync time ends the sync.                        *)
(***************************************************************************)
FlightInv ==
  /\ IsFiniteSet(ready) /\ IsFiniteSet(requests) /\ IsFiniteSet(responses)
  /\ IsFiniteSet(closing)
  /\ SingleFlight
  /\ DoneOnce
  /\ caller = "idle" => Untouched
  /\ pending => caller = "waiting"
  /\ Tokens # 0 => syncTime = 0

\* Adding an element makes a finite set larger by at most one, removing one
\* makes it smaller by one.
LEMMA SetSizes ==
  ASSUME NEW S, IsFiniteSet(S), NEW x
  PROVE  /\ Cardinality(S) \in Nat
         /\ IsFiniteSet(S \cup {x}) /\ Cardinality(S \cup {x}) \in Nat
         /\ Cardinality(S \cup {x}) <= Cardinality(S) + 1
         /\ IsFiniteSet(S \ {x}) /\ Cardinality(S \ {x}) \in Nat
         /\ x \in S => Cardinality(S) >= 1 /\ Cardinality(S \ {x}) = Cardinality(S) - 1
  <1>1. Cardinality(S) \in Nat
    BY FS_CardinalityType
  <1>2. /\ IsFiniteSet(S \cup {x})
        /\ Cardinality(S \cup {x}) = IF x \in S THEN Cardinality(S) ELSE Cardinality(S) + 1
    BY FS_AddElement
  <1>3. /\ IsFiniteSet(S \ {x})
        /\ Cardinality(S \ {x}) = IF x \in S THEN Cardinality(S) - 1 ELSE Cardinality(S)
    BY FS_RemoveElement
  <1>4. Cardinality(S \ {x}) \in Nat
    BY <1>3, FS_CardinalityType
  <1> QED
    BY <1>1, <1>2, <1>3, <1>4

\* A step that may add an element makes a finite set larger by at most one.
LEMMA GrownSize ==
  ASSUME NEW S, IsFiniteSet(S), NEW x, NEW T, T = S \/ T = S \cup {x}
  PROVE  IsFiniteSet(T) /\ Cardinality(T) \in Nat /\ Cardinality(T) <= Cardinality(S) + 1
  <1>1. CASE T = S
    BY <1>1, FS_CardinalityType
  <1>2. CASE T = S \cup {x}
    BY <1>2, SetSizes
  <1> QED
    BY <1>1, <1>2

\* The initial state satisfies the invariant.
LEMMA InitFlight == Init => FlightInv
  BY FS_EmptySet DEF Init, FlightInv, SingleFlight, DoneOnce, Tokens, Untouched

\* Only Start adds a carrier: every other step hands the one there is on,
\* or drops it.
LEMMA NextFlight == TypeOK /\ FlightInv /\ [Next]_vars => FlightInv'
  <1> SUFFICES ASSUME TypeOK, FlightInv, [Next]_vars PROVE FlightInv'
    OBVIOUS
  <1> USE DEF tables, callerVars, senderVars, failVars, handleVars
  <1> DEFINE rd == Cardinality(ready)
             rq == Cardinality(requests)
             rs == Cardinality(responses)
             cl == Cardinality(closing)
             st == IF starter THEN 1 ELSE 0
             hd == IF handler # "idle" THEN 1 ELSE 0
  <1>a. /\ rd \in Nat /\ rq \in Nat /\ rs \in Nat /\ cl \in Nat
        /\ st \in {0, 1} /\ hd \in {0, 1}
        /\ rd + rq + rs + st + hd <= 1
        /\ Len(sent) \in Nat /\ Len(sent) + cl + (IF pending THEN 1 ELSE 0) <= 1
    <2>1. rd \in Nat /\ rq \in Nat /\ rs \in Nat /\ cl \in Nat
      BY SetSizes DEF FlightInv
    <2>2. Len(sent) \in Nat
      BY DEF TypeOK
    <2> QED
      BY <2>1, <2>2 DEF FlightInv, SingleFlight, Tokens, DoneOnce
  <1>t. Tokens = rd + rq + rs + st + hd
    BY DEF Tokens
  <1>b. ASSUME UNCHANGED <<ready, requests, responses, closing, starter, handler, sent, syncTime>>,
               caller' # "idle",
               pending' => pending /\ caller' = "waiting"
        PROVE  FlightInv'
    BY <1>a, <1>b DEF FlightInv, SingleFlight, Tokens, DoneOnce
  <1>c. pending => caller = "waiting"
    BY DEF FlightInv
  <1>1. CASE Start
    <2>1. Untouched
      BY <1>1 DEF Start, FlightInv
    <2>2. SingleFlight' /\ DoneOnce'
      BY <1>1, <2>1, FS_EmptySet DEF Start, Untouched, SingleFlight, Tokens, DoneOnce
    <2> QED
      BY <1>1, <2>1, <2>2 DEF Start, FlightInv, Untouched
  <1>2. CASE StartAlone
    BY <1>2, <1>b, <1>c DEF StartAlone
  <1>3. CASE ReturnDone
    <2>1. Len(sent) # 0
      BY <1>3 DEF ReturnDone, TypeOK
    <2>2. ~pending
      BY <2>1, <1>a
    <2> QED
      BY <1>3, <2>2, <1>b DEF ReturnDone
  <1>4. CASE ReturnCancelled
    BY <1>4, <1>b DEF ReturnCancelled
  <1>5. CASE ReturnTimeout
    BY <1>5, <1>b DEF ReturnTimeout
  <1>6. CASE Cancel
    BY <1>6, <1>a DEF Cancel, FlightInv, SingleFlight, Tokens, DoneOnce, Untouched
  <1>d. ASSUME caller # "idle", UNCHANGED <<caller, pending, closing, sent, syncTime>>,
               IsFiniteSet(ready'), IsFiniteSet(requests'), IsFiniteSet(responses'),
               Tokens' \in Nat, Tokens' <= Tokens
        PROVE  FlightInv'
    BY <1>a, <1>d DEF FlightInv, SingleFlight, Tokens, DoneOnce
  <1>7. CASE Starter
    <2>1. caller # "idle"
      BY <1>7 DEF Starter, FlightInv, Untouched
    <2>2. \/ ready' = ready
          \/ ready' = ready \cup {spawned}
      BY <1>7 DEF Starter
    <2>3. IsFiniteSet(ready') /\ Cardinality(ready') \in Nat /\ Cardinality(ready') <= rd + 1
      BY <2>2, GrownSize DEF FlightInv
    <2>4. Tokens' \in Nat /\ Tokens' <= Tokens
      BY <1>7, <1>a, <2>3 DEF Starter, Tokens
    <2> QED
      BY <1>7, <2>1, <2>3, <2>4, <1>d DEF Starter, FlightInv
  <1>8. ASSUME NEW g \in ready, SendHistoryPullRequest(g) PROVE FlightInv'
    <2>1. caller # "idle"
      BY <1>8 DEF FlightInv, Untouched
    <2>2. IsFiniteSet(ready') /\ Cardinality(ready') = rd - 1 /\ rd >= 1
      BY <1>8, SetSizes DEF SendHistoryPullRequest, FlightInv
    <2>3. \/ requests' = requests
          \/ requests' = requests \cup {[id |-> g, since |-> syncTime, offset |-> offset]}
      BY <1>8 DEF SendHistoryPullRequest
    <2>4. IsFiniteSet(requests') /\ Cardinality(requests') \in Nat /\ Cardinality(requests') <= rq + 1
      BY <2>3, GrownSize DEF FlightInv
    <2>5. Tokens' \in Nat /\ Tokens' <= Tokens
      <3>1. Tokens' = Cardinality(ready') + Cardinality(requests') + rs + st + hd
        BY <1>8 DEF SendHistoryPullRequest, Tokens
      <3> HIDE DEF rd, rq, rs, cl, st, hd
      <3> QED
        BY <3>1, <1>t, <1>a, <2>2, <2>4
    <2> QED
      BY <1>8, <2>1, <2>2, <2>4, <2>5, <1>d DEF SendHistoryPullRequest, FlightInv
  <1>9. ASSUME NEW f \in failing, FailPendingSync(f) PROVE FlightInv'
    <2>1. caller # "idle"
      BY <1>9 DEF FlightInv, Untouched
    <2>2. \/ ~pending /\ closing' = closing
          \/ pending /\ closing' = closing \cup {f}
      BY <1>9 DEF FailPendingSync
    <2>3. IsFiniteSet(closing') /\ Cardinality(closing') \in Nat
          /\ Cardinality(closing') <= cl + (IF pending THEN 1 ELSE 0)
      <3>1. CASE pending
        BY <3>1, <2>2, GrownSize DEF FlightInv
      <3>2. CASE ~pending
        BY <3>2, <2>2, <1>a DEF FlightInv
      <3> QED
        BY <3>1, <3>2
    <2>4. DoneOnce'
      BY <1>9, <1>a, <2>3 DEF FailPendingSync, DoneOnce
    <2> QED
      BY <1>9, <2>1, <2>3, <2>4 DEF FailPendingSync, FlightInv, SingleFlight, Tokens
  <1>10. ASSUME NEW f \in closing, SendDone(f) PROVE FlightInv'
    <2>1. caller # "idle"
      BY <1>10 DEF FlightInv, Untouched
    <2>2. IsFiniteSet(closing') /\ Cardinality(closing') = cl - 1
      BY <1>10, SetSizes DEF SendDone, FlightInv
    <2>3. Len(sent') = Len(sent) + 1
      BY <1>10 DEF SendDone, TypeOK, Call
    <2>4. DoneOnce'
      BY <1>10, <1>a, <2>2, <2>3 DEF SendDone, DoneOnce
    <2> QED
      BY <1>10, <2>1, <2>2, <2>4 DEF SendDone, FlightInv, SingleFlight, Tokens
  <1>11. ASSUME NEW r \in requests, HandleHistoryPullRequest(r) PROVE FlightInv'
    <2>1. caller # "idle"
      BY <1>11 DEF FlightInv, Untouched
    <2>2. IsFiniteSet(requests') /\ Cardinality(requests') = rq - 1 /\ rq >= 1
      BY <1>11, SetSizes DEF HandleHistoryPullRequest, FlightInv
    <2>3. IsFiniteSet(responses') /\ Cardinality(responses') \in Nat
          /\ Cardinality(responses') <= rs + 1
      BY <1>11, SetSizes DEF HandleHistoryPullRequest, FlightInv
    <2>4. Tokens' \in Nat /\ Tokens' <= Tokens
      <3>1. Tokens' = rd + Cardinality(requests') + Cardinality(responses') + st + hd
        BY <1>11 DEF HandleHistoryPullRequest, Tokens
      <3> HIDE DEF rd, rq, rs, cl, st, hd
      <3> QED
        BY <3>1, <1>t, <1>a, <2>2, <2>3
    <2> QED
      BY <1>11, <2>1, <2>2, <2>3, <2>4, <1>d DEF HandleHistoryPullRequest, FlightInv
  <1>12. ASSUME NEW r \in requests, LoseRequest(r) PROVE FlightInv'
    <2>1. caller # "idle"
      BY <1>12 DEF FlightInv, Untouched
    <2>2. IsFiniteSet(requests') /\ Cardinality(requests') = rq - 1 /\ rq >= 1
      BY <1>12, SetSizes DEF LoseRequest, FlightInv
    <2>3. Tokens' \in Nat /\ Tokens' <= Tokens
      BY <1>12, <1>a, <2>2 DEF LoseRequest, Tokens
    <2> QED
      BY <1>12, <2>1, <2>2, <2>3, <1>d DEF LoseRequest, FlightInv
  <1>13. ASSUME NEW m \in responses, ReceiveResponse(m) PROVE FlightInv'
    <2>1. caller # "idle"
      BY <1>13 DEF FlightInv, Untouched
    <2>2. IsFiniteSet(responses') /\ Cardinality(responses') = rs - 1 /\ rs >= 1
      BY <1>13, SetSizes DEF ReceiveResponse, FlightInv
    <2>3. Tokens' \in Nat /\ Tokens' <= Tokens
      <3>1. Tokens' \in {rd + rq + Cardinality(responses') + st + n : n \in {0, 1}} /\ hd = 0
        BY <1>13 DEF ReceiveResponse, Tokens
      <3> HIDE DEF rd, rq, rs, cl, st, hd
      <3> QED
        BY <3>1, <1>t, <1>a, <2>2
    <2> QED
      BY <1>13, <2>1, <2>2, <2>3, <1>d DEF ReceiveResponse, FlightInv
  <1>e. ASSUME handler # "idle", UNCHANGED <<ready, requests, responses, starter>>
        PROVE  Tokens' \in Nat /\ Tokens' <= Tokens /\ caller # "idle"
               /\ IsFiniteSet(ready') /\ IsFiniteSet(requests') /\ IsFiniteSet(responses')
    BY <1>a, <1>e DEF FlightInv, Untouched, Tokens
  <1>14. CASE ImportRow
    BY <1>14, <1>d, <1>e DEF ImportRow
  <1>15. CASE ImportError
    BY <1>15, <1>d, <1>e DEF ImportError
  <1>16. CASE ImportEnd
    BY <1>16, <1>d, <1>e DEF ImportEnd
  <1>17. CASE NextPage
    <2>1. caller # "idle"
      BY <1>17 DEF NextPage, FlightInv, Untouched
    <2>2. \/ ready' = ready
          \/ ready' = ready \cup {spawned}
      BY <1>17 DEF NextPage
    <2>3. IsFiniteSet(ready') /\ Cardinality(ready') \in Nat /\ Cardinality(ready') <= rd + 1
      BY <2>2, GrownSize DEF FlightInv
    <2>4. Tokens' \in Nat /\ Tokens' <= Tokens
      <3>1. Tokens' = Cardinality(ready') + rq + rs + st + 0 /\ hd = 1
        BY <1>17 DEF NextPage, Tokens
      <3> HIDE DEF rd, rq, rs, cl, st, hd
      <3> QED
        BY <3>1, <1>t, <1>a, <2>3
    <2> QED
      BY <1>17, <2>1, <2>3, <2>4, <1>d DEF NextPage, FlightInv
  <1>18. CASE ReadLatest
    BY <1>18, <1>d, <1>e DEF ReadLatest
  <1>19. CASE Finish
    <2>1. caller # "idle"
      BY <1>19 DEF Finish, FlightInv, Untouched
    <2>2. Tokens' = 0
      BY <1>19, <1>a DEF Finish, Tokens
    <2> QED
      BY <1>19, <2>1, <2>2 DEF Finish, FlightInv, SingleFlight, DoneOnce
  <1>f. ASSUME UNCHANGED <<callerVars, pending, senderVars, failVars, handleVars>>
        PROVE  FlightInv'
    BY <1>a, <1>f DEF FlightInv, SingleFlight, Tokens, DoneOnce, Untouched
  <1>20. ASSUME NEW k \in Key, SaveLocal(k) PROVE FlightInv'
    BY <1>20, <1>f DEF SaveLocal
  <1>21. ASSUME NEW k \in Key, SavePeer(k) PROVE FlightInv'
    BY <1>21, <1>f DEF SavePeer
  <1>22. ASSUME NEW c \in Key, CleanPeer(c) PROVE FlightInv'
    BY <1>22, <1>f DEF CleanPeer
  <1>23. ASSUME NEW c \in Key, CleanLocal(c) PROVE FlightInv'
    BY <1>23, <1>f DEF CleanLocal
  <1>24. CASE UNCHANGED vars
    BY <1>24, <1>f DEF vars
  <1> QED
    BY <1>1, <1>2, <1>3, <1>4, <1>5, <1>6, <1>7, <1>8, <1>9, <1>10, <1>11, <1>12, <1>13,
       <1>14, <1>15, <1>16, <1>17, <1>18, <1>19, <1>20, <1>21, <1>22, <1>23, <1>24 DEF Next

\* The inductive invariant holds of every behaviour.
LEMMA FlightAlways == Spec => [](TypeOK /\ FlightInv)
  BY InitType, NextType, InitFlight, NextFlight, PTL DEF Spec

\* At any time at most one goroutine or message carries the sync forward,
\* so what the handler reads outside syncMu nobody else writes.
THEOREM OneCarrier == Spec => []SingleFlight
  <1>1. FlightInv => SingleFlight
    BY DEF FlightInv
  <1> QED
    BY <1>1, FlightAlways, PTL

\* failPendingSync sends on done at most once, whoever calls it and however
\* often, so it never sends on the channel it has closed.
THEOREM OneOutcome == Spec => []DoneOnce
  <1>1. FlightInv => DoneOnce
    BY DEF FlightInv
  <1> QED
    BY <1>1, FlightAlways, PTL

\* Every return of SyncHistoryOnJoin leaves pendingSyncs without its request,
\* and no late goroutine puts it back.
THEOREM ReturnUnregisters == Spec => []NotPendingAfterReturn
  <1>1. FlightInv => NotPendingAfterReturn
    BY DEF FlightInv, NotPendingAfterReturn
  <1> QED
    BY <1>1, FlightAlways, PTL

-----------------------------------------------------------------------------
(***************************************************************************)
(* Completeness.                                                           *)
(***************************************************************************)

\* the records that are here, or that an ID already taken kept out
Here == Rows(local) \cup collided

\* the records of b that have a rank below n in table t are among got
Covers(b, t, got, n) == \A k \in b : Rank(t, k) < n => k \in got

\* once its rows are imported, page p brings the sync to p.next, or to the end
PageGood(b, t, got, p) ==
  LET then == got \cup {r.key : r \in p.rows}
  IN  /\ Covers(b, t, then, p.next)
      /\ ~p.more => b \subseteq then

\* somebody has said, or is about to say, that the sync succeeded
OkSaid ==
  \/ \E f \in failing \cup closing : f.err = "ok"
  \/ \E i \in DOMAIN sent : sent[i] = "ok"
  \/ result = "ok"

(***************************************************************************)
(* What the sync knows at each of its stages.  An offset counts records of *)
(* the peer's table, which grows meanwhile; the part below an offset is    *)
(* covered all the same, because an insertion only moves records back,     *)
(* beyond it.  An expired record would move them forward, hence cut = 0.   *)
(***************************************************************************)
CoverInv ==
  /\ caller = "idle" => base = {}
  /\ \A m \in responses : \A r \in m.rows : r.id # 0
  /\ \A r \in page.rows : r.id # 0
  /\ \A r \in requests : r.since = 0 /\ r.offset = offset
  /\ cut = 0 =>
       /\ base \subseteq Rows(peer)
       /\ Covers(base, peer, Here, offset)
       /\ \A m \in responses : PageGood(base, peer, Here, m)
       /\ handler = "import" => PageGood(base, peer, Here, page)
       /\ handler \in {"latest", "finish"} \/ syncTime # 0 \/ OkSaid => base \subseteq Here

\* What is covered stays covered when either table grows.
LEMMA CoversKept ==
  ASSUME NEW b \in SUBSET Key, NEW t, NEW u, Rows(t) \subseteq Rows(u),
         NEW got, NEW more, got \subseteq more, NEW n \in Nat, Covers(b, t, got, n)
  PROVE  Covers(b, u, more, n)
  <1> SUFFICES ASSUME NEW k \in b, Rank(u, k) < n PROVE k \in more
    BY DEF Covers
  <1>1. Rank(t, k) \in Nat /\ Rank(u, k) \in Nat /\ Rank(t, k) <= Rank(u, k)
    BY RankType, RankGrows
  <1>2. Rank(t, k) < n
    BY <1>1
  <1> QED
    BY <1>2 DEF Covers

\* And a page that is on its way stays good.
LEMMA PageKept ==
  ASSUME NEW b \in SUBSET Key, NEW t, NEW u, Rows(t) \subseteq Rows(u),
         NEW got, NEW more, got \subseteq more, NEW p, p.next \in Nat, PageGood(b, t, got, p)
  PROVE  PageGood(b, u, more, p)
  <1> DEFINE keys == {r.key : r \in p.rows}
  <1>1. got \cup keys \subseteq more \cup keys
    OBVIOUS
  <1>2. Covers(b, t, got \cup keys, p.next) /\ (~p.more => b \subseteq got \cup keys)
    BY DEF PageGood
  <1>3. Covers(b, u, more \cup keys, p.next)
    BY <1>1, <1>2, CoversKept
  <1> QED
    BY <1>1, <1>2, <1>3 DEF PageGood

\* The answer to a request for all records from the offset on is good: it
\* goes on where the sync is, and leaves nothing out if it says it is the
\* last one.
LEMMA ResponseGood ==
  ASSUME TypeOK, NEW r \in requests, r.since = 0, base \subseteq Rows(peer),
         Covers(base, peer, Here, r.offset)
  PROVE  PageGood(base, peer, Here, Response(r))
  <1> DEFINE keys == PageKeys(peer, 0, r.offset)
             n == Cardinality(keys)
             then == Here \cup keys
  <1>1. peer \in [Key -> Nat] /\ r.offset \in Nat
    BY DEF TypeOK
  <1>2. /\ Response(r).rows = {[key |-> k, id |-> peer[k]] : k \in keys}
        /\ Response(r).next = r.offset + n
        /\ Response(r).more = (n = Limit)
    BY DEF Response
  <1>3. {q.key : q \in Response(r).rows} = keys
    <2> DEFINE row(k) == [key |-> k, id |-> peer[k]]
    <2>1. \A k : row(k).key = k
      OBVIOUS
    <2>2. Response(r).rows = {row(k) : k \in keys}
      BY <1>2
    <2> HIDE DEF row, keys
    <2> QED
      BY <2>1, <2>2
  <1>4. n \in Nat /\ n <= Limit
    BY <1>1, PageBound
  <1>5. ASSUME NEW k \in base
        PROVE  k \in Key /\ k \in Rows(peer) /\ Rank(peer, k) \in Nat
    BY RankType DEF Rows
  <1>6. Covers(base, peer, then, r.offset + n)
    <2> SUFFICES ASSUME NEW k \in base, Rank(peer, k) < r.offset + n PROVE k \in then
      BY DEF Covers
    <2>1. CASE Rank(peer, k) < r.offset
      BY <2>1 DEF Covers
    <2>2. CASE r.offset <= Rank(peer, k)
      <3>1. Rank(peer, k) < r.offset + Limit
        BY <1>1, <1>4, <1>5, SyncAssumption
      <3> QED
        BY <2>2, <3>1, <1>1, <1>5, PageFromStart
    <2> QED
      BY <2>1, <2>2, <1>1, <1>5
  <1>7. ASSUME n # Limit PROVE base \subseteq then
    <2> SUFFICES ASSUME NEW k \in base PROVE k \in then
      OBVIOUS
    <2>1. CASE Rank(peer, k) < r.offset
      BY <2>1 DEF Covers
    <2>2. CASE r.offset <= Rank(peer, k)
      BY <2>2, <1>1, <1>5, <1>7, PageLast
    <2> QED
      BY <2>1, <2>2, <1>1, <1>5
  <1> QED
    BY <1>2, <1>3, <1>6, <1>7 DEF PageGood

\* While a page is handled nothing else carries the sync, and no sync time
\* has been set.
LEMMA HandlerAlone ==
  ASSUME TypeOK, FlightInv, handler # "idle"
  PROVE  requests = {} /\ responses = {} /\ ready = {}
  <1>1. /\ Cardinality(ready) \in Nat /\ Cardinality(requests) \in Nat
        /\ Cardinality(responses) \in Nat
    BY FS_CardinalityType DEF FlightInv
  <1>2. Cardinality(ready) = 0 /\ Cardinality(requests) = 0 /\ Cardinality(responses) = 0
    BY <1>1 DEF FlightInv, SingleFlight, Tokens
  <1> QED
    BY <1>2, FS_EmptySet DEF FlightInv

\* A goroutine that is about to send asks for all records.
LEMMA SenderAsksForAll ==
  ASSUME TypeOK, FlightInv, ready # {}
  PROVE  syncTime = 0
  <1>1. /\ Cardinality(ready) \in Nat /\ Cardinality(requests) \in Nat
        /\ Cardinality(responses) \in Nat /\ Cardinality(ready) # 0
    BY FS_CardinalityType, FS_EmptySet DEF FlightInv
  <1>2. Tokens # 0
    <2> DEFINE st == IF starter THEN 1 ELSE 0
               hd == IF handler # "idle" THEN 1 ELSE 0
    <2>1. st \in Nat /\ hd \in Nat
      OBVIOUS
    <2>2. Tokens = Cardinality(ready) + Cardinality(requests) + Cardinality(responses) + st + hd
      BY DEF Tokens
    <2> HIDE DEF st, hd
    <2> QED
      BY <1>1, <2>1, <2>2
  <1> QED
    BY <1>2 DEF FlightInv

\* The initial state satisfies the invariant.
LEMMA InitCover == Init => CoverInv
  BY DEF Init, CoverInv, Covers, NoPage, OkSaid

\* A step that leaves the offset and the handler alone, adds no message and
\* no success, and takes no record away, preserves the invariant.
LEMMA CoverGrows ==
  ASSUME TypeOK, CoverInv,
         caller' = "idle" => caller = "idle",
         UNCHANGED <<base, offset, syncTime, handler, page, cut>>,
         requests' \subseteq requests, responses' \subseteq responses,
         cut = 0 => Rows(peer) \subseteq Rows(peer)' /\ Here \subseteq Here',
         OkSaid' => OkSaid
  PROVE  CoverInv'
  <1>1. base \in SUBSET Key /\ offset \in Nat /\ page.next \in Nat
        /\ \A m \in responses : m.next \in Nat
    BY DEF TypeOK
  <1>2. Rows(peer') = Rows(peer)'
    BY DEF Rows
  <1>3. ASSUME cut = 0
        PROVE  /\ base \subseteq Rows(peer')
               /\ Covers(base, peer', Here', offset)
               /\ \A m \in responses : PageGood(base, peer', Here', m)
               /\ handler = "import" => PageGood(base, peer', Here', page)
               /\ handler \in {"latest", "finish"} \/ syncTime # 0 \/ OkSaid => base \subseteq Here'
    <2>1. Covers(base, peer', Here', offset)
      BY <1>1, <1>2, <1>3, CoversKept DEF CoverInv
    <2>2. ASSUME NEW m \in responses PROVE PageGood(base, peer', Here', m)
      BY <1>1, <1>2, <1>3, PageKept DEF CoverInv
    <2>3. ASSUME handler = "import" PROVE PageGood(base, peer', Here', page)
      BY <2>3, <1>1, <1>2, <1>3, PageKept DEF CoverInv
    <2> QED
      BY <2>1, <2>2, <2>3, <1>2, <1>3 DEF CoverInv
  <1> QED
    BY <1>3 DEF CoverInv

\* Every step preserves the invariant.
LEMMA NextCover == TypeOK /\ FlightInv /\ CoverInv /\ [Next]_vars => CoverInv'
  <1> SUFFICES ASSUME TypeOK, FlightInv, CoverInv, [Next]_vars PROVE CoverInv'
    OBVIOUS
  <1> USE DEF tables, callerVars, senderVars, failVars, handleVars
  <1>a. ASSUME UNCHANGED tables
        PROVE  Rows(peer)' = Rows(peer) /\ Here' = Here
    BY <1>a DEF Here, Rows
  <1>e. ASSUME NEW x, x.err # "ok", failing' \subseteq failing \cup {x},
               UNCHANGED <<closing, sent, result>>
        PROVE  OkSaid' => OkSaid
    BY <1>e DEF OkSaid
  <1>1. CASE Start
    <2>1. Untouched /\ base' = Rows(peer)' /\ UNCHANGED <<peer, local, collided, cut, page>>
      BY <1>1 DEF Start, FlightInv, Rows
    <2>2. Covers(base', peer', Here', 0)
      <3> SUFFICES ASSUME NEW k \in base' PROVE ~(Rank(peer', k) < 0)
        BY DEF Covers
      <3>1. k \in Key
        BY <2>1 DEF Rows
      <3> QED
        BY <3>1, RankType
    <2>3. requests' = {} /\ responses' = {} /\ handler' = "idle" /\ offset' = 0 /\ syncTime' = 0
      BY <1>1, <2>1 DEF Start, Untouched
    <2>4. ~OkSaid'
      BY <1>1, <2>1 DEF Start, Untouched, OkSaid
    <2> QED
      BY <1>1, <2>1, <2>2, <2>3, <2>4 DEF Start, CoverInv
  <1>2. CASE StartAlone
    <2>1. OkSaid' => OkSaid
      BY <1>2 DEF StartAlone, OkSaid
    <2> QED
      BY <1>2, <2>1, <1>a, CoverGrows DEF StartAlone
  <1>3. CASE ReturnDone
    <2>1. 1 \in DOMAIN sent /\ Head(sent) = sent[1]
      BY <1>3 DEF ReturnDone, TypeOK
    <2>2. OkSaid' => OkSaid
      BY <1>3, <2>1 DEF ReturnDone, OkSaid
    <2> QED
      BY <1>3, <2>2, <1>a, CoverGrows DEF ReturnDone
  <1>4. CASE ReturnCancelled
    <2>1. OkSaid' => OkSaid
      BY <1>4 DEF ReturnCancelled, OkSaid
    <2> QED
      BY <1>4, <2>1, <1>a, CoverGrows DEF ReturnCancelled
  <1>5. CASE ReturnTimeout
    <2>1. OkSaid' => OkSaid
      BY <1>5 DEF ReturnTimeout, OkSaid
    <2> QED
      BY <1>5, <2>1, <1>a, CoverGrows DEF ReturnTimeout
  <1>6. CASE Cancel
    <2>1. OkSaid' => OkSaid
      BY <1>6 DEF Cancel, OkSaid
    <2> QED
      BY <1>6, <2>1, <1>a, CoverGrows DEF Cancel
  <1>7. CASE Starter
    <2>1. OkSaid' => OkSaid
      BY <1>7 DEF Starter, OkSaid
    <2> QED
      BY <1>7, <2>1, <1>a, CoverGrows DEF Starter
  <1>8. ASSUME NEW g \in ready, SendHistoryPullRequest(g) PROVE CoverInv'
    <2>1. syncTime = 0
      BY SenderAsksForAll
    <2>2. \A r \in requests' : r.since = 0 /\ r.offset = offset'
      <3> DEFINE x == [id |-> g, since |-> syncTime, offset |-> offset]
      <3>1. x.since = 0 /\ x.offset = offset
        BY <2>1
      <3>2. requests' \subseteq requests \cup {x} /\ offset' = offset
        BY <1>8 DEF SendHistoryPullRequest
      <3> HIDE DEF x
      <3> QED
        BY <3>1, <3>2 DEF CoverInv
    <2>3. OkSaid' => OkSaid
      <3> DEFINE x == [who |-> "sender", id |-> g, err |-> "send failed"]
      <3>1. x.err # "ok" /\ failing' \subseteq failing \cup {x}
        BY <1>8 DEF SendHistoryPullRequest
      <3> QED
        BY <1>8, <3>1, <1>e DEF SendHistoryPullRequest
    <2>4. UNCHANGED <<tables, callerVars, handleVars>>
      BY <1>8 DEF SendHistoryPullRequest
    <2> QED
      BY <2>2, <2>3, <2>4, <1>a DEF CoverInv
  <1>9. ASSUME NEW f \in failing, FailPendingSync(f) PROVE CoverInv'
    <2>1. OkSaid' => OkSaid
      BY <1>9 DEF FailPendingSync, OkSaid
    <2> QED
      BY <1>9, <2>1, <1>a, CoverGrows DEF FailPendingSync
  <1>10. ASSUME NEW f \in closing, SendDone(f) PROVE CoverInv'
    <2>1. \A i \in DOMAIN sent' : (i \in DOMAIN sent /\ sent'[i] = sent[i]) \/ sent'[i] = f.err
      BY <1>10 DEF SendDone, TypeOK, Call
    <2>2. OkSaid' => OkSaid
      BY <1>10, <2>1 DEF SendDone, OkSaid
    <2> QED
      BY <1>10, <2>2, <1>a, CoverGrows DEF SendDone
  <1>11. ASSUME NEW r \in requests, HandleHistoryPullRequest(r) PROVE CoverInv'
    <2>1. r.since = 0 /\ r.offset = offset
      BY DEF CoverInv
    <2>2. cut = 0 => PageGood(base, peer, Here, Response(r))
      BY <2>1, ResponseGood DEF CoverInv
    <2>3. \A q \in Response(r).rows : q.id # 0
      <3>1. PageKeys(peer, r.since, r.offset) \subseteq Rows(peer)
        <4>1. peer \in [Key -> Nat] /\ r.offset \in Nat
          BY DEF TypeOK
        <4> QED
          BY <4>1, <2>1, PageFromStart
      <3> QED
        BY <3>1 DEF Response, Rows
    <2>4. OkSaid' => OkSaid
      BY <1>11 DEF HandleHistoryPullRequest, OkSaid
    <2>5. /\ UNCHANGED <<tables, callerVars, handler, page, syncTime, offset>>
          /\ requests' \subseteq requests /\ responses' = responses \cup {Response(r)}
      BY <1>11 DEF HandleHistoryPullRequest
    <2> QED
      BY <2>2, <2>3, <2>4, <2>5, <1>a DEF CoverInv
  <1>12. ASSUME NEW r \in requests, LoseRequest(r) PROVE CoverInv'
    <2>1. OkSaid' => OkSaid
      BY <1>12 DEF LoseRequest, OkSaid
    <2> QED
      BY <1>12, <2>1, <1>a, CoverGrows DEF LoseRequest
  <1>13. ASSUME NEW m \in responses, ReceiveResponse(m) PROVE CoverInv'
    <2>1. OkSaid' => OkSaid
      BY <1>13 DEF ReceiveResponse, OkSaid
    <2>2. CASE pending
      <3>1. handler' = "import" /\ page' = [rows |-> m.rows, more |-> m.more, next |-> m.next]
        BY <1>13, <2>2 DEF ReceiveResponse
      <3>2. page'.rows = m.rows /\ page'.more = m.more /\ page'.next = m.next
        BY <3>1
      <3>3. cut = 0 => PageGood(base, peer, Here, page')
        BY <3>2 DEF CoverInv, PageGood
      <3>4. /\ UNCHANGED <<tables, callerVars, requests, syncTime, offset>>
            /\ responses' \subseteq responses
        BY <1>13 DEF ReceiveResponse
      <3> QED
        BY <2>1, <3>1, <3>2, <3>3, <3>4, <1>a DEF CoverInv
    <2>3. CASE ~pending
      BY <1>13, <2>1, <2>3, <1>a, CoverGrows DEF ReceiveResponse
    <2> QED
      BY <2>2, <2>3
  <1>b. ASSUME handler # "idle", UNCHANGED <<requests, responses>>
        PROVE  requests' = {} /\ responses' = {}
    BY <1>b, HandlerAlone
  <1>c. NoPage.rows = {}
    BY DEF NoPage
  <1>14. CASE ImportRow
    <2>1. PICK r \in page.rows :
            /\ page' = [page EXCEPT !.rows = @ \ {r}]
            /\ IF local[r.key] # 0 \/ IDTaken(local, r.id)
               THEN /\ collided' = IF local[r.key] # 0 THEN collided ELSE collided \cup {r.key}
                    /\ UNCHANGED <<local, localSeq>>
               ELSE /\ local' = [local EXCEPT ![r.key] = r.id]
                    /\ localSeq' = Larger(localSeq, r.id)
                    /\ UNCHANGED collided
      BY <1>14 DEF ImportRow
    <2>2. r.key \in Key /\ r.id # 0 /\ local \in [Key -> Nat]
      BY DEF TypeOK, RowSet, CoverInv
    <2>3. Here \cup {r.key} \subseteq Here'
      BY <2>1, <2>2 DEF Here, Rows
    <2>4. page'.rows = page.rows \ {r} /\ page'.more = page.more /\ page'.next = page.next
      BY <2>1 DEF TypeOK
    <2>5. /\ UNCHANGED <<peer, base, caller, cut, requests, responses, failing, closing, sent, result,
                         handler, syncTime, offset>>
          /\ handler = "import"
      BY <1>14 DEF ImportRow
    <2>6. requests' = {} /\ responses' = {}
      BY <2>5, <1>b
    <2>7. base \in SUBSET Key /\ offset \in Nat /\ page.next \in Nat
      BY DEF TypeOK
    <2>8. ASSUME cut = 0
          PROVE  Covers(base, peer, Here', offset) /\ PageGood(base, peer, Here', page')
      <3> DEFINE then == Here \cup {q.key : q \in page.rows}
                 next == Here' \cup {q.key : q \in page'.rows}
      <3>1. then \subseteq next
        BY <2>3, <2>4
      <3>2. Covers(base, peer, then, page.next) /\ (~page.more => base \subseteq then)
        BY <2>5, <2>8 DEF CoverInv, PageGood
      <3>3. Covers(base, peer, next, page.next)
        BY <3>1, <3>2, <2>7, CoversKept
      <3>4. Covers(base, peer, Here', offset)
        BY <2>3, <2>7, <2>8, CoversKept DEF CoverInv
      <3> QED
        BY <3>1, <3>2, <3>3, <3>4, <2>4 DEF PageGood
    <2>9. OkSaid' = OkSaid
      BY <2>5 DEF OkSaid
    <2> QED
      BY <2>3, <2>4, <2>5, <2>6, <2>8, <2>9 DEF CoverInv
  <1>15. CASE ImportError
    <2>1. OkSaid' => OkSaid
      <3> DEFINE x == [who |-> "handler", id |-> spawned, err |-> "import failed"]
      <3>1. x.err # "ok" /\ failing' \subseteq failing \cup {x}
        BY <1>15 DEF ImportError, Fail
      <3> QED
        BY <1>15, <3>1, <1>e DEF ImportError
    <2>2. /\ UNCHANGED <<tables, callerVars, requests, responses, syncTime, offset>>
          /\ handler # "idle" /\ handler' = "idle" /\ page' = NoPage
      BY <1>15 DEF ImportError
    <2> QED
      BY <2>1, <2>2, <1>a, <1>b, <1>c DEF CoverInv
  <1>16. CASE ImportEnd
    <2>1. OkSaid' => OkSaid
      BY <1>16 DEF ImportEnd, OkSaid
    <2>2. /\ UNCHANGED <<tables, callerVars, requests, responses, syncTime, page>>
          /\ handler = "import" /\ page.rows = {}
          /\ \/ page.more /\ offset' = page.next /\ handler' = "more"
             \/ ~page.more /\ offset' = offset /\ handler' = "latest"
      BY <1>16 DEF ImportEnd
    <2>3. cut = 0 => Covers(base, peer, Here, page.next) /\ (~page.more => base \subseteq Here)
      <3>1. Here \cup {q.key : q \in page.rows} = Here
        BY <2>2
      <3> QED
        BY <2>2, <3>1 DEF CoverInv, PageGood
    <2> QED
      BY <2>1, <2>2, <2>3, <1>a, <1>b DEF CoverInv
  <1>17. CASE NextPage
    <2>1. OkSaid' => OkSaid
      <3> DEFINE x == [who |-> "handler", id |-> spawned, err |-> "exceeded max pages"]
      <3>1. x.err # "ok" /\ failing' \subseteq failing \cup {x}
        BY <1>17 DEF NextPage, Fail
      <3> QED
        BY <1>17, <3>1, <1>e DEF NextPage
    <2>2. /\ UNCHANGED <<tables, callerVars, requests, responses, syncTime, offset>>
          /\ handler # "idle" /\ handler' = "idle" /\ page' = NoPage
      BY <1>17 DEF NextPage
    <2> QED
      BY <2>1, <2>2, <1>a, <1>b, <1>c DEF CoverInv
  <1>18. CASE ReadLatest
    <2>1. OkSaid' => OkSaid
      BY <1>18 DEF ReadLatest, OkSaid
    <2>2. /\ UNCHANGED <<tables, callerVars, requests, responses, syncTime, offset>>
          /\ handler = "latest" /\ handler' = "finish"
      BY <1>18 DEF ReadLatest
    <2>3. page'.rows = {}
      BY <1>18 DEF ReadLatest, NoPage
    <2> QED
      BY <2>1, <2>2, <2>3, <1>a, <1>b DEF CoverInv
  <1>19. CASE Finish
    <2>1. /\ UNCHANGED <<tables, callerVars, requests, responses, offset>>
          /\ handler = "finish" /\ handler' = "idle" /\ page' = NoPage
      BY <1>19 DEF Finish
    <2>2. cut = 0 => base \subseteq Here
      BY <2>1 DEF CoverInv
    <2> QED
      BY <2>1, <2>2, <1>a, <1>b, <1>c DEF CoverInv
  <1>20. ASSUME NEW k \in Key, SaveLocal(k) PROVE CoverInv'
    <2>1. OkSaid' => OkSaid
      BY <1>20 DEF SaveLocal, OkSaid
    <2>2. Here \subseteq Here' /\ Rows(peer)' = Rows(peer)
      BY <1>20 DEF SaveLocal, Here, Rows, TypeOK
    <2> QED
      BY <1>20, <2>1, <2>2, CoverGrows DEF SaveLocal
  <1>21. ASSUME NEW k \in Key, SavePeer(k) PROVE CoverInv'
    <2>1. OkSaid' => OkSaid
      BY <1>21 DEF SavePeer, OkSaid
    <2>2. Here' = Here /\ Rows(peer) \subseteq Rows(peer)'
      BY <1>21 DEF SavePeer, Here, Rows, TypeOK
    <2> QED
      BY <1>21, <2>1, <2>2, CoverGrows DEF SavePeer
  <1>d. ASSUME UNCHANGED <<callerVars, requests, handleVars>>, cut' # 0
        PROVE  CoverInv'
    BY <1>d DEF CoverInv
  <1>22. ASSUME NEW c \in Key, CleanPeer(c) PROVE CoverInv'
    BY <1>22, <1>d DEF CleanPeer, Key
  <1>23. ASSUME NEW c \in Key, CleanLocal(c) PROVE CoverInv'
    BY <1>23, <1>d DEF CleanLocal, Key
  <1>24. CASE UNCHANGED vars
    <2>1. OkSaid' => OkSaid
      BY <1>24 DEF vars, OkSaid
    <2> QED
      BY <1>24, <2>1, <1>a, CoverGrows DEF vars
  <1> QED
    BY <1>1, <1>2, <1>3, <1>4, <1>5, <1>6, <1>7, <1>8, <1>9, <1>10, <1>11, <1>12, <1>13,
       <1>14, <1>15, <1>16, <1>17, <1>18, <1>19, <1>20, <1>21, <1>22, <1>23, <1>24 DEF Next

\* The inductive invariant holds of every behaviour.
LEMMA CoverAlways == Spec => []CoverInv
  BY FlightAlways, InitCover, NextCover, PTL DEF Spec

\* A sync that returns nil has every record that the peer had when it began, if
\* none expired, except those that an import dropped because their ID was taken:
\* page by page, while both sides insert records.
THEOREM SyncIsComplete == Spec => []Complete
  <1>1. CoverInv => Complete
    BY DEF CoverInv, Complete, OkSaid, Here
  <1> QED
    BY <1>1, CoverAlways, PTL

\* The sync time is not set before they are here, with the same exception, by
\* whichever handler, also one that goes on after the caller has returned an
\* error.
THEOREM SyncTimeIsEarned == Spec => []SyncTimeEarned
  <1>1. CoverInv => SyncTimeEarned
    BY DEF CoverInv, SyncTimeEarned, Here
  <1> QED
    BY <1>1, CoverAlways, PTL
=============================================================================
