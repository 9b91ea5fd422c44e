# GogGrid: TLA+ models, model checking and proofs

GogGrid is a decentralised cluster monitor. Every process samples its host, keeps a
map of the latest state of every node, replicates its own state to the others through
hashicorp/memberlist, stores history in SQLite, and serves the map over REST and
WebSocket. This directory models the parts of it that keep state across goroutines,
processes and restarts. Paths below are relative to `src/`.

## 1. Inventory

| Component | State | Operations | Interacts with |
|---|---|---|---|
| Vector clock, `pkg/models/models.go` | map node id -> int64 | Increment, Compare, Merge | used by conflict resolution and by the publish loop |
| State manager, `pkg/state/state.go` | map node id -> NodeState, subscriber channels, history sync time, all under one RWMutex | UpdateLocalNode, MergeNodeState (resolveConflict), MarkNodeInactive, RemoveNode, Subscribe, Unsubscribe, broadcast, recordEvent | written by the publish loop and by memberlist callbacks, read by the API, feeds the WebSocket hub and storage |
| Gossip, `pkg/gossip/gossip.go` | memberlist, broadcast queue, pending history syncs under syncMu | Start, Stop, BroadcastLocalState, antiEntropyLoop, delegate and event callbacks, handleMessage | peers through messages, state manager, storage |
| History sync, `pkg/gossip/gossip.go` | pendingSync (offset, done channel), sync time | SyncHistoryOnJoin, sendHistoryPullRequest, handleHistoryPullRequest, handleHistoryPullResponse, failPendingSync | one peer, the tables of both |
| Storage, `pkg/storage/storage.go` | tables node_states and history_records, one connection | save, page, import, clean | publish loop, recordEvent, history sync, REST |
| Publish loop, `cmd/GogGrid/main.go` | the sample being published | monitorLoop, collectAndPublish, cleanupLoop | state manager, gossip, storage |
| Discovery, `pkg/gossip/discovery*.go` | seenAddrs with a cooldown | Start, announce, listen, tryJoin, Stop | memberlist.Join; seeds are joined by gossip itself |
| WebSocket hub, `pkg/api/websocket.go`, `api.go` | clients, broadcast/register/unregister channels, one send channel and two goroutines per client | Run, Stop, handleWebSocket, readPump, writePump | a subscription of the state manager |
| REST API, `pkg/api/api.go` | the HTTP server, its connections | Start, Stop, middleware, read-only handlers | state manager, storage |
| Process, `cmd/GogGrid/main.go` | where main is, the context, what it has started | start, signal, graceful shutdown | starts and stops everything else, in one order |
| Configuration, `pkg/config/config.go` | the configuration, built once | DefaultConfig, GenerateDefault, LoadConfigFile, ApplyEnv, ParseFlags, Validate | everything reads it |
| Monitor, `pkg/monitor/monitor.go` | the CPU figure the sampler cached | StartCPUSampler, GetHostMonitor | operating system, publish loop |
| Message encoding, `pkg/gossip/message.go` | none | msgpack | gossip |

What is hard in this code:

- **Replication.** The same node state reaches a process as a broadcast, in anti-entropy
  messages and in push/pull exchanges, of its subject and of third parties: repeated, late,
  reordered. memberlist may report a live node as gone. Correct means: an entry only moves
  to newer versions, it is always one its subject published, a mark of failure is not undone
  by an old copy, and the running processes agree in the end.
- **Restart.** The map is lost and SQLite does not hold the clock, so a node counts from 1
  again while peers still hold its old states.
- **The publish loop is not atomic.** It reads the own clock in one critical section and
  writes the own entry in another.
- **History sync.** One pull is spread over a caller with timer and context, a starter
  goroutine, a sender per page, and memberlist's callback. Each may end it. It pages by
  OFFSET through a table that changes meanwhile.
- **WebSocket hub.** Three bounded buffers in a row, of which the first drops events, the
  second blocks and the third disconnects; channels that may be closed by two parties; a
  non-blocking unregister.
- **History rows outside the lock.** A change of the map is recorded after the lock is
  released, under a key made of node, LastUpdated and type; a key that exists swallows it.
  The table keeps rows from before a restart and takes rows of peers.
- **Who joins whom.** Discovery compares cluster names, seeds are joined without, and
  memberlist passes on whole member lists. A discovery that cannot start is given up for good.
- **Start and end of a process.** Goroutines run before the fields they use are set, main
  waits for some of what it stops and not for the rest, and the store they share closes last.
- **Configuration.** Four layers with their own rules of what counts as given, and a
  `Validate` that main never calls.

## 2. Modules

| Module | Models | Checked by | Proved in |
|---|---|---|---|
| `VectorClock` | Increment, Compare, Merge | through `StateManager` | `VectorClockProofs` |
| `NodeStates` | a node state, resolveConflict, what MergeNodeState and MarkNodeInactive leave in the map, what SQLite gives back | through `StateManager`, `GossipCluster` | `StateManagerProofs`, `GossipClusterProofs` |
| `StateManager` | the map of one process under any calls, the history rows of its changes | `MCStateManager` | `StateManagerProofs` |
| `GossipCluster` | publish loops, maps, messages, membership, leave, crash and restart of several processes | `MCGossipCluster` | `GossipClusterProofs` |
| `NodeRegister` | abstract: what a process may know of a node | through `GossipCluster` | `NodeRegisterProofs` |
| `HistorySync` | one history pull between two processes and their history tables | itself | `HistorySyncProofs` |
| `WSHub` | from StateManager.broadcast to the WebSocket clients | itself | `WSHubProofs` |
| `EventStream` | abstract: the stream of changes a WebSocket client sees | through `WSHub` | `WSHubProofs` |
| `Discovery` | announcements, seenAddrs with its cooldown, join attempts of several clusters on one network | `MCDiscovery` | `DiscoveryProofs` |
| `Config` | the layers of the configuration, as operators | through `Process` | `ProcessProofs` |
| `Process` | one process from its configuration to its end: main, publish loop, CPU sampler, API server, handlers, store | `MCProcess` | `ProcessProofs` |

Operators named `X_Something` next to an operator `X` are variants of it that a plausible
bug would produce; each is there to show that a property notices it, and no specification
uses one.

### GossipCluster

`view[o][s]` is entry `s` of the `clusterState.Nodes` of process `o`; `NoState` says that
there is none. Each critical section of `StateManager.mu` is one step. `collectAndPublish`
is four: `Collect` (GetNode, then SQLite if there is no entry, Increment), `UpdateLocalNode`,
`BroadcastLocalState`, `SaveNodeState`; `pc[n]` says where n's loop is and `sample[n]` is the
`ns` it holds. Its trailing history record is `SaveLocal` of `HistorySync`. A failed
collection, or a failed encoding in BroadcastLocalState, leaves the state unchanged; a
failed SaveNodeState leaves the row as it was.

A ClusterSync message is merged entry by entry under separate lock acquisitions, so the
network holds entries `[from, to, ns]`. Its entries may be handled in any order (Go's map
iteration order is unspecified) and interleave with those of other messages. The network is
a set: an entry that is the same in two messages is in flight once, and can be sent again
after it was handled, which is how repetition arises. `queued[n]` is at most one state,
because `Invalidates` compares node ids and a process only queues its own.

`lastUpdated` stands for the whole sample: the metrics are written together with it and by
nothing else. The wall clock of a node moves forward from sample to sample, across restarts
too. A NodeState in flight is never nil.

`Crash` is a kill or a crash at any point. `Leave` is `list.Leave` in `GossipManager.Stop`:
memberlist tells the process of its own leave first, so its own entry is marked inactive; the
process goes on sending and merging, and its publish loop may even overwrite the mark, until
`Exit`. A process that has left is not in its own `members`.
`Stopping` and `MaxCrash` bound which processes stop and how often, `MaxPublish` the samples,
`MaxInFlight` the entries in flight.

### NodeRegister

What the replication promises without saying how: one register per process and node, holding
nothing or one version and a flag. A node publishes versions that are later in time than all
its earlier ones, a process learns any published version that is later (by number, then by
time) than the one it has, or suspects the node and keeps the version, and a process that
stops forgets everything. The mapping takes the entry `view[o][s]` to the register, its own
clock entry and LastUpdated to the version. There are no messages, queues, tables or members
in it: that none of them shows is the content of the refinement.

### StateManager

The operations of one `StateManager` in any order, on any set `Sample` of states that may
arrive, again and again. Clocks may have several keys and be concurrent, which
`GossipCluster` shows not to happen between GogGrid processes but the code is written for.
A callback that changed the map still has to insert its row when it has released the lock;
`recording` holds the rows of those callbacks, `table` those of `history_records`. An insert
adds its row, meets one with its key, or fails. The table outlives `Restart`, which loses the
map and the callbacks, and `RemoveNode`; a history sync adds rows of `PeerRow`, the cleanup
deletes the oldest. `own` is a history variable: those of the rows that are of a change of a
node since it became known, so that `NoChangeSwallowed` can say in whose favour a record may be
skipped. It may be skipped for a row from before a restart or of a peer: the same event, or one
of the same sample, has then been recorded before, and the code means it to be skipped or at
least does nothing against it. `Removable`, `MaxInFlight` and `MaxRows` bound the instance.
The one assumption on samples is that a LastUpdated is taken once (`SampleAssumption`).

### HistorySync

Two processes: the one that joins and the peer it pulls from. A record is its unique key
(node_id, timestamp, event_type); keys are numbered by timestamp, and a table gives each key
the primary key of its row or 0. Both tables keep receiving records, in any timestamp order
(records of other nodes carry their own timestamps), and cleanups. A critical section of
`syncMu` and each SQL statement are one step. `SendReliable` may fail with or without
delivery. `MaxKey`, `MaxCut` bound the records; `Limit` and `MaxPages` are the constants
500 and 100 of the code, scaled down. The model has one handler; `SingleFlight` is what
makes that enough. Keys are totally ordered where `ORDER BY timestamp` may have ties: rows of
one timestamp are taken to come in the same order in every query, as they do from one index of
SQLite, although SQL does not promise it.

### WSHub

`sub`, `bcast` and `send[c]` are the buffered channels. `Run` alternates between its select
and, for a message, one step per client, so that pumps move in between. The select of
`readPump`'s deferred function can find the hub not waiting in any state of it
(`GiveUpUnregister`). A connection is open, broken (a read failed: the peer is gone, or the
deadline or the read limit was hit; the writer goes on with what it has) or closed. A node state
that json.Marshal refuses would be skipped by the forwarding goroutine; no state that GogGrid
makes is one, so `ForwardTake` has no such branch, and `NoGap` says so. Events are numbered; numbers saturate at `MaxEvent`, so that the
stream never ends in a finite model, and the properties that need to tell events apart
exempt the last number.

### EventStream

What a WebSocket client is promised, without hub and channels: a change of the cluster state is
carried to everybody or lost for everybody, which is settled when it happens; a client joins at
some change up to now, and sees the changes after it in order, each only when it has seen all
before it that are not lost. The mapping takes `dropped` to what is lost and `since[c]`, once
the client is registered, to its start. A client that is disconnected because it is too slow
just sees nothing any more, so the refinement covers what is still in its channel then, of
which `NoGap` says nothing.

### Discovery

A node stands for its gossip address, `age[o][a]` for the time since `o` recorded `a` in
`seenAddrs` (`Never`: not in the map, or so old that the next `isNew` removes it). UDP and
mDNS differ in how an announcement arrives and feed the same `tryJoin` from one goroutine, so
one inbox per process stands for either. `Announce` reaches any set of processes, the sender
included. Between `isNew`, which records the address, and the end of `memberlist.Join` the
listener is busy (`joining[o]`), and the process may be stopped.

A process that starts joins its seeds, of which it reaches some, and compares no names; then
its discovery starts ("on") or not ("deaf": switched off, its port taken, no address to
announce, no mDNS server), and nobody tries again. `Outcome` says which of the two an address
can meet. memberlist exchanges whole lists in a join and in its periodic push/pull. `Realm[o]`
is what cluster names and seeds connect to `o`, directly or over others: the least set that
contains `o` and is closed under both. `OneCluster` says that nobody else ever is a member, and
that discovery joins its own cluster only. An address keeps its name and seeds: a process that
is started again under another name between the check of its announcement and the join is not
in the model.

`GossipCluster` assumes that joins are tried again and again; `Found` is that assumption
shown of the code that makes them, for processes whose discovery has started. Where it has not,
the assumption rests on seeds and on the other side's discovery.

### Config and Process

`Config` has the nineteen settings. What a layer says about one is a form (absent, usable, on,
off, zero, negative, malformed) and a text, the value itself. A loaded value is both and the
layer it comes from. `MergeTakes` and `OverrideTakes` are the tests of mergeConfig and of
ApplyEnv/ParseFlags and look at the form. `DefaultForm` and `DefaultText` are what
DefaultConfig sets. The template is two lists, as in the code: the keys of its lines
(`TemplateKeys`) and the fields given to Sprintf (`TemplateArgs`), and `GenerateDefault` is
what a line says when the two are put together by position; that they agree is what
`TemplateIsDefault` is about. Every combination of forms in file, environment and flags is
evaluated for each setting with the others unsaid; theorem `EveryInputValid` covers layers that
speak about all settings at once.

`Process` steps through main: `main` is where it is, from "load" to "exited", or "dead" for an
end without cleanup (a signal before `signal.Notify`, a nil queue read by a memberlist
goroutine that `Create` has already started, a ticker with an interval that is not positive).
`store` is "lost" when storage.New has failed after it had opened the database: main gets
nothing it could close, and exits. `stopCh` stays open when `list.Shutdown` fails, and then
callbacks go on to the end of the process.
Node states are reduced to the ids in memory and in `node_states`. `loop` and `sampler` are
the two goroutines of the monitor, `server` the goroutine of `apiSrv.Start`, `hub` the
WebSocket hub of which `WSHub` has the inside. A request is where its handler is; `owed`
remembers that the node it asks for had been listed by an earlier response. After `cancel`
the publish loop and the handlers go on until the process ends, with a store that may be
closed: the statement fails and is logged. Refused requests (401, 405, 404 for a path) are
answered at once and leave no state. `gossipMgr.Start` always returns nil, so the branch of
main that handles its error is not reached.

## 3. Runs

Passing runs:

| Run | Instance | Shows |
|---|---|---|
| `gossip_relay` | 3 processes, 2 samples of one of them, 1 crash or leave of the same one, a message is sent when no entry is in flight | `TypeOK`, `Provenance`, `ViewMonotone`, `NoStaleResurrection`. Three processes are what relaying needs: a third party that repeats an old state to one that has a newer one, or has marked its subject; its copy is also the delayed message. The entries of a sync are in flight together, and one sample before and one after the crash is the reuse of a clock value. |
| `gossip_converge` | 2 processes, 3 samples of one of them, 1 crash or leave of either, with fairness | `Convergence`, `SampleSpreads`, `ImplementsRegister`. One sample before and one after a restart is the tie of two equal clocks; two before and one after is a version below an earlier one, which peers refuse, and which overwrites a newer own state that came back. |
| `state_manager` | 2 nodes, 6 samples: ordered, concurrent and reused clocks, both statuses; at most 2 rows waiting to be inserted, 2 in the table, 2 that a peer may send, any restarts and cleanups | `TypeOK`, `CompareIsCausal`, `MergeIsJoin`, `ClockGrows`, `NoChangeSwallowed`. Two rows in flight are what the opposite order of two inserts needs; merges give entries clocks with two keys. |
| `history_sync` | 2 records, pages of 1, at most 3 pages, one of the records may expire, with fairness | `TypeOK`, `SingleFlight`, `DoneOnce`, `NotPendingAfterReturn`, `Complete`, `SyncTimeEarned`, `SyncEnds`. Two full pages and an empty last one, inserts before and after the page being read, and rows that come twice all occur. The page limit is out of reach of two records; it ends a pull as a failing import does, and `HistorySyncProofs` has every page limit. |
| `ws_hub` | 1 client, subscriber buffer 2, the others 1, 4 events, with fairness | `TypeOK`, `RegisteredIsOpen`, `InOrder`, `NoGap`, `ImplementsStream`, `DeadClientRemoved`, `ForwarderEnds`. The hub treats its clients one after the other and alike, so one client among any events is enough; for the safety properties `WSHubProofs` has any number. |
| `discovery` | 2 processes of one cluster, one of them the other's seed, and 1 of another, discovery that starts or fails everywhere, cooldown 1, with fairness | `TypeOK`, `OneCluster`, `Found`. `isNew` tells ages beyond the cooldown apart only to remove them from the map, so `Forget` need not be larger than the cooldown. |
| `process` | 2 node ids, one REST and one WebSocket request at a time, 6 inputs (nothing, the generated file, token and WebSocket on, API off with a zero interval, a file that does not parse, a negative interval), with fairness | `TypeOK`, `ConfigValid`, `Precedence`, `TemplateIsDefault`, `ExitClosesStore`, `StoreOutlivesRequests`, `ListedIsFound`, `ExitsAfterSignal`, `WSHandlerReleased`. The inputs are those main's control depends on; the three properties of the configuration range over all forms of each setting alone. A second request per kind would meet the first only through the state both read. |

`history_sync` and `process` do not check deadlock: a pull that has
returned, with no more records to save, and a process that has ended are the end of the story. The processes that take no samples are a
symmetry set in `gossip_relay`.

Runs in which the code does something else than a comment or doc says (TLC gives the trace):

| Run | Said | Done |
|---|---|---|
| `clock_recovery` | main.go:208, the clock is recovered from SQLite | the column is not stored (models.go:35); versions restart at 1 |
| `cpu_first_sample` | monitor.go:45, data is available on the very first GetHostMonitor() call | the sample is taken in a goroutine of its own; the first call may come before it, and CPU usage 0 is published |
| `clock_merge` | models.go:55 and README.md:225, clocks are merged on every received update and have several keys | a node's clock has its own key only (`ClocksStayScalar`) |
| `history_import` | storage.go:167, duplicates by key are skipped | records that are new are skipped too if their ID is taken |
| `history_pages` | storage.go:134, all records, with pagination | a cleanup between two pages makes one skip a record |

The consequences of `clock_recovery` are bounded, and that is what the passing properties say:
`SampleSpreads` and `Convergence` hold with a crash, also when the clock is behind, because the
old state comes back from a peer and the node continues from it, or LastUpdated decides between
equal clocks.
`SampleSpreads` is about a last sample that no published state beats; a sample with a
reused, smaller clock value may be refused, which is `clock_recovery`'s consequence.

### Fairness

- `GossipCluster`: the publish loop goes on (a ticker). `AntiEntropy(o, p)` is strongly fair:
  a random member is picked every SyncInterval, so each one that is a member again and again
  is picked again and again. `HandleFrom(o, p, s)` is strongly fair: a link over which
  messages are sent again and again delivers some. `Join` is strongly fair: discovery, where
  it has started, and memberlist's reconnects keep trying (`Found`). memberlist notices a
  process that is down (`NotifyLeave` of a stopped node is weakly fair). A process that leaves exits (weakly fair;
  `ExitsAfterSignal` shows it of main). Nothing makes a process stop or restart,
  a message get lost, or a live peer be suspected; all of these may happen for ever.
- `HistorySync`: goroutines run, statements end, the timer fires. Nothing is assumed of the
  peer or the network.
- `WSHub`: goroutines that can run do; events keep coming (the monitor loop publishes every
  few seconds); the hub's `stopCh` case is strongly fair because Go's select chooses
  uniformly among ready cases; a write to a closed connection fails. A client need not read.
- `Discovery`: time passes; a process whose discovery has started announces itself every
  interval and is heard now and then by each other one that listens (strong
  fairness per pair, over a medium that may lose any single datagram); the listener goes on; of the joins of a running process that are tried again and again some
  succeed. Nothing makes discovery start, a seed answer or lists be exchanged, and nothing is
  assumed of memberlist's suspicions, stops and restarts.
- `Process`: main goes on, since each of its waits has a timer (5s for Shutdown, 5s for Leave),
  and so does the hub's select. Nothing is assumed of handlers, whose client may be slow, of
  signals, or of the monitor.

## 4. Proofs

`tlapm` checks eight modules, for any set of nodes and any value of the bounds. Every
invariant and action property of a passing run is the statement of a theorem.

`VectorClockProofs`: `CompareDecidesOrder` (Compare is 1 or -1 exactly on strictly ordered
clocks; the two flags of its loops are the negations of the two directions of the order) and
`MergeIsLeastUpperBound`.

`GossipClusterProofs`: the inductive invariant is `TypeSets /\ ScalarClocks /\ Provenance`.

- `Provenance` is not inductive alone. MergeNodeState merges the loser's clock into the
  winner, so a state could come to have a clock it was not published with. It does not,
  because every clock about `s` has the single key `s` (`ScalarClocks`): then the two clocks
  are ordered like numbers, the winner's is the larger or an equal one, and the merge leaves
  it as it is. This is lemma `MergedPicks`, from `SingleKey` and `RemoteWinsNewer`.
- `ScalarClocks` needs `Provenance` for the own entry, which a peer's message may have
  written, since `Collect` continues its clock; and it needs that what SQLite gives back has
  no keys.
- `ScalarClocks` is a part of the invariant and not a property of a run: it is what the code
  does and the opposite of what the repository says (`clock_merge`), and the proof needs it.
- `ClocksStayScalar`, `StatesArePublished`, `TypeCorrect` follow. `TypeSets` and the
  invariant `TypeOK` that TLC evaluates are shown equivalent (`TypeSetsChar`).
- `ViewsMoveForward` and `ResurrectionIsFresh` follow from the invariant and a lemma on what
  any step can do to an entry about another node (`EntryStep`).

`NodeRegisterProofs`: `ClusterImplementsRegister`, the refinement. The invariant above is
enough for what a process learns (`MergedEntry`: a merge leaves the entry or takes a published,
newer state) but not for what a node publishes: that a version is later than all earlier ones
needs `FreshSample`, which relates the sample a publish loop holds to the wall clock and to
everything published before. Then each action maps to one action of the registers or to a
stutter: `UpdateLocalNode` to Publish, `Handle` to Learn or nothing, `NotifyLeave` and `Leave`
to Suspect, `Crash` and `Exit` to Stop, `Restart` to Start, everything else to nothing.

`StateManagerProofs`: `StateTypeCorrect`, `EntriesCompareCausally`, `EntriesMergeToJoin`,
`EntriesForgetNothing` and `ChangesAreRecorded`. The last needs a stronger invariant: a row
whose key is taken must belong to a sample the entry has absorbed. So every entry about
another node carries the LastUpdated of one sample and a clock above that sample's, and every
row of `own` stands for a sample whose clock the entry's clock covers,
and which is no later when the clocks are equal; a `node_leave` key with the entry's own
LastUpdated means that the entry is inactive. This is `SInv`. Of the other rows of the table
nothing is known, so restarts, imports and cleanups only have to be shown to add none to `own`. The step that needs it:
a sample that was absorbed cannot win again except with an equal clock and a later LastUpdated
(`WinsByTime`), which is a different key.

`DiscoveryProofs`: `ClustersStayApart`, `NamedClustersStayApart` and `DiscoveryTypeCorrect`, by
the invariant `TypeOK /\ OneCluster`. `OneCluster` includes the target of a join under way,
because the lists are merged later than the names are compared. Lists are exchanged between any
two processes of which one knows the other, so the argument is that realms are a partition: a
realm is the least closed set (`RealmLeast`), links are symmetric (`LinkedSymmetric`), and so two
processes, one of which is in the realm of the other, have the same realm (`RealmShared`); then a
union of two lists stays within it (`ExchangeInv`). `NamedClustersStayApart` adds that without
seeds into other clusters a realm is a cluster (`RealmIsCluster`).

`HistorySyncProofs`: `HistoryTypeCorrect`, and two invariants.

- `FlightInv`, for `OneCarrier`, `OneOutcome` and `ReturnUnregisters`. `SingleFlight` and
  `DoneOnce` count carriers and outcomes, and neither is inductive: a second `Start` would add
  one. So nothing of a pull exists before its caller has begun (`Untouched`), a request that is
  pending has a caller that waits, and a sync time has ended the pull. The counts are
  cardinalities; each step takes one carrier away and adds at most one (`SetSizes`,
  `GrownSize`).
- `CoverInv`, for `SyncIsComplete` and `SyncTimeIsEarned`. A page is a window on a table that
  grows between two windows. What the pull knows at offset n is that every record the peer had
  at the beginning, and whose rank in the peer's table is below n, is here or in the page on
  its way (`Covers`, `PageGood`). The rank of a record only grows when records are inserted
  (`RankGrows`), so what was below n and is covered stays covered (`CoversKept`); a page from n
  is the records with the next `Limit` ranks (`PageFromStart`) and never larger (`PageBound`),
  so it covers up to n plus its size, and a page that is not full is the last (`PageLast`). An expired record makes ranks smaller, which is why the theorem has `cut = 0`
  and `history_pages` has a counterexample. The invariant holds in every state, so also for a
  handler that goes on after the caller has timed out. What the import drops because its ID is
  taken is in `collided` and counts as covered: both theorems except it.

`WSHubProofs`: four invariants, each of which needs the ones before.

- `HubInv`, for `NoSendOnClosed` (and `HubTypeCorrect` beside it): what is still to be served
  is registered and not stale, stale clients exist only while a message is handed out, and a
  client that is not registered has an open and empty channel.
- `OrderInv`, for `DeliveredInOrder`. `InOrder` speaks of one long sequence, and of registered
  clients only. The invariant speaks of each place (written, send channel, waiting for this
  delivery, `bcast`, held, `sub`) and of every client: each place is sorted and comes before
  the next, nothing is newer than `seq`, and nothing on its way is older than what the hub took
  last. `SortedConcat` puts the places together again.
- `GapInv`, for `NoSilentSkip`. The hub may take an event beyond the next one only if those
  between were dropped by the subscriber channel; so every event that the hub has not taken
  is accounted for: dropped, on its way, or thrown away by a forwarding goroutine that has
  ended, and then nothing behind it will come through. `OrderInv` is what excludes that an
  event is on its way behind a later one.
- `StreamInv`, for `HubImplementsStream`. `GapInv` ends with the registration of a client, the
  stream with the last message its writer takes out of the channel. So every message in a
  channel has all before it in the channel, written or dropped (`Gapless`), which `Deliver`
  gets from `GapInv`; a dropped event is on nobody's way (`Carried`), because it is newer than
  all that are; and nothing on the way is as old as what the hub took last, so a client that
  registers starts there. `Broadcast` maps to Change, `Register` to Join, `WriteMessage` to
  See, everything else to a stutter.

`ProcessProofs`: first the configuration, which takes no invariant. `LoadedIs` says that a
setting is what the highest layer says that its check takes; `LayersOverride`, `LoadsValid` and
`EveryInputValid` follow by cases on the kind of the setting, `TemplateNeutral` from
`PrintedIsKey` (the field on a line is the one its key is read into) and `DefaultIsForm`. `EveryInputValid` is more than the run shows: the layers say anything of
all settings at once. Then the process:

- `StoreInv` follows main to its ends, for `NoOpenStoreAtExit`, which is about the store that
  main was given and not the one a failing storage.New loses; `ValidInv` keeps what was
  loaded valid until the end (`RunsWithValidConfig`).
- `DrainInv`, for `NoRequestAfterDrain`: a server that is shut down never accepts again, even
  if its goroutine reaches ListenAndServe only then, and a handler that is not running does not
  begin without it.
- `FindInv`, for `ListedStaysFound`: what has been listed is in memory, from which nothing is
  removed, so a request that is owed an answer does not reach the store.

The assumptions are `SampleAssumption` for the state manager, `NoStateAssumption` (the value for "no entry" is not a node state) and
`BoundsAssumption` (the bounds are numbers; the theorems do not use them otherwise), and for
discovery `DiscoveryAssumption` (cooldown and clean-up age are numbers, seeds are addresses, no
address is the value for "no address"); `SyncAssumption` and `BufferAssumption` (page size, page limit and
capacities are positive, the bounds are numbers); and `ProcessAssumption` (each layer says of
a setting one of the forms that can be written for it, and the own host name is a node id).

Only model-checked: `Convergence`, `SampleSpreads`, `SyncEnds`, `DeadClientRemoved`,
`ForwarderEnds`, `Found`, `ExitsAfterSignal` and `WSHandlerReleased`: liveness under fairness
is out of the prover's reach.

## 5. Not modelled

- memberlist itself: it is what the actions `Send`, `Lose`, `NotifyLeave`, `Leave` and `Join`
  allow. What it does with a join that discovery begins after `Leave` is not in a model.
- msgpack encoding (`pkg/gossip/message.go`): a library's round trip of plain records; a
  message that does not decode is a lost one.
- The figures of the monitor other than CPU: operating system calls that succeed or fail.
- The time range of `GetNodeHistory`, JSON, headers and log output.
- `DeleteNodeState` and `GetAllNodeStates`: no caller. (`RemoveNode` and `Validate` have none
  outside tests either and are modelled.)
- A process that is started again under another cluster name, ties between timestamps that a
  query orders differently from the one before, a node state that cannot be encoded.
- A wall clock that is set back, and more than one sync at a time (main starts one).

Notes for a reader of the code that no run is about:

- With `--bind 0.0.0.0:7947`, as README.md:92 has it for auto-discovery, memberlist holds the
  default port of UDP discovery (config.go:108); discovery fails to listen, and gossip.go:118-121
  gives it up for good. This is "deaf" in `Discovery`, and why `Found` excludes it.
- A node that is reported gone twice without a new sample in between gets two `node_leave`
  records with one key, and the second is skipped (state.go:191, storage.go:52). The entry was
  inactive already, so `NoChangeSwallowed` does not speak of it.
- The sync time is set after the last import also if the caller has timed out meanwhile
  (gossip.go:427), so it is not only the time of a successful sync (state.go:83).

Also: the history row that collectAndPublish
saves carries a second `time.Now()` (main.go:240), so it never shares a key with the row a
peer records of the same sample; after `cancel`, the loops main calls stopped may still use
the closed store (main.go:151); a state handled after NotifyLeave, if newer, shows a stopped
node as active until memberlist reports it again.

## 6. Plan

Done: replication, restart and leave with their theorems; the state manager alone with its
history rows, proved; the abstract registers and the refinement, proved; history sync, proved;
WebSocket hub, proved to implement the event stream; discovery, proved; process and
configuration, proved.

Left: a variant of `GossipCluster` with a wall clock that is set back across a restart.
