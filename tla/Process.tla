------------------------------- MODULE Process -------------------------------
(***************************************************************************)
(* One process from start to exit: main and its loops (cmd/GogGrid),       *)
(* Start and Stop of the gossip manager, the CPU sampler and its cache     *)
(* (pkg/monitor), the REST handlers (pkg/api/api.go) and the store they    *)
(* all share, which main closes last.                                      *)
(*                                                                         *)
(* The data is reduced to node ids: which are in memory and which have a   *)
(* row in node_states.  What the parts do with states, records and events  *)
(* is in the other modules; cleanupLoop only acts on the history table,    *)
(* and is HistorySync!CleanLocal.                                          *)
(***************************************************************************)
EXTENDS Config

CONSTANTS
  Input,     \* what the file, the environment and the flags may say
  Node,      \* node ids
  Local,     \* the host name
  Request,   \* bound: HTTP requests being served at a time
  WSRequest  \* those of them that are for /ws

ASSUME ProcessAssumption ==
  /\ \A in \in Input : \A s \in Setting : {in.file[s].form, in.env[s].form, in.flags[s].form} \subseteq Forms(s)
  /\ Local \in Node
  /\ WSRequest \subseteq Request

VARIABLES
  main,        \* where main is
  cfg,         \* the form of each setting that was loaded
  cancelled,   \* ctx.Done is closed
  store,       \* the database: "none", "open", "closed", or "lost" by storage.New
  queue,       \* gm.broadcast has been assigned
  stopCh,      \* gm.stopCh is closed
  known,       \* the ids in clusterState.Nodes
  saved,       \* the ids in node_states
  sampler,     \* the CPU sampler: before its first sample, or what is in the cache
  loop,        \* monitorLoop
  firstRead,   \* history: when the first GetHostMonitor read the cache
  server,      \* the goroutine of apiSrv.Start
  hub,         \* the WebSocket hub
  hubStop,     \* its stopCh is closed
  drained,     \* history: Shutdown returned nil
  req,         \* the requests
  listed       \* history: the ids some response has listed

coreVars == <<cfg, store>>
gossipVars == <<queue, stopCh>>
nodeVars == <<known, saved>>
loopVars == <<sampler, loop, firstRead>>
httpVars == <<server, hub, hubStop, drained, req, listed>>
vars == <<main, cancelled, gossipVars, coreVars, nodeVars, loopVars, httpVars>>

On(s) == cfg[s] = "on"

FormsOf(c) == [s \in Setting |-> c[s].form]

Idle == [at |-> "idle", id |-> Local, owed |-> FALSE]

Init ==
  /\ main = "load" /\ cfg = FormsOf(DefaultConfig) /\ cancelled = FALSE
  /\ store = "none" /\ queue = FALSE /\ stopCh = FALSE
  /\ known = {} /\ saved \in SUBSET {Local}
  /\ sampler = "none" /\ loop = "none"
  /\ firstRead = "none"
  /\ server = "none" /\ hub = "none" /\ hubStop = FALSE /\ drained = FALSE
  /\ req = [q \in Request |-> Idle] /\ listed = {}

Gone == {"exited", "dead"}

Alive == main \notin Gone

-----------------------------------------------------------------------------
(***************************************************************************)
(* main, up to "GogGrid ready".                                            *)
(***************************************************************************)
LoadConfig(in) ==
  /\ main = "load"
  /\ IF ParseError(in.file)
     THEN main' = "exited" /\ UNCHANGED cfg
     ELSE main' = "storage" /\ cfg' = FormsOf(Loaded(in.file, in.env, in.flags))
  /\ UNCHANGED <<cancelled, gossipVars, store, nodeVars, loopVars, httpVars>>

\* storage.New opens the database, migrates, sets two pragmas and replaces
\* an index.  When gorm.Open fails there is nothing to close; after an error
\* of a later statement New returns no Storage, the connection it has opened
\* is lost with it, and main exits.
OpenStore ==
  /\ main = "storage"
  /\ \/ main' = "new" /\ store' = "open"
     \/ main' = "exited" /\ store' \in {"none", "lost"}
  /\ UNCHANGED <<cancelled, gossipVars, cfg, nodeVars, loopVars, httpVars>>

\* memberlist.Create starts its goroutines before it returns
CreateBegins ==
  /\ main = "new"
  /\ main' = "creating"
  /\ UNCHANGED <<cancelled, gossipVars, coreVars, nodeVars, loopVars, httpVars>>

\* Mutant: main exits as it does when the storage fails.
CreateFails_NoClose ==
  /\ main = "creating"
  /\ main' = "exited"
  /\ UNCHANGED <<cancelled, gossipVars, coreVars, nodeVars, loopVars, httpVars>>

CreateFails ==
  /\ main = "creating"
  /\ main' = "return"
  /\ store' = "closed"
  /\ UNCHANGED <<cancelled, gossipVars, cfg, nodeVars, loopVars, httpVars>>

CreateEnds ==
  /\ main = "creating"
  /\ main' = "start"
  /\ queue' = TRUE
  /\ UNCHANGED <<cancelled, stopCh, coreVars, nodeVars, loopVars, httpVars>>

\* Start joins the seeds and starts discovery and the anti-entropy loop; a
\* failure of either is logged, and it returns nil
GossipStart ==
  /\ main = "start"
  /\ main' = "api"
  /\ UNCHANGED <<cancelled, gossipVars, coreVars, nodeVars, loopVars, httpVars>>

StartAPI ==
  /\ main = "api"
  /\ main' = "loops"
  /\ server' = IF On("api.enabled") THEN "starting" ELSE "none"
  /\ UNCHANGED <<cancelled, gossipVars, coreVars, nodeVars, loopVars,
                 hub, hubStop, drained, req, listed>>

StartLoops ==
  /\ main = "loops"
  /\ main' = "ready"
  /\ sampler' = "first" /\ loop' = "collect"
  /\ UNCHANGED <<cancelled, gossipVars, coreVars, nodeVars, firstRead, httpVars>>

(***************************************************************************)
(* The process dies without cleaning up.                                   *)
(***************************************************************************)
Die ==
  /\ main' = "dead"
  /\ UNCHANGED <<cancelled, gossipVars, coreVars, nodeVars, loopVars, httpVars>>

\* a signal before signal.Notify
KilledEarly == main \in {"load", "storage", "new", "creating", "start", "api", "loops"} /\ Die

\* GetBroadcasts is called while gm.broadcast is nil
NilQueue == main = "creating" /\ ~queue /\ Die

BadInterval(s) == cfg[s] \in {"zero", "negative"}

Gossiping == {"api", "loops", "ready", "hubstop", "shutdown", "draining", "leave"}

\* time.NewTicker panics, in the anti-entropy loop, in UDP discovery, in the
\* CPU sampler or in monitorLoop
TickerPanics ==
  /\ \/ main \in Gossiping /\ BadInterval("gossip.sync_interval")
     \/ main \in Gossiping /\ On("discovery.enabled") /\ BadInterval("discovery.interval")
     \/ Alive /\ loop # "none" /\ BadInterval("monitor.interval")
  /\ Die

-----------------------------------------------------------------------------
(***************************************************************************)
(* main, from the signal to its end.                                       *)
(***************************************************************************)
Signal ==
  /\ main = "ready"
  /\ main' = IF On("api.enabled") THEN "hubstop" ELSE "leave"
  /\ cancelled' = TRUE
  /\ UNCHANGED <<gossipVars, coreVars, nodeVars, loopVars, httpVars>>

\* APIServer.Stop: the hub first, then http.Server.Shutdown
StopHub ==
  /\ main = "hubstop"
  /\ main' = "shutdown"
  /\ hubStop' = On("api.ws.enabled")
  /\ UNCHANGED <<cancelled, gossipVars, coreVars, nodeVars, loopVars,
                 server, hub, drained, req, listed>>

\* the listener is closed; a server that has not begun to listen never will
Shutdown ==
  /\ main = "shutdown"
  /\ main' = "draining"
  /\ server' = "shut"
  /\ UNCHANGED <<cancelled, gossipVars, coreVars, nodeVars, loopVars,
                 hub, hubStop, drained, req, listed>>

\* the handler runs on a connection that Shutdown waits for; a connection
\* that has been upgraded is hijacked and is not
Serving(q) == req[q].at \in {"answer", "list", "memory", "store", "missing", "upgrade"}

\* Mutant: Close instead of Shutdown, which waits for no handler.
Drained_NoWait ==
  /\ main = "draining"
  /\ main' = "leave"
  /\ drained' = TRUE
  /\ UNCHANGED <<cancelled, gossipVars, coreVars, nodeVars, loopVars,
                 server, hub, hubStop, req, listed>>

Drained ==
  /\ main = "draining"
  /\ \A q \in Request : ~Serving(q)
  /\ main' = "leave"
  /\ drained' = TRUE
  /\ UNCHANGED <<cancelled, gossipVars, coreVars, nodeVars, loopVars,
                 server, hub, hubStop, req, listed>>

\* Mutant: Shutdown gets a context without a deadline.
DrainTimeout_NoDeadline ==
  /\ FALSE
  /\ UNCHANGED vars

\* the context given to Shutdown ends after 5s
DrainTimeout ==
  /\ main = "draining"
  /\ main' = "leave"
  /\ UNCHANGED <<cancelled, gossipVars, coreVars, nodeVars, loopVars, httpVars>>

\* GossipManager.Stop: discovery, Leave with its own 5s, Shutdown.  When
\* Shutdown fails Stop returns its error before it closes stopCh; main logs
\* it and goes on.
StopGossip ==
  /\ main = "leave"
  /\ main' = "close"
  /\ stopCh' \in BOOLEAN
  /\ UNCHANGED <<cancelled, queue, coreVars, nodeVars, loopVars, httpVars>>

CloseStore ==
  /\ main = "close"
  /\ main' = "return"
  /\ store' = "closed"
  /\ UNCHANGED <<cancelled, gossipVars, cfg, nodeVars, loopVars, httpVars>>

\* os.Exit, or main returns: the other goroutines end with the process
Exit ==
  /\ main = "return"
  /\ main' = "exited"
  /\ UNCHANGED <<cancelled, gossipVars, coreVars, nodeVars, loopVars, httpVars>>

-----------------------------------------------------------------------------
(***************************************************************************)
(* Gossip callbacks, the CPU sampler and monitorLoop.                      *)
(***************************************************************************)

\* MergeNodeState of a node's first state.  Shutdown does not wait for the
\* callbacks, and when it fails memberlist goes on to the end.
Learn(n) ==
  /\ \/ main \in Gossiping \cup {"creating", "start", "close"}
     \/ main = "return" /\ queue /\ ~stopCh
  /\ known' = known \cup {n}
  /\ UNCHANGED <<main, cancelled, gossipVars, coreVars, saved, loopVars, httpVars>>

\* cpu.Percent, at the start or at a tick; an error leaves the cache alone.
\* The sampler returns on ctx.Done and leaves the cache as it is.
SampleCPU ==
  /\ Alive /\ sampler # "none" /\ ~BadInterval("monitor.interval")
  /\ sampler' \in {"filled", IF sampler = "filled" THEN "filled" ELSE "empty"}
  /\ UNCHANGED <<main, cancelled, gossipVars, coreVars, nodeVars, loop, firstRead, httpVars>>

\* GetHostMonitor reads the cache; then some other metric may fail
Collect ==
  /\ Alive /\ loop = "collect" /\ ~BadInterval("monitor.interval")
  /\ loop' \in {"update", "wait"}
  /\ firstRead' = IF firstRead # "none" THEN firstRead
                  ELSE IF sampler = "first" THEN "early" ELSE "sampled"
  /\ UNCHANGED <<main, cancelled, gossipVars, coreVars, nodeVars, sampler, httpVars>>

\* Mutant: the host name's error is ignored, and the id stays empty.
UpdateLocalNode_NoName ==
  /\ Alive /\ loop = "update"
  /\ loop' = "save"
  /\ known' \in {known \cup {Local}, known \cup {""}}
  /\ UNCHANGED <<main, cancelled, gossipVars, coreVars, saved, sampler,
                 firstRead, httpVars>>

\* UpdateLocalNode, then BroadcastLocalState
UpdateLocalNode ==
  /\ Alive /\ loop = "update"
  /\ loop' = "save"
  /\ known' = known \cup {Local}
  /\ UNCHANGED <<main, cancelled, gossipVars, coreVars, saved, sampler,
                 firstRead, httpVars>>

\* each of the two statements may fail, and does when the store is closed
SaveNodeState ==
  /\ Alive /\ loop = "save"
  /\ loop' = "record"
  /\ saved' \in {saved, IF store = "open" THEN saved \cup {Local} ELSE saved}
  /\ UNCHANGED <<main, cancelled, gossipVars, coreVars, known, sampler,
                 firstRead, httpVars>>

SaveHistoryRecord ==
  /\ Alive /\ loop = "record"
  /\ loop' = "wait"
  /\ UNCHANGED <<main, cancelled, gossipVars, coreVars, known, saved, sampler,
                 firstRead, httpVars>>

\* the select: a tick may win although ctx.Done is closed
MonitorSelect ==
  /\ Alive /\ loop = "wait"
  /\ loop' \in {"collect"} \cup (IF cancelled THEN {"done"} ELSE {})
  /\ UNCHANGED <<main, cancelled, gossipVars, coreVars, nodeVars, sampler, firstRead, httpVars>>

-----------------------------------------------------------------------------
(***************************************************************************)
(* The API server, the hub and the handlers.                               *)
(***************************************************************************)
procVars == <<main, cancelled, gossipVars, coreVars, nodeVars, loopVars>>

\* Start: the hub's goroutine, then ListenAndServe, which fails when the
\* address is taken and the server is shutting down
Serve ==
  /\ Alive /\ server \in {"starting", "shut"} /\ hub = "none"
  /\ hub' = IF On("api.ws.enabled") THEN "running" ELSE "off"
  /\ server' \in IF server = "starting" THEN {"serving", "failed"} ELSE {server}
  /\ UNCHANGED <<procVars, hubStop, drained, req, listed>>

HubEnds ==
  /\ Alive /\ hub = "running" /\ hubStop
  /\ hub' = "stopped"
  /\ UNCHANGED <<procVars, server, hubStop, drained, req, listed>>

Paths == {"health", "nodes", "detail", "history", "ws"}

(***************************************************************************)
(* The middleware lets the request through: the token matches where one is *)
(* needed, and the method is GET.  handleWebSocket checks the token again. *)
(***************************************************************************)
Admitted(path, bearer, get) ==
  /\ cfg["api.token"] = "zero" \/ path = "health" \/ bearer
  /\ get

\* where the handler of a path begins; /ws only exists with the hub
HandlerOf(path) ==
  CASE path \in {"health", "history"} -> "answer"
    [] path = "nodes" -> "list"
    [] path = "detail" -> "memory"
    [] path = "ws" -> IF On("api.ws.enabled") THEN "upgrade" ELSE "idle"

\* 401, 200 to OPTIONS, 405 and 404 are answered at once
Accept(q, path, id, bearer, get) ==
  /\ Alive /\ server = "serving" /\ req[q].at = "idle"
  /\ Admitted(path, bearer, get) /\ HandlerOf(path) # "idle"
  /\ path = "ws" <=> q \in WSRequest
  /\ path # "detail" => id = Local      \* the id only matters to this handler
  /\ req' = [req EXCEPT ![q] =
               [at |-> HandlerOf(path), id |-> id, owed |-> path = "detail" /\ id \in listed]]
  /\ UNCHANGED <<procVars, server, hub, hubStop, drained, listed>>

\* handleNodes, handleCluster: GetClusterState, then the response
ListNodes(q) ==
  /\ Alive /\ req[q].at = "list"
  /\ listed' = listed \cup known
  /\ req' = [req EXCEPT ![q] = Idle]
  /\ UNCHANGED <<procVars, server, hub, hubStop, drained>>

\* Mutant: the detail of a node is read from the database only.
NodeInMemory_NotAsked(id) == FALSE

\* GetNode finds it
NodeInMemory(id) == id \in known

NodeDetail(q) ==
  /\ Alive /\ req[q].at = "memory"
  /\ req' = [req EXCEPT ![q] = IF NodeInMemory(@.id) THEN Idle ELSE [@ EXCEPT !.at = "store"]]
  /\ UNCHANGED <<procVars, server, hub, hubStop, drained, listed>>

\* any error of GetNodeState is answered like a missing row
NodeFromStore(q) ==
  /\ Alive /\ req[q].at = "store"
  /\ \/ /\ store = "open" /\ req[q].id \in saved
        /\ req' = [req EXCEPT ![q] = Idle]
     \/ req' = [req EXCEPT ![q] = [@ EXCEPT !.at = "missing"]]
  /\ UNCHANGED <<procVars, server, hub, hubStop, drained, listed>>

\* the response (404) has been written
Missing(q) ==
  /\ Alive /\ req[q].at = "missing"
  /\ req' = [req EXCEPT ![q] = Idle]
  /\ UNCHANGED <<procVars, server, hub, hubStop, drained, listed>>

\* handleHealth; or handleNodeHistory, which answers with the rows of
\* GetNodeHistory, or with 500 when the query fails
Answer(q) ==
  /\ Alive /\ req[q].at = "answer"
  /\ req' = [req EXCEPT ![q] = Idle]
  /\ UNCHANGED <<procVars, server, hub, hubStop, drained, listed>>

\* the upgrade hijacks the connection, or is refused
Upgrade(q) ==
  /\ Alive /\ req[q].at = "upgrade"
  /\ req' \in {[req EXCEPT ![q] = Idle], [req EXCEPT ![q].at = "register"]}
  /\ UNCHANGED <<procVars, server, hub, hubStop, drained, listed>>

\* Mutant: the hub's loop has no case for register.
Register_NoCase(q) ==
  /\ FALSE /\ q \in Request
  /\ UNCHANGED vars

\* the handler's send on register meets the hub's receive; the client's
\* pumps go on in module WSHub
Register(q) ==
  /\ Alive /\ req[q].at = "register" /\ hub = "running"
  /\ req' = [req EXCEPT ![q] = Idle]
  /\ UNCHANGED <<procVars, server, hub, hubStop, drained, listed>>

-----------------------------------------------------------------------------
MainStep ==
  \/ \E in \in Input : LoadConfig(in)
  \/ OpenStore \/ CreateBegins \/ CreateFails \/ CreateEnds \/ GossipStart
  \/ StartAPI \/ StartLoops
  \/ StopHub \/ Shutdown \/ Drained \/ DrainTimeout \/ StopGossip \/ CloseStore \/ Exit

Next ==
  \/ MainStep \/ Signal \/ KilledEarly \/ NilQueue \/ TickerPanics
  \/ \E n \in Node : Learn(n)
  \/ SampleCPU
  \/ Collect \/ UpdateLocalNode \/ SaveNodeState \/ SaveHistoryRecord \/ MonitorSelect
  \/ Serve \/ HubEnds
  \/ \E q \in Request, path \in Paths, id \in Node, bearer, get \in BOOLEAN :
        Accept(q, path, id, bearer, get)
  \/ \E q \in Request : ListNodes(q) \/ NodeDetail(q) \/ NodeFromStore(q) \/ Missing(q)
  \/ \E q \in Request : Answer(q) \/ Upgrade(q) \/ Register(q)

Spec == Init /\ [][Next]_vars

(***************************************************************************)
(* Fairness: main goes on (each of its waits has a timer), and so does the *)
(* hub, whose select has no other case that could starve a registration    *)
(* for ever.  Nothing is assumed of the handlers: a client may read its    *)
(* response slowly.                                                        *)
(***************************************************************************)
Fairness ==
  /\ WF_vars(MainStep)
  /\ WF_vars(HubEnds)
  /\ \A q \in Request : WF_vars(Register(q))

FairSpec == Spec /\ Fairness

-----------------------------------------------------------------------------
(***************************************************************************)
(* Properties.                                                             *)
(***************************************************************************)
TypeOK ==
  /\ main \in Gossiping \cup Gone
              \cup {"load", "storage", "new", "creating", "start", "close", "return"}
  /\ DOMAIN cfg = Setting /\ \A s \in Setting : cfg[s] \in Forms(s) \cup {"zero"}
  /\ store \in {"none", "open", "closed", "lost"}
  /\ {cancelled, queue, stopCh, hubStop, drained} \subseteq BOOLEAN
  /\ known \subseteq Node /\ saved \subseteq Node /\ listed \subseteq Node
  /\ sampler \in {"none", "first", "empty", "filled"}
  /\ loop \in {"none", "collect", "update", "save", "record", "wait", "done"}
  /\ firstRead \in {"none", "early", "sampled"}
  /\ server \in {"none", "starting", "serving", "failed", "shut"}
  /\ hub \in {"none", "off", "running", "stopped"}
  /\ req \in [Request -> [at : {"idle", "answer", "list", "memory", "store", "missing",
                                 "upgrade", "register"},
                           id : Node, owed : BOOLEAN]]

(***************************************************************************)
(* Whatever the file, the environment and the flags say, main starts with  *)
(* a configuration that Validate would accept, although it never calls it: *)
(* the checks of mergeConfig, ApplyEnv and ParseFlags together are enough. *)
(***************************************************************************)
ConfigValid == main = "load" => ForAllLayers(ValidOutcome)

(***************************************************************************)
(* "CLI flags > Environment variables > YAML file > Defaults": a usable    *)
(* value is only replaced by a layer above, and what a layer says that is  *)
(* not usable does not bring back what a lower one said (LoadConfigFile,   *)
(* ApplyEnv, ParseFlags).                                                  *)
(***************************************************************************)
Precedence == main = "load" => ForAllLayers(PrecedenceOutcome)

(***************************************************************************)
(* The first start, which finds no goggrid.yaml and writes one, and the    *)
(* next one, which reads it, run with the same value of every setting,     *)
(* whatever the environment and the flags say: each line of the template   *)
(* prints the field its key is read into, and nothing that is printed is   *)
(* skipped or changed by the merge (GenerateDefault, mergeConfig).         *)
(***************************************************************************)
TemplateIsDefault == main = "load" => ForAllLayers(TemplateOutcome)

(***************************************************************************)
(* A process that exits on its own has closed the database that            *)
(* storage.New gave it, also when the gossip layer cannot be created.  A   *)
(* New that fails halfway gives main nothing to close: its connection is   *)
(* "lost", and stays open to the end of the process.                       *)
(***************************************************************************)
ExitClosesStore == main = "exited" => store # "open"

(***************************************************************************)
(* Once APIServer.Stop has returned without error, no handler is running   *)
(* that could still ask the database main is about to close; a server that *)
(* begins to listen late does not change that.                             *)
(***************************************************************************)
StoreOutlivesRequests == drained => \A q \in Request : ~Serving(q)

(***************************************************************************)
(* A node that some response has listed is never reported missing by a     *)
(* request sent after it, also while the process shuts down and the        *)
(* database, to which handleNodeDetail falls back, is closed.              *)
(***************************************************************************)
ListedIsFound == \A q \in Request : req[q].at = "missing" => ~req[q].owed

(***************************************************************************)
(* A process that has received its signal ends: no request, subscriber or  *)
(* peer can hold up the shutdown for ever (main, APIServer.Stop).          *)
(***************************************************************************)
ExitsAfterSignal == cancelled ~> main \in Gone

(***************************************************************************)
(* A handler that waits to register its client is taken by the hub, or     *)
(* ends with the process when the hub has returned before it               *)
(* (handleWebSocket sends on register without a case for stopCh).          *)
(***************************************************************************)
WSHandlerReleased ==
  \A q \in Request : req[q].at = "register" ~> (req[q].at # "register" \/ main \in Gone)

-----------------------------------------------------------------------------
(***************************************************************************)
(* "Collect first sample immediately so there is data available on the     *)
(* very first GetHostMonitor() call" (pkg/monitor/monitor.go:45): the      *)
(* first call comes after the first sample.                                *)
(***************************************************************************)
FirstSampleHasCPU == firstRead # "early"
=============================================================================
