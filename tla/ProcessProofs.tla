---------------------------- MODULE ProcessProofs ----------------------------
(***************************************************************************)
(* The configuration and the life of one process: no combination of the    *)
(* layers loads a configuration that Validate would refuse, and the store  *)
(* and the requests end in the right order, for any inputs, any number of  *)
(* nodes and any number of requests.                                       *)
(***************************************************************************)
EXTENDS Process, TLAPS

-----------------------------------------------------------------------------
(***************************************************************************)
(* Layers.                                                                 *)
(***************************************************************************)

\* A kind says what may be written for a setting of it and what its default
\* is.
LEMMA FormsOfKind ==
  ASSUME NEW s \in Setting
  PROVE  /\ "absent" \in Forms(s)
         /\ s \in Strings \cup Ports \cup Intervals \cup Lists \cup Types => "usable" \in Forms(s)
         /\ s \in Switches => {"on", "off"} \subseteq Forms(s)
         /\ s \in Ports \cup Types \cup {"cluster.name"} =>
              /\ "on" \notin Forms(s) /\ "off" \notin Forms(s)
              /\ s \notin Intervals /\ s \notin Lists
              /\ DefaultConfig[s].form = "usable"
  <1>1. s \in Ports \cup Types \cup {"cluster.name"} =>
          s \notin Intervals /\ s \notin Lists /\ s \notin Switches /\ s # "api.token"
    BY DEF Ports, Types, Intervals, Lists, Switches
  <1>2. s \in Strings \cup Ports \cup Intervals \cup Lists \cup Types => s \notin Switches
    BY DEF Strings, Ports, Types, Intervals, Lists, Switches
  <1>3. s \in Ports \cup Types \cup {"cluster.name"} => DefaultConfig[s].form = "usable"
    BY <1>1 DEF DefaultConfig, DefaultForm, Value, Says, Switches, Ports, Types, Lists
  <1> QED
    BY <1>1, <1>2, <1>3 DEF Forms

\* The default of a setting is a value that may be written for it, or empty.
LEMMA DefaultIsForm ==
  ASSUME NEW s \in Setting
  PROVE  DefaultConfig[s].form \in Forms(s) \cup {"zero"} /\ DefaultConfig[s].from = 1
  <1> DEFINE d == DefaultForm(s)
  <1>1. DefaultConfig[s] = [from |-> 1, form |-> d, text |-> DefaultText(s)]
    BY DEF DefaultConfig, Value, Says
  <1>2. d \in Forms(s) \cup {"zero"}
    <2>1. CASE s \in Lists \cup {"api.token"}
      <3>1. d = "zero"
        BY <2>1 DEF Lists, DefaultForm
      <3> QED
        BY <3>1
    <2>2. CASE s \in Switches
      <3>1. d \in {"on", "off"}
        BY <2>2 DEF Switches, Lists, DefaultForm
      <3> QED
        BY <2>2, <3>1, FormsOfKind
    <2>3. CASE s \notin Lists \cup {"api.token"} \cup Switches
      <3>1. d = "usable"
        BY <2>3 DEF Switches, DefaultForm
      <3> QED
        BY <2>3, <3>1, FormsOfKind DEF Setting
    <2> QED
      BY <2>1, <2>2, <2>3
  <1> QED
    BY <1>1, <1>2

\* The value of a setting is what the highest layer says that its check
\* takes, and the default when there is none.
LEMMA LoadedIs ==
  ASSUME NEW file, NEW env, NEW flags, NEW s \in Setting
  PROVE  Loaded(file, env, flags)[s] =
           IF s \in FlagSettings /\ OverrideTakes(s, flags[s].form) THEN Value(4, flags[s])
           ELSE IF s \in EnvSettings /\ OverrideTakes(s, env[s].form) THEN Value(3, env[s])
           ELSE IF MergeTakes(s, file[s].form) THEN Value(2, file[s])
           ELSE DefaultConfig[s]
  BY DEF Loaded, ParseFlags, ApplyEnv, MergeConfig

\* A setting that Validate looks at is loaded to a usable value.
LEMMA LoadedUsable ==
  ASSUME NEW file, NEW env, NEW flags, NEW s \in Ports \cup Types \cup {"cluster.name"},
         {file[s].form, env[s].form, flags[s].form} \subseteq Forms(s)
  PROVE  Loaded(file, env, flags)[s].form = "usable"
  <1>1. s \in Setting
    BY DEF Setting, Strings
  <1>2. ASSUME NEW form \in Forms(s), OverrideTakes(s, form) \/ MergeTakes(s, form)
        PROVE  form = "usable"
    BY <1>1, <1>2, FormsOfKind DEF OverrideTakes, MergeTakes, Usable
  <1>3. DefaultConfig[s].form = "usable"
    BY <1>1, FormsOfKind
  <1>4. \/ /\ OverrideTakes(s, flags[s].form)
           /\ Loaded(file, env, flags)[s] = Value(4, flags[s])
        \/ /\ OverrideTakes(s, env[s].form)
           /\ Loaded(file, env, flags)[s] = Value(3, env[s])
        \/ /\ MergeTakes(s, file[s].form)
           /\ Loaded(file, env, flags)[s] = Value(2, file[s])
        \/ Loaded(file, env, flags)[s] = DefaultConfig[s]
    BY <1>1, LoadedIs
  <1>5. \A layer, said : Value(layer, said).form = said.form
    BY DEF Value
  <1> QED
    BY <1>2, <1>3, <1>4, <1>5

\* Whatever the layers say, and of all settings at once: what main loads
\* would pass Config.Validate, which it does not call.
THEOREM EveryInputValid ==
  ASSUME NEW file, NEW env, NEW flags,
         \A s \in Setting : {file[s].form, env[s].form, flags[s].form} \subseteq Forms(s)
  PROVE  Validate(Loaded(file, env, flags))
  <1>1. Ports \cup Types \cup {"cluster.name"} \subseteq Setting
    BY DEF Setting, Strings
  <1> QED
    BY <1>1, LoadedUsable DEF Validate

\* What one setting's layers are loaded to, with nothing said about the
\* other settings.
LEMMA OnlyForms ==
  ASSUME NEW s \in Setting, NEW form \in Forms(s)
  PROVE  /\ Only(s, form)[s].form = form
         /\ \A t \in Setting : Only(s, form)[t].form \in Forms(t)
  BY FormsOfKind DEF Only, Says, Unsaid

\* The checks of mergeConfig, ApplyEnv and ParseFlags together leave nothing
\* for Validate to refuse.
THEOREM LoadsValid == Spec => []ConfigValid
  <1>1. ForAllLayers(ValidOutcome)
    <2> SUFFICES ASSUME NEW s \in Setting, NEW f \in Forms(s), NEW e \in Forms(s),
                        NEW g \in Forms(s)
                 PROVE  Validate(Loaded(Only(s, f), Only(s, e), Only(s, g)))
      BY DEF ForAllLayers, ValidOutcome
    <2>1. \A t \in Setting : {Only(s, f)[t].form, Only(s, e)[t].form, Only(s, g)[t].form} \subseteq Forms(t)
      BY OnlyForms
    <2> QED
      BY <2>1, EveryInputValid
  <1>2. ConfigValid
    BY <1>1 DEF ConfigValid
  <1> QED
    BY <1>2, PTL

\* A usable value is only replaced by a layer above, and nothing that is not
\* usable brings back what a lower layer said.
THEOREM LayersOverride == Spec => []Precedence
  <1>1. ForAllLayers(PrecedenceOutcome)
    <2> SUFFICES ASSUME NEW s \in Setting, NEW f \in Forms(s), NEW e \in Forms(s),
                        NEW g \in Forms(s)
                 PROVE  PrecedenceOutcome(s, f, e, g, Loaded(Only(s, f), Only(s, e), Only(s, g)))
      BY DEF ForAllLayers
    <2> DEFINE c == Loaded(Only(s, f), Only(s, e), Only(s, g))
    <2>1. Only(s, f)[s].form = f /\ Only(s, e)[s].form = e /\ Only(s, g)[s].form = g
      BY OnlyForms
    <2>2. c[s] = IF s \in FlagSettings /\ OverrideTakes(s, g) THEN Value(4, Only(s, g)[s])
                 ELSE IF s \in EnvSettings /\ OverrideTakes(s, e) THEN Value(3, Only(s, e)[s])
                 ELSE IF MergeTakes(s, f) THEN Value(2, Only(s, f)[s])
                 ELSE DefaultConfig[s]
      BY <2>1, LoadedIs
    <2>3. \A layer, said : Value(layer, said).from = layer
      BY DEF Value
    <2>4. \A form \in Usable : OverrideTakes(s, form) /\ MergeTakes(s, form)
      BY DEF OverrideTakes, MergeTakes
    <2> HIDE DEF c
    <2>5. s \in FlagSettings /\ OverrideTakes(s, g) => c[s].from = 4
      BY <2>2, <2>3
    <2>6. s \in EnvSettings /\ OverrideTakes(s, e) => c[s].from \in {3, 4}
      BY <2>2, <2>3
    <2>7. MergeTakes(s, f) => c[s].from \in {2, 3, 4}
      BY <2>2, <2>3
    <2>8. PrecedenceOutcome(s, f, e, g, c)
      BY <2>4, <2>5, <2>6, <2>7 DEF PrecedenceOutcome
    <2> QED
      BY <2>8 DEF c
  <1>2. Precedence
    BY <1>1 DEF Precedence
  <1> QED
    BY <1>2, PTL

\* A line of the template prints the field that its key is read into.
LEMMA PrintedIsKey ==
  ASSUME NEW s \in Setting, s \notin Lists, s # "api.token"
  PROVE  PrintedField(s) = s
  <1> DEFINE keys == TemplateKeys
             i == CHOOSE j \in 1..Len(keys) : keys[j] = s
  <1>1. TemplateArgs = TemplateKeys
    BY DEF TemplateArgs, TemplateKeys
  <1>2. \E j \in 1..Len(keys) : keys[j] = s
    <2>1. Len(keys) = 16
      BY DEF TemplateKeys
    <2>2. /\ keys[1] = "cluster.name" /\ keys[2] = "cluster.bind_addr"
          /\ keys[3] = "cluster.bind_port" /\ keys[4] = "monitor.interval"
          /\ keys[5] = "storage.db_path" /\ keys[6] = "storage.retention"
          /\ keys[7] = "api.enabled" /\ keys[8] = "api.bind_addr"
          /\ keys[9] = "api.port" /\ keys[10] = "api.ws.enabled"
          /\ keys[11] = "gossip.sync_interval" /\ keys[12] = "gossip.probe_interval"
          /\ keys[13] = "discovery.enabled" /\ keys[14] = "discovery.type"
          /\ keys[15] = "discovery.port" /\ keys[16] = "discovery.interval"
      BY DEF TemplateKeys
    <2> HIDE DEF keys
    <2>3. \A j \in 1..16 : j \in 1..Len(keys)
      BY <2>1
    <2>4. CASE s \in Strings
      BY <2>2, <2>3, <2>4 DEF Strings
    <2>5. CASE s \in Ports \cup Types
      BY <2>2, <2>3, <2>5 DEF Ports, Types
    <2>6. CASE s \in Switches
      BY <2>2, <2>3, <2>6 DEF Switches
    <2>7. CASE s \in Intervals
      BY <2>2, <2>3, <2>7 DEF Intervals
    <2> QED
      BY <2>4, <2>5, <2>6, <2>7 DEF Setting
  <1>3. keys[i] = s
    BY <1>2
  <1> HIDE DEF i
  <1> QED
    BY <1>1, <1>3 DEF PrintedField, i

\* The file that the first start writes changes no value for the next one,
\* whatever the environment and the flags say.
THEOREM TemplateNeutral == Spec => []TemplateIsDefault
  <1>0. ~\E t \in Setting : MergeTakes(t, "absent")
    BY DEF MergeTakes, Usable
  <1>1. ASSUME NEW t \in Setting
        PROVE  \/ ~MergeTakes(t, GenerateDefault[t].form)
               \/ /\ GenerateDefault[t].form = DefaultConfig[t].form
                  /\ GenerateDefault[t].text = DefaultConfig[t].text
    <2>2. CASE t \in Lists
      <3>1. GenerateDefault[t].form = "zero"
        BY <2>2 DEF GenerateDefault, Says
      <3>2. t \notin Intervals
        BY <2>2 DEF Lists, Intervals
      <3> QED
        BY <3>1, <3>2 DEF MergeTakes, Usable
    <2>3. CASE t = "api.token"
      <3>1. GenerateDefault[t].form = "absent"
        BY <2>3 DEF GenerateDefault, Lists, Says
      <3> QED
        BY <1>0, <3>1
    <2>4. CASE t \notin Lists /\ t # "api.token"
      <3>1. PrintedField(t) = t
        BY <2>4, PrintedIsKey
      <3>2. GenerateDefault[t] = Says(DefaultForm(t), DefaultText(t))
        BY <2>4, <3>1 DEF GenerateDefault
      <3> QED
        BY <3>2 DEF DefaultConfig, Value, Says
    <2> QED
      BY <2>2, <2>3, <2>4
  <1>2. ForAllLayers(TemplateOutcome)
    <2> SUFFICES ASSUME NEW s \in Setting, NEW e \in Forms(s), NEW g \in Forms(s),
                        NEW t \in Setting
                 PROVE  LET a == Loaded(GenerateDefault, Only(s, e), Only(s, g))[t]
                            b == Loaded(Only(s, "absent"), Only(s, e), Only(s, g))[t]
                        IN  a.form = b.form /\ a.text = b.text
      BY DEF ForAllLayers, TemplateOutcome
    <2> DEFINE x == Only(s, e)
               y == Only(s, g)
    <2>1. Only(s, "absent")[t].form = "absent"
      BY DEF Only, Says, Unsaid
    <2>2. CASE t \in FlagSettings /\ OverrideTakes(t, y[t].form)
      BY <2>2, LoadedIs
    <2>3. CASE ~(t \in FlagSettings /\ OverrideTakes(t, y[t].form))
               /\ t \in EnvSettings /\ OverrideTakes(t, x[t].form)
      BY <2>3, LoadedIs
    <2>4. CASE ~(t \in FlagSettings /\ OverrideTakes(t, y[t].form))
               /\ ~(t \in EnvSettings /\ OverrideTakes(t, x[t].form))
      <3>1. Loaded(Only(s, "absent"), x, y)[t] = DefaultConfig[t]
        BY <2>1, <2>4, <1>0, LoadedIs
      <3>2. Loaded(GenerateDefault, x, y)[t] =
              IF MergeTakes(t, GenerateDefault[t].form) THEN Value(2, GenerateDefault[t])
              ELSE DefaultConfig[t]
        BY <2>4, LoadedIs
      <3>3. /\ Value(2, GenerateDefault[t]).form = GenerateDefault[t].form
            /\ Value(2, GenerateDefault[t]).text = GenerateDefault[t].text
        BY DEF Value
      <3> QED
        BY <3>1, <3>2, <3>3, <1>1
    <2> QED
      BY <2>2, <2>3, <2>4
  <1>3. TemplateIsDefault
    BY <1>2 DEF TemplateIsDefault
  <1> QED
    BY <1>3, PTL

-----------------------------------------------------------------------------
(***************************************************************************)
(* Types.                                                                  *)
(***************************************************************************)

\* What is loaded for a setting may be written for it, or is empty.
LEMMA LoadedForm ==
  ASSUME NEW file, NEW env, NEW flags, NEW s \in Setting,
         {file[s].form, env[s].form, flags[s].form} \subseteq Forms(s)
  PROVE  Loaded(file, env, flags)[s].form \in Forms(s) \cup {"zero"}
  <1>1. Loaded(file, env, flags)[s] \in
          {Value(4, flags[s]), Value(3, env[s]), Value(2, file[s]), DefaultConfig[s]}
    BY LoadedIs
  <1>2. \A layer, said : Value(layer, said).form = said.form
    BY DEF Value
  <1> QED
    BY <1>1, <1>2, DefaultIsForm

\* where a request may be
Places ==
  {"idle", "answer", "list", "memory", "store", "missing", "upgrade", "register"}

Requests == [at : Places, id : Node, owed : BOOLEAN]

\* A request that ends leaves the others alone.
LEMMA IdleType ==
  ASSUME TypeOK, NEW q \in Request
  PROVE  Idle \in Requests /\ [req EXCEPT ![q] = Idle] \in [Request -> Requests]
  <1>1. Idle \in Requests
    BY ProcessAssumption DEF Idle, Requests, Places
  <1> QED
    BY <1>1 DEF TypeOK, Requests, Places

\* One that goes on stays a request.
LEMMA MoveType ==
  ASSUME TypeOK, NEW q \in Request, NEW p \in Places
  PROVE  [req EXCEPT ![q] = [@ EXCEPT !.at = p]] \in [Request -> Requests]
  <1>1. req \in [Request -> Requests]
    BY DEF TypeOK, Requests, Places
  <1>2. [req[q] EXCEPT !.at = p] \in Requests
    BY <1>1 DEF Requests
  <1> QED
    BY <1>1, <1>2

\* Every variable begins with a value of its type.
LEMMA InitType == Init => TypeOK
  <1> SUFFICES ASSUME Init PROVE TypeOK
    OBVIOUS
  <1>1. DOMAIN cfg = Setting /\ \A s \in Setting : cfg[s] \in Forms(s) \cup {"zero"}
    BY DefaultIsForm DEF Init, FormsOf
  <1>2. Idle \in Requests /\ Local \in Node
    BY ProcessAssumption DEF Idle, Requests, Places
  <1>3. req \in [Request -> Requests]
    BY <1>2 DEF Init
  <1> QED
    BY <1>1, <1>2, <1>3 DEF Init, TypeOK, Requests, Places, Gone, Gossiping

\* Every step of main keeps every variable's type.
LEMMA MainType == TypeOK /\ (MainStep \/ Signal \/ KilledEarly \/ NilQueue \/ TickerPanics) => TypeOK'
  <1> SUFFICES ASSUME TypeOK, MainStep \/ Signal \/ KilledEarly \/ NilQueue \/ TickerPanics
               PROVE  TypeOK'
    OBVIOUS
  <1> USE DEF coreVars, gossipVars, nodeVars, loopVars, httpVars, Gone, Gossiping
  <1>1. ASSUME NEW in \in Input, LoadConfig(in) PROVE TypeOK'
    <2>1. \A s \in Setting : {in.file[s].form, in.env[s].form, in.flags[s].form} \subseteq Forms(s)
      BY ProcessAssumption
    <2> DEFINE c == FormsOf(Loaded(in.file, in.env, in.flags))
    <2>2. DOMAIN c = Setting /\ \A s \in Setting : c[s] \in Forms(s) \cup {"zero"}
      BY <2>1, LoadedForm DEF FormsOf
    <2> HIDE DEF c
    <2>3. (main' = "exited" /\ cfg' = cfg) \/ (main' = "storage" /\ cfg' = c)
      BY <1>1 DEF LoadConfig, c
    <2>4. DOMAIN cfg' = Setting /\ \A s \in Setting : cfg'[s] \in Forms(s) \cup {"zero"}
      BY <2>2, <2>3 DEF TypeOK
    <2> QED
      BY <1>1, <2>3, <2>4 DEF LoadConfig, TypeOK
  <1>2. CASE OpenStore
    BY <1>2 DEF OpenStore, TypeOK
  <1>3. CASE CreateBegins
    BY <1>3 DEF CreateBegins, TypeOK
  <1>4. CASE CreateFails
    BY <1>4 DEF CreateFails, TypeOK
  <1>5. CASE CreateEnds
    BY <1>5 DEF CreateEnds, TypeOK
  <1>6. CASE GossipStart
    BY <1>6 DEF GossipStart, TypeOK
  <1>7. CASE StartAPI
    BY <1>7 DEF StartAPI, TypeOK
  <1>8. CASE StartLoops
    BY <1>8 DEF StartLoops, TypeOK
  <1>9. CASE StopHub
    <2>1. hubStop' \in BOOLEAN
      BY <1>9 DEF StopHub, On
    <2> QED
      BY <1>9, <2>1 DEF StopHub, TypeOK
  <1>10. CASE Shutdown
    BY <1>10 DEF Shutdown, TypeOK
  <1>11. CASE Drained
    BY <1>11 DEF Drained, TypeOK
  <1>12. CASE DrainTimeout
    BY <1>12 DEF DrainTimeout, TypeOK
  <1>13. CASE StopGossip
    BY <1>13 DEF StopGossip, TypeOK
  <1>14. CASE CloseStore
    BY <1>14 DEF CloseStore, TypeOK
  <1>15. CASE Exit
    BY <1>15 DEF Exit, TypeOK
  <1>16. CASE Signal
    BY <1>16 DEF Signal, TypeOK
  <1>17. CASE KilledEarly \/ NilQueue \/ TickerPanics
    BY <1>17 DEF KilledEarly, NilQueue, TickerPanics, Die, TypeOK
  <1> QED
    BY <1>1, <1>2, <1>3, <1>4, <1>5, <1>6, <1>7, <1>8, <1>9, <1>10, <1>11, <1>12, <1>13, <1>14,
       <1>15, <1>16, <1>17 DEF MainStep

\* Every step does.
LEMMA NextType == TypeOK /\ [Next]_vars => TypeOK'
  <1> SUFFICES ASSUME TypeOK, [Next]_vars PROVE TypeOK'
    OBVIOUS
  <1> USE DEF coreVars, gossipVars, nodeVars, loopVars, httpVars, procVars
  <1>a. ASSUME UNCHANGED <<procVars, server, hub, hubStop, drained>>, listed' \subseteq Node,
               req' \in [Request -> Requests]
        PROVE  TypeOK'
    BY <1>a DEF TypeOK, Requests, Places
  <1>b. listed \subseteq Node /\ known \subseteq Node /\ Local \in Node
    BY ProcessAssumption DEF TypeOK
  <1>1. CASE MainStep \/ Signal \/ KilledEarly \/ NilQueue \/ TickerPanics
    BY <1>1, MainType
  <1>2. ASSUME NEW n \in Node, Learn(n) PROVE TypeOK'
    BY <1>2 DEF Learn, TypeOK
  <1>3. CASE SampleCPU
    BY <1>3 DEF SampleCPU, TypeOK
  <1>4. CASE Collect
    BY <1>4 DEF Collect, TypeOK
  <1>5. CASE UpdateLocalNode
    BY <1>5, <1>b DEF UpdateLocalNode, TypeOK
  <1>6. CASE SaveNodeState
    BY <1>6, <1>b DEF SaveNodeState, TypeOK
  <1>7. CASE SaveHistoryRecord
    BY <1>7 DEF SaveHistoryRecord, TypeOK
  <1>8. CASE MonitorSelect
    BY <1>8 DEF MonitorSelect, TypeOK
  <1>9. CASE Serve
    BY <1>9 DEF Serve, TypeOK
  <1>10. CASE HubEnds
    BY <1>10 DEF HubEnds, TypeOK
  <1>11. ASSUME NEW q \in Request, NEW path \in Paths, NEW id \in Node, NEW bearer \in BOOLEAN,
                NEW get \in BOOLEAN, Accept(q, path, id, bearer, get)
         PROVE  TypeOK'
    <2> DEFINE r == [at |-> HandlerOf(path), id |-> id, owed |-> path = "detail" /\ id \in listed]
    <2>1. HandlerOf(path) \in Places
      BY DEF HandlerOf, Places, Paths
    <2>2. r \in Requests
      BY <2>1 DEF Requests
    <2>3. req' = [req EXCEPT ![q] = r]
      BY <1>11 DEF Accept
    <2> HIDE DEF r
    <2>4. req' \in [Request -> Requests]
      BY <2>2, <2>3 DEF TypeOK, Requests, Places
    <2> QED
      BY <1>11, <2>4, <1>a, <1>b DEF Accept
  <1>12. ASSUME NEW q \in Request, ListNodes(q) PROVE TypeOK'
    <2>1. listed' \subseteq Node
      BY <1>12, <1>b DEF ListNodes
    <2> QED
      BY <1>12, <2>1, <1>a, IdleType DEF ListNodes
  <1>13. ASSUME NEW q \in Request, NodeDetail(q) PROVE TypeOK'
    <2>1. \/ req' = [req EXCEPT ![q] = Idle]
          \/ req' = [req EXCEPT ![q] = [@ EXCEPT !.at = "store"]]
      BY <1>13 DEF NodeDetail
    <2>2. "store" \in Places
      BY DEF Places
    <2>3. req' \in [Request -> Requests]
      BY <2>1, <2>2, IdleType, MoveType
    <2> QED
      BY <1>13, <2>3, <1>a, <1>b DEF NodeDetail
  <1>14. ASSUME NEW q \in Request, NodeFromStore(q) PROVE TypeOK'
    <2>1. \/ req' = [req EXCEPT ![q] = Idle]
          \/ req' = [req EXCEPT ![q] = [@ EXCEPT !.at = "missing"]]
      BY <1>14 DEF NodeFromStore
    <2>2. "missing" \in Places
      BY DEF Places
    <2>3. req' \in [Request -> Requests]
      BY <2>1, <2>2, IdleType, MoveType
    <2> QED
      BY <1>14, <2>3, <1>a, <1>b DEF NodeFromStore
  <1>15. ASSUME NEW q \in Request, Missing(q) PROVE TypeOK'
    BY <1>15, <1>a, <1>b, IdleType DEF Missing
  <1>16. ASSUME NEW q \in Request, Answer(q) PROVE TypeOK'
    BY <1>16, <1>a, <1>b, IdleType DEF Answer
  <1>17. ASSUME NEW q \in Request, Upgrade(q) PROVE TypeOK'
    <2>1. \/ req' = [req EXCEPT ![q] = Idle]
          \/ req' = [req EXCEPT ![q] = [@ EXCEPT !.at = "register"]]
      BY <1>17 DEF Upgrade
    <2>2. "register" \in Places
      BY DEF Places
    <2>3. req' \in [Request -> Requests]
      BY <2>1, <2>2, IdleType, MoveType
    <2> QED
      BY <1>17, <2>3, <1>a, <1>b DEF Upgrade
  <1>18. ASSUME NEW q \in Request, Register(q) PROVE TypeOK'
    BY <1>18, <1>a, <1>b, IdleType DEF Register
  <1>19. CASE UNCHANGED vars
    BY <1>19 DEF vars, TypeOK
  <1> QED
    BY <1>1, <1>2, <1>3, <1>4, <1>5, <1>6, <1>7, <1>8, <1>9, <1>10, <1>11, <1>12, <1>13, <1>14,
       <1>15, <1>16, <1>17, <1>18, <1>19 DEF Next

\* Every variable stays of its type; in particular the settings that main
\* runs with have forms that some layer may say.
THEOREM ProcessTypeCorrect == Spec => []TypeOK
  BY InitType, NextType, PTL DEF Spec

-----------------------------------------------------------------------------
(***************************************************************************)
(* main and the store.                                                     *)
(***************************************************************************)

\* No step but one of main moves it, the settings or the store.
LEMMA OthersLeaveMain ==
  ASSUME [Next]_vars,
         ~(MainStep \/ Signal \/ KilledEarly \/ NilQueue \/ TickerPanics)
  PROVE  UNCHANGED <<main, cfg, store, drained>> /\ (server' = server \/ server # "shut")
  <1> USE DEF coreVars, gossipVars, nodeVars, loopVars, httpVars, procVars
  <1>1. CASE \E n \in Node : Learn(n)
    BY <1>1 DEF Learn
  <1>2. CASE SampleCPU \/ Collect \/ UpdateLocalNode
    BY <1>2 DEF SampleCPU, Collect, UpdateLocalNode
  <1>3. CASE SaveNodeState \/ SaveHistoryRecord \/ MonitorSelect
    BY <1>3 DEF SaveNodeState, SaveHistoryRecord, MonitorSelect
  <1>4. CASE Serve \/ HubEnds
    BY <1>4 DEF Serve, HubEnds
  <1>5. CASE \E q \in Request, path \in Paths, id \in Node, bearer, get \in BOOLEAN :
               Accept(q, path, id, bearer, get)
    BY <1>5 DEF Accept
  <1>6. CASE \E q \in Request : ListNodes(q) \/ NodeDetail(q) \/ NodeFromStore(q) \/ Missing(q)
    BY <1>6 DEF ListNodes, NodeDetail, NodeFromStore, Missing
  <1>7. CASE \E q \in Request : Answer(q) \/ Upgrade(q) \/ Register(q)
    BY <1>7 DEF Answer, Upgrade, Register
  <1>8. CASE UNCHANGED vars
    BY <1>8 DEF vars
  <1> QED
    BY <1>1, <1>2, <1>3, <1>4, <1>5, <1>6, <1>7, <1>8 DEF Next

\* main opens the store once it has its settings, and goes to its end only
\* over the closing of it.
StoreInv ==
  /\ main \in {"load", "storage"} => store = "none"
  /\ main \in {"return", "exited"} => store # "open"

\* The settings that Validate looks at, while main runs with them.
ValidInv ==
  main \notin {"load"} \cup Gone =>
     \A s \in Ports \cup Types \cup {"cluster.name"} : cfg[s] = "usable"

\* The initial state satisfies both.
LEMMA InitStore == Init => StoreInv /\ ValidInv
  BY DEF Init, StoreInv, ValidInv

\* Every step preserves them.
LEMMA NextStore == StoreInv /\ ValidInv /\ [Next]_vars => StoreInv' /\ ValidInv'
  <1> SUFFICES ASSUME StoreInv, ValidInv, [Next]_vars PROVE StoreInv' /\ ValidInv'
    OBVIOUS
  <1> USE DEF coreVars, gossipVars, nodeVars, loopVars, httpVars, Gone
  <1>1. ASSUME NEW in \in Input, LoadConfig(in) PROVE StoreInv' /\ ValidInv'
    <2>1. ASSUME NEW s \in Ports \cup Types \cup {"cluster.name"}, main' = "storage"
          PROVE  cfg'[s] = "usable"
      <3>1. s \in Setting
        BY DEF Setting, Strings
      <3>2. cfg' = FormsOf(Loaded(in.file, in.env, in.flags))
        BY <1>1, <2>1 DEF LoadConfig
      <3>3. cfg'[s] = Loaded(in.file, in.env, in.flags)[s].form
        BY <3>1, <3>2 DEF FormsOf
      <3>4. {in.file[s].form, in.env[s].form, in.flags[s].form} \subseteq Forms(s)
        BY <3>1, ProcessAssumption
      <3> QED
        BY <3>3, <3>4, LoadedUsable
    <2>2. main = "load" /\ main' \in {"storage", "exited"} /\ store' = store
      BY <1>1 DEF LoadConfig
    <2> QED
      BY <2>1, <2>2 DEF StoreInv, ValidInv
  <1>2. CASE OpenStore
    BY <1>2 DEF OpenStore, StoreInv, ValidInv
  <1>3. CASE CreateBegins \/ CreateFails \/ CreateEnds \/ GossipStart
    BY <1>3 DEF CreateBegins, CreateFails, CreateEnds, GossipStart, StoreInv, ValidInv
  <1>4. CASE StartAPI \/ StartLoops \/ Signal
    BY <1>4 DEF StartAPI, StartLoops, Signal, StoreInv, ValidInv
  <1>5. CASE StopHub \/ Shutdown \/ Drained \/ DrainTimeout
    BY <1>5 DEF StopHub, Shutdown, Drained, DrainTimeout, StoreInv, ValidInv
  <1>6. CASE StopGossip \/ CloseStore \/ Exit
    BY <1>6 DEF StopGossip, CloseStore, Exit, StoreInv, ValidInv
  <1>7. CASE KilledEarly \/ NilQueue \/ TickerPanics
    BY <1>7 DEF KilledEarly, NilQueue, TickerPanics, Die, StoreInv, ValidInv
  <1>8. CASE ~(MainStep \/ Signal \/ KilledEarly \/ NilQueue \/ TickerPanics)
    BY <1>8, OthersLeaveMain DEF StoreInv, ValidInv
  <1> QED
    BY <1>1, <1>2, <1>3, <1>4, <1>5, <1>6, <1>7, <1>8 DEF MainStep

\* A process that exits on its own has closed the database that storage.New
\* gave it, whichever of its ways out it takes.  What a New that failed
\* halfway has opened is not main's to close and is not covered.
THEOREM NoOpenStoreAtExit == Spec => []ExitClosesStore
  <1>1. StoreInv => ExitClosesStore
    BY DEF StoreInv, ExitClosesStore
  <1> QED
    BY <1>1, InitStore, NextStore, PTL DEF Spec

\* From the loading of its settings to its end main runs with a name, ports
\* and a discovery type that Validate would accept.
THEOREM RunsWithValidConfig == Spec => []ValidInv
  BY InitStore, NextStore, PTL DEF Spec

-----------------------------------------------------------------------------
(***************************************************************************)
(* Requests.                                                               *)
(***************************************************************************)

(***************************************************************************)
(* Once Shutdown has been called the server is never back in its accept    *)
(* loop, so after it has seen no handler there is none any more.           *)
(***************************************************************************)
DrainInv ==
  /\ main = "draining" => server = "shut"
  /\ drained => server = "shut" /\ main \in {"leave", "close", "return"} \cup Gone
  /\ StoreOutlivesRequests

(***************************************************************************)
(* A listed node stays in memory, so a request that is owed an answer does *)
(* not get past the look into memory.                                      *)
(***************************************************************************)
FindInv ==
  /\ listed \subseteq known
  /\ \A q \in Request :
       /\ req[q].owed => req[q].id \in known
       /\ req[q].at \in {"store", "missing"} => ~req[q].owed

\* A step of a handler: the request ends, goes on or is handed to the hub.
LEMMA HandlerStep ==
  ASSUME TypeOK, NEW q \in Request,
         \/ ListNodes(q) \/ NodeDetail(q) \/ NodeFromStore(q) \/ Missing(q)
         \/ Answer(q) \/ Upgrade(q) \/ Register(q)
  PROVE  /\ UNCHANGED <<main, server, drained, known>>
         /\ \A p \in Request : p # q => req'[p] = req[p]
         /\ \/ req'[q] = Idle
            \/ req'[q] = [req[q] EXCEPT !.at = "register"]
            \/ req'[q] = [req[q] EXCEPT !.at = "missing"] /\ req[q].at = "store"
            \/ /\ req'[q] = [req[q] EXCEPT !.at = "store"] /\ req[q].at = "memory"
               /\ req[q].id \notin known
         /\ req'[q] # Idle => Serving(q)
         /\ listed' \in {listed, listed \cup known}
  <1> USE DEF nodeVars, gossipVars, procVars, TypeOK
  <1>1. CASE ListNodes(q)
    BY <1>1 DEF ListNodes
  <1>2. CASE NodeDetail(q)
    BY <1>2 DEF NodeDetail, NodeInMemory, Serving
  <1>3. CASE NodeFromStore(q)
    BY <1>3 DEF NodeFromStore, Serving
  <1>4. CASE Missing(q)
    BY <1>4 DEF Missing
  <1>5. CASE Answer(q)
    BY <1>5 DEF Answer
  <1>6. CASE Upgrade(q)
    BY <1>6 DEF Upgrade, Serving
  <1>7. CASE Register(q)
    BY <1>7 DEF Register
  <1> QED
    BY <1>1, <1>2, <1>3, <1>4, <1>5, <1>6, <1>7

\* The initial state satisfies both.
LEMMA InitRequests == Init => DrainInv /\ FindInv
  BY DEF Init, DrainInv, FindInv, StoreOutlivesRequests, Idle

\* A step of main, or of its death, preserves them.
LEMMA MainRequests ==
  ASSUME DrainInv, FindInv, MainStep \/ Signal \/ KilledEarly \/ NilQueue \/ TickerPanics
  PROVE  DrainInv' /\ FindInv'
  <1> USE DEF coreVars, gossipVars, nodeVars, loopVars, httpVars, Gone
  <1>a. UNCHANGED <<req, listed, known>>
    BY DEF MainStep, LoadConfig, OpenStore, CreateBegins, CreateFails, CreateEnds, GossipStart,
           StartAPI, StartLoops, Signal, StopHub, Shutdown, Drained, DrainTimeout, StopGossip,
           CloseStore, Exit, KilledEarly, NilQueue, TickerPanics, Die
  <1>1. FindInv'
    BY <1>a DEF FindInv
  <1>2. StoreOutlivesRequests' \/ drained' # drained
    BY <1>a DEF DrainInv, StoreOutlivesRequests, Serving
  <1>3. CASE \E in \in Input : LoadConfig(in)
    BY <1>1, <1>2, <1>3 DEF LoadConfig, DrainInv
  <1>4. CASE OpenStore \/ CreateBegins \/ CreateFails \/ CreateEnds \/ GossipStart
    BY <1>1, <1>2, <1>4 DEF OpenStore, CreateBegins, CreateFails, CreateEnds, GossipStart, DrainInv
  <1>5. CASE StartAPI \/ StartLoops \/ Signal \/ StopHub
    BY <1>1, <1>2, <1>5 DEF StartAPI, StartLoops, Signal, StopHub, DrainInv
  <1>6. CASE Shutdown
    BY <1>1, <1>2, <1>6 DEF Shutdown, DrainInv
  <1>7. CASE Drained
    BY <1>a, <1>1, <1>7 DEF Drained, DrainInv, StoreOutlivesRequests, Serving
  <1>8. CASE DrainTimeout \/ StopGossip \/ CloseStore \/ Exit
    BY <1>1, <1>2, <1>8 DEF DrainTimeout, StopGossip, CloseStore, Exit, DrainInv
  <1>9. CASE KilledEarly \/ NilQueue \/ TickerPanics
    BY <1>1, <1>2, <1>9 DEF KilledEarly, NilQueue, TickerPanics, Die, DrainInv
  <1> QED
    BY <1>3, <1>4, <1>5, <1>6, <1>7, <1>8, <1>9 DEF MainStep

\* Every step preserves them.
LEMMA NextRequests == TypeOK /\ DrainInv /\ FindInv /\ [Next]_vars => DrainInv' /\ FindInv'
  <1> SUFFICES ASSUME TypeOK, DrainInv, FindInv, [Next]_vars PROVE DrainInv' /\ FindInv'
    OBVIOUS
  <1> USE DEF coreVars, gossipVars, nodeVars, loopVars, httpVars, procVars
  <1>a. ASSUME UNCHANGED <<main, server, drained, req, listed>>, known \subseteq known'
        PROVE  DrainInv' /\ FindInv'
    BY <1>a DEF DrainInv, FindInv, StoreOutlivesRequests, Serving
  <1>1. CASE MainStep \/ Signal \/ KilledEarly \/ NilQueue \/ TickerPanics
    BY <1>1, MainRequests
  <1>2. CASE \E n \in Node : Learn(n)
    BY <1>2, <1>a DEF Learn
  <1>3. CASE SampleCPU \/ Collect \/ UpdateLocalNode
    BY <1>3, <1>a DEF SampleCPU, Collect, UpdateLocalNode
  <1>4. CASE SaveNodeState \/ SaveHistoryRecord \/ MonitorSelect
    BY <1>4, <1>a DEF SaveNodeState, SaveHistoryRecord, MonitorSelect
  <1>5. CASE HubEnds
    BY <1>5, <1>a DEF HubEnds
  <1>6. CASE Serve
    <2>1. UNCHANGED <<main, drained, req, listed, known>> /\ (server = "shut" => server' = "shut")
      BY <1>6 DEF Serve
    <2> QED
      BY <2>1 DEF DrainInv, FindInv, StoreOutlivesRequests, Serving
  <1>7. ASSUME NEW q \in Request, NEW path \in Paths, NEW id \in Node, NEW bearer \in BOOLEAN,
               NEW get \in BOOLEAN, Accept(q, path, id, bearer, get)
        PROVE  DrainInv' /\ FindInv'
    <2>1. server = "serving" /\ UNCHANGED <<main, server, drained, listed, known>>
      BY <1>7 DEF Accept
    <2>2. DrainInv'
      BY <2>1 DEF DrainInv, StoreOutlivesRequests
    <2>3. /\ \A p \in Request : p # q => req'[p] = req[p]
          /\ req'[q].id = id /\ req'[q].owed = (path = "detail" /\ id \in listed)
          /\ req'[q].at = HandlerOf(path)
      BY <1>7 DEF Accept, TypeOK
    <2>4. HandlerOf(path) \notin {"store", "missing"}
      BY DEF HandlerOf, Paths
    <2>5. req'[q].owed => req'[q].id \in known
      BY <2>3 DEF FindInv
    <2>6. FindInv'
      BY <2>1, <2>3, <2>4, <2>5 DEF FindInv
    <2> QED
      BY <2>2, <2>6
  <1>8. ASSUME NEW q \in Request,
               \/ ListNodes(q) \/ NodeDetail(q) \/ NodeFromStore(q) \/ Missing(q)
               \/ Answer(q) \/ Upgrade(q) \/ Register(q)
        PROVE  DrainInv' /\ FindInv'
    <2>1. /\ UNCHANGED <<main, server, drained, known>>
          /\ \A p \in Request : p # q => req'[p] = req[p]
          /\ \/ req'[q] = Idle
             \/ req'[q] = [req[q] EXCEPT !.at = "register"]
             \/ req'[q] = [req[q] EXCEPT !.at = "missing"] /\ req[q].at = "store"
             \/ /\ req'[q] = [req[q] EXCEPT !.at = "store"] /\ req[q].at = "memory"
                /\ req[q].id \notin known
          /\ req'[q] # Idle => Serving(q)
          /\ listed' \in {listed, listed \cup known}
      BY <1>8, HandlerStep
    <2>2. StoreOutlivesRequests'
      <3> SUFFICES ASSUME drained', NEW p \in Request PROVE ~Serving(p)'
        BY DEF StoreOutlivesRequests
      <3>1. ~Serving(p) /\ ~Serving(q)
        BY <2>1 DEF DrainInv, StoreOutlivesRequests
      <3>2. req'[q] = Idle
        BY <3>1, <2>1
      <3>3. CASE p = q
        BY <3>2, <3>3 DEF Serving, Idle
      <3>4. CASE p # q
        BY <3>1, <3>4, <2>1 DEF Serving
      <3> QED
        BY <3>3, <3>4
    <2>3. DrainInv'
      BY <2>1, <2>2 DEF DrainInv
    <2>4. /\ req'[q].owed => req'[q].id \in known
          /\ req'[q].at \in {"store", "missing"} => ~req'[q].owed
      <3>1. req[q].owed => req[q].id \in known
        BY DEF FindInv
      <3>2. req[q].at \in {"store", "missing"} => ~req[q].owed
        BY DEF FindInv
      <3>3. req[q] \in [at : Places, id : Node, owed : BOOLEAN]
        BY DEF TypeOK, Places
      <3> QED
        BY <3>1, <3>2, <3>3, <2>1 DEF Idle
    <2>5. listed' \subseteq known'
      BY <2>1 DEF FindInv
    <2>6. FindInv'
      BY <2>1, <2>4, <2>5 DEF FindInv
    <2> QED
      BY <2>3, <2>6
  <1>9. CASE UNCHANGED vars
    BY <1>9, <1>a DEF vars
  <1> QED
    BY <1>1, <1>2, <1>3, <1>4, <1>5, <1>6, <1>7, <1>8, <1>9 DEF Next

\* The requests' invariant holds of every behaviour.
LEMMA RequestsAlways == Spec => [](TypeOK /\ DrainInv /\ FindInv)
  BY InitType, NextType, InitRequests, NextRequests, PTL DEF Spec

\* When APIServer.Stop has returned without error, the database that main
\* closes next has no reader left among the handlers, for ever.
THEOREM NoRequestAfterDrain == Spec => []StoreOutlivesRequests
  <1>1. DrainInv => StoreOutlivesRequests
    BY DEF DrainInv
  <1> QED
    BY <1>1, RequestsAlways, PTL

\* A node that was listed is found by every request sent after that, also
\* when the database is closed already.
THEOREM ListedStaysFound == Spec => []ListedIsFound
  <1>1. FindInv => ListedIsFound
    BY DEF FindInv, ListedIsFound
  <1> QED
    BY <1>1, RequestsAlways, PTL
=============================================================================
