------------------------------- MODULE Config --------------------------------
(***************************************************************************)
(* pkg/config/config.go: the configuration that main assembles from the    *)
(* defaults, goggrid.yaml, the environment and the command line.           *)
(*                                                                         *)
(* No setting depends on another one, so the layers are modelled per       *)
(* setting.  What a layer says about a setting is a form and a text.  The  *)
(* form is "absent" (not given, empty, null), "usable" ("on" or "off" for  *)
(* a switch), "zero" (0, 0s, an empty list), "negative" or "malformed"     *)
(* (not a number, boolean, duration or host:port, or an unknown discovery  *)
(* type); the text tells values of one form apart, and is compared only.   *)
(* A loaded value also has the layer it comes from: 1 the defaults, 2 the  *)
(* file, 3 the environment, 4 the flags.  host:port flags set two          *)
(* settings; an empty host in one is usable, it stands for every           *)
(* interface.                                                              *)
(***************************************************************************)
EXTENDS Integers, Sequences

\* the fields of type Config, by the kind of their value
Strings   == {"cluster.name", "cluster.bind_addr", "storage.db_path", "api.bind_addr", "api.token"}
Ports     == {"cluster.bind_port", "api.port", "discovery.port"}
Switches  == {"api.enabled", "api.ws.enabled", "discovery.enabled"}
Intervals == {"monitor.interval", "storage.retention", "gossip.sync_interval",
              "gossip.probe_interval", "discovery.interval"}
Lists     == {"cluster.seeds", "api.ws.allowed_origins"}
Types     == {"discovery.type"}

Setting == Strings \cup Ports \cup Switches \cup Intervals \cup Lists \cup Types

\* what may be written for a setting
Forms(s) ==
  {"absent"}
    \cup (IF s \in Switches THEN {"on", "off"} ELSE {"usable"})
    \cup (IF s \in Ports \cup Intervals THEN {"zero", "negative", "malformed"} ELSE {})
    \cup (IF s \in Lists THEN {"zero"} ELSE {})
    \cup (IF s \in Switches \cup Types THEN {"malformed"} ELSE {})

EnvSettings ==
  {"cluster.name", "cluster.seeds", "api.port", "api.token", "api.ws.enabled",
   "api.ws.allowed_origins", "discovery.enabled", "discovery.type", "discovery.port",
   "discovery.interval"}

FlagSettings == EnvSettings \cup {"cluster.bind_addr", "cluster.bind_port", "api.bind_addr"}

Usable == {"usable", "on", "off"}

Says(form, text) == [form |-> form, text |-> text]

Value(layer, said) == [from |-> layer, form |-> said.form, text |-> said.text]

\* no seeds, no allowed origins and no token
DefaultForm(s) ==
  CASE s \in Lists \cup {"api.token"} -> "zero"
    [] s \in {"api.enabled", "discovery.enabled"} -> "on"
    [] s = "api.ws.enabled" -> "off"
    [] OTHER -> "usable"

DefaultText(s) ==
  CASE s = "cluster.name" -> "MyCluster"
    [] s \in {"cluster.bind_addr", "api.bind_addr"} -> "0.0.0.0"
    [] s = "cluster.bind_port" -> "7946"
    [] s \in {"monitor.interval", "gossip.probe_interval"} -> "5s"
    [] s = "storage.db_path" -> "./goggrid.db"
    [] s = "storage.retention" -> "168h"
    [] s = "api.port" -> "8080"
    [] s = "gossip.sync_interval" -> "30s"
    [] s = "discovery.type" -> "udp"
    [] s = "discovery.port" -> "7947"
    [] s = "discovery.interval" -> "3s"
    [] s \in {"api.enabled", "discovery.enabled"} -> "true"
    [] s = "api.ws.enabled" -> "false"
    [] OTHER -> ""

DefaultConfig == [s \in Setting |-> Value(1, Says(DefaultForm(s), DefaultText(s)))]

\* the keys of the template's lines that have a verb, from top to bottom
TemplateKeys ==
  <<"cluster.name", "cluster.bind_addr", "cluster.bind_port", "monitor.interval",
    "storage.db_path", "storage.retention", "api.enabled", "api.bind_addr", "api.port",
    "api.ws.enabled", "gossip.sync_interval", "gossip.probe_interval",
    "discovery.enabled", "discovery.type", "discovery.port", "discovery.interval">>

\* Mutant: the two gossip intervals are passed in the other order.
TemplateArgs_Swapped ==
  <<"cluster.name", "cluster.bind_addr", "cluster.bind_port", "monitor.interval",
    "storage.db_path", "storage.retention", "api.enabled", "api.bind_addr", "api.port",
    "api.ws.enabled", "gossip.probe_interval", "gossip.sync_interval",
    "discovery.enabled", "discovery.type", "discovery.port", "discovery.interval">>

\* the fields of DefaultConfig that Sprintf puts in for them, in its order
TemplateArgs ==
  <<"cluster.name", "cluster.bind_addr", "cluster.bind_port", "monitor.interval",
    "storage.db_path", "storage.retention", "api.enabled", "api.bind_addr", "api.port",
    "api.ws.enabled", "gossip.sync_interval", "gossip.probe_interval",
    "discovery.enabled", "discovery.type", "discovery.port", "discovery.interval">>

\* the field that stands on the line of s
PrintedField(s) == TemplateArgs[CHOOSE i \in 1..Len(TemplateKeys) : TemplateKeys[i] = s]

(***************************************************************************)
(* What the file says that the first start writes when there is none; no   *)
(* later step of that process reads it, the next start does.  The lists    *)
(* are written as [] and the token as "".  A field is printed with %s, %d  *)
(* or %t in the notation that YAML reads back as the same value: a         *)
(* Duration by its String method, the strings between quotes.              *)
(***************************************************************************)
GenerateDefault ==
  [s \in Setting |->
     IF s \in Lists THEN Says("zero", "")
     ELSE IF s = "api.token" THEN Says("absent", "")
     ELSE Says(DefaultForm(PrintedField(s)), DefaultText(PrintedField(s)))]

\* the file does not parse, and main exits; an unknown type is a string to YAML
ParseError(file) == \E s \in Setting \ Types : file[s].form = "malformed"

(***************************************************************************)
(* mergeConfig skips what is empty, 0 or nil, ports that are not positive  *)
(* and unknown types.  Load has filled src with the defaults first, so an  *)
(* absent field merges the default onto itself.                            *)
(***************************************************************************)
MergeTakes(s, form) ==
  \/ form \in Usable
  \/ s \in Intervals /\ form = "negative"

\* Mutant: a port only has to be a number.
OverrideTakes_AnyPort(s, form) ==
  \/ form \in Usable
  \/ s \in Intervals \cup Ports /\ form \in {"zero", "negative"}
  \/ s \in Lists /\ form = "zero"

\* ApplyEnv and ParseFlags make the same checks on a string that is not
\* empty: any duration that parses, and a list that splitSeeds leaves empty,
\* are taken.
OverrideTakes(s, form) ==
  \/ form \in Usable
  \/ s \in Intervals /\ form \in {"zero", "negative"}
  \/ s \in Lists /\ form = "zero"

MergeConfig(cfg, file) ==
  [s \in Setting |-> IF MergeTakes(s, file[s].form) THEN Value(2, file[s]) ELSE cfg[s]]

ApplyEnv(cfg, env) ==
  [s \in Setting |->
     IF s \in EnvSettings /\ OverrideTakes(s, env[s].form) THEN Value(3, env[s]) ELSE cfg[s]]

ParseFlags(cfg, flags) ==
  [s \in Setting |->
     IF s \in FlagSettings /\ OverrideTakes(s, flags[s].form) THEN Value(4, flags[s]) ELSE cfg[s]]

\* Mutant: the file is read last.
Loaded_FileLast(file, env, flags) ==
  MergeConfig(ParseFlags(ApplyEnv(DefaultConfig, env), flags), file)

\* main, once the file has parsed or was not found
Loaded(file, env, flags) ==
  ParseFlags(ApplyEnv(MergeConfig(DefaultConfig, file), env), flags)

\* Config.Validate, which main does not call
Validate(cfg) ==
  \A s \in Ports \cup Types \cup {"cluster.name"} : cfg[s].form = "usable"

-----------------------------------------------------------------------------
(***************************************************************************)
(* What every combination of the layers gives.                             *)
(***************************************************************************)

\* nothing is said about a setting
Unsaid == Says("absent", "")

\* a layer that says form about s and nothing about the other settings; the
\* text is some value, which need not be the default
Only(s, form) == [t \in Setting |-> IF t = s THEN Says(form, "given") ELSE Unsaid]

\* P holds of what the layers f, e, g of each setting are loaded to
ForAllLayers(P(_, _, _, _, _)) ==
  \A s \in Setting : \A f, e, g \in Forms(s) :
     ~ParseError(Only(s, f)) =>
        P(s, f, e, g, Loaded(Only(s, f), Only(s, e), Only(s, g)))

\* no input makes Validate fail
ValidOutcome(s, f, e, g, cfg) == Validate(cfg)

\* a usable value is only overridden by a higher layer
PrecedenceOutcome(s, f, e, g, cfg) ==
  /\ f \in Usable => cfg[s].from >= 2
  /\ e \in Usable /\ s \in EnvSettings => cfg[s].from >= 3
  /\ g \in Usable /\ s \in FlagSettings => cfg[s].from = 4

\* the generated file loads to the values that no file does
TemplateOutcome(s, f, e, g, cfg) ==
  f = "absent" =>
     LET restarted == Loaded(GenerateDefault, Only(s, e), Only(s, g))
     IN  \A t \in Setting :
            restarted[t].form = cfg[t].form /\ restarted[t].text = cfg[t].text
=============================================================================
