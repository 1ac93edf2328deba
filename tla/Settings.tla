------------------------------ MODULE Settings ------------------------------
(***************************************************************************)
(* From the command line and the config file to the settings of each API   *)
(* (config.py 235-317, cli.py 83-145, 478-568 and 944-986).                *)
(*                                                                         *)
(* A config has its [serve] table, the [envs.NAME] and [apis.NAME] tables, *)
(* its default-env and the tools its [tool-text] names.  A table maps keys *)
(* to values, which are strings here, and NONE stands for None.  The       *)
(* command line maps the flags that are given, "spec" among them; the      *)
(* parser fills in the others.                                             *)
(***************************************************************************)
EXTENDS ToolGeneration, Credentials

CONSTANTS Defaults,    \* what the parser gives each key: NONE, "off" for a switch, ...
          Documents,   \* spec path -> the document; a path that is no key cannot be loaded
          Matches      \* a pattern of a flag -> the paths it matches

Keys     == DOMAIN Defaults
Switches == {"read-only", "lazy", "enable-preview", "strict"}
Flags(cli) == Updated(Defaults, cli)

\* A table has a value for each of its keys, as TOML and the parser have it, and a launch knows
\* the flags only.
Filled(table) == \A key \in DOMAIN table :
  table[key] # NONE /\ (key \in Switches => table[key] \in {"on", "off"})
LaunchRead(l) ==
  /\ DOMAIN l.cli \subseteq Keys /\ DOMAIN l.data.apis \subseteq STRING /\ IsFiniteSet(DOMAIN l.data.apis)
  /\ \A table \in {l.cli, l.data.serve} \cup ValuesOf(l.data.envs) \cup ValuesOf(l.data.apis) : Filled(table)

ASSUME SettingsAssumption ==
  /\ "spec" \in Keys /\ \A key \in Switches \cap Keys : Defaults[key] = "off"
  /\ "timeout" \in Keys => Defaults["timeout"] = "30"
  /\ \A d \in DOMAIN Documents : DocumentRead(Documents[d])
-----------------------------------------------------------------------------
(* The layers. *)

\* resolve: the --env flag comes before the file's default-env.
ChosenEnv(data, env) == Or(env, data.defaultEnv)
EnvKnown(data, env)  == ChosenEnv(data, env) \in DOMAIN data.envs \cup {NONE}
Resolve(data, env) ==
  IF ChosenEnv(data, env) = NONE THEN data.serve
  ELSE Updated(data.serve, data.envs[ChosenEnv(data, env)])

\* A flag counts as not given when it has one of these values, whoever gave them.
Unset(key, value) ==
  \/ value \in {NONE, "off"}
  \/ key \in {"timeout", "cache-ttl", "retry-delay", "wait-on-429"} /\ value = "0"
  \/ key = "timeout" /\ value = "30"
  \/ key \in {"oauth2-client-auth", "name", "format"} /\ value = Defaults[key]

\* apply_to_namespace: a switch is only ever turned on.
Applied(args, settings) ==
  [key \in Keys |->
     IF /\ key \in DOMAIN settings
        /\ IF key \in Switches THEN args[key] = "off" /\ settings[key] = "on"
           ELSE Unset(key, args[key]) /\ settings[key] # NONE
     THEN settings[key] ELSE args[key]]

\* main: the flags, filled from [serve] and the chosen [envs.NAME].
MainArgs(l) == Applied(Flags(l.cli), Resolve(l.data, l.env))

\* A bug: the arguments are not copied, and keep what the first API's table has filled in.
MutantEntryArgs(l, api) ==
  LET Filling(args, name) == Applied([args EXCEPT !["spec"] = NONE],
                                     Updated(Resolve(l.data, l.env), l.data.apis[name]))
  IN Filling(Filling(MainArgs(l), SetToSeq(DOMAIN l.data.apis)[1]), api)

\* _build_entries: a copy of those, filled from [serve] with [apis.NAME] on top.
EntryArgs(l, api) ==
  Applied([MainArgs(l) EXCEPT !["spec"] = NONE],
          Updated(Resolve(l.data, l.env), l.data.apis[api]))

\* The launches that end with an error before any document is read: an unknown environment; a
\* spec beside [apis.*], be it the config's own; no spec.
Misconfigured(l) ==
  \/ ~EnvKnown(l.data, l.env)
  \/ DOMAIN l.data.apis # {} /\ MainArgs(l)["spec"] # NONE
  \/ DOMAIN l.data.apis = {} /\ MainArgs(l)["spec"] = NONE
  \/ \E a \in DOMAIN l.data.apis : EntryArgs(l, a)["spec"] = NONE
-----------------------------------------------------------------------------
(* One API. *)

MatchedBy(pattern) == IF pattern = NONE THEN {} ELSE Matches[pattern]
FilterFlags(ns) ==
  [readOnly |-> ns["read-only"] = "on",
   tag      |-> ns["tag"],
   include  |-> IF ns["include"] = NONE THEN NONE ELSE MatchedBy(ns["include"]),
   exclude  |-> MatchedBy(ns["exclude"]),
   allow    |-> MatchedBy(ns["allow"]),
   deny     |-> MatchedBy(ns["deny"])]

\* _pick_server: by its number, else the first that has the name.
PickServer(servers, choice) ==
  IF \E i \in 1..9 : choice = Numeral(i)
  THEN LET i == CHOOSE n \in 1..9 : choice = Numeral(n)
       IN IF i \in DOMAIN servers THEN servers[i] ELSE NONE
  ELSE LET named == SelectSeq(servers, LAMBDA s : choice \in s.names)
       IN IF named = <<>> THEN NONE ELSE named[1]

\* _base_url: NONE for its SpecErrors (no server, none of that name, a URL that cannot be
\* called as it is).
BaseUrl(spec, override, server) ==
  IF override # NONE THEN override
  ELSE LET entry == IF spec.servers = <<>> THEN NONE
                    ELSE IF server = NONE THEN spec.servers[1] ELSE PickServer(spec.servers, server)
       IN IF entry = NONE \/ ~entry.callable THEN NONE ELSE entry.url

\* An API cannot be served when its document is unreadable or has a parameter without a
\* target, no tool is left, its URL is not known, or its credentials clash.
Servable(ns) ==
  /\ ns["spec"] \in DOMAIN Documents /\ Buildable(Documents[ns["spec"]])
  /\ FilterTools(SpecToTools(Documents[ns["spec"]], ns["strict"] = "on"), FilterFlags(ns)) # <<>>
  /\ BaseUrl(Documents[ns["spec"]], ns["base-url"], ns["server"]) # NONE
  /\ ~AuthClash(ns)

\* An entry: what the calls of one API need.
EntryOf(label, ns) ==
  LET spec == Documents[ns["spec"]]
      main == ResolveAuth(ns, spec)
  IN [label     |-> label,
      tools     |-> FilterTools(SpecToTools(spec, ns["strict"] = "on"), FilterFlags(ns)),
      base      |-> BaseUrl(spec, ns["base-url"], ns["server"]),
      auth      |-> main,
      writeAuth |-> ResolveWriteAuth(ns, main)]

\* The APIs in the order of the file, which SetToSeq stands for; a single one has no label.
Namespaces(l) ==
  IF DOMAIN l.data.apis = {} THEN <<MainArgs(l)>>
  ELSE [i \in DOMAIN SetToSeq(DOMAIN l.data.apis) |-> EntryArgs(l, SetToSeq(DOMAIN l.data.apis)[i])]
Starts(l) == ~Misconfigured(l) /\ \A i \in DOMAIN Namespaces(l) : Servable(Namespaces(l)[i])
Entries(l) ==
  [i \in DOMAIN Namespaces(l) |->
     EntryOf(IF DOMAIN l.data.apis = {} THEN NONE ELSE <<SetToSeq(DOMAIN l.data.apis)[i]>>,
             Namespaces(l)[i])]
-----------------------------------------------------------------------------
(* What settings must be. *)

\* The first layer that says something about the key.
First(key, layers, default) ==
  LET saying == {i \in DOMAIN layers : key \in DOMAIN layers[i] /\ layers[i][key] # NONE}
  IN IF saying = {} THEN default
     ELSE layers[CHOOSE i \in saying : \A j \in saying : i <= j][key]

EnvTable(l) == IF ChosenEnv(l.data, l.env) = NONE THEN <<>> ELSE l.data.envs[ChosenEnv(l.data, l.env)]
OwnTable(l, i) == IF DOMAIN l.data.apis = {} THEN <<>> ELSE l.data.apis[SetToSeq(DOMAIN l.data.apis)[i]]

\* The keys a config can fill: those whose default counts as unset.  "retry", "retry-delay"
\* and "write-oauth2-client-auth" are not among them.
Fillable == {key \in Keys : key # "spec" /\ Unset(key, Defaults[key])}

\* The key is said both in an API's own table and in those for every API.
Contested(l, i, key) ==
  key \in DOMAIN OwnTable(l, i) /\ key \in DOMAIN EnvTable(l) \cup DOMAIN l.data.serve

\* What an API is served with comes from its own layers, never from another API's table; a
\* flag wins that is given a value of its own, other than the default, zero or "off"; and,
\* where no flag is given, a key that a config can fill has what [apis.NAME], else the chosen
\* environment, else [serve] says.  Who wins when [apis.NAME] and one of the others both speak
\* is DocumentedPrecedence's; the keys and flags excepted here are the next two properties'.
SettingsKept(l) == \A i \in DOMAIN Namespaces(l) : \A key \in Keys \ {"spec"} :
  LET value  == Namespaces(l)[i][key]
      layers == <<OwnTable(l, i), EnvTable(l), l.data.serve>>
  IN /\ \/ value = Defaults[key]
        \/ \E table \in {l.cli} \cup ValuesOf(layers) : key \in DOMAIN table /\ table[key] = value
     /\ key \in DOMAIN l.cli /\ l.cli[key] \notin {Defaults[key], "0", "off"} => value = l.cli[key]
     /\ key \in Fillable \ DOMAIN l.cli /\ ~Contested(l, i, key)
          => value = First(key, layers, Defaults[key])

\* "Every setting maps 1:1 to a CLI flag" (USAGE 486): what the config says, and no flag or
\* other table contradicts, is applied, whatever the key.
ConfigIsApplied(l) == \A i \in DOMAIN Namespaces(l) : \A key \in Keys \ ({"spec"} \cup DOMAIN l.cli) :
  ~Contested(l, i, key) =>
    Namespaces(l)[i][key]
      = First(key, <<OwnTable(l, i), EnvTable(l), l.data.serve>>, Defaults[key])

\* "Flags always win" (USAGE 486): whatever value they are given.
FlagsAlwaysWin(l) == \A i \in DOMAIN Namespaces(l) : \A key \in (DOMAIN l.cli) \ {"spec"} :
  Namespaces(l)[i][key] = l.cli[key]

\* The order of the layers as cli.py 481 gives it: flags, [apis.NAME], [serve], defaults.
DocumentedPrecedence(l) ==
  DOMAIN l.data.apis # {} => \A i \in DOMAIN Namespaces(l) :
    \A key \in Fillable :
      Namespaces(l)[i][key]
        = First(key, <<l.cli, OwnTable(l, i), EnvTable(l), l.data.serve>>, Defaults[key])
=============================================================================
