----------------------------- MODULE TrySession -----------------------------
(***************************************************************************)
(* mcpify try: a surface is made from the command line, the config and the *)
(* documents, and its tools are called from a prompt (repl.py 66-291,      *)
(* cli.py 944-986, 1263-1283 and 1383-1428, api_server.py 252-311 and      *)
(* 394-405).  The same path serves an agent's calls; retries, the cache    *)
(* and the token flow are in modules of their own, and an answer is the    *)
(* last one here.  Listings, help and the wording of results are left out. *)
(***************************************************************************)
EXTENDS Settings, RequestBuilding, ResponseShaping

CONSTANTS Launches,    \* the command lines and configs it may be started with
          Answers,     \* what an API may answer
          KeyLists,    \* a list of keys as it is written -> the keys
          Oddities     \* keys of arguments that no tool may have

ASSUME AnswersAssumption ==
  /\ NONE \notin Answers \cup Json
  /\ \A a \in Answers :
       /\ a \in [status : Nat, media : STRING, blank : BOOLEAN,
                 json : {NONE} \cup ReadTo[Nesting], xml : {NONE} \cup ReadTo[Nesting]]
       /\ a.status = 204 \/ a.blank => a.json = NONE

VARIABLES stage,     \* "off", "failed", "prompt", "waiting" (for the API) or "shown"
          launch,    \* how it was started
          entries,   \* server.entries, or the one API
          tools,     \* server.tools
          policy,    \* entry -> its fields and its secrets ({} when off)
          call,      \* the tool that is called, its arguments and credential
          answer,    \* the API's answer to it
          payload    \* what is shown of it

tryVars == <<stage, launch, entries, tools, policy, call, answer, payload>>
-----------------------------------------------------------------------------
NoPayload == Payload("nothing", FALSE, NONE, NONE)

TryInit ==
  /\ stage = "off"
  /\ launch \in Launches
  /\ entries = <<>> /\ tools = <<>> /\ policy = <<>>
  /\ call = NONE /\ answer = NONE /\ payload = NoPayload

Global(key) == MainArgs(launch)[key]
Keyed(list) == IF list = NONE THEN {} ELSE KeyLists[list]

\* main: with several APIs [tool-text] is not applied here, as cmd_serve does.
Boot ==
  /\ stage = "off"
  /\ IF Starts(launch)
     THEN /\ stage' = "prompt"
          /\ entries' = Entries(launch)
          /\ tools' = IF DOMAIN launch.data.apis # {} THEN Merge(entries')
                      ELSE WithTexts(entries'[1].tools, launch.data.texts)
          /\ policy' = [i \in DOMAIN entries' |->
               [fields  |-> Keyed(Namespaces(launch)[i]["fields"]),
                secrets |-> Keyed(Namespaces(launch)[i]["redact"])]]
     ELSE stage' = "failed" /\ UNCHANGED <<entries, tools, policy>>
  /\ UNCHANGED <<launch, call, answer, payload>>

\* :fields and :redact set or clear the keys for every API, for the calls to come; a list
\* without a key is refused.
SetPolicy(attr) ==
  /\ stage = "prompt"
  /\ \E keys \in {{}} \cup ValuesOf(KeyLists) :
       policy' = [i \in DOMAIN policy |-> [policy[i] EXCEPT ![attr] = keys]]
  /\ UNCHANGED <<stage, launch, entries, tools, call, answer, payload>>

\* _collect_arguments: each property is asked for and cast to its type, or skipped; a required
\* one that is skipped ends the questions.  (Their order is left out: any of the others may
\* have been asked before it.)
Collected(tool) ==
  {[k \in given |-> IF k = BodyKey /\ tool.hasBody /\ ~tool.raw THEN "object" ELSE "text"] :
     given \in SUBSET tool.input.keys}

\* What :raw and mcpify_call_tool take is any object; here, one that differs in one argument
\* from what would be asked for.
RawArguments(tool) ==
  Collected(tool) \cup
  {Updated(args, [k \in {key} |-> v]) : args \in Collected(tool),
     key \in tool.input.keys \cup Oddities \cup {BodyKey}, v \in {"text", "object", "empty", "none"}}

AuthOf(tool) == AuthFor(entries[tool.api], tool.method)

\* run_tool: refused before anything is sent, or sent.
Send(tool, args) ==
  LET refusal == Refusal(tool, args, AuthOf(tool)) IN
  /\ call' = [tool |-> tool, args |-> args, auth |-> AuthOf(tool)]
  /\ stage' = IF refusal = NONE THEN "waiting" ELSE "shown"
  /\ payload' = IF refusal = NONE THEN NoPayload ELSE Payload("refused", TRUE, NONE, NONE)
  /\ UNCHANGED <<launch, entries, tools, policy, answer>>

\* A tool, chosen by its number or its name or, with --lazy, named to mcpify_call_tool, which
\* looks among the operations' tools only.
Call(i) ==
  /\ stage = "prompt"
  /\ Reached(tools, tools[i].name) = i \/ Global("lazy") = "on"
  /\ \E args \in RawArguments(tools[i]) : Send(tools[i], args)

\* A tool by whose name run_tool reaches one of the server's own: that one is run, and nothing
\* is sent.
CallMeta(i) ==
  /\ stage = "prompt"
  /\ Reached(tools, tools[i].name) = 0 /\ Global("lazy") # "on"
  /\ payload' = Payload("meta", FALSE, NONE, NONE)
  /\ stage' = "shown"
  /\ UNCHANGED <<launch, entries, tools, policy, call, answer>>

\* mcpify_preview_request, with --enable-preview: the request, masked, and nothing is sent.
Preview(i) ==
  /\ stage = "prompt" /\ Global("enable-preview") = "on"
  /\ \E args \in RawArguments(tools[i]) :
       LET refusal == Refusal(tools[i], args, AuthOf(tools[i])) IN
       payload' = Payload(IF refusal = NONE THEN "preview" ELSE "refused", refusal # NONE, NONE,
                          IF refusal # NONE THEN NONE
                          ELSE Masked(BuildRequest(tools[i], args, AuthOf(tools[i])), AuthOf(tools[i])))
  /\ stage' = "shown"
  /\ UNCHANGED <<launch, entries, tools, policy, call, answer>>

\* The API answers: its answer is shaped by the policy of the tool's API and shown.  Of the
\* call only what the answer depends on is kept.
Show ==
  /\ stage = "waiting"
  /\ \E a \in Answers :
       LET p == policy[call.tool.api] IN
       /\ answer' = a
       /\ payload' = PayloadFor(call.tool.output # NONE, Shaped(a, p.fields, p.secrets), Global("format"))
  /\ call' = [tool |-> [api |-> call.tool.api, output |-> call.tool.output]]
  /\ stage' = "shown"
  /\ UNCHANGED <<launch, entries, tools, policy>>

\* The prompt asks again.
Ask ==
  /\ stage = "shown"
  /\ stage' = "prompt"
  /\ call' = NONE /\ answer' = NONE /\ payload' = NoPayload
  /\ UNCHANGED <<launch, entries, tools, policy>>

TryNext ==
  \/ Boot \/ SetPolicy("fields") \/ SetPolicy("secrets") \/ Show \/ Ask
  \/ \E i \in DOMAIN tools : Call(i) \/ CallMeta(i) \/ Preview(i)

TrySpec == TryInit /\ [][TryNext]_tryVars
-----------------------------------------------------------------------------
Started == stage = "prompt"

\* Every tool of the surface is reached by its own name, never another API's (but for the one
\* name that NamesResolve excepts); a name two APIs claim is given to neither; and no filter of
\* an API is lost on the way from the flags and the config to the merged surface.
SurfaceSound == Started =>
  /\ NamesResolve(tools, entries) /\ NobodyWins(tools, entries)
  /\ \A i \in DOMAIN entries : PolicyKept(tools, i, FilterFlags(Namespaces(launch)[i]))

\* "Collisions are impossible by construction" (tools.py 21): no tool of the surface is
\* shadowed by one of the server's own.
EveryToolReached == Started /\ Global("lazy") # "on" =>
  \A i \in DOMAIN tools : Reached(tools, tools[i].name) = i

\* No cycle of $refs keeps a document from being resolved to an end, no property that a member
\* of allOf declares is lost when allOf comes last, and files that refer to each other without
\* a cycle are inlined.
SchemasResolve == Started => \A i \in DOMAIN entries :
  LET spec == Documents[Namespaces(launch)[i]["spec"]] IN
  /\ \A s \in SchemasOf(spec) :
       CyclesAreCaught(s, spec.schemas) /\ MembersSurvive(s, spec.schemas)
  /\ \A f \in DOMAIN spec.files : AllInlined(spec.files, f)

\* The settings of each API come from its own layers (Settings.SettingsKept).
LayersKept == Started => SettingsKept(launch)

\* What a tool advertises is what a call needs and, with Unshown's exceptions, all it takes; a
\* request carries all its arguments and one credential of the operator's, that of its API and
\* of its method; and a dry run shows no credential.  A header that an argument fills in is not
\* among those credentials, be it Authorization: that is NothingInjected's.
RequestsHonest ==
  /\ call # NONE /\ answer = NONE => SchemaHonest(call.tool, call.args, call.auth)
  /\ stage = "waiting" =>
       LET entry == entries[call.tool.api] IN
       /\ OneCredential(BuildRequest(call.tool, call.args, call.auth), call.auth)
       /\ call.auth = IF call.tool.annotations.readOnly \/ entry.writeAuth = NONE THEN entry.auth
                      ELSE entry.writeAuth
  /\ payload.reads = "preview" => CredentialsIn(payload.structured) = {}

\* "Clients cannot inject their own credentials through tool arguments" (USAGE 214-215): no
\* request has an Authorization header that an argument has filled in.
NothingInjected == stage = "waiting" =>
  LET sent == BuildRequest(call.tool, call.args, call.auth).headers
  IN "authorization" \in DOMAIN sent => sent["authorization"][1] # "argument"

\* Redaction (ResponseShaping.SecretsMasked: of answers in JSON, by the names of the list that
\* are written without capitals) and projection, with the policy the API has when it answers.
AnswersMasked == answer # NONE =>
  LET p == policy[call.tool.api] IN
  /\ SecretsMasked(answer, p.fields, p.secrets, payload)
  /\ answer.json # NONE /\ p.fields # {} => ProjectsExactly(answer.json, p.fields)

\* No value below a key of the list is in what is shown as a tree.
NoSecretShown == \A tree \in {payload.text, payload.structured} \ {NONE} : \A l \in Leaves[tree] :
  Secret(l, policy[call.tool.api].secrets) => l.is \in {Stars, Null}

\* "Masked with *** ... case-insensitive" (USAGE 949-951): of an answer in JSON, each value below
\* a key of the list is masked, however the list writes the key.
AnyCaseMasked == answer # NONE /\ answer.json # NONE => NoSecretShown

\* "... at every level of every response" (USAGE 949-950): an answer that the API gives as XML
\* is masked like one in JSON, by the names that are written without capitals.
AnyFormatMasked ==
  answer # NONE /\ (\A k \in policy[call.tool.api].secrets : ~k.caps) => NoSecretShown

\* Truncation (ResponseShaping.TruncationAccounts) of what the payload shows.
CutsAccounted == answer # NONE /\ answer.json # NONE =>
  LET p == policy[call.tool.api] IN
  TruncationAccounts(Shaped(answer, p.fields, p.secrets).json)

\* "Success must carry structuredContent" (api_server.py 458-459), of a tool with an
\* outputSchema, whatever the body of the success.
EverySuccessStructured ==
  answer # NONE /\ ~payload.isError /\ call.tool.output # NONE => payload.structured # NONE

\* Structured content (ResponseShaping.PromiseKept, with the successes it exempts); without
\* --fields and --redact it is the API's own JSON, unchanged.
PromisesKept == answer # NONE =>
  LET promised == call.tool.output # NONE
      p == policy[call.tool.api]
  IN /\ PromiseKept(promised, answer, payload)
     /\ p.fields = {} /\ p.secrets = {} /\ ~payload.isError /\ payload.structured # NONE
          => payload.structured \in {answer.json, answer.xml}

\* "Merge member properties/required upward" (spec.py 216), of every allOf, wherever it stands in
\* its schema.
AllOfIsMerged(l) == \A i \in DOMAIN Namespaces(l) :
  LET spec == Documents[Namespaces(l)[i]["spec"]] IN
  \A s \in SchemasOf(spec) : MembersMerged(s, spec.schemas)
=============================================================================
