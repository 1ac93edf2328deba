--------------------------- MODULE ToolGeneration ---------------------------
(***************************************************************************)
(* From operations to a tool surface: one tool per operation (tools.py     *)
(* 28-336), the filters of the command line (cli.py 45-80), the merge of   *)
(* several APIs (aggregate.py 32-64) and the operator's descriptions       *)
(* (cli.py 625-654).                                                       *)
(*                                                                         *)
(* A name is a sequence of words, which slugify would join by underscores. *)
(* An operation is a record: its operationId ("id", which may be empty),   *)
(* its parameters, its tags, its request body and its 2xx responses.  A    *)
(* parameter is a record (location, name, required, schema) or a $ref to   *)
(* one.  A body is NONE, a schema, or a raw one of another media type.     *)
(***************************************************************************)
EXTENDS Specs

CONSTANTS Numeral(_)    \* a number as it is written

\* META_TOOL_NAMES: the names no tool of an operation is given.
MetaTools == {<<"mcpify", "search", "tools">>, <<"mcpify", "get", "tool", "schema">>,
              <<"mcpify", "call", "tool">>, <<"mcpify", "preview", "request">>, <<"mcpify", "health">>}

\* build_meta_tools: the names of the server's own tools, one more than are reserved.
Dispatched == MetaTools \cup {<<"mcpify", "cache", "invalidate">>}

\* run_tool: what a name reaches, which is the server's own tool (0), or the last of the
\* tools that have it, as by_name keeps.
Reached(tools, name) ==
  LET named == {i \in DOMAIN tools : tools[i].name = name}
  IN IF name \in Dispatched \/ named = {} THEN 0
     ELSE CHOOSE i \in named : \A j \in named : j <= i

\* slugify: a name nothing is left of is "call".
Slug(words) == IF words = <<>> THEN <<"call">> ELSE words

\* operation_id: the declared one, or the method with the path, braces dropped.
OperationName(o) == IF o.op.id # <<>> THEN o.op.id ELSE Slug(<<o.method>> \o o.item.path)

\* A bug: the count begins over for each tool, so a third one gets the second's name.
MutantFreeName(base, taken) == IF base \in taken THEN Append(base, "2") ELSE base

\* name, name_2, name_3, ...: the first that is free.
FreeName(base, taken) ==
  IF base \notin taken THEN base
  ELSE LET Try(k) == Append(base, Numeral(k))
           last   == Cardinality(taken) + 2
           first  == CHOOSE k \in 2..last :
                       Try(k) \notin taken /\ \A j \in 2..(k - 1) : Try(j) \in taken
       IN Try(first)

\* The names of tools that want the names in bases, given in their order.
FreshNames(bases) ==
  LET First[n \in 0..Len(bases)] ==     \* those of the first n
        IF n = 0 THEN <<>>
        ELSE Append(First[n - 1], FreeName(bases[n], MetaTools \cup ValuesOf(First[n - 1])))
  IN First[Len(bases)]

\* annotations_for: hints for the client's approval.
Annotations(method) ==
  [readOnly    |-> method = "get",
   destructive |-> method = "delete",
   idempotent  |-> method \in {"get", "put", "delete"}]
-----------------------------------------------------------------------------
(* Parameters and the input schema. *)

Target(p, spec) == IF p.ref = NONE THEN p ELSE spec.params[p.ref]

\* extract_parameters: the operation's own replace the path's of the same place and name.  A
\* $ref without a target is a SpecError that nothing catches: no surface is built.
ParametersKnown(o, spec) ==
  \A p \in o.item.params \cup o.op.params : p.ref = NONE \/ p.ref \in DOMAIN spec.params
Parameters(o, spec) ==
  LET own  == {Target(p, spec) : p \in o.op.params}
      path == {Target(p, spec) : p \in o.item.params}
  IN own \cup {p \in path : \A q \in own : q.name # p.name \/ q.in # p.in}

\* Parameters of a header are advertised with a prefix, the others by their names.
Key(p) == IF p.in = "header" THEN <<"header", p.name>> ELSE <<p.name>>

\* Not advertised: cookies, the nameless, and Authorization, which the flags manage.
Advertised(p) ==
  p.in \in {"path", "query", "header"} /\ p.name # "" /\ (p.in = "header" => p.name # "authorization")

HasBody(o) == o.op.body # NONE

\* A body is advertised for the methods that have one by rights (line 241); what the tool
\* demands when it is called does not depend on the method (has_body, line 313).
BodyShown(o) == HasBody(o) /\ o.method \notin {"get", "head", "delete"}

\* build_input_schema, without the texts: the names of the arguments and those required.
\* The body is among the required ones only with --strict.
InputSchema(o, spec, strict) ==
  LET shown == {p \in Parameters(o, spec) : Advertised(p)}
      keys  == {Key(p) : p \in shown} \cup (IF BodyShown(o) THEN {<<"body">>} ELSE {})
  IN [keys     |-> keys,
      required |-> IF strict THEN keys ELSE {Key(p) : p \in {q \in shown : q.required}}]

\* output_schema_for: of the first 2xx response that documents a JSON body; none if that
\* one does not resolve.
OutputSchema(o, spec) ==
  IF o.op.responses = <<>> THEN NONE
  ELSE IF Resolves(o.op.responses[1], spec.schemas)
       THEN Resolved(o.op.responses[1], spec.schemas) ELSE NONE
-----------------------------------------------------------------------------
(* Tools. *)

\* operation_to_tool: the tool has the first API and this name until it is merged.
Tool(o, spec, name, strict) ==
  [name        |-> name,
   api         |-> 1,
   was         |-> name,
   operation   |-> <<o.method, o.at>>,
   method      |-> o.method,
   path        |-> o.item.path,
   vars        |-> o.item.vars,
   parameters  |-> Parameters(o, spec),
   hasBody     |-> HasBody(o),
   raw         |-> HasBody(o) /\ o.op.body.type = "raw",
   body        |-> IF HasBody(o) THEN SafelyResolved(o.op.body, "object", spec.schemas) ELSE NONE,
   input       |-> InputSchema(o, spec, strict),
   output      |-> OutputSchema(o, spec),
   annotations |-> Annotations(o.method),
   tags        |-> o.op.tags,
   description |-> "from the spec"]

Buildable(spec) ==
  \A i \in DOMAIN Operations(spec) :
    Operations(spec)[i].method \in {"head", "options"} \/ ParametersKnown(Operations(spec)[i], spec)

\* spec_to_tools: head and options have no tool.
SpecToTools(spec, strict) ==
  LET all   == Operations(spec)
      ops   == Selected(all, {i \in DOMAIN all : all[i].method \notin {"head", "options"}})
      names == FreshNames([i \in DOMAIN ops |-> OperationName(ops[i])])
  IN [i \in DOMAIN ops |-> Tool(ops[i], spec, names[i], strict)]

\* A bug: what --allow names is kept whatever else is asked.
MutantKept(t, flags) ==
  \/ t.path \in flags.allow
  \/ /\ flags.readOnly => t.method = "get"
     /\ flags.tag # NONE => flags.tag \in t.tags
     /\ flags.include # NONE => t.path \in flags.include
     /\ t.path \notin flags.exclude \cup flags.deny

\* filter_tools: --allow takes back what --read-only drops, and nothing else.  The patterns
\* are the sets of the paths they match.
Kept(t, flags) ==
  /\ flags.readOnly /\ t.method # "get" => t.path \in flags.allow
  /\ flags.tag # NONE => flags.tag \in t.tags
  /\ flags.include # NONE => t.path \in flags.include
  /\ t.path \notin flags.exclude \cup flags.deny

FilterTools(tools, flags) == Selected(tools, {i \in DOMAIN tools : Kept(tools[i], flags)})

NamesOf(api) == {api.tools[i].name : i \in DOMAIN api.tools}

\* More than one API claims the name of this tool.
Claimed(apis, a, t) == \E b \in (DOMAIN apis) \ {a} : t.name \in NamesOf(apis[b])

\* A bug: the API that comes first keeps the name.
MutantBaseName(apis, a, t) ==
  IF \E b \in 1..(a - 1) : t.name \in NamesOf(apis[b]) THEN Slug(apis[a].label) \o t.name
  ELSE t.name

\* Such a name gets its API's label in front, in every API.
BaseName(apis, a, t) == IF Claimed(apis, a, t) THEN Slug(apis[a].label) \o t.name ELSE t.name

\* merge_entries: what still collides gets a number.  A tool keeps the API it is of, and here
\* the name it had.
Merge(apis) ==
  LET Of(a) == [i \in DOMAIN apis[a].tools |-> [apis[a].tools[i] EXCEPT !.api = a]]
      all   == FlattenSeq([a \in DOMAIN apis |-> Of(a)])
      names == FreshNames([i \in DOMAIN all |-> BaseName(apis, all[i].api, all[i])])
  IN [i \in DOMAIN all |-> [all[i] EXCEPT !.name = names[i]]]

\* _apply_tool_text: the operator's descriptions, by the final names.
WithTexts(tools, texts) ==
  [i \in DOMAIN tools |-> IF tools[i].name \in texts
                          THEN [tools[i] EXCEPT !.description = "from the operator"] ELSE tools[i]]
-----------------------------------------------------------------------------
(* What a surface must be. *)

\* Every name is one tool's, and a call by it reaches that tool, unless the name is the one
\* that is dispatched without being reserved (TrySession.EveryToolReached has no such
\* exception); and each operation an API has kept is on the surface once.
NamesResolve(tools, apis) ==
  /\ \A i \in DOMAIN tools :
       /\ Reached(tools, tools[i].name) = i \/ tools[i].name \in Dispatched \ MetaTools
       /\ \A j \in DOMAIN tools : tools[i].name = tools[j].name => i = j
  /\ \A a \in DOMAIN apis : \A t \in ValuesOf(apis[a].tools) :
       Cardinality({i \in DOMAIN tools : tools[i].api = a /\ tools[i].operation = t.operation}) = 1

\* A name that two APIs claimed is given to neither: both of their tools say which API they
\* are of.
NobodyWins(tools, apis) ==
  \A i \in DOMAIN tools :
    Claimed(apis, tools[i].api, [name |-> tools[i].was]) =>
      tools[i].name # tools[i].was /\ IsPrefix(Slug(apis[tools[i].api].label), tools[i].name)

\* --deny wins over everything, and no write of an API is served with its --read-only unless
\* its --allow names it.
PolicyKept(tools, api, flags) ==
  \A i \in DOMAIN tools : tools[i].api = api =>
    /\ tools[i].path \notin flags.deny
    /\ flags.readOnly /\ tools[i].method # "get" => tools[i].path \in flags.allow
=============================================================================
