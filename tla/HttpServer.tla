---------------------------- MODULE HttpServer -----------------------------
(***************************************************************************)
(* The Streamable HTTP transport (http_transport.py 46-309).  A thread per *)
(* connection reads its requests one after another; all of them share the  *)
(* ApiServer and its one handshake flag.                                   *)
(*                                                                         *)
(* A request is a record: its verb, the bearer token it carries, whether   *)
(* its Authorization header is spelt "Bearer TOKEN" to the letter          *)
(* ("exact"), the set of flaws it has, its message, whether bytes of a     *)
(* body follow its headers, and whether it accepts an event stream.  A     *)
(* reply is its status and, for a JSON-RPC answer, its kind and the        *)
(* tools it shows: those of a listing, or the one whose result it is.      *)
(* Bodies and the warnings at the start are left out.                      *)
(***************************************************************************)
EXTENDS McpMessages, Integers, Sequences, FiniteSets

CONSTANTS Connections,   \* the clients' connections
          Requests,      \* what they may send
          MaxRequests,   \* bound: how many requests the server gets
          Tools,         \* the names of the tools
          Scopes,        \* token -> the tools its allow and deny patterns match
          SharedToken,   \* --http-token
          NoReply

ASSUME HttpAssumption ==
  /\ Requests # {} /\ MaxRequests \in Nat \ {0}
  /\ DOMAIN Scopes # {} /\ SharedToken \notin DOMAIN Scopes
  /\ \A t \in DOMAIN Scopes : Scopes[t].allow \cup Scopes[t].deny \subseteq Tools

VARIABLES access,       \* "open", "shared_token" or "scopes": how the server was started
          conn,         \* connection -> "idle", "handling", "running" or "closed"
          request,      \* connection -> the request its thread is handling
          inStep,       \* connection -> whether the next byte begins a request
          reply,        \* connection -> the last reply
          arrivals,     \* how many requests have arrived
          openAt        \* connection -> initialized when its request arrived (no variable
                        \* of the code: for the properties)

connVars == <<access, conn, request, inStep, reply, arrivals, openAt>>
httpVars == <<initialized, connVars>>
-----------------------------------------------------------------------------
HttpInit ==
  /\ access \in {"open", "shared_token", "scopes"}
  /\ initialized = FALSE
  /\ conn = [c \in Connections |-> "idle"]
  /\ request = [c \in Connections |-> CHOOSE r \in Requests : TRUE]
  /\ inStep = [c \in Connections |-> TRUE]
  /\ reply = [c \in Connections |-> NoReply]
  /\ arrivals = 0
  /\ openAt = [c \in Connections |-> FALSE]

\* With scopes, only their tokens count.  The scheme may be in any case, with any blanks.
Authorized(r) ==
  CASE access = "open"         -> TRUE
    [] access = "shared_token" -> r.token = SharedToken
    [] access = "scopes"       -> r.token \in DOMAIN Scopes

\* A bug: the patterns that allow come first.
MutantAllowed(t, tool) == tool \in Scopes[t].allow

\* Deny wins over allow.
Allowed(t, tool) == tool \in Scopes[t].allow \ Scopes[t].deny

\* What do_POST looks for, in its order, and the status of each.
Checks == <<"media_type", "no_length", "negative_length", "too_large",
            "no_JSON", "batch", "no_object">>
StatusOf == [f \in {Checks[i] : i \in DOMAIN Checks} |->
               CASE f = "media_type" -> 415 [] f = "no_length" -> 411
                 [] f = "too_large"  -> 413 [] OTHER           -> 400]
FirstFlaw(r) == Checks[CHOOSE i \in DOMAIN Checks :
                         Checks[i] \in r.flaws /\ \A j \in 1..(i - 1) : Checks[j] \notin r.flaws]

\* A reply without an answer of the server in it.
Bare(status) == [status |-> status, kind |-> "none", tools |-> {}]

\* A request arrives: the thread reads its headers.
Arrive(c, r) ==
  /\ conn[c] = "idle" /\ inStep[c] /\ arrivals < MaxRequests
  /\ arrivals' = arrivals + 1
  /\ request' = [request EXCEPT ![c] = r]
  /\ openAt' = [openAt EXCEPT ![c] = initialized]
  /\ UNCHANGED <<access, initialized>>

\* _send: the connection is kept, and whatever body was not read stays in the stream.
SendUnread(c, r, status) ==
  /\ reply' = [reply EXCEPT ![c] = Bare(status)]
  /\ inStep' = [inStep EXCEPT ![c] = ~r.body]
  /\ UNCHANGED conn

\* A bug: a rejected request's connection is kept like any other.
MutantAfterReject(c, r) == inStep' = [inStep EXCEPT ![c] = ~r.body] /\ UNCHANGED conn

\* _reject: the body may be unread, so the connection is closed.
AfterReject(c, r) == conn' = [conn EXCEPT ![c] = "closed"] /\ UNCHANGED inStep

Unauthorized(c, r) ==
  /\ Arrive(c, r) /\ r.verb = "POST" /\ ~Authorized(r)
  /\ SendUnread(c, r, 401)

Reject(c, r) ==
  /\ Arrive(c, r) /\ r.verb = "POST" /\ Authorized(r) /\ r.flaws # {}
  /\ reply' = [reply EXCEPT ![c] = Bare(StatusOf[FirstFlaw(r)])]
  /\ AfterReject(c, r)

Accept(c, r) ==
  /\ Arrive(c, r) /\ r.verb = "POST" /\ Authorized(r) /\ r.flaws = {}
  /\ conn' = [conn EXCEPT ![c] = "handling"]
  /\ UNCHANGED <<reply, inStep>>

\* do_GET, do_DELETE and do_OPTIONS, which ask for no token and read no body.
OtherVerb(c, r) ==
  /\ Arrive(c, r) /\ r.verb # "POST"
  /\ SendUnread(c, r, IF r.verb = "OPTIONS" THEN 204 ELSE 405)

\* The library reads the rest of a body as a request line: 400, and the connection ends.
Misread(c) ==
  /\ conn[c] = "idle" /\ ~inStep[c]
  /\ reply' = [reply EXCEPT ![c] = Bare(400)]
  /\ conn' = [conn EXCEPT ![c] = "closed"]
  /\ UNCHANGED <<access, initialized, request, inStep, arrivals, openAt>>

\* The tools an answer shows.
Shown(m, a) ==
  IF a.kind # "result" THEN {}
  ELSE CASE m.method = "tools/list" -> Tools
         [] m.method = "tools/call" -> {m.tool}
         [] OTHER                   -> {}

\* A bug: only the call is held against the scopes.
MutantScoped(r, a) ==
  IF r.m.method = "tools/call" /\ ~Allowed(r.token, r.m.tool)
  THEN [status |-> 200, kind |-> "-32602", tools |-> {}]
  ELSE [status |-> 200, kind |-> a.kind, tools |-> Shown(r.m, a)]

\* _apply_scopes: a listing loses the tools the token may not use (an error gets an empty
\* listing beside it); the answer to a call of such a tool, whatever it is, is replaced.
Scoped(r, a) ==
  CASE r.m.method = "tools/list" ->
         [status |-> 200, kind |-> a.kind, tools |-> {x \in Shown(r.m, a) : Allowed(r.token, x)}]
    [] r.m.method = "tools/call" /\ ~Allowed(r.token, r.m.tool) ->
         [status |-> 200, kind |-> "-32602", tools |-> {}]
    [] OTHER -> [status |-> 200, kind |-> a.kind, tools |-> Shown(r.m, a)]

\* A bug: nothing is sent for a notification, whose client waits.
MutantRespond(c, a) ==
  /\ a # NoAnswer
  /\ reply' = [reply EXCEPT ![c] = [status |-> 200, kind |-> a.kind, tools |-> {}]]
  /\ conn' = [conn EXCEPT ![c] = "idle"]

\* The token that _bearer_value finds for the scopes, which is none when the header is spelt
\* another way than "Bearer TOKEN".
ScopesFound(r) == access = "scopes" /\ r.exact

\* The end of do_POST: 202 without a body, or the answer; an event stream ends with its
\* connection.
Respond(c, a) ==
  LET r == request[c] IN
  /\ reply' = [reply EXCEPT ![c] =
       IF a = NoAnswer THEN Bare(202)
       ELSE IF ScopesFound(r) THEN Scoped(r, a)
       ELSE [status |-> 200, kind |-> a.kind, tools |-> Shown(r.m, a)]]
  /\ conn' = [conn EXCEPT ![c] = IF a # NoAnswer /\ r.sse THEN "closed" ELSE "idle"]

\* handle_message, to its answer or to run_tool; its exception ends the thread, and the
\* client's connection with it, without a reply.
Handle(c) ==
  LET m == request[c].m IN
  /\ conn[c] = "handling"
  /\ initialized' = OpenAfter(m, initialized)
  /\ CASE Raises(m) -> /\ conn' = [conn EXCEPT ![c] = "closed"]
                       /\ reply' = [reply EXCEPT ![c] = NoReply]
       [] RunsTool(m, initialized) -> conn' = [conn EXCEPT ![c] = "running"] /\ UNCHANGED reply
       [] OTHER -> Respond(c, DirectAnswer(m, initialized))
  /\ UNCHANGED <<access, request, inStep, arrivals, openAt>>

\* run_tool has ended.
Finish(c) ==
  /\ conn[c] = "running"
  /\ \E a \in CallAnswers(request[c].m) : Respond(c, a)
  /\ UNCHANGED <<access, initialized, request, inStep, arrivals, openAt>>

\* The client connects again: a new thread.
Reconnect(c) ==
  /\ conn[c] = "closed"
  /\ conn' = [conn EXCEPT ![c] = "idle"]
  /\ inStep' = [inStep EXCEPT ![c] = TRUE]
  /\ UNCHANGED <<access, initialized, request, reply, arrivals, openAt>>

HttpNext == \E c \in Connections :
  \/ \E r \in Requests : Unauthorized(c, r) \/ Reject(c, r) \/ Accept(c, r) \/ OtherVerb(c, r)
  \/ Misread(c) \/ Handle(c) \/ Finish(c) \/ Reconnect(c)

\* Each connection's thread runs; a tool call ends by its timeout.  No client must send.
HttpFairness == \A c \in Connections : WF_httpVars(Handle(c) \/ Finish(c))

HttpSpec == HttpInit /\ [][HttpNext]_httpVars /\ HttpFairness
-----------------------------------------------------------------------------
HttpTypes ==
  /\ initialized \in BOOLEAN /\ arrivals \in 0..MaxRequests
  /\ conn \in [Connections -> {"idle", "handling", "running", "closed"}]
  /\ request \in [Connections -> Requests]
  /\ inStep \in [Connections -> BOOLEAN] /\ openAt \in [Connections -> BOOLEAN]

\* The reply of the connection's last request is out.
Replied(c) == conn[c] \in {"idle", "closed"} /\ reply[c] # NoReply

\* What a token may use.
Permitted(t) == Scopes[t].allow \ Scopes[t].deny

\* A request of a scoped token, in a header spelt as _bearer_value reads it, is shown, in a
\* listing or as a result, only tools that its patterns allow and none of them denies, and a
\* listing that succeeds shows all of those, on whatever connection and after whoever's
\* handshake (http_transport.py 142-144 and 276-280).  Nothing is said of a header spelt
\* another way, nor of what has run before the reply: see the two properties below.
ShowsOnlyScoped == \A c \in Connections :
  access = "scopes" /\ request[c].exact /\ Replied(c) =>
    /\ \A x \in reply[c].tools : x \in Permitted(request[c].token)
    /\ request[c].m.method = "tools/list" /\ reply[c].kind = "result" =>
         Tools \cap Permitted(request[c].token) \subseteq reply[c].tools

\* "their tools/list shows only what their scopes allow" (USAGE 836): whoever is let in with
\* a scoped token, however the header is spelt.
ListingsScoped == \A c \in Connections :
  access = "scopes" /\ Replied(c) /\ request[c].m.method = "tools/list" =>
    \A x \in reply[c].tools : x \in Permitted(request[c].token)

\* "scoped-out calls are refused" (USAGE 837): no tool runs for a token that may not use it.
ScopedCallsRefused == \A c \in Connections :
  access = "scopes" /\ conn[c] = "running" => request[c].m.tool \in Permitted(request[c].token)

\* The two promises are not both broken.  This is weaker than each of them, so that one
\* counterexample breaks both: a listing shows all on one connection, and on another a tool
\* runs that the token may not use.
SomeScopePromiseKept == ListingsScoped \/ ScopedCallsRefused

\* A kept connection is in step with its client: only a reply sent before the body was read
\* and without closing (401, and 405 or 204 for a verb with a body) leaves bytes in it.  Each
\* other early reply closes it, as _reject's comment (lines 73-74) asks.
KeptInStep == \A c \in Connections :
  conn[c] # "closed" /\ ~inStep[c] => conn[c] = "idle" /\ reply[c].status \in {401, 405, 204}

\* No client is told to initialize when the handshake was over as its request arrived,
\* whatever the other clients do meanwhile: an initialize of theirs takes nothing back.
OpenForAll == \A c \in Connections :
  openAt[c] /\ conn[c] \in {"idle", "closed"} /\ reply[c] # NoReply => reply[c].kind # "-32002"

\* Every accepted request ends: with a reply, or with its connection.
EveryRequestEnds == \A c \in Connections :
  (conn[c] = "handling") ~> (conn[c] \in {"idle", "closed"})
=============================================================================
