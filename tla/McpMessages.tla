---------------------------- MODULE McpMessages ----------------------------
(***************************************************************************)
(* What the server does with one JSON-RPC message (handle_message,         *)
(* api_server.py 661-722), for the two transports, which call it.          *)
(*                                                                         *)
(* A message is a record: its id, its method, whether its params carry the *)
(* protocol version in _meta ("meta"), whether they are an object or       *)
(* something else that is not empty ("params"), and the tool a tools/call  *)
(* names.  The methods that the code treats alike share a name.  A decoded *)
(* JSON value that is no object has method "no_object".  An answer is the  *)
(* request's id and its kind: "result", "error_result" (a result with      *)
(* isError), or the number of a JSON-RPC error.                            *)
(***************************************************************************)
CONSTANTS NoAnswer   \* None

VARIABLES initialized   \* self._initialized: the server's one flag

Answer(m, kind) == [id |-> m.id, kind |-> kind]

IsNotification(m) == m.method \in {"notifications/initialized", "notifications/other"}

\* The methods before line 699 return without looking into params, but for initialize.
ReadsParams(m) == ~IsNotification(m) /\ m.method # "ping"

\* No dict, no string as method, or a list as params: an AttributeError leaves the handler.
Raises(m) ==
  \/ m.method \in {"no_object", "no_string"}
  \/ ReadsParams(m) /\ m.params # "object"

\* The messages that end the handshake: the notification, and a request of the newer
\* protocol, which carries its version.
Opens(m) ==
  /\ ~Raises(m)
  /\ \/ m.method = "notifications/initialized"
     \/ ReadsParams(m) /\ m.method # "initialize" /\ m.meta

\* A bug: initialize begins a new handshake.
MutantOpenAfter(m, open) == (open /\ m.method # "initialize") \/ Opens(m)

\* self._initialized after the message.
OpenAfter(m, open) == open \/ Opens(m)

NeedsHandshake(m) == m.method \in {"tools/list", "tools/call"}

\* A bug: the gate is only before the listing.
MutantRunsTool(m, open) == ~Raises(m) /\ m.method = "tools/call"

\* The message reaches run_tool (line 711).
RunsTool(m, open) == ~Raises(m) /\ m.method = "tools/call" /\ OpenAfter(m, open)

\* What it answers when it does not run a tool.
DirectAnswer(m, open) ==
  IF IsNotification(m) THEN NoAnswer
  ELSE Answer(m, IF NeedsHandshake(m) /\ ~OpenAfter(m, open) THEN "-32002"
                 ELSE IF m.method \in {"initialize", "ping", "tools/list"} THEN "result"
                 ELSE "-32601")

\* How run_tool ends: the tool's result or its failure, a refused argument or any other
\* exception, an unknown name.
CallAnswers(m) == {Answer(m, kind) : kind \in {"result", "error_result", "-32601"}}
=============================================================================
