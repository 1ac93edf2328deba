---------------------------- MODULE Credentials ----------------------------
(***************************************************************************)
(* Where the credential of a request comes from: the style a document asks *)
(* for (tools.py 83-146), the providers made from the settings (cli.py     *)
(* 571-624 and 699-742) and what they add to a request (tools.py 443-490). *)
(*                                                                         *)
(* A security scheme is a record of its type, its scheme or place ("how")  *)
(* and its name.  A document has its schemes in order, as pairs <<id,      *)
(* scheme>>, and the ids its top-level security names.  Settings map each  *)
(* key to its value, NONE when unset.  A value in a request is a pair:     *)
(* "argument", "fixed" or "credential" with what it is.  The token flow is *)
(* OAuth2Token's; here it always has a token.                              *)
(***************************************************************************)
EXTENDS Specs

CONSTANTS Environment   \* environment variable -> "plain" or "pair" (user:password)

Credential(of) == <<"credential", of>>
Static(env, style, name) == [kind |-> "static", of |-> env, style |-> style, name |-> name]
TokenFlow(url)           == [kind |-> "oauth2", of |-> url, style |-> "bearer", name |-> NONE]

-----------------------------------------------------------------------------
(* What the document asks for. *)

\* NONE for what mcpify does not know, such as http digest or a key in a cookie.
StyleOf(scheme) ==
  CASE scheme.type = "http" /\ scheme.how \in {"bearer", "basic"}   -> scheme.how
    [] scheme.type = "apiKey" /\ scheme.how \in {"header", "query"} -> scheme.how
    [] scheme.type \in {"oauth2", "openIdConnect"}                  -> "bearer"
    [] scheme.type = "basic"                                        -> "basic"
    [] OTHER                                                        -> NONE

\* The requirements of the document or, without them, of the first operation that has some.
Requirements(spec) ==
  LET own == SelectSeq(Operations(spec), LAMBDA o : o.op.security # <<>>)
  IN IF spec.security # <<>> THEN spec.security
     ELSE IF own # <<>> THEN own[1].op.security ELSE <<>>

\* The schemes that are required come first, in the order they are required.
InOrderOfNeed(spec) ==
  LET Declared(id) == SelectSeq(spec.schemes, LAMBDA s : s[1] = id)
      required == FlattenSeq([i \in DOMAIN Requirements(spec) |-> Declared(Requirements(spec)[i])])
  IN required \o SelectSeq(spec.schemes, LAMBDA s : s[1] \notin Range(Requirements(spec)))

\* detect_auth: the first that mcpify knows, not the strongest.
DetectAuth(spec) ==
  LET known == SelectSeq(InOrderOfNeed(spec), LAMBDA s : StyleOf(s[2]) # NONE)
  IN IF known = <<>> THEN NONE
     ELSE [style |-> StyleOf(known[1][2]),
           name  |-> IF known[1][2].type = "apiKey" THEN known[1][2].name ELSE NONE]
-----------------------------------------------------------------------------
(* The providers. *)

\* Settings _resolve_auth and _resolve_write_auth refuse: two credentials for one purpose, or
\* a token flow without the client's id.
Refused(url, env, client) == url # NONE /\ (env # NONE \/ client = NONE)
AuthClash(ns) ==
  \/ Refused(ns["oauth2-token-url"], ns["auth-env"], ns["oauth2-client-id-env"])
  \/ Refused(ns["write-oauth2-token-url"], ns["write-auth-env"], ns["write-oauth2-client-id-env"])

\* _resolve_auth: an explicit style comes before the document's, and that before bearer; the
\* document's name is only taken with its style.
ResolveAuth(ns, spec) ==
  LET found == DetectAuth(spec) IN
  IF ns["oauth2-token-url"] # NONE THEN TokenFlow(ns["oauth2-token-url"])
  ELSE IF ns["auth-env"] = NONE    THEN NONE
  ELSE IF ns["auth-style"] # NONE  THEN Static(ns["auth-env"], ns["auth-style"], ns["auth-name"])
  ELSE IF found # NONE             THEN Static(ns["auth-env"], found.style, Or(ns["auth-name"], found.name))
  ELSE Static(ns["auth-env"], "bearer", ns["auth-name"])

\* _resolve_write_auth: the style and the name are the read credential's, unless set.
ResolveWriteAuth(ns, main) ==
  LET inherits == ns["write-auth-style"] = NONE /\ main # NONE /\ main.kind = "static" IN
  IF ns["write-oauth2-token-url"] # NONE THEN TokenFlow(ns["write-oauth2-token-url"])
  ELSE IF ns["write-auth-env"] = NONE    THEN NONE
  ELSE IF inherits THEN Static(ns["write-auth-env"], main.style, Or(ns["write-auth-name"], main.name))
  ELSE Static(ns["write-auth-env"], Or(ns["write-auth-style"], "bearer"), ns["write-auth-name"])

\* A bug: a credential for writes is for everything.
MutantAuthFor(entry, method) == Or(entry.writeAuth, entry.auth)

\* _context_for: what is not a GET is a write.
AuthFor(entry, method) ==
  IF entry.writeAuth # NONE /\ method # "get" THEN entry.writeAuth ELSE entry.auth
-----------------------------------------------------------------------------
(* What they add to a request. *)

\* The variable is unset, or holds no pair for --auth-style basic.
Unusable(auth) ==
  /\ auth # NONE /\ auth.kind = "static"
  /\ \/ auth.of \notin DOMAIN Environment
     \/ auth.style = "basic" /\ Environment[auth.of] # "pair"

HeaderName(auth) == Or(auth.name, "x-api-key")
QueryName(auth)  == Or(auth.name, "api_key")

\* AuthConfig.headers, and those of the token flow.
AuthHeaders(auth) ==
  IF auth = NONE \/ auth.style = "query" THEN <<>>
  ELSE [h \in {IF auth.style = "header" THEN HeaderName(auth) ELSE "authorization"} |->
          Credential(auth.of)]

\* apply_query: appended to whatever the query holds.
AuthQuery(auth) ==
  IF auth # NONE /\ auth.style = "query" THEN {<<QueryName(auth), Credential(auth.of)>>} ELSE {}
=============================================================================
