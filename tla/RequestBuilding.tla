-------------------------- MODULE RequestBuilding --------------------------
(***************************************************************************)
(* From the arguments of a call to the request that is sent (build_request,*)
(* tools.py 368-440) and its dry run (api_server.py 620-656).              *)
(*                                                                         *)
(* Arguments map keys, as the input schema spells them, to "text",         *)
(* "object", "empty" (the empty string) or "none" (null).  A request has   *)
(* the values of the path's variables, a set of pairs for the query, the   *)
(* headers and the body.  Header names are in lower case; escaping is left *)
(* out.                                                                    *)
(***************************************************************************)
EXTENDS ToolGeneration, Credentials

BodyKey == <<"body">>
KeysOf(tool, place) == {Key(p) : p \in {q \in tool.parameters : q.in = place}}

\* The argument is there, and neither null nor the empty string.
Given(args, key) == key \in DOMAIN args /\ args[key] \notin {"none", "empty"}

\* A bug: what the tool knows counts as used, even where the request leaves it out.
MutantUsed(tool, args) ==
  {<<v>> : v \in tool.vars} \cup KeysOf(tool, "query") \cup KeysOf(tool, "header") \cup {BodyKey}

\* The arguments the request takes up: an optional one that is empty is not among them.
Used(tool, args) ==
  {<<v>> : v \in tool.vars}
  \cup {k \in KeysOf(tool, "query") \cup KeysOf(tool, "header") : Given(args, k)}
  \cup (IF tool.hasBody THEN {BodyKey} ELSE {})

\* Of a raw body even the empty string is one.
BodyMissing(tool, args) == tool.hasBody /\ (BodyKey \in DOMAIN args => args[BodyKey] = "none")
BodyFits(tool, value)   == IF tool.raw THEN value # "object" ELSE value = "object"

\* The RequestErrors, in the code's order; NONE, which is none of them, when the request can be
\* made.
ASSUME RefusalsAssumption ==
  NONE \notin {"path parameter", "no body", "body type", "unknown argument", "credential"}
Refusal(tool, args, auth) ==
  IF \E v \in tool.vars : ~Given(args, <<v>>)            THEN "path parameter"
  ELSE IF BodyMissing(tool, args)                         THEN "no body"
  ELSE IF tool.hasBody /\ ~BodyFits(tool, args[BodyKey])  THEN "body type"
  ELSE IF DOMAIN args \ Used(tool, args) # {}             THEN "unknown argument"
  ELSE IF Unusable(auth)                                  THEN "credential"
  ELSE NONE

\* build_request, and the credential _send and _preview add to the query.  What is said later
\* of the same header replaces what was said before: the credential comes last.
BuildRequest(tool, args, auth) ==
  LET Arg(k)    == <<"argument", args[k]>>
      queries   == {p \in tool.parameters : p.in = "query" /\ Given(args, Key(p))}
      headers   == {p \in tool.parameters : p.in = "header" /\ Given(args, Key(p))}
      theirs    == [h \in {p.name : p \in headers} |-> Arg(<<"header", h>>)]
      always    == [h \in {"accept"} |-> <<"fixed", "json">>]
      ofTheBody == [h \in IF tool.hasBody THEN {"content-type"} ELSE {} |->
                      <<"fixed", IF tool.raw THEN "raw" ELSE "json">>]
  IN [method  |-> tool.method,
      path    |-> [v \in tool.vars |-> Arg(<<v>>)],
      query   |-> {<<p.name, Arg(Key(p))>> : p \in queries} \cup AuthQuery(auth),
      headers |-> Updated(Updated(Updated(always, theirs), ofTheBody), AuthHeaders(auth)),
      body    |-> IF tool.hasBody THEN Arg(BodyKey) ELSE NONE]

\* A bug: only the header of the default style is masked.
MutantMasked(request, auth) ==
  [request EXCEPT !.headers = [h \in DOMAIN request.headers |->
     IF h = "authorization" THEN <<"masked">> ELSE request.headers[h]]]

\* _mask_request: the headers and query parameters that carry a credential.  The code compares
\* the custom header's name to the letter, so that an argument's header of the same name in
\* another case stays as it is; here the two are one header, as they are once they are sent.
Masked(request, auth) ==
  LET static   == auth # NONE /\ auth.kind = "static"
      Hides(h) == \/ h = "authorization"
                  \/ static /\ auth.style = "header" /\ h = HeaderName(auth)
      inQuery  == static /\ auth.style = "query"
  IN [request EXCEPT
        !.headers = [h \in DOMAIN request.headers |->
                       IF Hides(h) THEN <<"masked">> ELSE request.headers[h]],
        !.query = {IF inQuery /\ q[1] = QueryName(auth) THEN <<q[1], <<"masked">>>> ELSE q :
                     q \in request.query}]
-----------------------------------------------------------------------------
(* What the tool's schema promises, and what becomes of the arguments. *)

\* The arguments are as the input schema asks.
Conforms(tool, args) ==
  /\ DOMAIN args \subseteq tool.input.keys /\ tool.input.required \subseteq DOMAIN args
  /\ \A k \in DOMAIN args : IF k = BodyKey /\ tool.hasBody THEN args[k] # "none" /\ BodyFits(tool, args[k])
                            ELSE args[k] \in {"text", "empty"}

\* Where the schema says less than the code asks: the body, which is never required (or, for
\* GET and DELETE, never shown); empty values, but for a raw body's; variables of the path
\* without a parameter, and parameters of the path without a variable.
SchemaIsSilent(tool, args) ==
  \/ tool.hasBody /\ BodyKey \notin DOMAIN args
  \/ \E k \in DOMAIN args : args[k] = "empty" /\ (k = BodyKey => ~tool.hasBody \/ "body" \in tool.vars)
  \/ \E v \in tool.vars : <<v>> \notin DOMAIN args
  \/ \E p \in tool.parameters : p.in = "path" /\ p.name \notin tool.vars

\* What a call may hold although the schema does not show it: a variable of the path without a
\* parameter, a body where none is shown, the nameless, and an Authorization header.
Unshown(tool, k) ==
  \/ \E v \in tool.vars : k = <<v>>
  \/ k = BodyKey /\ tool.hasBody /\ tool.method \in {"get", "head", "delete"}
  \/ \E p \in tool.parameters :
       Key(p) = k /\ (p.name = "" \/ (p.in = "header" /\ p.name = "authorization"))

\* Arguments that conform to the schema are refused only where the schema is silent or the
\* operator's credential cannot be used; a request that is made takes no argument that the
\* schema does not show, but for Unshown's; and it carries every argument where the document
\* declares it, unless the credential or the body's type takes that very header.
SchemaHonest(tool, args, auth) ==
  /\ Conforms(tool, args) /\ ~SchemaIsSilent(tool, args) /\ ~Unusable(auth)
       => Refusal(tool, args, auth) = NONE
  /\ Refusal(tool, args, auth) = NONE =>
       \A k \in DOMAIN args : k \in tool.input.keys \/ Unshown(tool, k)
  /\ Refusal(tool, args, auth) = NONE =>
       LET r == BuildRequest(tool, args, auth) IN
       \A k \in DOMAIN args :
         \/ k = BodyKey /\ r.body = <<"argument", args[k]>>
         \/ \E v \in tool.vars : k = <<v>> /\ r.path[v] = <<"argument", args[k]>>
         \/ \E p \in tool.parameters :
              /\ Key(p) = k
              /\ \/ p.in = "query" /\ <<p.name, <<"argument", args[k]>>>> \in r.query
                 \/ /\ p.in = "header"
                    /\ \/ r.headers[p.name] = <<"argument", args[k]>>
                       \/ p.name \in DOMAIN AuthHeaders(auth)
                       \/ p.name = "content-type" /\ tool.hasBody

\* A request carries one credential of the operator's at most, in one place, the one it was
\* built with, which no argument replaces.
CredentialsIn(request) ==
  {<<"header", h>> : h \in {x \in DOMAIN request.headers : request.headers[x][1] = "credential"}}
  \cup {<<"query", q>> : q \in {x \in request.query : x[2][1] = "credential"}}
OneCredential(request, auth) ==
  /\ Cardinality(CredentialsIn(request)) = IF auth = NONE THEN 0 ELSE 1
  /\ auth # NONE => \A c \in CredentialsIn(request) :
       (IF c[1] = "header" THEN request.headers[c[2]] ELSE c[2][2]) = Credential(auth.of)
=============================================================================
