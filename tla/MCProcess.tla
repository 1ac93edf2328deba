----------------------------- MODULE MCProcess -----------------------------
(***************************************************************************)
(* The stdio loop gets two lines, the HTTP server three requests on two    *)
(* connections; "x" is allowed to the scoped token, "y" too but denied,    *)
(* "z" is not mentioned.  The prompt has two documents that load, eighteen *)
(* launches, and answers short and long.                                   *)
(***************************************************************************)
EXTENDS McpProcess, TLC

Msg(id, method, tool) ==
  [id |-> id, method |-> method, meta |-> FALSE, params |-> "object", tool |-> tool]
Opened(m) == [m EXCEPT !.meta = TRUE]
Listed(m) == [m EXCEPT !.params = "list"]

Init1  == Msg(1, "initialize", "")
Ready  == Msg(0, "notifications/initialized", "")
Other  == Msg(0, "notifications/other", "")
List(id)    == Msg(id, "tools/list", "")
CallOf(id, t) == Msg(id, "tools/call", t)

Line(kind, items) == [kind |-> kind, items |-> items]
ClientLines == {
  Line("garbage", <<>>),
  Line("message", <<Init1>>), Line("message", <<Ready>>), Line("message", <<List(2)>>),
  Line("message", <<Msg(0, "no_object", "")>>), Line("message", <<Listed(Init1)>>),
  Line("batch", <<>>), Line("batch", <<Other, Msg(0, "no_object", "")>>),
  Line("batch", <<CallOf(1, "x"), Ready, CallOf(2, "y")>>),
  Line("batch", <<CallOf(1, "x"), Opened(CallOf(2, "y")), CallOf(3, "x")>>),
  Line("batch", <<CallOf(1, "x"), Listed(CallOf(2, "y")), CallOf(3, "x"), CallOf(4, "x")>>),
  Line("batch", <<List(1), CallOf(2, "x"), Init1>>),
  Line("batch", <<Init1, CallOf(2, "x"), List(3)>>),
  Line("batch", <<List(1), Msg(2, "no_string", ""), Ready>>) }

Post(token, flaws, m) == [verb |-> "POST", token |-> token, flaws |-> flaws, m |-> m,
                          exact |-> TRUE, body |-> TRUE, sse |-> FALSE]
ClientRequests == {
  Post("scoped", {}, Init1), Post("scoped", {}, Ready), Post("scoped", {}, List(2)),
  Post("scoped", {}, CallOf(3, "x")), Post("scoped", {}, CallOf(4, "y")),
  [Post("scoped", {}, CallOf(3, "x")) EXCEPT !.sse = TRUE],
  [Post("scoped", {}, CallOf(4, "y")) EXCEPT !.exact = FALSE],
  Post("shared", {}, Opened(List(5))), Post("shared", {}, Listed(CallOf(6, "z"))),
  Post("none", {}, Msg(7, "ping", "")),
  Post("scoped", {"media_type", "no_JSON"}, Init1), Post("shared", {"too_large"}, Init1),
  Post("shared", {"batch"}, Init1),
  [Post("none", {}, Init1) EXCEPT !.verb = "GET", !.body = FALSE],
  [Post("none", {}, Init1) EXCEPT !.verb = "OPTIONS"] }

\* Those of the run about a token's scopes: a listing asked for with another spelling of
\* Bearer, and a call of a tool that is denied.
ScopeRequests == {
  Post("scoped", {}, Init1), Post("scoped", {}, Ready), Post("scoped", {}, CallOf(4, "y")),
  [Post("scoped", {}, List(2)) EXCEPT !.exact = FALSE] }

TokenScopes == [scoped |-> [allow |-> {"x", "y"}, deny |-> {"y"}]]

\* Picked is what a comprehension with a condition gives.
ASSUME PickedIsSelectSeq ==
  \A n \in 0..4 : \A keep \in [1..n -> BOOLEAN] :
    LET s == [i \in 1..n |-> <<i, keep[i]>>]
    IN Picked(s, {i \in 1..n : keep[i]}) = SelectSeq(s, LAMBDA e : e[2])

\* Numbers are not written the same.
ASSUME NumeralsDifferTo100 == \A i, j \in 0..100 : Numeral(i) = Numeral(j) => i = j
-----------------------------------------------------------------------------
(* Documents. *)

Object(props, required) == [Plain("object") EXCEPT !.props = props, !.required = required]
String  == Plain("string")
RefTo(name)        == [Plain(NONE) EXCEPT !.ref = name]
ListOf(s)          == [Plain("array") EXCEPT !.subs = <<s>>]
AllOf(members, s, first) == [s EXCEPT !.all = members, !.allFirst = first]

Param(in, name, required) == [ref |-> NONE, in |-> in, name |-> name, required |-> required]
ParamRef(name)            == [ref |-> name, in |-> NONE, name |-> NONE, required |-> FALSE]
Op(id, params, body, responses) ==
  [id |-> id, params |-> params, tags |-> {}, body |-> body, responses |-> responses, security |-> <<>>]
Item(path, places, params, ops) == [path |-> path, vars |-> places, params |-> params, ops |-> ops]
Scheme(type, how, name) == [type |-> type, how |-> how, name |-> name]
Server(url, names, callable) == [url |-> url, names |-> names, callable |-> callable]

\* Three operations want the name "list", and a fourth the name the second of them gets.
Shop ==
  [paths |-> <<
     Item(<<"items">>, {}, {Param("query", "q", FALSE)},
       "get"  :> Op(<<"list">>, {ParamRef("page"), Param("cookie", "c", TRUE)}, NONE, <<RefTo("Page")>>)
       @@ "post" :> Op(<<>>, {Param("query", "q", TRUE)}, RefTo("Loop"), <<RefTo("Item"), String>>)
       @@ "head" :> Op(<<"list">>, {}, NONE, <<>>)),
     Item(<<"items", "id">>, {"id"}, {Param("path", "id", TRUE)},
       "get"    :> Op(<<"list">>, {}, NONE, <<>>)
       @@ "put" :> Op(<<"list">>, {Param("header", "x-key", TRUE)},
                      AllOf(<<RefTo("Item"), Object("price" :> String, {"price"})>>,
                            Object("name" :> String, {}), FALSE),
                      <<AllOf(<<RefTo("Item")>>, Object("name" :> String, {"name"}), TRUE)>>)
       @@ "delete" :> Op(<<"list", "2">>, {}, NONE, <<RefTo("Nowhere")>>)) >>,
   schemas  |-> "Item" :> Object("stock" :> String, {"stock"}) @@ "Page" :> ListOf(RefTo("Item"))
                @@ "Loop" :> Object("next" :> RefTo("Loop"), {}),
   params   |-> "page" :> Param("query", "page", FALSE),
   schemes  |-> << <<"cookie", Scheme("apiKey", "cookie", "c")>>, <<"key", Scheme("apiKey", "query", "q")>>,
                   <<"oauth", Scheme("oauth2", NONE, NONE)>> >>,
   security |-> <<"key">>,
   servers  |-> <<Server("https://{region}.shop", {"regional"}, FALSE), Server("https://shop", {"main", "shop"}, TRUE)>>,
   files    |-> "main" :> {[key |-> "a", at |-> "a"], [key |-> "b", at |-> "b"]}
                @@ "a" :> {[key |-> "c", at |-> "c"]} @@ "b" :> {[key |-> "c", at |-> "c"]} @@ "c" :> {}
                @@ "self" :> {[key |-> "self", at |-> "self"]}]

\* A name is the shop's with its label, two are meta tools'; a body is not JSON.
Crm ==
  [paths |-> <<
     Item(<<"list">>, {}, {},
       "get"     :> Op(<<"list">>, {Param("header", "x-key", FALSE), Param("header", "authorization", TRUE)},
                       Plain("raw"), <<String>>)
       @@ "put"  :> Op(<<"mcpify", "cache", "invalidate">>, {}, NONE, <<>>)
       @@ "post" :> Op(<<"mcpify", "health">>, {Param("header", "authorization", FALSE)}, Plain("raw"),
                       <<String>>)),
     Item(<<"other">>, {"v"}, {}, "get" :> Op(<<"shop", "list">>, {}, NONE, <<>>)) >>,
   schemas  |-> <<>>,
   params   |-> <<>>,
   schemes  |-> << <<"digest", Scheme("http", "digest", NONE)>>, <<"head", Scheme("apiKey", "header", "x-key")>>,
                   <<"basic", Scheme("http", "basic", NONE)>> >>,
   security |-> <<"basic", "head">>,
   servers  |-> <<Server("https://crm", {"main"}, TRUE)>>,
   files    |-> <<>>]

Broken == [Crm EXCEPT !.paths = <<Item(<<"list">>, {}, {ParamRef("gone")}, "get" :> Op(<<>>, {}, NONE, <<>>))>>]

SpecFiles == "shop" :> Shop @@ "crm" :> Crm @@ "broken" :> Broken
-----------------------------------------------------------------------------
(* Command lines and configs. *)

Parser ==
  [k \in {"spec", "base-url", "server", "tag", "include", "exclude", "allow", "deny", "fields", "redact",
          "auth-env", "auth-style", "auth-name", "oauth2-token-url", "oauth2-client-id-env",
          "write-auth-env", "write-auth-style", "write-auth-name", "write-oauth2-token-url",
          "write-oauth2-client-id-env"} |-> NONE]
  @@ [k \in {"lazy", "enable-preview", "strict", "read-only"} |-> "off"]
  @@ "timeout" :> "30" @@ "cache-ttl" :> "0" @@ "wait-on-429" :> "0" @@ "retry" :> "0"
  @@ "retry-delay" :> "1" @@ "format" :> "auto" @@ "name" :> "mcpify" @@ "oauth2-client-auth" :> "basic"
  @@ "write-oauth2-client-auth" :> "basic"

Variables == "KEY" :> "plain" @@ "WRITER" :> "plain" @@ "PAIR" :> "pair"
PathsOf   == "items" :> {<<"items">>} @@ "one" :> {<<"items", "id">>} @@ "all" :> {<<"items">>, <<"items", "id">>}
             @@ "other" :> {<<"other">>} @@ "list" :> {<<"list">>} @@ "none" :> {}

File(serve, envs, apis) ==
  [serve |-> serve, envs |-> envs, apis |-> apis, defaultEnv |-> NONE, texts |-> {<<"list">>}]
With(file, cli) == [data |-> file, cli |-> cli, env |-> NONE]
NoFile    == File(<<>>, <<>>, <<>>)
Flagged(spec, more) == With(NoFile, ("spec" :> spec) @@ more)
ShopFlags(more)   == Flagged("shop", ("server" :> "2") @@ more)

BothApis == "shop" :> ("spec" :> "shop" @@ "server" :> "main" @@ "auth-env" :> "KEY" @@ "read-only" :> "on"
                       @@ "allow" :> "all" @@ "deny" :> "one" @@ "timeout" :> "11" @@ "redact" :> "token")
            @@ "crm" :> ("spec" :> "crm" @@ "auth-env" :> "PAIR" @@ "fields" :> "id")

CommandLines == {
  ShopFlags("enable-preview" :> "on" @@ "auth-env" :> "KEY" @@ "write-auth-env" :> "WRITER"
            @@ "fields" :> "id"),
  Flagged("crm", "enable-preview" :> "on" @@ "auth-env" :> "KEY" @@ "auth-style" :> "header"
               @@ "include" :> "list" @@ "redact" :> "token"),
  Flagged("crm", "include" :> "list" @@ "auth-env" :> "KEY"),
  ShopFlags("include" :> "one" @@ "strict" :> "on" @@ "oauth2-token-url" :> "login"
            @@ "oauth2-client-id-env" :> "KEY"),
  ShopFlags("read-only" :> "on" @@ "allow" :> "all" @@ "deny" :> "items"),
  ShopFlags("read-only" :> "on" @@ "exclude" :> "items" @@ "format" :> "xml"),
  Flagged("shop", <<>>),
  ShopFlags("include" :> "none"),
  ShopFlags("oauth2-token-url" :> "login" @@ "auth-env" :> "KEY"),
  Flagged("broken", <<>>), Flagged("missing", <<>>), With(NoFile, <<>>),
  [ShopFlags(<<>>) EXCEPT !.env = "prod"],
  With(File("spec" :> "crm" @@ "timeout" :> "5", <<>>, BothApis), <<>>),
  With(File("timeout" :> "5" @@ "retry" :> "2", "prod" :> ("timeout" :> "9"), BothApis), <<>>),
  With([File("timeout" :> "5", "prod" :> ("cache-ttl" :> "9"), BothApis) EXCEPT !.defaultEnv = "prod"],
       "timeout" :> "30" @@ "cache-ttl" :> "3"),
  [With(File("spec" :> "crm" @@ "include" :> "other" @@ "timeout" :> "5" @@ "format" :> "json",
             "prod" :> ("timeout" :> "9" @@ "lazy" :> "on") @@ "dev" :> <<>>, <<>>), "name" :> "mcpify")
     EXCEPT !.env = "prod"],
  With(File("strict" :> "on" @@ "read-only" :> "off", <<>>,
            "crm" :> ("spec" :> "crm" @@ "include" :> "other" @@ "read-only" :> "on")), <<>>) }

\* That of the run about what the documents promise: a flag with its default, a setting that is
\* dropped, one that is said twice, and both documents whole.
BothServed == {
  With(File("timeout" :> "5" @@ "retry" :> "2" @@ "cache-ttl" :> "60", <<>>,
            "shop" :> ("spec" :> "shop" @@ "server" :> "main" @@ "read-only" :> "on" @@ "timeout" :> "11")
            @@ "crm" :> ("spec" :> "crm" @@ "include" :> "list" @@ "auth-env" :> "KEY" @@ "auth-style" :> "header")),
       "cache-ttl" :> "0") }
-----------------------------------------------------------------------------
(* Answers. *)

Word(word)   == [word |-> word, caps |-> FALSE]
Token       == [word |-> "token", caps |-> TRUE]
KeysOfLists == "id" :> {Word("id")} @@ "token" :> {Word("token")} @@ "TOKEN" :> {Token}
TokenLists  == "token" :> {Word("token")} @@ "TOKEN" :> {Token}

At(word, tree) == Entry(Word(word), tree)
Tokens(tree)   == Entry(Token, tree)
L(n)           == Leaf(n)
Many(n, tree)  == Arr([i \in 1..n |-> tree])

Trees == {
  L(2), L(15), Obj(<<>>), Many(3, L(5)), Many(9, L(1)),
  Obj(<<At("id", L(1)), Tokens(L(2))>>),
  Arr(<<Obj(<<At("id", L(1)), At("token", L(1))>>), L(1), Null>>),
  Obj(<<Tokens(Null), At("name", Obj(<<At("id", Many(1, L(1)))>>))>>),
  Obj(<<At("token", Obj(<<At("token", L(1)), At("id", L(1))>>)), At("name", Many(1, L(1)))>>),
  Obj(<<At("id", L(3)), At("name", Many(6, L(2))), Tokens(L(9)), At("last", L(2))>>),
  Obj(<<At("name", Many(6, L(1))), At("id", Many(6, L(1))), At("token", Many(6, L(1)))>>),
  Obj(<<At("id", L(14)), At("name", L(14))>>),
  Obj(<<At("name", L(14)), At("id", Obj(<<At("id", L(2)), At("x", L(2)), At("y", L(2))>>)),
               At("last", L(1))>>) }

Ans(status, media, json) == [status |-> status, media |-> media, json |-> json, xml |-> NONE, blank |-> FALSE]

XmlAnswers  == {[Ans(200, "xml", NONE) EXCEPT !.xml = Obj(<<At("id", L(1)), Tokens(L(2))>>)]}
FewAnswers  == XmlAnswers \cup {Ans(200, "json", Obj(<<At("id", L(1)), Tokens(L(2))>>)), Ans(200, "binary", NONE)}
ApiAnswers ==
  {Ans(status, "json", t) : status \in {200, 404}, t \in Trees} \cup {
  Ans(503, "text", NONE), Ans(401, "text", NONE), Ans(200, "text", NONE), Ans(200, "html", NONE),
  Ans(200, "binary", NONE), [Ans(0, "text", NONE) EXCEPT !.blank = TRUE],
  [Ans(204, "none", NONE) EXCEPT !.blank = TRUE], [Ans(200, "json", NONE) EXCEPT !.blank = TRUE],
  [Ans(200, "xml", NONE) EXCEPT !.xml = Obj(<<At("id", Many(4, L(3)))>>)], Ans(200, "xml", NONE),
  Ans(200, "html", Obj(<<At("id", L(1)), Tokens(L(2))>>)), Ans(200, "html", Many(9, L(1))) }
  \cup XmlAnswers

Odd == {<<"odd">>, <<"header", "authorization">>}
=============================================================================
