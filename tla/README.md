# mcpify in TLA+

mcpify turns an OpenAPI document into an MCP server: every operation becomes a
tool, and a tool call becomes an HTTP request to the API. This directory holds
TLA+ models of the parts of it that are hard to test: what happens between
threads, between the steps of a retry, between two assignments of a reload, and
on the way of a call through rules that were written apart. Every definition is
written from the source under `src/mcpify/`; `PROJECT.json` maps it to the lines
it stands for.

## The system

Threads come from the HTTP transport (one per connection), from JSON-RPC
batches on stdio (a pool of at most 8), from the dashboard, the cache warm-up
and the reload watcher. They share one server object, and through it the
handshake flag, the cache, the token provider and the rate limiter.

| component | source | state | operations | hard behaviour | correct when | module |
|---|---|---|---|---|---|---|
| rate limiter | `http_client.py` 123-156 | `_next_slot`, a lock | `wait` | threads reserve and sleep at once, stalls | the rate holds on average, a slot is used once, nobody waits for a sleeper | `RateLimiter` |
| token provider | `http_client.py` 733-863, `api_server.py` 349-365 | `_token`, `_expires_at`, a lock | `headers`, `_fetch`, `invalidate`, the self-heal of `_send` | double-checked lock, unlocked reads, 401s of several calls | one fetch per reason, the fields agree, the retry carries another token | `OAuth2Token` |
| response cache | `http_client.py` 165-230, 309-393 | `_store`, a lock | `get`, `get_stale`, `revalidate`, `put`, `invalidate` | other threads between any two of these | bounded size, bounded staleness, a cleared key stays cleared | `ResponseCache` |
| tool call | `http_client.py` 247-297, `api_server.py` 330-391 | `attempt`, `waited_429` | `execute`, `_send` | retries, Retry-After, a second execute after a 401 | bounded requests and sleep, a POST is never repeated blindly, it ends | `ToolCall` |
| tool surface and reload | `aggregate.py`, `api_server.py` 226-303, `cli.py` 398-566 | entries, owners, limiters, `by_name`, `listed_names`, file stamps | `reload_entries`, `reload_tools`, `public_tools`, `run_tool`, `_context_for`, the watcher | replaced one attribute at a time under readers; half-saved files | the parts agree after a reload, calls never run behind their tool, a good save is served | `ToolSurface` |
| MCP session | `api_server.py` 661-769 | `_initialized` | `handle_message`, `serve`, `_handle_batch` | order of a batch, a pool of threads, exceptions, one flag for all | answers match requests, a finished handshake stays finished | `McpMessages`, `StdioServer`, `McpTransports` |
| HTTP transport | `http_transport.py` | a connection and its unread bytes, the tokens' scopes | `do_POST`, the other verbs, `_apply_scopes` | keep-alive after an early answer, several clients | each request is read from its start or the connection ends; a client sees only its tools | `HttpServer` |
| spec documents | `spec.py` | the chain of references | `resolve_schema`, `resolve_ref`, `_walk_and_bundle`, `iter_operations` | cycles, depth, allOf | every resolution ends, nothing declared is lost | `Specs` |
| naming and tools | `tools.py` 31-366, `aggregate.py` 32-64, `cli.py` 45-80 | names taken so far | `spec_to_tools`, `merge_entries`, `filter_tools` | collisions of collisions, precedence of filters | each name is one tool's, deny wins | `ToolGeneration` |
| credentials, requests | `tools.py` 368-519, `cli.py` 83-145 | - | `detect_auth`, `build_request`, `_preview` | schema and code written apart; three writers of one header | the schema tells what is needed, one credential per request | `Credentials`, `RequestBuilding` |
| response shaping | `http_client.py` 492-722, `api_server.py` 372-476 | - | `project_json`, `redact_json`, `_smart_truncate`, `_payload_for` | nesting, budgets, kinds of answers | nothing masked gets through, cuts are named, promises are kept | `ResponseShaping` |
| configuration | `config.py`, `cli.py` 478-568 | - | `resolve`, `apply_to_namespace`, `_build_entries` | four layers, applied twice | each setting comes from the layer that is meant | `Settings` |
| prompt (`try`) | `repl.py` | the surface, the keys of `:fields` and `:redact` | the prompt's commands | the policy changes between calls | what is shown obeys the policy then in force | `TrySession` |
| metrics, audit, diff, dashboard, mock, probe, standalone, otel, the rest of the command line | the files of these names | counters, or none | | | | - |

## The modules

`Mutant...` operators stand before the definition they are a plausible bug of.
No behaviour uses them; they show for each property which mistake it notices.

### The shared state of every call

**RateLimiter** (`RateBudget`, `MCRateLimiter`, `RateLimiterProofs`). `wait()`
is four steps: `ReadSlot` (the lock, the clock and `_next_slot`), `Reserve` (the
write and the release), `Nap` (the sleep begins) and `Send` (the sleep is over
and the request leaves, at any later moment). Threads may stall between any two.
`RateBudget` says the same with nothing but a clock and a count of requests that
left, and `RateLimiter` implements it. The limiter's docstring says "at most rps
requests/second"; what holds is the average since its creation: two threads
that stall after their reservations can leave together, and a reload makes a new
limiter with a budget of its own.

**OAuth2Token** (`MCOAuth2Token`, `OAuth2TokenProofs`). `headers()` reads `_token` and `_expires_at`
before the lock (`CheckToken`, `CheckExpiry`), again under it (`EnterLock`), and
`_token` twice after it (`Present`, `ReadHeader`); `_fetch` writes the two
fields one after the other (`StoreToken`, `StoreExpiry`), as does `invalidate`
(`DropToken`, `DropExpiry`). `_send` makes a request, and after a first 401 a
second one. A token is its serial number; the servers issue, revoke and refuse.

**ResponseCache** (`MCResponseCache`, `ResponseCacheProofs`). Each method is one critical section, as
in the code; a GET is `Begin`, `GetHit` or `GetMiss`, `GetStale`, the answer,
and `PutAnswer`, `Revalidate` or `ReturnError`. A body is the version of its
resource, which changes at any time, and stands for the ETag of the keys that
have one. An exception that leaves `_execute_once` changes the cache no more than
an error result and is not told apart from one here.

**ToolCall** (`MCToolCall`, `ToolCallProofs`). One call of `_send`: `Build` or
`BuildFails`, then the loop of `execute` (`Send`, `SendRaises`,
`ServeFromCache`, `Wait429`, `Retry`), then `SelfHeal` or `Return`. The API
gives any status and any form of Retry-After each time; a header that is absent
and one whose name is spelled in another case are the same to the code. An
answer comes in whole or breaks (`stream`): some broken bodies are reported raw,
others raise what neither `_decode_payload` nor `_execute_once` catches
(`Uncaught`), and the call ends with the exception.

**ToolSurface** (`MCToolSurface`, `ToolSurfaceProofs`). The watching thread polls stamps
(`TakeBaseline`, `Poll`), builds a surface (`Load`, `LoadFails`) and puts it in
place in the code's order (`SwapEntries`, `SwapOwners`, `SwapLimiters`,
`SwapTools`), while a client lists tools or walks through `run_tool` and
`_context_for` one read at a time. `mode` chooses between one `ApiServer`, which
has only `by_name` to swap and whose failed rebuild raises an exception, and the
`AggregatedServer`, whose failed rebuild may raise one or exit. Left out: lazy mode (it lists
meta tools only, so it has no stale names), the `_2` suffixes (operation names
here contain no label; `ToolGeneration` has them), descriptions
(`_apply_tool_text` edits texts in place after the swap), and a save that lands
while the files are being read one by one.

These five leave their neighbours nondeterministic: `ToolCall` lets every
request be answered in any way and every rebuild fail, `OAuth2Token` lets a
request take any time, `RateLimiter` takes calls from anyone at any moment.

### One process

`McpProcess` is what `main` starts: the stdio loop, the HTTP server or the
prompt. The two transports share the server object's handshake flag, which
`McpMessages` declares; `McpTransports` extends both with the choice between
them, and what was not started stays as it was made. `McpProcess` adds the
prompt, an instance of `TrySession`.

    McpProcess -- McpTransports --+- StdioServer --+- McpMessages
               |                  +- HttpServer ---+
               |
               +- TrySession -+- Settings -+- ToolGeneration -- Specs
                              |            +- Credentials
                              +- RequestBuilding
                              +- ResponseShaping

**McpMessages** is `handle_message` as operators over one message and the flag:
what raises (`Raises`), what ends the handshake (`OpenAfter`), what runs a tool
(`RunsTool`) and what is answered (`DirectAnswer`, `CallAnswers`).

**StdioServer** (`McpTransportsProofs`) is `serve` and `_handle_batch`: `ReadLine` and `ReadGarbage`,
the notifications of a batch first (`AfterNotifications`), then its requests one
by one or, when all are calls, in the pool (`Start`, `Complete` in any order), and
`Write`. An exception cancels what has not begun (`Cancel`) and ends the loop
(`Stop`), as the code does for a line that is JSON but no object. `Picked` is a
comprehension with a condition; it is written without recursion, so that it can
be proved about, and `MCProcess` compares it with `SelectSeq`.

**HttpServer** (`McpTransportsProofs`). Each connection's thread reads a request
and turns it away (`Unauthorized`, `Reject`, `OtherVerb`) or hands it to
`handle_message` (`Accept`, `Handle`, `Finish`); `inStep` is whether the next
byte of the stream begins a request, and `Misread` is what the library does when
it does not. `Scoped` is `_apply_scopes`. The scheme of an Authorization header
is accepted in any case and with any blanks, but the scopes are only found for
one spelt `Bearer TOKEN` (`ScopesFound`): other spellings are answered without
scopes, and a call runs before its answer is judged. `ShowsOnlyScoped` is about
what the exact spelling is shown; `ListingsScoped` and `ScopedCallsRefused` say
what the documents promise of every caller, and fail.

**Specs**, **ToolGeneration**, **Credentials**, **RequestBuilding**,
**ResponseShaping** and **Settings** are the pure functions on the way of a
call, over documents, settings and answers as records and trees, and at the end
of each module what must be true of them. The modules that declare the inputs
say what the program can have read: a config has a value for each key and
"on" or "off" for a switch (`LaunchRead`), a document's references and schemas are
those a parser builds (`DocumentRead`, `SchemaRead`), an answer has the JSON
of nested levels (`ReadTo`), of which projection, redaction and cuts make more
(`Json`). `SurfaceProofs` and `AnswerProofs` prove what holds of them.
**TrySession** takes that way from the
command line to the payload: `Boot` lays the layers, loads the documents and
makes the surface; `Call` and `Preview` build a request from arguments, ones that
fit the schema and ones that differ in one place; `CallMeta` is the name of a tool
by which `run_tool` reaches one of the server's own (`MetaTools` are the names
that are reserved, `Dispatched` those that come first); `Show` shapes whatever the
API answers; `SetPolicy` is `:fields` and `:redact` between calls. Served tools take
the same way. The answer here is the last one of the retries, which are
in `ToolCall`.

What is abstracted: a pattern of a filter is the set of paths it matches;
names are sequences of words; header names are in lower case, though
`_mask_request` and the lookup of Retry-After compare theirs to the letter; of a
page that is shown, a text in JSON is told apart only when it is short enough to
be shown whole (`Excerpt`); the length of a JSON value counts brackets,
commas, keys and masked values as one; a schema keeps types, required names,
`$ref`, `allOf` and its nesting; the order of the prompt's questions is left
out, since any subset of the optional arguments may have been given when one is
skipped; an answer is its status, its media type and its JSON.

## The runs

| run | bounds | result |
|---|---|---|
| `rate_limiter` | 2 threads, 4 calls, interval 2, clock 5 and further while somebody sleeps | pass |
| `oauth_token` | 2 threads (one the API always refuses), 3 calls, lifetimes 0 and 2 with margin 1, clock 1, 1 revocation | pass |
| `oauth_second_refusal` | the same | violated: finding |
| `response_cache` | 2 threads, 3 GETs, 2 keys (one with ETags), room for 1 entry, TTL 2, timeout 1, 2 versions, clock 4 | pass |
| `cache_revalidation` | 1 thread | violated: finding |
| `tool_call` | all methods, `--retry` -1, 0, 1 and 3 with a cap of 2, caps 0 and 2, delays 0, 2, 3 | pass |
| `tool_call_promises` | GET and POST, no retries | violated: 3 findings |
| `tool_surface` | 1 client, 2 APIs, 3 saves among 3 good contents and a broken one | pass |
| `surface_promises` | the same | violated: 2 findings |
| `process` | 2 of 14 lines, pool of 2; 2 connections, 3 of 15 requests; 18 launches over 2 documents, 39 answers, 3 lists of keys, depth 6, 4 hops, results up to 12 with a note of 3, pages up to 6 | pass |
| `prompt_promises` | one launch of both documents, 3 answers, 2 lists of keys | violated: 9 findings |
| `scope_promises` | the handshake and two requests of a scoped token, on 2 connections | violated: 2 findings |

The last two, `tool_call_promises` and `surface_promises` are each about several
sentences of the repository that the code breaks. Their property is the
disjunction of these promises, each a definition of its own: it says that not all
of them are broken at once (in one state, or in one behaviour for
`prompt_promises`), which is weaker than each, and its counterexample breaks every
one. A promise that held would make the run pass.

Why these are enough. Two threads are what the mechanisms distinguish: a holder
of a lock and another thread. Three calls let one thread call again after
meeting the other. A lifetime of 0 is below the margin, so each fetched token
is at once due, and one of 2 is not. A cache of one entry is full from its first
entry, so eviction is tried on every `put`. Three saves
are a change, a broken state and the repair. Client sessions only read the tool
surface, so one shows all that several would. In `process`, the first line or
request can end the handshake and the next meets the flag; a batch of four in a
pool of two has running, waiting and finished calls when one raises; of three
HTTP requests two can be in progress on different connections while the third
has changed the flag. The documents have three operations that want one name and
a fourth that has the name the second gets, a name that two APIs share, a
labelled name that another tool has already, a schema that refers to itself,
allOf first and last, and files that meet again and refer to themselves. Depth,
hops and limit are the code's 20, 10 and 40,000 made small, with values
on either side of each. Deadlock is not checked: every system here stops when
its bounded calls, lines or saves are used up, or when no client speaks.

Properties that are worth a word:

- `AverageRate`, `ImplementsBudget`: never more requests than intervals since
  the start, plus one, however threads stall.
- `FetchedForAReason`: a token is replaced only because it was dropped or inside
  its margin, which is what the second check under the lock is for.
- `RetryCarriesAnotherToken`: whichever calls drop and fetch tokens meanwhile.
  A header without a token (see the finding) counts as another token.
- `ChangesBecomeVisible`: an answer is at most a timeout old when it is stored
  and is served for a TTL. It is about keys without ETags: `revalidate()` extends
  whatever entry has the key. A tick of the clock stands for a time in which
  local steps do not happen, and `Timeout` bounds the whole request, where
  urllib's timeout bounds each socket operation: an API that sends a byte
  now and then can hold a request, and the staleness, longer.
- `ClearedStaysCleared`: does not cover an answer that was on its way when the
  cache was cleared; that one is stored afterwards.
- `NeverRepeatedBlindly`: a POST reaches the API twice only after a 401.
- `NeverBehindItsTool`, `UnknownMeansRemoved`: what the order of the assignments
  in `reload_entries` buys: new entries, owners and limiters are in place
  before the new tools can be found.
- `EditIsServed`: excludes a save before the watcher's first stamps and a watcher
  that has died; the first is a hazard without a run, the second a finding.
- `AnsweredInOrder`: whatever order the pool's threads end in. An exception ends
  the loop and loses the answers of its batch; that is the exception the
  property makes.
- `TreatedAlike`: the calls of a batch all pass the handshake's gate or none,
  unless one of them opens the session itself by carrying its version.
- `KeptInStep`: a 401 is sent without reading the body and without closing, and
  so are a 405 or 204 for a verb with a body; the property says that nothing
  else leaves bytes behind.
- `SurfaceSound`: a tool is reached by its name, past the server's own tools. The
  one name that is dispatched and not reserved is left to `EveryToolReached`.
- `SchemasResolve`: members of allOf survive when allOf comes last; when it
  comes first, own `properties` replace what it brought (`AllOfIsMerged` fails).
- `LayersKept`: no API gets a value of another API's table, a flag with a value of
  its own wins, and what one table alone says of a key in `Fillable` is applied.
  The documents promise more, and `prompt_promises` shows each to fail: that every
  key of a config is applied (`ConfigIsApplied`), that flags always win
  (`FlagsAlwaysWin`), that `[apis.NAME]` comes before `[serve]`
  (`DocumentedPrecedence`).
- `RequestsHonest`: arguments that fit a tool's schema are accepted, but for
  what `SchemaIsSilent` lists: a body is never required by the schema (and not
  shown for GET and DELETE), empty values are refused, and so is a variable of
  the path that the document does not declare. What the schema does not show is
  not taken, but for what `Unshown` lists: such a variable, such a body, a
  parameter without a name, and the Authorization header. The one credential is
  the operator's; that an argument may be another is `NothingInjected`, which
  fails.
- `AnswersMasked` is about answers in JSON and, of the list, the names written
  without capitals (`Findable`), in whatever case the answer has them.
  The documents make neither exception (`AnyFormatMasked`, `AnyCaseMasked`), and
  both fail.
- `PromisesKept`: successes that are empty, binary or a page carry no structured
  content. `EverySuccessStructured` is the promise without that exception, and
  fails.
- `CallEnds` counts an exception as an end only for the bodies that raise one;
  `BrokenStreamDegrades` is the promise that a compressed body never does,
  and `EveryCallAudited` that it leaves a line in the audit log all the same.
- `CutsAccounted`: every key of a cut object is there or named as omitted. The
  cut may leave out more than it must, since what is left of the budget is taken
  for what is used.
- `EveryoneIsAnswered`: every line read and every request accepted ends.

Seen while modelling, without a sentence of the repository that it would
contradict, so that no run is about it: `[serve].spec` beside `[apis.*]` is an
error; Retry-After is looked up with its exact case; a ping without an id gets
a body over HTTP; `detect_auth` takes the first scheme of the list; `try` with
`[apis.*]` does not apply `[tool-text]`, as `serve` does.

What the failing runs show is in `PROJECT.json` under `findings`, each with the
sentence of the repository it contradicts.

## Fairness

`RateLimiter`: weak fairness of the clock and of the steps inside `wait()`;
nobody must call it. Python's lock is not fair, and need not be: calls are
finitely many, so the lock is free in the end. `OAuth2Token`: weak fairness of
the steps inside a call; the requests have a timeout, so they end, but no token
must be revoked and time need not pass. `ToolCall`: weak fairness of the only
thread. `ToolSurface`: weak fairness of the watcher, a thread in an endless loop;
no edit and no request is owed. `McpProcess`: weak fairness of the stdio
loop and its pool's threads, and of each connection's thread between accepting
a request and its end; a tool call ends by its timeout (`ToolCall` shows that).
No client must send a line or a request, or connect again. `ResponseCache` and
the prompt have no liveness property: the prompt waits for its user.

## What is proved

TLAPS checks the following for every value of the constants that the
assumptions allow. Those are named in the modules that declare the constants:
sets of threads and keys are not empty where an initial state must choose from
them, bounds, times and sizes are natural numbers, a placeholder (`NONE`,
`NoThread`, `NoAnswer`) is none of the values it stands beside, and a line is a
sequence of messages; what a process is given is something its parsers return
(`LaunchRead`, `DocumentRead`, `AnswersAssumption`), its limits are positive. TLC
evaluates each of these on the values of a run. The inductive invariants of the
first six modules have been checked by TLC with the bounds of the runs before they
were proved; those of the last two say that a variable is what a function of
others gives, and what follows from them is what `process` checks.

`RateLimiterProofs`: `TypeCorrect`; `SlotsCorrect`, the inductive
invariant `SlotsInv` with `OneRequestPerSlot` (`SlotsNotShared`); `RateBounded`
(`AverageRate`); `Refinement` (`ImplementsBudget`). `AverageRate` alone is not
inductive: it counts requests that have left and says nothing of threads that
are about to leave. `SlotsInv` adds what holds of those: reservation k is for a
slot no earlier than `Start + k * Interval`, the holder of the lock has read
`_next_slot` as it still is, a sleeper wakes no earlier than its slot, and no two
hold the same reservation. Then the tickets of the requests that left are
distinct numbers below some bound, and the largest of them left no earlier than
its slot (`SlotsBoundRate`, by the cardinality of an interval).

`ToolCallProofs`: `TypeCorrect`; `CallCorrect`, the inductive invariant
`CallInv`; and from it `CallBounded` (`RequestsBounded`), `CallSleepsBounded`
(`SleepBounded`), `NoBlindRepeats` (`NeverRepeatedBlindly`) and
`NoEarlySurrender` (`GivesUpLast`). `RequestsBounded` says nothing of how
the requests came about; `CallInv` accounts for them: in each `execute` one for
the call, one for every retry in `attempt`, one if `waited_429` is set, and the
first `execute` has used at most its share when the second begins.

`OAuth2TokenProofs`: `TypeCorrect`, `EveryFetchHasAReason`
(`FetchedForAReason`), `FieldsAlwaysAgree` (`FieldsAgree`) and
`RetriesCarryAnotherToken`. None of the last three is inductive. `TokenInv`
says what a thread knows at each place inside the lock: it is alone there
(`Exclusion`), the reason for which it fetches is still true (`MustFetch`,
since only the holder writes the fields and time only adds to the reasons), the
token it was given is the newest. Then the newest token is in the field,
dropped, or on its way to it (`Newest`), and each older one had its reason.
`RetryInv` adds that nobody can have seen a token before it is stored
(`Unseen`), and that after its `invalidate` a call never finds the refused one:
the field only moves on to newer tokens.

`ResponseCacheProofs`: `TypeCorrect`, `NeverTooMany` (`Bounded`),
`AnswersAreCurrent` (`AskedIsCurrent`), `InvalidationHolds`
(`ClearedStaysCleared`) and `ChangesAreSeen` (`ChangesBecomeVisible`). The
properties are about calls that have returned; the invariant `CacheInv` follows
a version on its way there. `CurrentSince(k, v, b)` says that version v of k was
current at b or later: of an answer on its way b is when the API was asked, which
is at most a timeout ago; of an entry without an ETag it is its expiry less a TTL
and a timeout; of a call that is over it is what the property needs. `put` makes
room before it stores, so the bound is a matter of the cardinality of the store
without its oldest entry (`PutEntry`).

`ToolSurfaceProofs`: `TypeCorrect`, `SurfaceIsOfOneBuild` (`SurfaceAgrees`),
`CredentialsNotOlder` (`NeverBehindItsTool`) and `UnknownIsNoRace`
(`UnknownMeansRemoved`, an action property). `SwapInv` says of each
attribute how far it is behind, by what is left in `todo`; of a request, that what
it has read is at least as new as its tool, and that a tool of the newest build
has an owner. A swap moves one attribute forward, and the order of the code
(entries, owners, limiters, tools) is what keeps a request from finding less than
its tool's build.

`McpTransportsProofs`, the stdio loop: `LoopTypes` (`StdioTypes`), `AnswersInOrder`
(`AnsweredInOrder`), `BatchHandshakeFirst` (`OpenMeansServed`) and
`BatchTreatedAlike` (`TreatedAlike`). `AnsweredInOrder` says nothing of a line
that is being handled. `HandshakeInv` adds that what is owed is what has been
written and then the line's requests in their order (`OrderInv`), and that a
request is answered exactly when it is done, by an answer of its own
(`AnswerInv`). That the answers written are those of the requests, one for one,
is a fact about `Picked`: it gives the k-th position of a set, which exists and is
the only one (`RankExists`, `PickedAre`). `RankExists` is an induction, written
as a minimal counterexample (`LeastOf`, from the well-foundedness of the natural
numbers). For the handshake, an answer that turned a request away was given
before the flag was set, and one that did not, after.

`McpTransportsProofs`, the HTTP server: `ConnectionTypes` (`HttpTypes`),
`KeptConnectionsInStep` (`KeptInStep`), `ScopesHideTheRest` (`ShowsOnlyScoped`) and `HandshakeNotTakenBack` (`OpenForAll`). They rest
on `DomainsCorrect` and on what an early answer and a response leave of the state
(`EarlyStep`, `ResponseStep`). The first two are inductive as they stand.
`OpenForAll` is not: it speaks of answers that have gone out, and a request
accepted after the handshake may be answered after any steps of other clients;
`StaysOpen` adds that the flag is still set then, since no message takes it back
(`NeverTakenBack`).

`McpTransportsProofs`, the two together: `StdioServed` and `HttpServed`, that the process
implements the specification of the transport it was started with, fairness
included; `HandshakeIsForAll` (`HandshakeHolds`) and `TransportsCompose` (the
four properties above, together). The invariant is the conjunction of
the two modules' invariants with `AtRest`: the loop that was not started has no
requests, so that a flag set over HTTP contradicts nothing that was said of
them.

`SurfaceProofs`, what a launch serves and the requests that are made of it:
`SurfaceIsSound` (`SurfaceSound`), `LayersAreKept` (`LayersKept`),
`SchemasDoResolve` (`SchemasResolve`), `RequestsAreHonest` (`RequestsHonest`) and
`TransportsServed`: a step of the prompt leaves all of `transportVars` alone, so
`McpProcess` implements `TransportSpec` and what is proved of the transports
holds of it. `SurfaceInv` says that a booted prompt has the entries and tools its
launch gives; `RequestInv` that a call which is waiting or was refused is one the
prompt could build from some arguments, and that a preview is such a request with
its credential masked. What remains is about functions:

- They are recursive functions over sequences and numbers. The library's
  induction theorems cannot be used here, so that there is such a function at all
  is proved in the set of the numbers up to which there is one (`AllNat`: a set
  that has 0 and the successors of its members has every natural number). Later
  lemmas use the function's equation only.
- Names: what a name gets when it is taken is free, since among finitely many
  names there is one whose number is larger than all theirs; each step of
  `spec_to_tools`, of the merge and of the filters keeps them different.
- Layers: what `Updated` gives at a key, then `apply_to_namespace` twice,
  for the settings of one API and of several.
- Schemas: a level of a resolution has all that lies one step on from the level
  before, so a reference on a cycle or without a target is met on the last
  level. What a member of allOf is resolved to does not depend on whether it is
  resolved by itself or inside, and a merge keeps the keys of each. The files
  above another are all different, so that there are hops left for it.
- Requests: arguments that fit a tool's schema are refused for what
  `SchemaIsSilent` names only, an argument that is taken is shown or is one of
  `Unshown` (`TakenIsShown`), and of the writers of a header one credential of
  the operator's is left.

These theorems say what the code keeps, and their statements name what it does not
keep: a tool named `mcpify_cache_invalidate` in `NamesResolve`, the keys
outside `Fillable`, flags given as their defaults and contested keys in
`SettingsKept`, the Authorization header in `Unshown`. The same holds of
`ScopesHideTheRest` (headers spelt `Bearer TOKEN`), `PromisesAreKept` (the three
kinds of successes) and `AnswersAreMasked` (JSON, names without capitals). Each of
these exceptions is what one of the failing runs shows to be real.

`SurfaceIsSound` and `RequestsAreHonest` have a hypothesis, `NumeralsDiffer`:
two numbers are not written the same. How a number is written is a constant
operator, `ToString` in the runs. A sentence about all numbers is none that TLC
can evaluate, so it is no assumption of a module; `MCProcess` has it for those up
to 100.

`AnswerProofs`, what is shown of an API's answer: `PromisesAreKept`
(`PromisesKept`), `CutsAreAccounted` (`CutsAccounted`) and `AnswersAreMasked`
(`AnswersMasked`). `AnswerInv` says that what is shown is the payload of the
answer, shaped by the policy of now. That it is the one of now is the point:
`:fields` and `:redact` change it between calls, when no answer is shown.
The rest is about values of JSON, which are built in levels. There is a function
on all of them when there is one on each level (`LevelInduction`); what holds of
a value when it holds of all inside it holds of every value (`TreeInduction`,
the set of the values it holds of).

- Cuts: a value that came from an API names each key of an object once and has
  left nothing out (`Whole`), and stays so through projection and redaction. The
  loop of a cut has at each item taken or omitted all that came before (`Taken`),
  and adds nothing that does not fit.
- Masks: `Leaves` are the values that are not objects or lists, with the keys above
  them. What projection keeps of them are those below its fields
  (`KeptLeaves`), redaction changes those below a secret and no other, and a
  cut takes leaves away and adds none. Nothing is masked of what an API
  sends, nor of what projection keeps of it (`Unstarred`), so the metric
  (a sum over the parts of a value) is no smaller than the number of masked
  leaves, the cardinality of a union (`UnionSum`).

Proving found what TLC had not: some definitions were a `CASE` with guards that
overlap (a `tools/list` before the handshake met two in `DirectAnswer`). TLC takes
the first, but TLA+ leaves the choice open, so what they meant was not what the
code does. They are chains of `IF` now.

Only model-checked: liveness (`WaitReturns`, `CallsEnd`, `CallEnds`,
`EditIsServed`, `EveryoneIsAnswered`), which is beyond this prover. Every safety
property of a passing run is a theorem. `StdioTypes` and `HttpTypes` are proved,
but are not properties of a run: `process` checks what depends on them.

## Plan

1. Done: the shared state of every call, the surface and its reload, the
   sessions, the way of a call.
2. Done: the safety proofs of all of them.
3. Models: the dashboard's second reload thread beside the watcher, `Metrics`
   with its check outside the lock.

## Not modelled

The dashboard's pages, the mock server, code generation, trace export, argument
parsing, the wizard and the reports of `doctor`, `status` and `diff`: input and
output without a state worth checking. The audit log appends one line under a
lock. The metrics registry has one race, listed as a hazard, that loses a
count and changes no call. Of `try`, the listings and `:info` only print. Of a
call, the plug-ins' result hooks, redirects and the contents that decoding gives
are left out; of the configuration, parsing and the warnings of `validate`; of spec
loading, fetching and parsing.

## Running it

    tlc -workers 2 -config RateLimiter.cfg MCRateLimiter.tla
    tlc -workers 2 -config Process.cfg MCProcess.tla
    tlapm McpTransportsProofs.tla
    tlapm SurfaceProofs.tla
    tlapm AnswerProofs.tla
