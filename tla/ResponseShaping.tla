-------------------------- MODULE ResponseShaping --------------------------
(***************************************************************************)
(* What becomes of an API's answer until the model reads it: --fields,     *)
(* --redact (api_server.py 372-391, http_client.py 492-574), the payload   *)
(* (api_server.py 407-476) and the cut of what is too long (http_client.py *)
(* 577-722).                                                               *)
(*                                                                         *)
(* A JSON value is a tree: a leaf with its length, null, a masked value,   *)
(* an object with its entries in order, or an array.  What a cut has left  *)
(* out of an object or an array is noted in "left".  A key is a record of  *)
(* its word and whether it is written with capitals.  Lengths are in units *)
(* in which a bracket, a comma, a key's name or a masked value is one.  An *)
(* answer has its status, its media type, its JSON (NONE when the body is  *)
(* none), what the body converts to as XML, and whether it is blank.       *)
(***************************************************************************)
EXTENDS Basics

CONSTANTS Limit,     \* MAX_RESULT_CHARS
          Marker,    \* the length of the note that something is left out
          Excerpt,   \* how much of a page is shown
          Nesting    \* how deep the values may be nested that Python reads and walks

\* The values, by their depth.  The last three kinds of scalars are the categories of errors.
JsonKeys       == [word : STRING, caps : BOOLEAN]
Members(values) == Seq([key : JsonKeys, value : values])
Kinds          == {"leaf", "null", "***", "forbidden", "retryable", "invalid_request"}
Scalars(kinds) == [kind : kinds, size : Nat, items : {<<>>}, left : {<<>>}]
Objects(items, left) == [kind : {"object"}, size : {0}, items : items, left : left]
Arrays(items, left)  == [kind : {"array"}, size : {0}, items : items, left : left]
JsonTo[n \in 0..Nesting] ==
  Scalars(Kinds) \cup
  (IF n = 0 THEN {} ELSE Objects(Members(JsonTo[n - 1]), Seq(JsonKeys))
                         \cup Arrays(Seq(JsonTo[n - 1]), Seq(JsonTo[n - 1])))
Json == JsonTo[Nesting]

\* Those an API sends: nothing is masked or left out, and the keys of an object differ.
KeysDiffer(items) == \A i, j \in DOMAIN items : items[i].key = items[j].key => i = j
ReadTo[n \in 0..Nesting] ==
  Scalars({"leaf", "null"}) \cup
  (IF n = 0 THEN {} ELSE Objects({s \in Members(ReadTo[n - 1]) : KeysDiffer(s)}, {<<>>})
                         \cup Arrays(Seq(ReadTo[n - 1]), {<<>>}))

Container(t) == t.kind \in {"object", "array"}
Full(t)      == Container(t) /\ t.items # <<>>
SumOf(s) ==
  LET First[n \in 0..Len(s)] == IF n = 0 THEN 0 ELSE First[n - 1] + s[n]
  IN First[Len(s)]
-----------------------------------------------------------------------------
(* Projection and redaction. *)

\* A bug: the values of a selected key are projected too.
MutantProjected(e, fields, inside) == [e EXCEPT !.value = inside]

\* An entry, given what is kept of the inside of its value.
Projected(e, fields, inside) == IF e.key \in fields THEN e ELSE [e EXCEPT !.value = inside]

\* project_json: a selected key keeps its value; a container without one keeps what its
\* inside keeps; scalars without one go, and so does what is emptied.
KeptEntries(items, fields) ==
  Selected(items, {i \in DOMAIN items : items[i].key \in fields \/ Full(items[i].value)})
KeptItems(items) == Selected(items, {i \in DOMAIN items : Full(items[i])})
Projection(fields) ==
  LET Of[t \in Json] ==
        CASE t.kind = "object" ->
               [t EXCEPT !.items = KeptEntries([i \in DOMAIN t.items |->
                  Projected(t.items[i], fields, Of[t.items[i].value])], fields)]
          [] t.kind = "array" ->
               [t EXCEPT !.items = KeptItems([i \in DOMAIN t.items |-> Of[t.items[i]]])]
          [] OTHER -> t
  IN Of
Project(t, fields) == Projection(fields)[t]

\* A key is secret if its name in lower case is in the list as it was written.
Hides(secrets, e) == Lower(e.key) \in secrets /\ e.value # Null

\* A bug: what is in arrays is not looked into.
MutantRedaction(secrets) ==
  LET Of[t \in Json] ==
        IF t.kind # "object" THEN t
        ELSE [t EXCEPT !.items = [i \in DOMAIN t.items |-> [t.items[i] EXCEPT !.value =
                IF Hides(secrets, t.items[i]) THEN Stars ELSE Of[@]]]]
  IN Of

\* redact_json.
Redaction(secrets) ==
  LET Of[t \in Json] ==
        CASE t.kind = "object" ->
               [t EXCEPT !.items = [i \in DOMAIN t.items |-> [t.items[i] EXCEPT !.value =
                  IF Hides(secrets, t.items[i]) THEN Stars ELSE Of[t.items[i].value]]]]
          [] t.kind = "array" -> [t EXCEPT !.items = [i \in DOMAIN t.items |-> Of[t.items[i]]]]
          [] OTHER -> t
  IN Of
Redact(t, secrets) == Redaction(secrets)[t]

\* count_redact_targets, which also counts inside the values that are masked.
Targets(secrets) ==
  LET Of[t \in Json] ==
        CASE t.kind = "object" ->
               SumOf([i \in DOMAIN t.items |->
                  (IF Hides(secrets, t.items[i]) THEN 1 ELSE 0) + Of[t.items[i].value]])
          [] t.kind = "array" -> SumOf([i \in DOMAIN t.items |-> Of[t.items[i]]])
          [] OTHER -> 0
  IN Of
CountTargets(t, secrets) == Targets(secrets)[t]

\* A bug: an API's error is passed on as it came.
MutantShaped(answer, fields, secrets) ==
  IF answer.json = NONE \/ answer.status \notin 200..399 THEN answer
  ELSE [answer EXCEPT !.json = Redact(IF fields = {} THEN @ ELSE Project(@, fields), secrets)]

\* The end of _send: projection only of successes, then redaction.  What is JSON by itself
\* is shaped; what becomes JSON later is not.
Shaped(answer, fields, secrets) ==
  IF answer.json = NONE THEN answer
  ELSE LET kept == IF fields # {} /\ answer.status \in 200..399 THEN Project(answer.json, fields)
                   ELSE answer.json
       IN [answer EXCEPT !.json = Redact(kept, secrets)]
-----------------------------------------------------------------------------
(* Cutting what is too long. *)

\* The length of a tree as text, with the note of what is left out.
Length[t \in Json] ==
  LET note == IF t.left = <<>> THEN 0 ELSE Marker + Len(t.left) IN
  CASE t.kind = "object" -> 1 + note + SumOf([i \in DOMAIN t.items |-> 1 + Length[t.items[i].value]])
    [] t.kind = "array"  -> 1 + note + SumOf([i \in DOMAIN t.items |-> Length[t.items[i]]])
    [] OTHER             -> t.size

\* The first n of an object's entries or an array's items; the rest is noted.
FirstOf(t, n) ==
  LET rest == SubSeq(t.items, n + 1, Len(t.items))
  IN [t EXCEPT !.items = SubSeq(@, 1, n),
               !.left = IF t.kind = "array" THEN rest ELSE [i \in DOMAIN rest |-> rest[i].key]]

\* How many are tried: all, then fewer and fewer, a tenth at a time while there are many.
Tried(n) ==
  LET From[k \in 0..n] ==
        IF k = 0 THEN {} ELSE {k} \cup From[IF k > 20 THEN (k * 9) \div 10 ELSE k - 1]
  IN From[n]

\* The longest beginning of t that fits when the wrapper around it is added; NONE if none.
FittedTo(t, wrapper, budget) ==
  LET fits == {n \in Tried(Len(t.items)) : wrapper + Length[FirstOf(t, n)] <= budget}
  IN IF fits = {} THEN NONE ELSE FirstOf(t, CHOOSE n \in fits : \A m \in fits : m <= n)

\* A bug: an array that cannot be cut to fit is skipped.
MutantTakeEntry(so, e) ==
  LET budget == Limit - so.used - Marker
      fitted == IF Container(e.value) THEN FittedTo(e.value, 2, budget) ELSE NONE
  IN IF 2 + Length[e.value] <= budget
     THEN [so EXCEPT !.kept = Append(@, e), !.used = @ + 3 + Length[e.value]]
     ELSE IF fitted # NONE THEN [so EXCEPT !.kept = Append(@, Entry(e.key, fitted))]
     ELSE IF e.value.kind = "array" THEN so
     ELSE [so EXCEPT !.omitted = Append(@, e.key)]

\* One key of an object that is too long: kept, cut to fit, or omitted.  After a cut "used"
\* is what the cut has left of the budget (lines 641 and 647).
TakeEntry(so, e) ==
  LET budget == Limit - so.used - Marker
      fitted == IF budget > 0 /\ Container(e.value) THEN FittedTo(e.value, 2, budget) ELSE NONE
  IN IF 2 + Length[e.value] <= budget
     THEN [so EXCEPT !.kept = Append(@, e), !.used = @ + 3 + Length[e.value]]
     ELSE IF fitted # NONE
     THEN [so EXCEPT !.kept = Append(@, Entry(e.key, fitted)),
                     !.used = budget - (2 + Length[fitted])]
     ELSE [so EXCEPT !.omitted = Append(@, e.key)]

\* All its keys, in order.
TakeEntries(items) ==
  LET So[n \in 0..Len(items)] == IF n = 0 THEN [kept |-> <<>>, omitted |-> <<>>, used |-> 0]
                                 ELSE TakeEntry(So[n - 1], items[n])
  IN So[Len(items)]

\* The object without its last n keys, whether they were kept or not.
WithoutLast(t, so, n) ==
  LET keys == [i \in DOMAIN t.items |-> t.items[i].key]
      gone == {keys[i] : i \in (Len(keys) - n + 1)..Len(keys)} \cup ValuesOf(so.omitted)
  IN [t EXCEPT !.items = Selected(so.kept, {i \in DOMAIN so.kept : so.kept[i].key \notin gone}),
               !.left = Selected(keys, {i \in DOMAIN keys : keys[i] \in gone})]

\* _smart_truncate: NONE is the cut in the middle of the text, for what has no structure
\* that fits.  When the kept keys are longer together than they were one by one, keys go
\* from the end.
Truncated(t) ==
  LET so     == TakeEntries(t.items)
      enough == {n \in 0..Len(t.items) : Length[WithoutLast(t, so, n)] <= Limit}
  IN IF Length[t] <= Limit      THEN t
     ELSE IF t.kind = "array"   THEN FittedTo(t, 0, Limit)
     ELSE IF t.kind # "object" \/ so.kept = <<>> \/ enough = {} THEN NONE
     ELSE WithoutLast(t, so, CHOOSE n \in enough : \A m \in enough : n <= m)
-----------------------------------------------------------------------------
(* The payload. *)

Category(status) ==
  CASE status \in {401, 403}                          -> "forbidden"
    [] status \in {0, 429} \/ status >= 500           -> "retryable"
    [] OTHER                                          -> "invalid_request"

\* A payload: how it reads, whether it is an error, the tree its text shows (NONE for raw
\* text or a cut one), and the structured content, which for an API's error is its category.
Payload(reads, isError, text, structured) ==
  [reads |-> reads, isError |-> isError, text |-> text, structured |-> structured]
Text(answer) == IF answer.json = NONE THEN NONE ELSE Truncated(answer.json)
Excerpted(answer) ==
  IF answer.json # NONE /\ Length[answer.json] <= Excerpt THEN answer.json ELSE NONE
ErrorPayload(answer) ==
  Payload(Category(answer.status), TRUE, Text(answer), Tree(Category(answer.status), 1, <<>>))

\* --format auto goes by the media type, xml by the body.
Converted(answer, format) ==
  IF answer.json = NONE /\ (format = "xml" \/ (format = "auto" /\ answer.media = "xml"))
  THEN [answer EXCEPT !.json = answer.xml] ELSE answer

\* A bug: an empty answer of a tool that promises JSON counts as a broken promise.
MutantPayloadFor(promised, answer, format) ==
  LET body == Converted(answer, format) IN
  IF answer.status = 0 \/ answer.status >= 400 THEN ErrorPayload(answer)
  ELSE IF promised /\ body.json = NONE THEN Payload("not JSON", TRUE, NONE, NONE)
  ELSE Payload("success", FALSE, Text(body), IF promised THEN body.json ELSE NONE)

\* _payload_for: errors, then successes without a body, with a binary one or with a page,
\* and then what the tool's outputSchema has promised.
PayloadFor(promised, answer, format) ==
  LET body == Converted(answer, format) IN
  IF answer.status = 0 \/ answer.status >= 400 THEN ErrorPayload(answer)
  ELSE IF answer.status = 204 \/ (answer.blank /\ answer.media \notin {"text", "html"})
  THEN Payload("empty", FALSE, NONE, NONE)
  ELSE IF answer.media = "binary" THEN Payload("binary", FALSE, NONE, NONE)
  ELSE IF answer.media = "html"   THEN Payload("page", FALSE, Excerpted(answer), NONE)
  ELSE IF promised /\ body.json = NONE THEN Payload("not JSON", TRUE, NONE, NONE)
  ELSE Payload("success", FALSE, Text(body), IF promised THEN body.json ELSE NONE)
-----------------------------------------------------------------------------
(* What shaping promises, in terms of the leaves of a tree and the keys above each.         *)

Beneath(key, leaves) == {[keys |-> <<key>> \o l.keys, is |-> l.is] : l \in leaves}
Leaves[t \in Json] ==
  CASE t.kind = "object" /\ t.items # <<>> ->
         UNION {Beneath(t.items[i].key, Leaves[t.items[i].value]) : i \in DOMAIN t.items}
    [] t.kind = "array" /\ t.items # <<>> -> UNION {Leaves[t.items[i]] : i \in DOMAIN t.items}
    [] OTHER -> {[keys |-> <<>>, is |-> t]}

Under(l, names) == \E i \in DOMAIN l.keys : l.keys[i] \in names

\* A value is secret if a key above it is in the list, however either of them is written.
Secret(l, secrets) == \E i \in DOMAIN l.keys : \E s \in secrets : Lower(s) = Lower(l.keys[i])

\* Those of the list that are written without capitals.
Findable(secrets) == {s \in secrets : Lower(s) = s}

\* --fields keeps exactly the values below a selected key.
ProjectsExactly(t, fields) ==
  Container(t) =>
    Leaves[Project(t, fields)] \ {[keys |-> <<>>, is |-> Tree(t.kind, 0, <<>>)]}
      = {l \in Leaves[t] : Under(l, fields)}

\* No value of an answer in JSON that is below a key of the list, however the answer writes it,
\* is in the payload, neither in the text nor in the structured content, in a success or an
\* error; every other value of the answer that --fields keeps is still what it was; and the
\* metric counts no fewer values than are masked.  This is of the names that the list writes
\* without capitals; the others, and XML, are TrySession's (AnyCaseMasked, AnyFormatMasked).
SecretsMasked(answer, fields, secrets, payload) ==
  answer.json # NONE =>
    LET shaped == Shaped(answer, fields, secrets).json
        kept   == IF fields # {} /\ answer.status \in 200..399 THEN Project(answer.json, fields)
                  ELSE answer.json
    IN /\ \A tree \in {payload.text, payload.structured} \ {NONE} : \A l \in Leaves[tree] :
            Secret(l, Findable(secrets)) => l.is \in {Stars, Null}
       /\ {l \in Leaves[shaped] : ~Secret(l, Findable(secrets))}
            = {l \in Leaves[kept] : ~Secret(l, Findable(secrets))}
       /\ Cardinality({l \in Leaves[shaped] : l.is = Stars}) <= CountTargets(kept, secrets)

\* A text that was cut fits, and says what it is without: every key of the object is there,
\* or is named as omitted, and not both; what is cut inside a value, or of an array, is a
\* beginning of it with the rest noted.
IsBeginning(c, t) ==
  \/ c = t
  \/ Container(t) /\ c.kind = t.kind /\ \E n \in 1..(Len(t.items) - 1) : c = FirstOf(t, n)
TruncationAccounts(t) == \A c \in {Truncated(t)} \ {NONE} :
  /\ Length[c] <= Limit
  /\ t.kind = "object" =>
       \A i \in DOMAIN t.items :
         LET here == {j \in DOMAIN c.items : c.items[j].key = t.items[i].key} IN
         /\ (here = {}) <=> (t.items[i].key \in ValuesOf(c.left))
         /\ \A j \in here : IsBeginning(c.items[j].value, t.items[i].value)
  /\ t.kind # "object" => IsBeginning(c, t)

\* What is given as structured content.  With a success whose body _payload_for gets to look at
\* as data, a tool that promises JSON gives the API's JSON, whole even when the text is cut, or
\* the call is an error; a success without a body, with a binary one or with a page never gets
\* there, and breaks the promise in silence: that is TrySession.EverySuccessStructured's.  A
\* tool without a promise never gives any, and neither does an error, whose structured content
\* tells to try again only when the API did not blame the request.
PromiseKept(promised, answer, payload) ==
  /\ ~payload.isError /\ ~promised => payload.structured = NONE
  /\ ~payload.isError /\ promised /\ payload.reads \notin {"empty", "binary", "page"}
       => payload.structured # NONE /\ payload.structured.left = <<>>
  /\ payload.isError /\ payload.structured # NONE =>
       /\ ~Container(payload.structured) /\ payload.structured.kind = payload.reads
       /\ payload.reads = "retryable" => answer.status \notin (400..499) \ {429}
  /\ payload.isError /\ answer.status \in 200..399
       => promised /\ payload.reads = "not JSON" /\ answer.json = NONE /\ answer.status # 204
  /\ payload.reads = "empty" => answer.json = NONE
=============================================================================
